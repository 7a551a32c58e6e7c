-------------------------------- MODULE DoRedis --------------------------------
(***************************************************************************)
(* The redis client of apptpl2/doredis.c: callbacks of hiredis and timers  *)
(* of libevent, all run one after the other by the event loop of the main  *)
(* thread, keep one connection and one BRPOP after the other going.        *)
(*                                                                         *)
(* A context of hiredis is a number; connection attempts number them.  The *)
(* server's list gives out messages 1, 2, 3, ...: what a BRPOP has taken   *)
(* is on the wire until the reply's callback runs, and lost if the         *)
(* connection drops first.                                                 *)
(*                                                                         *)
(* hiredis and the server are outside the repository and modelled as       *)
(* doredis.c uses them: a context is freed by redisAsyncFree, after a      *)
(* failed connect and after a disconnect, and then the callbacks of its    *)
(* pending commands get a NULL reply.                                      *)
(***************************************************************************)
EXTENDS Integers, Sequences, FiniteSets

CONSTANTS
    MaxCtx,            \* bound on the connection attempts
    MaxMsg,            \* bound on the messages pushed to the list
    Faults             \* what may go wrong beside a refused connection

ASSUME MaxCtxAssumption == MaxCtx \in Nat \ {0}
ASSUME MaxMsgAssumption == MaxMsg \in Nat

\* attach: redis_connect fails at once; drop: the server closes a connection;
\* error: an error reply.
ASSUME FaultsAssumption == Faults \subseteq {"attach", "drop", "error"}

Ctx == 1 .. MaxCtx
NoCtx == 0

VARIABLES
    main,              \* before redis_connect, in the event loop, past it
    passwd,            \* a password is configured
    redis_ctx,
    attempts,          \* contexts made so far
    state,             \* of each context
    cmds,              \* its commands without a reply, oldest first
    wire,              \* the reply on its way to it
    timers,            \* pending event_base_once
    pushed, popped,    \* messages put in and taken from the server's list
    received,          \* messages that on_redis_pop has seen
    lost,              \* messages that no callback will ever see
    happened,          \* the faults that have happened
    undefined          \* freed memory was used: how

server == <<pushed, popped>>
conn   == <<state, cmds, wire>>
got    == <<received, lost>>
program == <<main, passwd, redis_ctx, attempts>>
vars   == <<program, conn, timers, server, got, happened, undefined>>

Nothing == [kind |-> "nothing"]
Message(n) == [kind |-> "message", n |-> n]

Init ==
    /\ main = "start"
    /\ passwd \in BOOLEAN
    /\ redis_ctx = NoCtx
    /\ attempts = 0
    /\ state = [c \in Ctx |-> "none"]
    /\ cmds = [c \in Ctx |-> <<>>]
    /\ wire = [c \in Ctx |-> Nothing]
    /\ timers = {}
    /\ pushed = 0 /\ popped = 0
    /\ received = <<>> /\ lost = {}
    /\ happened = {}
    /\ undefined = "no"

InLoop == main = "loop" /\ undefined = "no"

\* redisAsyncCommand queues a command.
Command(c, what) == cmds' = [cmds EXCEPT ![c] = Append(@, what)]

OnWire(c) == IF wire[c].kind = "message" THEN {wire[c].n} ELSE {}

\* The context goes, its pending callbacks get NULL, and on_redis_close logs.
Free(c) ==
    /\ state' = [state EXCEPT ![c] = "freed"]
    /\ cmds' = [cmds EXCEPT ![c] = <<>>]
    /\ wire' = [wire EXCEPT ![c] = Nothing]
    /\ lost' = lost \cup OnWire(c)

Happens(fault) == fault \in Faults /\ happened' = happened \cup {fault}

\* redis_connect, where redis_ctx is NULL.
Attempt ==
    \/ /\ attempts < MaxCtx
       /\ attempts' = attempts + 1
       /\ redis_ctx' = attempts'
       /\ state' = [state EXCEPT ![attempts'] = "connecting"]
       /\ UNCHANGED happened
    \/ /\ Happens("attach")
       /\ UNCHANGED <<attempts, redis_ctx, state>>

\* main does not look at what it returns.
RedisConnect ==
    /\ main = "start"
    /\ main' = "loop"
    /\ Attempt
    /\ UNCHANGED <<passwd, cmds, wire, timers, server, got, undefined>>

\* Mutant: the context is freed and redis_ctx keeps it.
OnConnectErrorKept(c) ==
    /\ InLoop /\ state[c] = "connecting" /\ attempts < MaxCtx
    /\ Free(redis_ctx)
    /\ timers' = timers \cup {[run |-> "redis_reconnect", ctx |-> c]}
    /\ UNCHANGED <<program, server, received, happened, undefined>>

\* Mutant: the timer gets redis_ctx, which is NULL by then.
OnConnectErrorNull(c) ==
    /\ InLoop /\ state[c] = "connecting" /\ attempts < MaxCtx
    /\ Free(redis_ctx)
    /\ redis_ctx' = NoCtx
    /\ timers' = timers \cup {[run |-> "redis_reconnect", ctx |-> redis_ctx']}
    /\ UNCHANGED <<main, passwd, attempts, server, received, happened, undefined>>

\* The last attempt that the bound allows is accepted.
OnConnectError(c) ==
    /\ InLoop /\ state[c] = "connecting" /\ attempts < MaxCtx
    /\ Free(redis_ctx)
    /\ redis_ctx' = NoCtx
    /\ timers' = timers \cup {[run |-> "redis_reconnect", ctx |-> c]}
    /\ UNCHANGED <<main, passwd, attempts, server, received, happened, undefined>>

\* AUTH first, or the first BRPOP in 500 microseconds.
OnConnect(c) ==
    /\ InLoop /\ state[c] = "connecting"
    /\ state' = [state EXCEPT ![c] = "ready"]
    /\ IF passwd
       THEN Command(c, "AUTH") /\ UNCHANGED timers
       ELSE /\ timers' = timers \cup {[run |-> "do_redis_pop", ctx |-> c]}
            /\ UNCHANGED cmds
    /\ UNCHANGED <<program, wire, server, got, happened, undefined>>

\* A status starts the BRPOPs, an error stops the client.
OnRedisAuth(c) ==
    /\ InLoop /\ cmds[c] # <<>> /\ Head(cmds[c]) = "AUTH"
    /\ wire[c].kind \in {"status", "error"}
    /\ cmds' = [cmds EXCEPT ![c] =
                   IF wire[c].kind = "status" THEN Append(Tail(@), "BRPOP")
                                              ELSE Tail(@)]
    /\ wire' = [wire EXCEPT ![c] = Nothing]
    /\ UNCHANGED <<program, state, timers, server, got, happened, undefined>>

\* The timer holds the context it was armed with.
DoRedisPop(c) ==
    /\ InLoop
    /\ LET t == [run |-> "do_redis_pop", ctx |-> c]
       IN  t \in timers /\ timers' = timers \ {t}
    /\ IF state[c] = "freed"
       THEN undefined' = "stale timer" /\ UNCHANGED cmds
       ELSE Command(c, "BRPOP") /\ UNCHANGED undefined
    /\ UNCHANGED <<program, state, wire, server, got, happened>>

\* Mutant: an expired BRPOP is not repeated.
OnRedisPopOnce(c) ==
    /\ InLoop /\ cmds[c] # <<>> /\ Head(cmds[c]) = "BRPOP"
    /\ wire[c].kind \in {"nil", "message", "error"}
    /\ received' = IF wire[c].kind = "message" THEN Append(received, wire[c].n)
                                               ELSE received
    /\ cmds' = [cmds EXCEPT ![c] =
                   IF wire[c].kind = "message" THEN Append(Tail(@), "BRPOP")
                                               ELSE Tail(@)]
    /\ wire' = [wire EXCEPT ![c] = Nothing]
    /\ UNCHANGED <<program, state, timers, server, lost, happened, undefined>>

\* Mutant: the reply is seen once more.
OnRedisPopTwice(c) ==
    /\ InLoop /\ cmds[c] # <<>> /\ Head(cmds[c]) = "BRPOP"
    /\ wire[c].kind = "message" /\ Len(received) < MaxMsg
    /\ received' = Append(received, wire[c].n)
    /\ UNCHANGED <<program, conn, timers, server, lost, happened, undefined>>

\* A message or an expiry is followed by the next BRPOP, an error by nothing.
OnRedisPop(c) ==
    /\ InLoop /\ cmds[c] # <<>> /\ Head(cmds[c]) = "BRPOP"
    /\ wire[c].kind \in {"nil", "message", "error"}
    /\ received' = IF wire[c].kind = "message" THEN Append(received, wire[c].n)
                                               ELSE received
    /\ cmds' = [cmds EXCEPT ![c] =
                   IF wire[c].kind = "error" THEN Tail(@)
                                             ELSE Append(Tail(@), "BRPOP")]
    /\ wire' = [wire EXCEPT ![c] = Nothing]
    /\ UNCHANGED <<program, state, timers, server, lost, happened, undefined>>

\* Mutant: the retry finds a context set although there is none.
RedisReconnectDeaf(c) ==
    /\ InLoop
    /\ LET t == [run |-> "redis_reconnect", ctx |-> c]
       IN  t \in timers /\ timers' = timers \ {t}
    /\ UNCHANGED <<program, conn, server, got, happened, undefined>>

\* Five seconds after a failed connect.  redis_connect refuses while redis_ctx
\* is set.
RedisReconnect(c) ==
    /\ InLoop
    /\ LET t == [run |-> "redis_reconnect", ctx |-> c]
       IN  t \in timers /\ timers' = timers \ {t}
    /\ IF redis_ctx = NoCtx THEN Attempt
       ELSE UNCHANGED <<attempts, redis_ctx, state, happened>>
    /\ UNCHANGED <<main, passwd, cmds, wire, server, got, undefined>>

\* Out of the loop: redisAsyncDisconnect frees a context that has no pending
\* command itself, and redisAsyncFree frees it once more.
RedisClose ==
    /\ InLoop
    /\ main' = "end"
    /\ redis_ctx' = NoCtx
    /\ IF redis_ctx = NoCtx
       THEN UNCHANGED <<conn, lost, undefined>>
       ELSE /\ Free(redis_ctx)
            /\ undefined' = IF state[redis_ctx] = "freed" THEN "stale close"
                            ELSE IF cmds[redis_ctx] = <<>> THEN "freed twice"
                            ELSE "no"
    /\ UNCHANGED <<passwd, attempts, timers, server, received, happened>>
-----------------------------------------------------------------------------
(***************************************************************************)
(* The server and the network.                                             *)
(***************************************************************************)

Push ==
    /\ pushed < MaxMsg
    /\ pushed' = pushed + 1
    /\ UNCHANGED <<program, conn, timers, popped, got, happened, undefined>>

Asked(c, what) ==
    state[c] = "ready" /\ wire[c] = Nothing /\ cmds[c] # <<>> /\ Head(cmds[c]) = what

Reply(c, r) ==
    /\ wire' = [wire EXCEPT ![c] = r]
    /\ UNCHANGED <<program, state, cmds, timers, pushed, got, undefined>>

ReplyAuth(c) == Asked(c, "AUTH") /\ Reply(c, [kind |-> "status"]) /\ UNCHANGED <<popped, happened>>

ReplyMessage(c) ==
    /\ Asked(c, "BRPOP") /\ popped < pushed
    /\ popped' = popped + 1
    /\ Reply(c, Message(popped')) /\ UNCHANGED happened

\* The list is empty and the 10 seconds are over.
ReplyNil(c) ==
    /\ Asked(c, "BRPOP") /\ popped = pushed
    /\ Reply(c, [kind |-> "nil"]) /\ UNCHANGED <<popped, happened>>

ReplyError(c) ==
    /\ Happens("error")
    /\ Asked(c, "AUTH") \/ Asked(c, "BRPOP")
    /\ Reply(c, [kind |-> "error"]) /\ UNCHANGED popped

\* hiredis sees the connection closed: on_redis_pop or on_redis_auth with NULL,
\* on_redis_close, and the context is gone.  redis_ctx is left as it is.
Drop(c) ==
    /\ InLoop
    /\ Happens("drop")
    /\ state[c] = "ready"
    /\ Free(c)
    /\ UNCHANGED <<program, timers, server, received, undefined>>

Server(c) == ReplyAuth(c) \/ ReplyMessage(c) \/ ReplyNil(c)

Callback(c) ==
    \/ OnConnect(c) \/ OnRedisAuth(c) \/ OnRedisPop(c)
    \/ DoRedisPop(c) \/ RedisReconnect(c)

Next ==
    \/ RedisConnect \/ RedisClose \/ Push
    \/ \E c \in Ctx :
        Callback(c) \/ OnConnectError(c) \/ Server(c) \/ ReplyError(c) \/ Drop(c)

Spec == Init /\ [][Next]_vars

\* The loop runs what is due, and the server answers.  Nobody has to push a
\* message, and nothing has to go wrong or to end.
Fairness ==
    /\ WF_vars(RedisConnect)
    /\ \A c \in Ctx : WF_vars(Callback(c)) /\ WF_vars(Server(c))

FairSpec == Spec /\ Fairness
-----------------------------------------------------------------------------
(***************************************************************************)
(* Properties.                                                             *)
(***************************************************************************)

Replies == {Nothing} \cup {Message(n) : n \in 1 .. MaxMsg}
              \cup {[kind |-> k] : k \in {"status", "nil", "error"}}

\* The statics of doredis.c, the contexts and the timers have their types.
TypeOK ==
    /\ main \in {"start", "loop", "end"}
    /\ passwd \in BOOLEAN
    /\ redis_ctx \in {NoCtx} \cup Ctx
    /\ attempts \in 0 .. MaxCtx
    /\ state \in [Ctx -> {"none", "connecting", "ready", "freed"}]
    /\ cmds \in [Ctx -> Seq({"AUTH", "BRPOP"})]
    /\ wire \in [Ctx -> Replies]
    /\ timers \subseteq [run : {"do_redis_pop", "redis_reconnect"}, ctx : Ctx]
    /\ pushed \in 0 .. MaxMsg
    /\ popped \in 0 .. pushed
    /\ received \in Seq(1 .. MaxMsg)
    /\ lost \subseteq 1 .. MaxMsg
    /\ happened \subseteq Faults
    /\ undefined \in {"no", "stale timer", "stale close", "freed twice"}

Pending(what) == {t \in timers : t.run = what}

\* As long as nothing but refused connections happens, the client has one live
\* context or one reconnect timer, never both and never neither: attempts
\* neither pile up nor run dry.
OneConnectionOrRetry ==
    InLoop /\ happened = {} =>
        IF redis_ctx = NoCtx
        THEN Cardinality(Pending("redis_reconnect")) = 1
        ELSE state[redis_ctx] # "freed" /\ Pending("redis_reconnect") = {}

\* On the live context of a client that has had no error reply there is always
\* exactly one thing that leads to the next message: the AUTH, the timer of the
\* first BRPOP, or a BRPOP.
OneRequestAtATime ==
    \A c \in Ctx :
        InLoop /\ state[c] = "ready" /\ "error" \notin happened =>
            Len(cmds[c]) + Cardinality({t \in Pending("do_redis_pop") : t.ctx = c}) = 1

\* The chain of callbacks has one link at a time: one attempt or one request.
OneLinkAtATime == TypeOK /\ OneConnectionOrRetry /\ OneRequestAtATime

\* Whatever goes wrong, each message taken from the list is received once, is
\* on the wire or is lost with its connection, and messages are received in the
\* order of the list.
EachMessageOnce ==
    LET heard == {received[k] : k \in 1 .. Len(received)}
        underway == UNION {OnWire(c) : c \in Ctx}
    IN  /\ heard \cup lost \cup underway = 1 .. popped
        /\ Cardinality(heard) + Cardinality(lost) + Cardinality(underway) = popped
        /\ \A k \in 1 .. Len(received) - 1 : received[k] < received[k + 1]

\* What is pushed is received, through any number of refused connections, with
\* and without a password: until the program ends or something worse happens.
PushedIsReceived ==
    (main = "loop" /\ Len(received) < pushed)
        ~> (Len(received) = pushed \/ main = "end" \/ happened # {})

\* A client whose connection was refused gets one that is accepted in the end,
\* unless an attempt of its own fails at once.
RefusedClientRetries ==
    Pending("redis_reconnect") # {}
        ~> (\/ \E c \in Ctx : c = redis_ctx /\ state[c] = "ready"
            \/ main = "end" \/ undefined # "no" \/ "attach" \in happened)

\* The chain of callbacks goes on: from a refusal to the next attempt, from a
\* message to the next request.
ChainGoesOn == PushedIsReceived /\ RefusedClientRetries
=============================================================================
