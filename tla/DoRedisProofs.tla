---------------------------- MODULE DoRedisProofs ----------------------------
(***************************************************************************)
(* Proofs about the redis client of DoRedis for any number of connection   *)
(* attempts, any number of messages and any set of faults.                 *)
(*                                                                         *)
(* The chain of callbacks has one link because at most one context is live *)
(* and it is the one redis_ctx names (OneLive): then an attempt or a retry *)
(* is pending, never both, and on the live context one request.  A message *)
(* is accounted for because only the live context has a reply on its way,  *)
(* and what it carries is newer than all that was received.                *)
(***************************************************************************)
EXTENDS DoRedis, FiniteSetTheorems, SequenceTheorems, TLAPS

PopTimer(c)   == [run |-> "do_redis_pop", ctx |-> c]
RetryTimer(c) == [run |-> "redis_reconnect", ctx |-> c]

\* Contexts are numbered by the attempts.
Numbered(c) == (state[c] = "none") <=> (c > attempts)

\* Only the context that redis_ctx names is live.
Named(c) == state[c] \in {"connecting", "ready"} => c = redis_ctx

\* One that is not connected has no command and no reply.
Silent(c) == state[c] # "ready" => cmds[c] = <<>> /\ wire[c] = Nothing

\* Before it connects a context has no timer.
Untimed(c) == state[c] \in {"none", "connecting"} => PopTimer(c) \notin timers

Standing(c) == Numbered(c) /\ Named(c) /\ Silent(c) /\ Untimed(c)

OneLive ==
    /\ main = "start" => attempts = 0 /\ redis_ctx = NoCtx /\ timers = {}
    /\ redis_ctx <= attempts
    /\ \A c \in Ctx : Standing(c)

\* An attempt in progress or one retry: OneConnectionOrRetry without counting.
OneTry ==
    InLoop /\ happened = {} =>
        IF redis_ctx = NoCtx
        THEN \E c \in Ctx : Pending("redis_reconnect") = {RetryTimer(c)}
        ELSE state[redis_ctx] # "freed" /\ Pending("redis_reconnect") = {}

\* One request on a connected context: OneRequestAtATime without counting.
Request(c) ==
    InLoop /\ state[c] = "ready" /\ "error" \notin happened =>
        \/ Len(cmds[c]) = 1 /\ PopTimer(c) \notin timers
        \/ cmds[c] = <<>> /\ PopTimer(c) \in timers

OneRequest ==
    /\ \A c \in Ctx : wire[c].kind = "error" => "error" \in happened
    /\ \A c \in Ctx : Request(c)

Heard == {received[k] : k \in 1 .. Len(received)}
Underway == UNION {OnWire(c) : c \in Ctx}

\* Each message taken is in one place, and the one on the wire is the newest.
Accounted ==
    /\ Heard \cup lost \cup Underway = 1 .. popped
    /\ Heard \cap lost = {} /\ Heard \cap Underway = {} /\ lost \cap Underway = {}
    /\ \A k \in 1 .. Len(received) - 1 : received[k] < received[k + 1]
    /\ \A m \in Underway : \A h \in Heard : h < m

\* The inductive invariant.
IInv == TypeOK /\ OneLive /\ OneTry /\ OneRequest /\ Accounted
-----------------------------------------------------------------------------
(***************************************************************************)
(* Types.  TypeOK in parts, so that a step is looked at one part at a time.*)
(***************************************************************************)

TypeNumbers ==
    /\ redis_ctx \in {NoCtx} \cup Ctx
    /\ attempts \in 0 .. MaxCtx
    /\ pushed \in 0 .. MaxMsg
    /\ popped \in 0 .. pushed
TypeFlags ==
    /\ main \in {"start", "loop", "end"}
    /\ passwd \in BOOLEAN
    /\ happened \subseteq Faults
    /\ undefined \in {"no", "stale timer", "stale close", "freed twice"}
TypeState  == state \in [Ctx -> {"none", "connecting", "ready", "freed"}]
TypeCmds   == cmds \in [Ctx -> Seq({"AUTH", "BRPOP"})]
TypeWire   == wire \in [Ctx -> Replies]
TypeTimers == timers \subseteq [run : {"do_redis_pop", "redis_reconnect"}, ctx : Ctx]
TypeGot    == received \in Seq(1 .. MaxMsg) /\ lost \subseteq 1 .. MaxMsg

TypeParts ==
    /\ TypeNumbers /\ TypeFlags /\ TypeState /\ TypeCmds /\ TypeWire
    /\ TypeTimers /\ TypeGot

\* The type invariant, in parts.
LEMMA PartsAreTypeOK == TypeOK <=> TypeParts
  BY DEF TypeOK, TypeParts, TypeNumbers, TypeFlags, TypeState, TypeCmds, TypeWire,
         TypeTimers, TypeGot

\* What a reply is, by its kind.
LEMMA ReplyKinds ==
    /\ Nothing \in Replies /\ Nothing.kind = "nothing"
    /\ \A k \in {"status", "nil", "error"} :
          [kind |-> k] \in Replies /\ [kind |-> k].kind = k
    /\ \A n \in 1 .. MaxMsg :
          Message(n) \in Replies /\ Message(n).kind = "message" /\ Message(n).n = n
    /\ \A r \in Replies : r.kind = "message" => r.n \in 1 .. MaxMsg /\ r = Message(r.n)
    /\ \A r \in Replies : r.kind = "nothing" => r = Nothing
<1>1. \A n \in 1 .. MaxMsg :
         Message(n) \in Replies /\ Message(n).kind = "message" /\ Message(n).n = n
  BY DEF Replies, Message
<1>2. /\ Nothing \in Replies /\ Nothing.kind = "nothing"
      /\ \A k \in {"status", "nil", "error"} :
            [kind |-> k] \in Replies /\ [kind |-> k].kind = k
  BY DEF Replies, Nothing
<1>3. ASSUME NEW r \in Replies
      PROVE  /\ r.kind = "message" => r.n \in 1 .. MaxMsg /\ r = Message(r.n)
             /\ r.kind = "nothing" => r = Nothing
  BY DEF Replies, Message, Nothing
<1>4. QED
  BY <1>1, <1>2, <1>3

\* What the callbacks make of the commands of a context are commands.
LEMMA CommandSeqs ==
    LET Cmds == Seq({"AUTH", "BRPOP"})
    IN  /\ <<>> \in Cmds
        /\ \A s \in Cmds : Append(s, "AUTH") \in Cmds /\ Append(s, "BRPOP") \in Cmds
        /\ \A s \in Cmds : s # <<>> => Tail(s) \in Cmds
  OBVIOUS

\* Messages on the wire are messages.
LEMMA OnWireType ==
    ASSUME TypeWire, NEW c \in Ctx
    PROVE  OnWire(c) \subseteq 1 .. MaxMsg
  BY ReplyKinds DEF TypeWire, OnWire

\* The timers are told apart by what they run.
LEMMA TimersDiffer ==
    \A c, d \in Ctx : /\ PopTimer(c) # RetryTimer(d)
                      /\ (PopTimer(c) = PopTimer(d)) <=> (c = d)
                      /\ (RetryTimer(c) = RetryTimer(d)) <=> (c = d)
                      /\ PopTimer(c).run = "do_redis_pop" /\ PopTimer(c).ctx = c
                      /\ RetryTimer(c).run = "redis_reconnect"
  BY DEF PopTimer, RetryTimer

\* Every step keeps the types; a failed connect frees the context it is about,
\* because that is the one redis_ctx names.
LEMMA TypeStep == TypeParts /\ OneLive /\ [Next]_vars => TypeParts'
<1> SUFFICES ASSUME TypeParts, OneLive, [Next]_vars PROVE TypeParts'
  OBVIOUS
<1> USE DEF TypeParts
<1>1. CASE RedisConnect
  <2>1. TypeNumbers'
    BY <1>1, MaxCtxAssumption, MaxMsgAssumption
       DEF RedisConnect, Attempt, program, server, Ctx, NoCtx, TypeNumbers
  <2>2. TypeFlags'
    BY <1>1 DEF RedisConnect, Attempt, program, Happens, TypeFlags
  <2>3. TypeState'
    BY <1>1, MaxCtxAssumption DEF RedisConnect, Attempt, Ctx, TypeState
  <2>4. TypeCmds' /\ TypeWire' /\ TypeTimers' /\ TypeGot'
    BY <1>1
       DEF RedisConnect, Attempt, program, conn, server, got, TypeCmds, TypeWire, TypeTimers,
           TypeGot
  <2>5. QED
    BY <2>1, <2>2, <2>3, <2>4
<1>2. CASE RedisClose
  <2>1. TypeNumbers'
    BY <1>2, MaxCtxAssumption DEF RedisClose, server, TypeNumbers
  <2>2. TypeFlags'
    BY <1>2 DEF RedisClose, TypeFlags
  <2>3. TypeState'
    BY <1>2 DEF RedisClose, Free, conn, TypeState
  <2>4. TypeCmds'
    BY <1>2, CommandSeqs DEF RedisClose, Free, conn, TypeCmds
  <2>5. TypeWire'
    BY <1>2, ReplyKinds DEF RedisClose, Free, conn, TypeWire
  <2>6. TypeGot'
    BY <1>2, OnWireType, TypeNumbers DEF RedisClose, Free, conn, TypeNumbers, TypeGot
  <2>7. TypeTimers'
    BY <1>2 DEF RedisClose, program, conn, server, got, TypeTimers
  <2>8. QED
    BY <2>1, <2>2, <2>3, <2>4, <2>5, <2>6, <2>7
<1>3. CASE Push
  <2>1. TypeNumbers'
    BY <1>3, MaxMsgAssumption DEF Push, program, TypeNumbers
  <2>2. TypeFlags' /\ TypeState' /\ TypeCmds' /\ TypeWire' /\ TypeTimers' /\ TypeGot'
    BY <1>3
       DEF Push, program, conn, server, got, TypeFlags, TypeState, TypeCmds, TypeWire,
           TypeTimers, TypeGot
  <2>3. QED
    BY <2>1, <2>2
<1>4. ASSUME NEW c \in Ctx, OnConnect(c)
      PROVE  TypeParts'
  <2>1. TypeState'
    BY <1>4 DEF OnConnect, TypeState
  <2>2. TypeCmds'
    BY <1>4, CommandSeqs DEF OnConnect, Command, TypeCmds
  <2>3. TypeTimers'
    BY <1>4 DEF OnConnect, TypeTimers
  <2>4. TypeNumbers' /\ TypeFlags' /\ TypeWire' /\ TypeGot'
    BY <1>4 DEF OnConnect, program, conn, server, got, TypeNumbers, TypeFlags, TypeWire, TypeGot
  <2>5. QED
    BY <2>1, <2>2, <2>3, <2>4
<1>5. ASSUME NEW c \in Ctx, OnRedisAuth(c)
      PROVE  TypeParts'
  <2>1. TypeCmds'
    BY <1>5 DEF OnRedisAuth, TypeCmds
  <2>2. TypeWire'
    BY <1>5, ReplyKinds DEF OnRedisAuth, TypeWire
  <2>3. TypeNumbers' /\ TypeFlags' /\ TypeState' /\ TypeTimers' /\ TypeGot'
    BY <1>5
       DEF OnRedisAuth, program, conn, server, got, TypeNumbers, TypeFlags, TypeState,
           TypeTimers, TypeGot
  <2>4. QED
    BY <2>1, <2>2, <2>3
<1>6. ASSUME NEW c \in Ctx, OnRedisPop(c)
      PROVE  TypeParts'
  <2>1. TypeCmds'
    BY <1>6 DEF OnRedisPop, TypeCmds
  <2>2. TypeWire'
    BY <1>6, ReplyKinds DEF OnRedisPop, TypeWire
  <2>3. TypeGot'
    BY <1>6, OnWireType, AppendProperties DEF OnRedisPop, OnWire, TypeGot
  <2>4. TypeNumbers' /\ TypeFlags' /\ TypeState' /\ TypeTimers'
    BY <1>6
       DEF OnRedisPop, program, conn, server, got, TypeNumbers, TypeFlags, TypeState, TypeTimers
  <2>5. QED
    BY <2>1, <2>2, <2>3, <2>4
<1>7. ASSUME NEW c \in Ctx, DoRedisPop(c)
      PROVE  TypeParts'
  <2>1. TypeFlags'
    BY <1>7 DEF DoRedisPop, program, TypeFlags
  <2>2. TypeCmds'
    BY <1>7, CommandSeqs DEF DoRedisPop, Command, TypeCmds
  <2>3. TypeTimers'
    BY <1>7 DEF DoRedisPop, TypeTimers
  <2>4. TypeNumbers' /\ TypeState' /\ TypeWire' /\ TypeGot'
    BY <1>7
       DEF DoRedisPop, program, conn, server, got, TypeNumbers, TypeState, TypeWire, TypeGot
  <2>5. QED
    BY <2>1, <2>2, <2>3, <2>4
<1>8. ASSUME NEW c \in Ctx, RedisReconnect(c)
      PROVE  TypeParts'
  <2>1. TypeNumbers'
    BY <1>8, MaxCtxAssumption, MaxMsgAssumption
       DEF RedisReconnect, Attempt, server, Ctx, NoCtx, TypeNumbers
  <2>2. TypeFlags'
    BY <1>8 DEF RedisReconnect, Attempt, Happens, TypeFlags
  <2>3. TypeState'
    BY <1>8, MaxCtxAssumption DEF RedisReconnect, Attempt, Ctx, TypeState
  <2>4. TypeTimers'
    BY <1>8 DEF RedisReconnect, Attempt, TypeTimers
  <2>5. TypeCmds' /\ TypeWire' /\ TypeGot'
    BY <1>8 DEF RedisReconnect, Attempt, program, conn, server, got, TypeCmds, TypeWire, TypeGot
  <2>6. QED
    BY <2>1, <2>2, <2>3, <2>4, <2>5
<1>9. ASSUME NEW c \in Ctx, OnConnectError(c)
      PROVE  TypeParts'
  <2>1. TypeNumbers'
    BY <1>9, MaxCtxAssumption DEF OnConnectError, server, TypeNumbers
  <2>2. TypeState'
    BY <1>9 DEF OnConnectError, Free, TypeState
  <2>3. TypeCmds'
    BY <1>9, CommandSeqs DEF OnConnectError, Free, TypeCmds
  <2>4. TypeWire'
    BY <1>9, ReplyKinds DEF OnConnectError, Free, TypeWire
  <2>5. TypeTimers'
    BY <1>9 DEF OnConnectError, TypeTimers
  <2>6. TypeGot'
    BY <1>9, OnWireType, OneLive DEF OnConnectError, OneLive, Standing, Named, Free, TypeGot
  <2>7. TypeFlags'
    BY <1>9 DEF OnConnectError, program, conn, server, got, TypeFlags
  <2>8. QED
    BY <2>1, <2>2, <2>3, <2>4, <2>5, <2>6, <2>7
<1>10. ASSUME NEW c \in Ctx, Server(c)
       PROVE  TypeParts'
  <2>1. TypeNumbers'
    BY <1>10, MaxMsgAssumption
       DEF Server, ReplyAuth, ReplyMessage, ReplyNil, Reply, program, TypeNumbers
  <2>2. TypeFlags'
    BY <1>10 DEF Server, ReplyAuth, ReplyMessage, ReplyNil, Reply, program, TypeFlags
  <2>3. TypeWire'
    BY <1>10, TypeNumbers, MaxMsgAssumption, ReplyKinds
       DEF Server, ReplyAuth, ReplyMessage, ReplyNil, Reply, TypeNumbers, TypeWire
  <2>4. TypeState' /\ TypeCmds' /\ TypeTimers' /\ TypeGot'
    BY <1>10
       DEF Server, ReplyAuth, ReplyMessage, ReplyNil, Reply, program, conn, server, got,
           TypeState, TypeCmds, TypeTimers, TypeGot
  <2>5. QED
    BY <2>1, <2>2, <2>3, <2>4
<1>11. ASSUME NEW c \in Ctx, ReplyError(c)
       PROVE  TypeParts'
  <2>1. TypeFlags'
    BY <1>11 DEF ReplyError, Reply, program, Happens, TypeFlags
  <2>2. TypeWire'
    BY <1>11, ReplyKinds DEF ReplyError, Reply, TypeWire
  <2>3. TypeNumbers' /\ TypeState' /\ TypeCmds' /\ TypeTimers' /\ TypeGot'
    BY <1>11
       DEF ReplyError, Reply, program, conn, server, got, TypeNumbers, TypeState, TypeCmds,
           TypeTimers, TypeGot
  <2>4. QED
    BY <2>1, <2>2, <2>3
<1>12. ASSUME NEW c \in Ctx, Drop(c)
       PROVE  TypeParts'
  <2>1. TypeFlags'
    BY <1>12 DEF Drop, program, Happens, TypeFlags
  <2>2. TypeState'
    BY <1>12 DEF Drop, Free, TypeState
  <2>3. TypeCmds'
    BY <1>12, CommandSeqs DEF Drop, Free, TypeCmds
  <2>4. TypeWire'
    BY <1>12, ReplyKinds DEF Drop, Free, TypeWire
  <2>5. TypeGot'
    BY <1>12, OnWireType DEF Drop, Free, TypeGot
  <2>6. TypeNumbers' /\ TypeTimers'
    BY <1>12 DEF Drop, program, conn, server, got, TypeNumbers, TypeTimers
  <2>7. QED
    BY <2>1, <2>2, <2>3, <2>4, <2>5, <2>6
<1>13. CASE UNCHANGED vars
  BY <1>13
     DEF vars, program, conn, server, got, TypeNumbers, TypeFlags, TypeState, TypeCmds,
         TypeWire, TypeTimers, TypeGot
<1>14. QED
  BY <1>1, <1>2, <1>3, <1>4, <1>5, <1>6, <1>7, <1>8, <1>9, <1>10, <1>11, <1>12, <1>13
     DEF Next, Callback

\* An attempt, made when redis_ctx is NULL, is the one live context.
LEMMA AttemptIsLive ==
    ASSUME TypeParts, OneLive, redis_ctx = NoCtx, Attempt, main' # "start",
           cmds' = cmds, wire' = wire, timers' \subseteq timers
    PROVE  OneLive'
<1> USE MaxCtxAssumption DEF TypeParts, OneLive, Standing, Ctx, NoCtx, TypeNumbers, TypeState
<1>1. CASE UNCHANGED <<attempts, redis_ctx, state>>
  BY <1>1 DEF Numbered, Named, Silent, Untimed
<1>2. CASE attempts < MaxCtx /\ attempts' = attempts + 1 /\ redis_ctx' = attempts'
           /\ state' = [state EXCEPT ![attempts'] = "connecting"]
  <2>1. state[attempts'] = "none"
    BY <1>2 DEF Numbered
  <2>2. ASSUME NEW d \in Ctx
        PROVE  Standing(d)'
    <3>1. d = attempts' \/ state'[d] = state[d]
      BY <1>2
    <3>2. Numbered(d)' /\ Named(d)'
      BY <1>2, <2>1, <3>1 DEF Numbered, Named
    <3>3. Silent(d)' /\ Untimed(d)'
      BY <2>1, <3>1 DEF Silent, Untimed
    <3>4. QED
      BY <3>2, <3>3
  <2>3. QED
    BY <1>2, <2>2
<1>3. QED
  BY <1>1, <1>2 DEF Attempt

\* A step that leaves the contexts where they are, and touches the commands
\* and replies of connected ones only.
LEMMA StaysLive ==
    ASSUME OneLive, UNCHANGED <<main, attempts, redis_ctx, state>>, timers' \subseteq timers,
           \A d \in Ctx : state[d] # "ready" => cmds'[d] = cmds[d] /\ wire'[d] = wire[d]
    PROVE  OneLive'
<1>1. ASSUME NEW d \in Ctx
      PROVE  Standing(d)'
  BY <1>1 DEF OneLive, Standing, Numbered, Named, Silent, Untimed, PopTimer
<1>2. QED
  BY <1>1 DEF OneLive, Ctx

\* redis_ctx keeps naming the one live context.
LEMMA OneLiveStep == TypeParts /\ OneLive /\ [Next]_vars => OneLive'
<1> SUFFICES ASSUME TypeParts, OneLive, [Next]_vars PROVE OneLive'
  OBVIOUS
<1> USE MaxCtxAssumption DEF TypeParts, OneLive, Standing, Ctx, NoCtx
<1>1. CASE RedisConnect
  BY <1>1, AttemptIsLive DEF RedisConnect
<1>2. CASE RedisClose
  <2>1. main' = "end" /\ redis_ctx' = NoCtx /\ attempts' = attempts /\ timers' = timers
    BY <1>2 DEF RedisClose
  <2>2. ASSUME NEW d \in Ctx
        PROVE  state'[d] = (IF d = redis_ctx THEN "freed" ELSE state[d])
               /\ cmds'[d] = (IF d = redis_ctx THEN <<>> ELSE cmds[d])
               /\ wire'[d] = (IF d = redis_ctx THEN Nothing ELSE wire[d])
    <3>1. CASE redis_ctx = NoCtx
      BY <1>2, <3>1 DEF RedisClose, conn
    <3>2. CASE redis_ctx # NoCtx
      <4>1. Free(redis_ctx)
        BY <1>2, <3>2 DEF RedisClose
      <4>2. QED
        BY <4>1 DEF Free, TypeState, TypeCmds, TypeWire
    <3>3. QED
      BY <3>1, <3>2
  <2>3. ASSUME NEW d \in Ctx
        PROVE  Standing(d)'
    <3>1. Numbered(d)'
      BY <2>1, <2>2 DEF Numbered, TypeNumbers
    <3>2. Named(d)' /\ Silent(d)' /\ Untimed(d)'
      BY <2>1, <2>2 DEF Named, Silent, Untimed
    <3>3. QED
      BY <3>1, <3>2
  <2>4. QED
    BY <2>1, <2>3 DEF TypeNumbers
<1>3. CASE Push
  BY <1>3, StaysLive DEF Push, program, conn
<1>4. ASSUME NEW c \in Ctx, OnConnect(c)
      PROVE  OneLive'
  <2>1. (main' = "start" => attempts' = 0 /\ redis_ctx' = NoCtx /\ timers' = {})
           /\ redis_ctx' <= attempts'
    BY <1>4 DEF OnConnect, Command, InLoop, TypeNumbers, program
  <2>2. ASSUME NEW d \in Ctx
        PROVE  Standing(d)'
    <3>1. Numbered(d)'
      BY <1>4 DEF OnConnect, Command, TypeState, TypeNumbers, program, conn, Numbered
    <3>2. Named(d)'
      BY <1>4 DEF OnConnect, Command, TypeState, TypeNumbers, program, conn, Named
    <3>3. Silent(d)'
      BY <1>4 DEF OnConnect, Command, TypeState, TypeCmds, TypeWire, conn, Silent
    <3>4. Untimed(d)'
      BY <1>4, TimersDiffer DEF OnConnect, Command, TypeState, conn, Untimed
    <3>5. QED
      BY <3>1, <3>2, <3>3, <3>4
  <2>3. QED
    BY <2>1, <2>2
<1>5. ASSUME NEW c \in Ctx, OnRedisAuth(c)
      PROVE  OneLive'
  <2>1. state[c] = "ready"
    BY <1>5 DEF OnRedisAuth, Silent
  <2>2. QED
    BY <1>5, <2>1, StaysLive DEF OnRedisAuth, program, TypeCmds, TypeWire
<1>6. ASSUME NEW c \in Ctx, OnRedisPop(c)
      PROVE  OneLive'
  <2>1. state[c] = "ready"
    BY <1>6 DEF OnRedisPop, Silent
  <2>2. QED
    BY <1>6, <2>1, StaysLive DEF OnRedisPop, program, TypeCmds, TypeWire
<1>7. ASSUME NEW c \in Ctx, DoRedisPop(c)
      PROVE  OneLive'
  <2>1. PopTimer(c) \in timers /\ timers' \subseteq timers
    BY <1>7 DEF DoRedisPop, PopTimer
  <2>2. state[c] = "ready" \/ cmds' = cmds
    BY <1>7, <2>1 DEF DoRedisPop, Untimed, TypeState
  <2>3. QED
    BY <1>7, <2>1, <2>2, StaysLive DEF DoRedisPop, Command, program, TypeCmds
<1>8. ASSUME NEW c \in Ctx, RedisReconnect(c)
      PROVE  OneLive'
  <2>1. cmds' = cmds /\ wire' = wire /\ timers' \subseteq timers /\ main' = main /\ main = "loop"
    BY <1>8 DEF RedisReconnect, InLoop
  <2>2. CASE redis_ctx = NoCtx
    BY <1>8, <2>1, <2>2, AttemptIsLive DEF RedisReconnect
  <2>3. CASE redis_ctx # NoCtx
    BY <1>8, <2>1, <2>3 DEF RedisReconnect, Numbered, Named, Silent, Untimed
  <2>4. QED
    BY <2>2, <2>3
<1>9. ASSUME NEW c \in Ctx, OnConnectError(c)
      PROVE  OneLive'
  <2>1. (main' = "start" => attempts' = 0 /\ redis_ctx' = NoCtx /\ timers' = {})
           /\ redis_ctx' <= attempts'
    BY <1>9 DEF OnConnectError, Free, InLoop, TypeNumbers, program
  <2>2. ASSUME NEW d \in Ctx
        PROVE  Standing(d)'
    <3>1. Numbered(d)'
      BY <1>9 DEF OnConnectError, Free, TypeState, TypeNumbers, program, conn, Numbered
    <3>2. Named(d)'
      BY <1>9 DEF OnConnectError, Free, TypeState, TypeNumbers, program, conn, Named
    <3>3. Silent(d)'
      BY <1>9 DEF OnConnectError, Free, TypeState, TypeCmds, TypeWire, conn, Silent
    <3>4. Untimed(d)'
      BY <1>9, TimersDiffer DEF OnConnectError, Free, TypeState, conn, Untimed
    <3>5. QED
      BY <3>1, <3>2, <3>3, <3>4
  <2>3. QED
    BY <2>1, <2>2
<1>10. ASSUME NEW c \in Ctx, Server(c)
      PROVE  OneLive'
  <2>1. state[c] = "ready" /\ cmds' = cmds /\ \A d \in Ctx : d # c => wire'[d] = wire[d]
    BY <1>10 DEF Server, ReplyAuth, ReplyMessage, ReplyNil, Asked, Reply, TypeWire
  <2>2. UNCHANGED <<program, state, timers>>
    BY <1>10 DEF Server, ReplyAuth, ReplyMessage, ReplyNil, Reply
  <2>3. QED
    BY <2>1, <2>2, StaysLive DEF program
<1>11. ASSUME NEW c \in Ctx, ReplyError(c)
      PROVE  OneLive'
  BY <1>11, StaysLive DEF ReplyError, Asked, Reply, program, TypeWire
<1>12. ASSUME NEW c \in Ctx, Drop(c)
      PROVE  OneLive'
  <2>1. (main' = "start" => attempts' = 0 /\ redis_ctx' = NoCtx /\ timers' = {})
           /\ redis_ctx' <= attempts'
    BY <1>12 DEF Drop, Free, InLoop, TypeNumbers, program
  <2>2. ASSUME NEW d \in Ctx
        PROVE  Standing(d)'
    <3>1. Numbered(d)'
      BY <1>12 DEF Drop, Free, TypeState, TypeNumbers, program, conn, Numbered
    <3>2. Named(d)'
      BY <1>12 DEF Drop, Free, TypeState, TypeNumbers, program, conn, Named
    <3>3. Silent(d)'
      BY <1>12 DEF Drop, Free, TypeState, TypeCmds, TypeWire, conn, Silent
    <3>4. Untimed(d)'
      BY <1>12, TimersDiffer DEF Drop, Free, TypeState, conn, Untimed
    <3>5. QED
      BY <3>1, <3>2, <3>3, <3>4
  <2>3. QED
    BY <2>1, <2>2
<1>13. CASE UNCHANGED vars
  BY <1>13, StaysLive DEF vars, program, conn
<1>14. QED
  BY <1>1, <1>2, <1>3, <1>4, <1>5, <1>6, <1>7, <1>8, <1>9, <1>10, <1>11, <1>12, <1>13
     DEF Next, Callback

-----------------------------------------------------------------------------
(***************************************************************************)
(* One link of the chain at a time.                                        *)
(***************************************************************************)

\* The retry timers change with OnConnectError and RedisReconnect only.
LEMMA RetriesPending ==
    ASSUME NEW c \in Ctx
    PROVE  /\ timers' = timers \cup {PopTimer(c)} \/ timers' = timers \ {PopTimer(c)} \/ timers' = timers
                => Pending("redis_reconnect")' = Pending("redis_reconnect")
           /\ timers' = timers \cup {RetryTimer(c)}
                => Pending("redis_reconnect")' = Pending("redis_reconnect") \cup {RetryTimer(c)}
           /\ timers' = timers \ {RetryTimer(c)}
                => Pending("redis_reconnect")' = Pending("redis_reconnect") \ {RetryTimer(c)}
  BY TimersDiffer DEF Pending

\* Only RedisConnect gets the program into the loop, and what has happened
\* stays so.
LEMMA Onward ==
    ASSUME [Next]_vars
    PROVE  (InLoop' => InLoop \/ RedisConnect) /\ happened \subseteq happened'
<1>1. CASE RedisConnect \/ RedisClose \/ Push
  BY <1>1 DEF RedisConnect, RedisClose, Push, Attempt, Happens, InLoop, program
<1>2. ASSUME NEW c \in Ctx, Callback(c)
      PROVE  (InLoop' => InLoop) /\ happened \subseteq happened'
  BY <1>2 DEF Callback, OnConnect, OnRedisAuth, OnRedisPop, DoRedisPop, RedisReconnect,
              Attempt, Happens
<1>3. ASSUME NEW c \in Ctx, OnConnectError(c) \/ Drop(c)
      PROVE  (InLoop' => InLoop) /\ happened \subseteq happened'
  BY <1>3 DEF OnConnectError, Drop, Happens
<1>4. ASSUME NEW c \in Ctx, Server(c) \/ ReplyError(c)
      PROVE  (InLoop' => InLoop) /\ happened \subseteq happened'
  BY <1>4 DEF Server, ReplyAuth, ReplyMessage, ReplyNil, ReplyError, Reply, Happens, InLoop,
              program
<1>5. CASE UNCHANGED vars
  BY <1>5 DEF vars, program, InLoop
<1>6. QED
  BY <1>1, <1>2, <1>3, <1>4, <1>5 DEF Next

\* A refused connect turns the attempt into a retry and a retry becomes an
\* attempt again.
LEMMA OneTryStep == TypeParts /\ OneLive /\ OneTry /\ [Next]_vars => OneTry'
<1> SUFFICES ASSUME TypeParts, OneLive, OneTry, [Next]_vars, InLoop', happened' = {}
             PROVE  IF redis_ctx' = NoCtx
                    THEN \E c \in Ctx : Pending("redis_reconnect")' = {RetryTimer(c)}
                    ELSE state'[redis_ctx'] # "freed" /\ Pending("redis_reconnect")' = {}
  BY DEF OneTry
<1>1. happened = {} /\ (InLoop \/ RedisConnect)
  BY Onward
<1>2. CASE RedisConnect
  <2>1. timers' = {} /\ Pending("redis_reconnect")' = {}
    BY <1>2 DEF RedisConnect, OneLive, Pending
  <2>2. redis_ctx' \in Ctx /\ state'[redis_ctx'] = "connecting"
    BY <1>2, MaxCtxAssumption
       DEF RedisConnect, Attempt, Happens, TypeParts, TypeNumbers, TypeState, Ctx
  <2>3. QED
    BY <2>1, <2>2 DEF Ctx, NoCtx
<1>3. CASE InLoop
  <2>1. IF redis_ctx = NoCtx
        THEN \E c \in Ctx : Pending("redis_reconnect") = {RetryTimer(c)}
        ELSE state[redis_ctx] # "freed" /\ Pending("redis_reconnect") = {}
    BY <1>1, <1>3 DEF OneTry
  <2>2. redis_ctx # NoCtx => redis_ctx \in Ctx
    BY DEF TypeParts, TypeNumbers
  <2>3. ASSUME redis_ctx' = redis_ctx, Pending("redis_reconnect")' = Pending("redis_reconnect"),
               \A c \in Ctx : state[c] # "freed" => state'[c] # "freed"
        PROVE  IF redis_ctx' = NoCtx
               THEN \E c \in Ctx : Pending("redis_reconnect")' = {RetryTimer(c)}
               ELSE state'[redis_ctx'] # "freed" /\ Pending("redis_reconnect")' = {}
    BY <2>1, <2>2, <2>3
  <2>4. CASE Push \/ UNCHANGED vars
    BY <2>3, <2>4 DEF Push, vars, program, conn, Pending
  <2>5. ASSUME NEW c \in Ctx, OnConnect(c) \/ OnRedisAuth(c) \/ OnRedisPop(c) \/ DoRedisPop(c)
        PROVE  /\ redis_ctx' = redis_ctx
               /\ Pending("redis_reconnect")' = Pending("redis_reconnect")
               /\ \A d \in Ctx : state[d] # "freed" => state'[d] # "freed"
    <3>1. redis_ctx' = redis_ctx /\ (state' = state \/ state' = [state EXCEPT ![c] = "ready"])
      BY <2>5 DEF OnConnect, OnRedisAuth, OnRedisPop, DoRedisPop, program
    <3>2. timers' = timers \cup {PopTimer(c)} \/ timers' = timers \ {PopTimer(c)} \/ timers' = timers
      BY <2>5 DEF OnConnect, OnRedisAuth, OnRedisPop, DoRedisPop, PopTimer
    <3>3. QED
      BY <3>1, <3>2, RetriesPending DEF TypeParts, TypeState
  <2>6. ASSUME NEW c \in Ctx, RedisReconnect(c)
        PROVE  redis_ctx' \in Ctx /\ state'[redis_ctx'] = "connecting"
               /\ Pending("redis_reconnect")' = {}
    <3>1. RetryTimer(c) \in Pending("redis_reconnect") /\ timers' = timers \ {RetryTimer(c)}
      BY <2>6 DEF RedisReconnect, RetryTimer, Pending
    <3>2. redis_ctx = NoCtx /\ Pending("redis_reconnect")' = {}
      BY <2>1, <3>1, RetriesPending
    <3>3. QED
      BY <2>6, <3>2, MaxCtxAssumption
         DEF RedisReconnect, Attempt, Happens, TypeParts, TypeNumbers, TypeState, Ctx
  <2>7. ASSUME NEW c \in Ctx, OnConnectError(c)
        PROVE  redis_ctx' = NoCtx /\ Pending("redis_reconnect")' = {RetryTimer(c)}
    <3>1. redis_ctx = c
      BY <2>7 DEF OnConnectError, OneLive, Standing, Named
    <3>2. Pending("redis_reconnect") = {} /\ timers' = timers \cup {RetryTimer(c)}
      BY <2>1, <2>7, <3>1 DEF OnConnectError, RetryTimer, Ctx, NoCtx
    <3>3. QED
      BY <2>7, <3>2, RetriesPending DEF OnConnectError
  <2>8. ASSUME NEW c \in Ctx, Server(c)
        PROVE  redis_ctx' = redis_ctx /\ state' = state /\ timers' = timers
    BY <2>8 DEF Server, ReplyAuth, ReplyMessage, ReplyNil, Reply, program
  <2>9. ASSUME NEW c \in Ctx, ReplyError(c) \/ Drop(c)
        PROVE  FALSE
    BY <2>9 DEF ReplyError, Drop, Happens
  <2>10. ASSUME RedisClose
         PROVE  FALSE
    BY <2>10 DEF RedisClose, InLoop
  <2>11. CASE \E c \in Ctx : Callback(c)
    BY <2>3, <2>5, <2>6, <2>11 DEF Callback, Ctx, NoCtx
  <2>12. CASE \E c \in Ctx : Server(c)
    BY <2>3, <2>8, <2>12 DEF Pending
  <2>13. CASE RedisConnect
    BY <1>2, <2>13
  <2>14. QED
    BY <2>4, <2>7, <2>9, <2>10, <2>11, <2>12, <2>13 DEF Next
<1>4. QED
  BY <1>1, <1>2, <1>3

\* A connected context is asked once at a time: each callback that answers a
\* command, or fires the timer, is followed by one new command.
LEMMA OneRequestStep ==
    TypeParts /\ OneLive /\ OneRequest /\ [Next]_vars => OneRequest'
<1> SUFFICES ASSUME TypeParts, OneLive, OneRequest, [Next]_vars, NEW d \in Ctx
             PROVE  /\ wire'[d].kind = "error" => "error" \in happened'
                    /\ Request(d)'
  BY DEF OneRequest
<1>1. wire'[d].kind = "error" => "error" \in happened'
  <2>1. CASE \E c \in Ctx : ReplyError(c)
    BY <2>1 DEF ReplyError, Happens
  <2>2. CASE \E c \in Ctx : Server(c)
    <3>1. wire'[d] = wire[d] \/ wire'[d].kind \in {"status", "nil", "message"}
      BY <2>2 DEF Server, ReplyAuth, ReplyMessage, ReplyNil, Reply, Message, TypeParts, TypeWire
    <3>2. QED
      BY <3>1, Onward DEF OneRequest
  <2>3. CASE RedisConnect \/ Push \/ UNCHANGED vars
    BY <2>3, Onward DEF RedisConnect, Push, vars, conn, OneRequest
  <2>4. CASE RedisClose \/ \E c \in Ctx : OnConnectError(c) \/ Drop(c)
    <3>1. wire'[d] = wire[d] \/ wire'[d] = Nothing
      BY <2>4 DEF RedisClose, OnConnectError, Drop, Free, conn, TypeParts, TypeWire
    <3>2. QED
      BY <3>1, Onward, ReplyKinds DEF OneRequest
  <2>5. CASE \E c \in Ctx : Callback(c)
    <3>1. wire'[d] = wire[d] \/ wire'[d] = Nothing
      BY <2>5 DEF Callback, OnConnect, OnRedisAuth, OnRedisPop, DoRedisPop, RedisReconnect, conn,
                  TypeParts, TypeWire
    <3>2. QED
      BY <3>1, Onward, ReplyKinds DEF OneRequest
  <2>6. QED
    BY <2>1, <2>2, <2>3, <2>4, <2>5 DEF Next
<1>2. ASSUME InLoop', state'[d] = "ready", "error" \notin happened'
      PROVE  \/ Len(cmds'[d]) = 1 /\ PopTimer(d) \notin timers'
             \/ cmds'[d] = <<>> /\ PopTimer(d) \in timers'
  <2> DEFINE Goal == \/ Len(cmds'[d]) = 1 /\ PopTimer(d) \notin timers'
                     \/ cmds'[d] = <<>> /\ PopTimer(d) \in timers'
  <2>1. "error" \notin happened /\ (InLoop \/ RedisConnect)
    BY <1>2, Onward
  <2>2. CASE RedisConnect
    <3>1. state[d] = "none"
      BY <2>2, MaxCtxAssumption DEF RedisConnect, OneLive, Standing, Numbered, Ctx
    <3>2. state'[d] = state[d] \/ state'[d] = "connecting"
      BY <2>2 DEF RedisConnect, Attempt, TypeParts, TypeState
    <3>3. QED
      BY <1>2, <3>1, <3>2
  <2>3. ASSUME InLoop, state[d] = "ready", cmds'[d] = cmds[d],
               PopTimer(d) \in timers' <=> PopTimer(d) \in timers
        PROVE  Goal
    BY <2>1, <2>3 DEF OneRequest, Request
  <2>4. ASSUME InLoop, state[d] = "ready", cmds[d] # <<>>
        PROVE  Len(cmds[d]) = 1 /\ PopTimer(d) \notin timers
    BY <2>1, <2>4 DEF OneRequest, Request
  <2>5. ASSUME InLoop, NEW c \in Ctx, OnConnect(c)
        PROVE  Goal
    <3>1. CASE c = d
      <4>1. cmds[d] = <<>> /\ PopTimer(d) \notin timers
        BY <2>5, <3>1 DEF OnConnect, OneLive, Standing, Silent, Untimed
      <4>2. CASE passwd
        BY <2>5, <3>1, <4>1, <4>2 DEF OnConnect, Command, TypeParts, TypeCmds
      <4>3. CASE ~passwd
        BY <2>5, <3>1, <4>1, <4>3 DEF OnConnect, PopTimer
      <4>4. QED
        BY <4>2, <4>3
    <3>2. CASE c # d
      <4>1. state[d] = "ready" /\ cmds'[d] = cmds[d]
        BY <1>2, <2>5, <3>2 DEF OnConnect, Command, TypeParts, TypeState, TypeCmds
      <4>2. timers' = timers \/ timers' = timers \cup {PopTimer(c)}
        BY <2>5 DEF OnConnect, PopTimer
      <4>3. QED
        BY <2>3, <2>5, <3>2, <4>1, <4>2, TimersDiffer
    <3>3. QED
      BY <3>1, <3>2
  <2>6. ASSUME InLoop, NEW c \in Ctx, OnRedisAuth(c) \/ OnRedisPop(c)
        PROVE  Goal
    <3>1. state' = state /\ timers' = timers /\ cmds[c] # <<>>
      BY <2>6 DEF OnRedisAuth, OnRedisPop
    <3>2. c # d => cmds'[d] = cmds[d]
      BY <2>6 DEF OnRedisAuth, OnRedisPop, TypeParts, TypeCmds
    <3>3. cmds'[c] = Append(Tail(cmds[c]), "BRPOP")
      <4>1. wire[c].kind # "error"
        BY <2>1 DEF OneRequest
      <4>2. QED
        BY <2>6, <4>1 DEF OnRedisAuth, OnRedisPop, TypeParts, TypeCmds
    <3>4. CASE c = d
      <4>1. Len(cmds[d]) = 1 /\ PopTimer(d) \notin timers
        BY <1>2, <2>4, <2>6, <3>1, <3>4
      <4>2. Len(cmds'[d]) = 1
        BY <3>3, <3>4, <4>1 DEF TypeParts, TypeCmds
      <4>3. QED
        BY <3>1, <4>1, <4>2
    <3>5. QED
      BY <1>2, <2>3, <2>6, <3>1, <3>2, <3>4
  <2>7. ASSUME InLoop, NEW c \in Ctx, DoRedisPop(c)
        PROVE  Goal
    <3>1. /\ PopTimer(c) \in timers /\ timers' = timers \ {PopTimer(c)}
          /\ state' = state /\ undefined' = "no"
      BY <1>2, <2>7 DEF DoRedisPop, PopTimer, InLoop
    <3>2. Command(c, "BRPOP")
      BY <2>7, <3>1 DEF DoRedisPop
    <3>3. CASE c = d
      <4>1. cmds[d] = <<>>
        BY <1>2, <2>4, <2>7, <3>1, <3>3
      <4>2. QED
        BY <3>1, <3>2, <3>3, <4>1 DEF Command, TypeParts, TypeCmds
    <3>4. CASE c # d
      BY <1>2, <2>3, <2>7, <3>1, <3>2, <3>4, TimersDiffer DEF Command, TypeParts, TypeCmds
    <3>5. QED
      BY <3>3, <3>4
  <2>8. ASSUME InLoop, NEW c \in Ctx, RedisReconnect(c)
        PROVE  Goal
    <3>1. timers' = timers \ {RetryTimer(c)} /\ cmds' = cmds
      BY <2>8 DEF RedisReconnect, RetryTimer
    <3>2. state[d] = "ready"
      BY <1>2, <2>8 DEF RedisReconnect, Attempt, TypeParts, TypeState
    <3>3. QED
      BY <2>3, <2>8, <3>1, <3>2, TimersDiffer
  <2>9. ASSUME InLoop, NEW c \in Ctx, OnConnectError(c)
        PROVE  Goal
    <3>1. timers' = timers \cup {RetryTimer(c)} /\ redis_ctx = c
      BY <2>9 DEF OnConnectError, RetryTimer, OneLive, Standing, Named
    <3>2. state[d] = "ready" /\ cmds'[d] = cmds[d]
      BY <1>2, <2>9, <3>1 DEF OnConnectError, Free, TypeParts, TypeState, TypeCmds
    <3>3. QED
      BY <2>3, <2>9, <3>1, <3>2, TimersDiffer
  <2>10. ASSUME InLoop, NEW c \in Ctx, Drop(c)
         PROVE  Goal
    <3>1. timers' = timers /\ state[d] = "ready" /\ cmds'[d] = cmds[d]
      BY <1>2, <2>10 DEF Drop, Free, TypeParts, TypeState, TypeCmds
    <3>2. QED
      BY <2>3, <2>10, <3>1
  <2>11. ASSUME InLoop, NEW c \in Ctx, Server(c)
         PROVE  Goal
    <3>1. timers' = timers /\ state' = state /\ cmds' = cmds
      BY <2>11 DEF Server, ReplyAuth, ReplyMessage, ReplyNil, Reply
    <3>2. QED
      BY <1>2, <2>3, <2>11, <3>1
  <2>12. ASSUME NEW c \in Ctx, ReplyError(c)
         PROVE  Goal
    BY <1>2, <2>12 DEF ReplyError, Happens
  <2>13. CASE RedisClose
    BY <1>2, <2>13 DEF RedisClose, InLoop
  <2>14. CASE InLoop /\ (Push \/ UNCHANGED vars)
    BY <1>2, <2>3, <2>14 DEF Push, vars, conn
  <2>15. QED
    BY <2>1, <2>2, <2>5, <2>6, <2>7, <2>8, <2>9, <2>10, <2>11, <2>12, <2>13, <2>14
       DEF Next, Callback
<1>3. QED
  BY <1>1, <1>2 DEF Request

-----------------------------------------------------------------------------
(***************************************************************************)
(* Where the messages are.                                                 *)
(***************************************************************************)

\* Only the context that redis_ctx names has a message on its way.
LEMMA OneWire ==
    ASSUME TypeParts, OneLive, NEW c \in Ctx, c = redis_ctx,
           \A d \in Ctx : d # c => wire'[d] = wire[d]
    PROVE  Underway = OnWire(c) /\ Underway' = OnWire(c)'
<1>1. \A d \in Ctx : d # c => wire[d] = Nothing
  BY DEF OneLive, Standing, Named, Silent
<1>2. \A d \in Ctx : d # c => OnWire(d) = {} /\ OnWire(d)' = {}
  BY <1>1, ReplyKinds DEF OnWire
<1>3. QED
  BY <1>2 DEF Underway, Ctx

\* A message received is one more heard.
LEMMA OneMoreHeard ==
    ASSUME TypeGot, NEW n \in 1 .. MaxMsg, received' = Append(received, n)
    PROVE  Heard' = Heard \cup {n}
<1> USE DEF TypeGot
<1>1. /\ Len(received') = Len(received) + 1 /\ Len(received) \in Nat
      /\ \A k \in 1 .. Len(received) : received'[k] = received[k]
      /\ received'[Len(received) + 1] = n
  OBVIOUS
<1>2. 1 .. Len(received') = (1 .. Len(received)) \cup {Len(received) + 1}
  BY <1>1
<1>3. QED
  BY <1>1, <1>2 DEF Heard

\* A step that moves no message.
LEMMA NothingMoves ==
    ASSUME Accounted, UNCHANGED <<popped, received, lost>>,
           \A c \in Ctx : OnWire(c)' = OnWire(c)
    PROVE  Accounted'
<1>1. Heard' = Heard /\ Underway' = Underway
  BY DEF Heard, Underway, Ctx
<1>2. QED
  BY <1>1 DEF Accounted

\* A context that goes takes the message on its wire with it.
LEMMA FreeLoses ==
    ASSUME TypeParts, OneLive, Accounted, NEW c \in Ctx, c = redis_ctx, Free(c),
           UNCHANGED <<popped, received>>
    PROVE  Accounted'
<1>1. wire' = [wire EXCEPT ![c] = Nothing] /\ lost' = lost \cup OnWire(c)
  BY DEF Free
<1>2. OnWire(c)' = {}
  BY <1>1, ReplyKinds DEF OnWire, TypeParts, TypeWire
<1>3. Underway = OnWire(c) /\ Underway' = {}
  BY <1>1, <1>2, OneWire DEF TypeParts, TypeWire
<1>4. Heard' = Heard
  BY DEF Heard
<1>5. QED
  BY <1>1, <1>3, <1>4 DEF Accounted

\* A message goes from the list to the wire and from the wire to on_redis_pop.
LEMMA AccountedStep ==
    TypeParts /\ OneLive /\ Accounted /\ [Next]_vars => Accounted'
<1> SUFFICES ASSUME TypeParts, OneLive, Accounted, [Next]_vars PROVE Accounted'
  OBVIOUS
<1>1. CASE RedisConnect \/ Push \/ UNCHANGED vars
  BY <1>1, NothingMoves DEF RedisConnect, Push, vars, conn, server, got, OnWire
<1>2. CASE RedisClose
  <2>1. CASE redis_ctx = NoCtx
    BY <1>2, <2>1, NothingMoves DEF RedisClose, conn, server, OnWire
  <2>2. CASE redis_ctx # NoCtx
    BY <1>2, <2>2, FreeLoses DEF RedisClose, server, TypeParts, TypeNumbers
  <2>3. QED
    BY <2>1, <2>2
<1>3. ASSUME NEW c \in Ctx, OnConnect(c) \/ DoRedisPop(c) \/ RedisReconnect(c)
      PROVE  Accounted'
  BY <1>3, NothingMoves DEF OnConnect, DoRedisPop, RedisReconnect, server, got, OnWire
<1>4. ASSUME NEW c \in Ctx, OnConnectError(c)
      PROVE  Accounted'
  <2>1. redis_ctx = c
    BY <1>4 DEF OnConnectError, OneLive, Standing, Named
  <2>2. QED
    BY <1>4, <2>1, FreeLoses DEF OnConnectError, server
<1>5. ASSUME NEW c \in Ctx, Drop(c)
      PROVE  Accounted'
  <2>1. redis_ctx = c
    BY <1>5 DEF Drop, OneLive, Standing, Named
  <2>2. QED
    BY <1>5, <2>1, FreeLoses DEF Drop, server
<1>6. ASSUME NEW c \in Ctx, wire[c].kind # "message",
             NEW r \in Replies, r.kind # "message", wire' = [wire EXCEPT ![c] = r],
             UNCHANGED <<popped, received, lost>>
      PROVE  Accounted'
  <2>1. \A d \in Ctx : OnWire(d)' = OnWire(d)
    BY <1>6 DEF OnWire, TypeParts, TypeWire
  <2>2. QED
    BY <1>6, <2>1, NothingMoves
<1>7. ASSUME NEW c \in Ctx, OnRedisAuth(c)
      PROVE  Accounted'
  BY <1>6, <1>7, ReplyKinds DEF OnRedisAuth, server, got
<1>8. ASSUME NEW c \in Ctx, OnRedisPop(c)
      PROVE  Accounted'
  <2>1. CASE wire[c].kind # "message"
    BY <1>6, <1>8, <2>1, ReplyKinds DEF OnRedisPop, server
  <2>2. CASE wire[c].kind = "message"
    <3> DEFINE n == wire[c].n
    <3>1. n \in 1 .. MaxMsg /\ OnWire(c) = {n}
      BY <2>2, ReplyKinds DEF OnWire, TypeParts, TypeWire
    <3>2. redis_ctx = c
      BY <2>2, ReplyKinds DEF OneLive, Standing, Silent, Named
    <3>3. /\ received' = Append(received, n) /\ wire' = [wire EXCEPT ![c] = Nothing]
          /\ UNCHANGED <<popped, lost>>
      BY <1>8, <2>2 DEF OnRedisPop, server
    <3>4. OnWire(c)' = {}
      BY <3>3, ReplyKinds DEF OnWire, TypeParts, TypeWire
    <3>5. Underway = {n} /\ Underway' = {}
      BY <3>1, <3>2, <3>3, <3>4, OneWire DEF TypeParts, TypeWire
    <3>6. Heard' = Heard \cup {n}
      BY <3>1, <3>3, OneMoreHeard DEF TypeParts
    <3>7. ASSUME NEW k \in 1 .. Len(received') - 1
          PROVE  received'[k] < received'[k + 1]
      <4>1. /\ Len(received') = Len(received) + 1 /\ Len(received) \in Nat
            /\ \A i \in 1 .. Len(received) : received'[i] = received[i]
            /\ received'[Len(received) + 1] = n
        BY <3>1, <3>3 DEF TypeParts, TypeGot
      <4>2. CASE k = Len(received)
        <5>1. received[k] \in Heard
          BY <4>1, <4>2 DEF Heard
        <5>2. QED
          BY <3>5, <4>1, <4>2, <5>1 DEF Accounted
      <4>3. CASE k # Len(received)
        BY <4>1, <4>3 DEF Accounted
      <4>4. QED
        BY <4>2, <4>3
    <3>8. QED
      BY <3>3, <3>5, <3>6, <3>7 DEF Accounted
  <2>3. QED
    BY <2>1, <2>2
<1>9. ASSUME NEW c \in Ctx, ReplyAuth(c) \/ ReplyNil(c) \/ ReplyError(c)
      PROVE  Accounted'
  <2>1. wire[c] = Nothing /\ UNCHANGED <<popped, received, lost>>
    BY <1>9 DEF ReplyAuth, ReplyNil, ReplyError, Asked, Reply, got
  <2>2. PICK k \in {"status", "nil", "error"} : wire' = [wire EXCEPT ![c] = [kind |-> k]]
    BY <1>9 DEF ReplyAuth, ReplyNil, ReplyError, Reply
  <2>3. QED
    BY <1>6, <2>1, <2>2, ReplyKinds
<1>10. ASSUME NEW c \in Ctx, ReplyMessage(c)
       PROVE  Accounted'
  <2> DEFINE n == popped + 1
  <2>1. /\ wire[c] = Nothing /\ redis_ctx = c /\ popped < pushed
        /\ popped' = n /\ wire' = [wire EXCEPT ![c] = Message(n)]
        /\ UNCHANGED <<received, lost>>
    BY <1>10 DEF ReplyMessage, Asked, Reply, got, OneLive, Standing, Named
  <2>2. n \in 1 .. MaxMsg /\ popped \in Nat
    BY <2>1, MaxMsgAssumption DEF TypeParts, TypeNumbers
  <2>3. OnWire(c) = {} /\ OnWire(c)' = {n}
    BY <2>1, <2>2, ReplyKinds DEF OnWire, TypeParts, TypeWire
  <2>4. Underway = {} /\ Underway' = {n}
    BY <2>1, <2>3, OneWire DEF TypeParts, TypeWire
  <2>5. Heard' = Heard
    BY <2>1 DEF Heard
  <2>6. 1 .. popped' = (1 .. popped) \cup {n} /\ n \notin 1 .. popped
        /\ \A h \in 1 .. popped : h < n
    BY <2>1, <2>2
  <2>7. QED
    BY <2>1, <2>4, <2>5, <2>6 DEF Accounted
<1>11. QED
  BY <1>1, <1>2, <1>3, <1>4, <1>5, <1>7, <1>8, <1>9, <1>10 DEF Next, Callback, Server
-----------------------------------------------------------------------------
(***************************************************************************)
(* The results.                                                            *)
(***************************************************************************)

\* The first state has the invariant.
LEMMA IInvInit == Init => IInv
<1> SUFFICES ASSUME Init PROVE IInv
  OBVIOUS
<1> USE MaxCtxAssumption, MaxMsgAssumption DEF Init, Ctx, NoCtx
<1>1. TypeParts
  BY ReplyKinds, CommandSeqs
     DEF TypeParts, TypeNumbers, TypeFlags, TypeState, TypeCmds, TypeWire, TypeTimers, TypeGot
<1>2. OneLive
  BY DEF OneLive, Standing, Numbered, Named, Silent, Untimed
<1>3. OneTry /\ OneRequest
  BY ReplyKinds DEF OneTry, OneRequest, Request, InLoop
<1>4. Accounted
  <2>1. Heard = {} /\ Underway = {}
    BY ReplyKinds DEF Heard, Underway, OnWire
  <2>2. QED
    BY <2>1 DEF Accounted
<1>5. QED
  BY <1>1, <1>2, <1>3, <1>4, PartsAreTypeOK DEF IInv

\* Every step keeps it.
LEMMA IInvStep == IInv /\ [Next]_vars => IInv'
<1>1. TypeParts' <=> TypeOK'
  BY DEF TypeOK, TypeParts, TypeNumbers, TypeFlags, TypeState, TypeCmds, TypeWire, TypeTimers,
         TypeGot
<1>2. QED
  BY <1>1, PartsAreTypeOK, TypeStep, OneLiveStep, OneTryStep, OneRequestStep, AccountedStep
     DEF IInv

\* Every state has it.
LEMMA Inductive == Spec => []IInv
  BY IInvInit, IInvStep, PTL DEF Spec

\* One attempt or one retry and one request at a time, for any number of
\* attempts: the callbacks of doredis.c neither pile up nor run dry.
THEOREM OneLink == Spec => []OneLinkAtATime
<1>1. IInv => OneConnectionOrRetry
  BY FS_Singleton, FS_EmptySet DEF IInv, OneTry, OneConnectionOrRetry
<1>2. IInv => OneRequestAtATime
  <2> SUFFICES ASSUME IInv, NEW c \in Ctx, InLoop, state[c] = "ready", "error" \notin happened
               PROVE  Len(cmds[c]) + Cardinality({t \in Pending("do_redis_pop") : t.ctx = c}) = 1
    BY DEF OneRequestAtATime
  <2> DEFINE T == {t \in Pending("do_redis_pop") : t.ctx = c}
  <2>1. \A t \in timers : t = [run |-> t.run, ctx |-> t.ctx]
    BY PartsAreTypeOK DEF IInv, TypeParts, TypeTimers
  <2>2. T = IF PopTimer(c) \in timers THEN {PopTimer(c)} ELSE {}
    BY <2>1 DEF Pending, PopTimer
  <2>3. CASE Len(cmds[c]) = 1 /\ PopTimer(c) \notin timers
    <3>1. T = {}
      BY <2>2, <2>3
    <3>2. Cardinality(T) = 0
      BY <3>1, FS_EmptySet
    <3>3. QED
      BY <2>3, <3>2
  <2>4. CASE cmds[c] = <<>> /\ PopTimer(c) \in timers
    <3>1. T = {PopTimer(c)}
      BY <2>2, <2>4
    <3>2. Cardinality(T) = 1
      BY <3>1, FS_Singleton
    <3>3. Len(cmds[c]) = 0
      BY <2>4
    <3>4. QED
      BY <3>2, <3>3
  <2>5. QED
    BY <2>3, <2>4 DEF IInv, OneRequest, Request
<1>3. IInv => OneLinkAtATime
  BY <1>1, <1>2 DEF IInv, OneLinkAtATime
<1>4. QED
  BY Inductive, <1>3, PTL

\* Whatever fails, and however often, no message is received twice or out of
\* order, and one that is not received is on the wire or lost with its
\* connection.
THEOREM MessagesOnce == Spec => []EachMessageOnce
<1>1. ASSUME IInv
      PROVE  EachMessageOnce
  <2>1. /\ Heard \cup lost \cup Underway = 1 .. popped /\ popped \in Nat
        /\ Heard \cap lost = {} /\ (Heard \cup lost) \cap Underway = {}
    BY <1>1, PartsAreTypeOK, MaxMsgAssumption DEF IInv, Accounted, TypeParts, TypeNumbers
  <2>2. IsFiniteSet(1 .. popped) /\ Cardinality(1 .. popped) = popped
    BY <2>1, FS_Interval
  <2>3. IsFiniteSet(Heard) /\ IsFiniteSet(lost) /\ IsFiniteSet(Underway)
        /\ IsFiniteSet(Heard \cup lost)
    BY <2>1, <2>2, FS_Subset
  <2>4. Cardinality(Heard \cup lost) = Cardinality(Heard) + Cardinality(lost)
    <3>1. Cardinality(Heard \cup lost)
             = Cardinality(Heard) + Cardinality(lost) - Cardinality(Heard \cap lost)
      BY <2>3, FS_Union
    <3>2. Cardinality(Heard \cap lost) = 0
      BY <2>1, FS_EmptySet
    <3>3. Cardinality(Heard) \in Nat /\ Cardinality(lost) \in Nat
      BY <2>3, FS_CardinalityType
    <3>4. QED
      BY <3>1, <3>2, <3>3
  <2>5. Cardinality(1 .. popped) = Cardinality(Heard \cup lost) + Cardinality(Underway)
    <3>1. Cardinality((Heard \cup lost) \cup Underway)
             = Cardinality(Heard \cup lost) + Cardinality(Underway)
               - Cardinality((Heard \cup lost) \cap Underway)
      BY <2>3, FS_Union
    <3>2. Cardinality((Heard \cup lost) \cap Underway) = 0
      BY <2>1, FS_EmptySet
    <3>3. Cardinality(Heard \cup lost) \in Nat /\ Cardinality(Underway) \in Nat
      BY <2>3, FS_CardinalityType
    <3>4. Cardinality(1 .. popped) = Cardinality((Heard \cup lost) \cup Underway)
      BY <2>1, Zenon
    <3>5. QED
      BY <3>1, <3>2, <3>3, <3>4
  <2>6. QED
    BY <1>1, <2>1, <2>2, <2>4, <2>5 DEF IInv, Accounted, EachMessageOnce, Heard, Underway
<1>2. QED
  BY Inductive, <1>1, PTL
=============================================================================
