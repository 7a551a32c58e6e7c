------------------------------ MODULE HttpApi -------------------------------
(***************************************************************************)
(* The management interface of the three programs, from magt_init to the   *)
(* end of main: what is acquired and released on the way, the table of     *)
(* routes, and the requests that the event loop hands to api_handler, one  *)
(* at a time, while clients come and go and signals arrive.                *)
(* Each function is the list of its steps: what it acquires, what it does  *)
(* when that fails, what it sends and what it releases.  An allocation     *)
(* that the code does not check ends the process.  libevent and OpenSSL    *)
(* are outside: an object of theirs is acquired or not.                    *)
(***************************************************************************)
EXTENDS UtHash

CONSTANTS Clients, NoClient,
          Requests(_), \* commands and paths that a client asks for
          MaxAsked     \* bound: how often a client asks

VARIABLES prog,   \* which program it is
          phase,  \* start, loop, end, exited or crashed
          todo,   \* the steps that are left of the function that runs
          held,   \* what is acquired and not released
          routes, \* the table of routes
          conn,   \* the connection of each client
          cur,    \* the client that is served
          signal  \* SIGINT or SIGTERM is pending

vars == <<prog, phase, todo, held, routes, conn, cur, signal>>

-----------------------------------------------------------------------------
(***************************************************************************)
(* Steps.  The list "otherwise" replaces all that follows.                 *)
(***************************************************************************)
Get(x, otherwise) == [op |-> "get", x |-> x, otherwise |-> otherwise]
Check(otherwise)  == [op |-> "check", otherwise |-> otherwise]
Grow(x, otherwise) == [op |-> "grow", x |-> x, otherwise |-> otherwise] \* realloc; x is lost if it fails
Need(x)    == [op |-> "need", x |-> x]  \* not checked
Try(x)     == [op |-> "try", x |-> x]   \* goes on without
Free(x)    == [op |-> "free", x |-> x]
Drop(x)    == [op |-> "drop", x |-> x]  \* if (x) free(x)
Send(code) == [op |-> "send", code |-> code]
Link(p)    == [op |-> "link", x |-> p]  \* HASH_ADD_STR
Unlink(p)  == [op |-> "unlink", x |-> p] \* HASH_ITER at p
Only(otherwise) == [op |-> "only", otherwise |-> otherwise]
Find       == [op |-> "find"]
Loop       == [op |-> "loop"]
Close      == [op |-> "close"]          \* goto err
Join       == [op |-> "join"]           \* pthread_join: need not return
Exit       == [op |-> "exit"]

-----------------------------------------------------------------------------
(***************************************************************************)
(* api_handler, and the handlers of each program.                          *)
(***************************************************************************)
Done     == <<Drop("uri"), Drop("path")>>
NotFound == <<Send(404)>> \o Done

ApiHandler == <<Get("uri", <<Send(400)>>), Get("path", NotFound), Find>>

OnlyGet == <<Only(NotFound)>>
Page    == <<Need("buf"), Send(200), Free("buf")>> \o Done
Failing == <<Send(500)>> \o Done

ApptplStatus ==
    <<Get("root", <<Send(500), Drop("buf")>> \o Done), Need("text"), Need("buf"), Send(200),
      Free("text"), Free("root"), Drop("buf")>> \o Done
ApptplHelp    == <<Need("buf"), Send(200), Drop("buf")>> \o Done
ApptplVersion == Page
ApptplStats   == OnlyGet \o Page
ApptplConfig  == OnlyGet \o <<Need("json"), Need("buf"), Send(200), Free("buf"), Free("json")>> \o Done

ParserDump == <<Need("dump"), Grow("dump", Failing)>>

(* Mutant: a failed dump is answered, and then goes on. *)
CaptureDumpTwice == <<Need("dump"), Grow("dump", <<Send(500), Send(200), Free("buf")>> \o Done)>>

CaptureDump == <<Need("dump"), Grow("dump", <<Send(500), Free("buf")>> \o Done)>>
ApptplDump ==
    OnlyGet \o ParserDump \o <<Need("buf"), Free("dump")>> \o CaptureDump
            \o <<Free("dump"), Send(200), Free("buf")>> \o Done

(* the text of the status is never freed *)
Apptpl2Status ==
    <<Get("root", <<Send(500), Drop("buf")>> \o Done), Need("buf"), Need("text"), Send(200),
      Free("root"), Drop("buf")>> \o Done
Apptpl2Version == Page
Apptpl2Stats   == Page
Apptpl2Config  == OnlyGet \o <<Need("json"), Need("buf"), Send(200), Free("buf"), Free("json")>> \o Done

CppStatus ==
    <<Get("root", <<Send(500), Drop("buf")>> \o Done), Need("text"), Need("buf"), Send(200),
      Free("text"), Free("root"), Drop("buf")>> \o Done
CppVersion == Page
CppStats   == OnlyGet \o Page
CppConfig  == OnlyGet \o <<Need("json"), Need("buf"), Send(200), Free("buf"), Free("json")>> \o Done
CppDump    == OnlyGet \o Page

ApptplRoutes  == <<"/", "/help", "/status", "/version", "/stats", "/config", "/dump">>
Apptpl2Routes == <<"/", "/status", "/version", "/stats", "/config">>
CppRoutes     == <<"/", "/status", "/version", "/stats", "/config", "/dump">>

RoutesOf(p) == CASE p = "apptpl" -> ApptplRoutes [] p = "apptpl2" -> Apptpl2Routes [] OTHER -> CppRoutes

(* the paths are the keys of the routes, and every path that a client may ask for has a hash *)
ASSUME HttpApiAssumption ==
    /\ NoClient \notin Clients
    /\ \A x \in Items : KeyOf(x) = x
    /\ \A p \in {"apptpl", "apptpl2", "cpptpl"} : ToSet(RoutesOf(p)) \subseteq Items
    /\ \A c \in Clients : \A r \in Requests(c) : HashOf(r.path) \in Nat

Callback(p, path) ==
    CASE path \in {"/", "/status"} -> IF p = "apptpl" THEN ApptplStatus
                                      ELSE IF p = "apptpl2" THEN Apptpl2Status ELSE CppStatus
      [] path = "/help"    -> ApptplHelp
      [] path = "/version" -> IF p = "apptpl" THEN ApptplVersion
                              ELSE IF p = "apptpl2" THEN Apptpl2Version ELSE CppVersion
      [] path = "/stats"   -> IF p = "apptpl" THEN ApptplStats
                              ELSE IF p = "apptpl2" THEN Apptpl2Stats ELSE CppStats
      [] path = "/config"  -> IF p = "apptpl" THEN ApptplConfig
                              ELSE IF p = "apptpl2" THEN Apptpl2Config ELSE CppConfig
      [] path = "/dump"    -> IF p = "apptpl" THEN ApptplDump ELSE CppDump

-----------------------------------------------------------------------------
(***************************************************************************)
(* magt_init, magt_close and what main does around them.                   *)
(***************************************************************************)
Err == <<Drop("sigint"), Drop("sigterm"), Drop("timer"), Drop("httpd"), Drop("base"), Drop("ssl")>>

SslInit(failed) ==
    LET bad == <<Free("ssl")>> \o failed IN
    <<Check(failed), Get("ssl", failed), Check(bad), Check(bad), Check(bad)>>

RouteInit(paths, failed) ==
    [j \in 1 .. 2 * Len(paths) |-> IF j % 2 = 1 THEN Get(paths[(j + 1) \div 2], failed)
                                               ELSE Link(paths[j \div 2])]

MagtInit(ssl, paths, failed) ==
    <<Get("base", failed), Get("sigint", Err \o failed), Get("sigterm", Err \o failed),
      Get("timer", Err \o failed), Get("httpd", Err \o failed)>>
    \o (IF ssl THEN SslInit(Err \o failed) ELSE <<>>)
    \o <<Check(Err \o failed)>> \* bind
    \o RouteInit(paths, Err \o failed)

(* Mutant: the base goes before what is registered with it. *)
MagtCloseBase ==
    <<Free("base"), Free("sigint"), Free("sigterm"), Free("timer"), Free("httpd"), Drop("ssl"), Unlink("head")>>
MagtClose ==
    <<Free("sigint"), Free("sigterm"), Free("timer"), Free("httpd"), Free("base"), Drop("ssl"), Unlink("head")>>

(* once the interface is there, apptpl opens its input, its parser and its capture *)
ApptplMain(ssl)  == MagtInit(ssl, ApptplRoutes, <<Exit>>)
                    \o <<Check(<<Close>> \o MagtClose \o <<Exit>>), Loop>>
Apptpl2Main(ssl) == <<Need("chan")>> \o MagtInit(ssl, Apptpl2Routes, <<Free("chan"), Exit>>)
                    \o <<Try("redis"), Loop>>
CppMain(ssl)     == MagtInit(ssl, CppRoutes, <<Exit>>) \o <<Loop>>

(* Mutant: the threads are joined before the interface is closed. *)
ApptplEndLate == <<Join>> \o MagtClose \o <<Exit>>
ApptplEnd  == MagtClose \o <<Join, Exit>>
Apptpl2End == <<Drop("redis")>> \o MagtClose \o <<Free("chan"), Exit>>
CppEnd     == MagtClose \o <<Exit>>
EndOf(p)   == CASE p = "apptpl" -> ApptplEnd [] p = "apptpl2" -> Apptpl2End [] OTHER -> CppEnd

Idle == [state |-> "idle", asked |-> 0, cmd |-> "", path |-> "", codes |-> <<>>, failed |-> FALSE]

Init ==
    /\ \E ssl \in BOOLEAN :
         \/ prog = "apptpl"  /\ todo = ApptplMain(ssl)
         \/ prog = "apptpl2" /\ todo = Apptpl2Main(ssl)
         \/ prog = "cpptpl"  /\ todo = CppMain(ssl)
    /\ phase = "start" /\ held = {} /\ routes = NoTable
    /\ conn = [c \in Clients |-> Idle] /\ cur = NoClient /\ signal = FALSE

-----------------------------------------------------------------------------
(***************************************************************************)
(* The steps.                                                              *)
(***************************************************************************)
At(op) == todo # <<>> /\ todo[1].op = op /\ phase \in {"start", "loop", "end"}
On     == todo' = Tail(todo)
Failed == IF cur = NoClient THEN UNCHANGED conn ELSE conn' = [conn EXCEPT ![cur].failed = TRUE]

Acquire ==
    /\ \E op \in {"get", "need", "try"} : At(op)
    /\ held' = held \union {todo[1].x} /\ On
    /\ UNCHANGED <<prog, phase, routes, conn, cur, signal>>

Refused ==
    /\ \E op \in {"get", "check", "grow"} : At(op)
    /\ held' = IF At("grow") THEN (held \ {todo[1].x}) \union {"lost"} ELSE held
    /\ todo' = todo[1].otherwise /\ Failed
    /\ UNCHANGED <<prog, phase, routes, cur, signal>>

Proceed ==
    /\ \E op \in {"check", "grow", "try"} : At(op)
    /\ On
    /\ UNCHANGED <<prog, phase, held, routes, conn, cur, signal>>

(* an allocation that is not checked, a hash table without memory for its buckets *)
Extends(p) == DOMAIN Add(routes, p).chain # DOMAIN routes.chain
Crash ==
    /\ At("need") \/ (At("link") /\ Extends(todo[1].x))
    /\ phase' = "crashed" /\ todo' = <<>>
    /\ UNCHANGED <<prog, held, routes, conn, cur, signal>>

(* evhttp_free closes the connections *)
Release ==
    /\ At("free") \/ At("drop")
    /\ held' = held \ {todo[1].x} /\ On
    /\ conn' = IF todo[1].x = "httpd" THEN [c \in Clients |-> Idle] ELSE conn
    /\ UNCHANGED <<prog, phase, routes, cur, signal>>

Reply ==
    /\ At("send")
    /\ conn' = [conn EXCEPT ![cur].codes = Append(@, todo[1].code)] /\ On
    /\ UNCHANGED <<prog, phase, held, routes, cur, signal>>

AddRoute ==
    /\ At("link")
    /\ routes' = Add(routes, todo[1].x) /\ On
    /\ UNCHANGED <<prog, phase, held, conn, cur, signal>>

(* Mutant: the routes are freed, and stay in the table. *)
FreeRouteOnly ==
    /\ At("unlink")
    /\ LET p == IF todo[1].x = "head" THEN routes.head ELSE todo[1].x IN
       IF p = NoItem THEN On /\ UNCHANGED held
       ELSE held' = held \ {p} /\ todo' = <<Unlink(routes.next[p])>> \o Tail(todo)
    /\ UNCHANGED <<prog, phase, routes, conn, cur, signal>>

(* api_route_free: the next one is read before this one goes *)
FreeRoute ==
    /\ At("unlink")
    /\ LET p == IF todo[1].x = "head" THEN routes.head ELSE todo[1].x IN
       IF p = NoItem THEN On /\ UNCHANGED <<held, routes>>
       ELSE /\ routes' = Delete(routes, p) /\ held' = held \ {p}
            /\ todo' = <<Unlink(routes.next[p])>> \o Tail(todo)
    /\ UNCHANGED <<prog, phase, conn, cur, signal>>

GetOnly ==
    /\ At("only")
    /\ todo' = IF conn[cur].cmd = "GET" THEN Tail(todo) ELSE todo[1].otherwise
    /\ UNCHANGED <<prog, phase, held, routes, conn, cur, signal>>

FindRoute ==
    /\ At("find")
    /\ LET r == FindKey(routes, conn[cur].path) IN
       todo' = IF r = NoItem THEN NotFound ELSE Callback(prog, r)
    /\ UNCHANGED <<prog, phase, held, routes, conn, cur, signal>>

EnterLoop ==
    /\ At("loop")
    /\ phase' = "loop" /\ On
    /\ UNCHANGED <<prog, held, routes, conn, cur, signal>>

(* main gives up before the event loop has begun *)
CloseEarly ==
    /\ At("close")
    /\ phase' = "end" /\ On
    /\ UNCHANGED <<prog, held, routes, conn, cur, signal>>

(* the inputer, the capture, the worker and the parsers are stopped and joined *)
JoinThreads ==
    /\ At("join") /\ On
    /\ UNCHANGED <<prog, phase, held, routes, conn, cur, signal>>

ExitProcess ==
    /\ At("exit")
    /\ phase' = "exited" /\ todo' = <<>>
    /\ UNCHANGED <<prog, held, routes, conn, cur, signal>>

Run == \/ Acquire \/ Refused \/ Proceed \/ Crash \/ Release \/ Reply \/ AddRoute \/ FreeRoute
       \/ GetOnly \/ FindRoute \/ EnterLoop \/ CloseEarly \/ ExitProcess

-----------------------------------------------------------------------------
(***************************************************************************)
(* The event loop: while no callback runs it takes the next event.         *)
(***************************************************************************)
Waiting == phase = "loop" /\ todo = <<>>

(* Mutant: HEAD is forgotten. *)
ServedGet(cmd) == cmd = "GET"
Served(cmd) == cmd \in {"GET", "HEAD"}

Serve(c) ==
    /\ Waiting /\ conn[c].state = "asked"
    /\ conn' = [conn EXCEPT ![c].state = "served"]
    /\ cur' = c
    /\ todo' = IF Served(conn[c].cmd) THEN ApiHandler ELSE <<>>
    /\ UNCHANGED <<prog, phase, held, routes, signal>>

SignalCb ==
    /\ Waiting /\ signal
    /\ phase' = "end" /\ todo' = EndOf(prog) /\ cur' = NoClient
    /\ UNCHANGED <<prog, held, routes, conn, signal>>

(* clients, and whoever sends the signal, at any time *)
Ask(c) ==
    /\ phase = "loop" /\ conn[c].state = "idle" /\ conn[c].asked < MaxAsked
    /\ \E r \in Requests(c) :
         conn' = [conn EXCEPT ![c] = [Idle EXCEPT !.state = "asked", !.asked = conn[c].asked + 1,
                                                  !.cmd = r.cmd, !.path = r.path]]
    /\ UNCHANGED <<prog, phase, todo, held, routes, cur, signal>>

Leave(c) ==
    /\ Waiting /\ conn[c].state \in {"asked", "served"}
    /\ conn' = [conn EXCEPT ![c] = [Idle EXCEPT !.asked = conn[c].asked]]
    /\ UNCHANGED <<prog, phase, todo, held, routes, cur, signal>>

Signal ==
    /\ phase \in {"start", "loop"} /\ {"sigint", "sigterm"} \subseteq held /\ ~signal
    /\ signal' = TRUE
    /\ UNCHANGED <<prog, phase, todo, held, routes, conn, cur>>

Next == Run \/ JoinThreads \/ SignalCb \/ Signal \/ \E c \in Clients : Serve(c) \/ Ask(c) \/ Leave(c)

(* the process and its event loop run on; clients and signals need not come, *)
(* and the threads that apptpl joins at its end need not return              *)
Spec == Init /\ [][Next]_vars /\ WF_vars(Run) /\ WF_vars(SignalCb)
             /\ \A c \in Clients : SF_vars(Serve(c))

-----------------------------------------------------------------------------
(***************************************************************************)
(* A request is answered exactly once, by the time its callback returns,   *)
(* and never while another's runs: 200 for a path that the program has     *)
(* and a command that the path takes, 404 otherwise; an error when         *)
(* something failed on the way.  A command that is neither GET nor HEAD is *)
(* never answered.                                                         *)
(***************************************************************************)
Has(p, path) == path \in ToSet(RoutesOf(p))
TakesHead(p, path) == path \in {"/", "/help", "/status", "/version"} \/ (p = "apptpl2" /\ path = "/stats")
Answer(r) == IF Has(prog, r.path) /\ (r.cmd = "GET" \/ TakesHead(prog, r.path)) THEN 200 ELSE 404

AnsweredOnce ==
    \A c \in Clients :
        LET r == conn[c] IN
        /\ c # cur => r.state = "served" \/ r.codes = <<>>
        /\ r.state = "served" /\ (Waiting \/ c # cur) =>
             IF r.cmd \notin {"GET", "HEAD"} THEN r.codes = <<>>
             ELSE /\ Len(r.codes) = 1
                  /\ IF r.failed THEN r.codes[1] \in {400, 404, 500} ELSE r.codes = <<Answer(r)>>

(***************************************************************************)
(* Whatever fails, nothing is released twice, nothing is left over from a  *)
(* request, and the end of the program, or of a start that failed, leaves  *)
(* nothing but what the code forgets: the text of apptpl2's status, a dump *)
(* that could not grow, and the routes of a start that failed after them.  *)
(* What is registered with the event base and the TLS context that         *)
(* connections use are gone before they are.                               *)
(***************************************************************************)
Forgotten == {"lost"} \union (IF prog = "apptpl2" THEN {"text"} ELSE {})
Server    == {"base", "sigint", "sigterm", "timer", "httpd"}
Kept      == Server \union ToSet(RoutesOf(prog)) \union (IF prog = "apptpl2" THEN {"chan"} ELSE {})

ReleasedOnce ==
    /\ At("free") => todo[1].x \in held
    /\ Waiting => Kept \subseteq held /\ held \subseteq Kept \union Forgotten \union {"ssl", "redis"}
    /\ phase = "exited" => held \subseteq Forgotten \union Items
    /\ phase = "exited" /\ routes = NoTable => held \subseteq Forgotten
    /\ held \intersect {"sigint", "sigterm", "timer", "httpd", "redis"} # {} => "base" \in held
    /\ (\E c \in Clients : conn[c].state # "idle") => "httpd" \in held

(***************************************************************************)
(* The table of routes never points to memory that was released: it holds  *)
(* the routes in the order in which they were added, and finds each of     *)
(* them and no other path.                                                 *)
(***************************************************************************)
RoutesLive ==
    LET order == Order(routes) IN
    /\ Fsck(routes) /\ ToSet(order) \subseteq held
    /\ \A p \in Items : FindKey(routes, p) = IF p \in ToSet(order) THEN p ELSE NoItem
    /\ IF phase = "end" THEN IsSuffix(order, RoutesOf(prog)) ELSE IsPrefix(order, RoutesOf(prog))
    /\ phase = "loop" => order = RoutesOf(prog)

(***************************************************************************)
(* A GET or HEAD that was received is answered, unless the client leaves   *)
(* or the process ends first.  A signal ends apptpl2 and cpptpl.  In       *)
(* apptpl it closes the management interface, all of it: from there on the *)
(* end is up to the threads that main joins, which may run for ever.       *)
(***************************************************************************)
Over == phase \in {"end", "exited", "crashed"}
AllServed ==
    /\ \A c \in Clients :
         conn[c].state = "asked" /\ conn[c].cmd \in {"GET", "HEAD"}
            ~> conn[c].state = "idle" \/ conn[c].codes # <<>> \/ Over
    /\ signal ~> \/ phase \in {"exited", "crashed"}
                 \/ prog = "apptpl" /\ phase = "end" /\ held \subseteq Forgotten
=============================================================================
