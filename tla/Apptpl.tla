-------------------------------- MODULE Apptpl --------------------------------
(***************************************************************************)
(* The life of the apptpl process (apptpl/main.c): the main thread opens   *)
(* the components, creates their threads, runs the management event loop   *)
(* until a signal breaks it, then stops and joins the threads one after    *)
(* the other and releases what they used.                                  *)
(*                                                                         *)
(*     inputer --- chan_msg ---> worker                                    *)
(*     capture --- chan_pkt ---> parsers (all on one struct parser)        *)
(*                                                                         *)
(* A channel is the queue of module Fifo, which CChan implements: message  *)
(* number n of a channel is the n-th sent, so two counters describe it.    *)
(* The shutdown flags are plain ints, written by main and by the threads   *)
(* themselves; each access is a step of its own.                           *)
(***************************************************************************)
EXTENDS Integers, FiniteSets

CONSTANTS
    Parser,            \* the parser threads
    MaxMsg, MaxPkt,    \* bounds on the messages and packets that arrive
    MsgLimit, PktLimit \* channel lengths at which the producers sleep

ASSUME ParserAssumption == IsFiniteSet(Parser)
ASSUME BoundAssumption ==
    /\ MaxMsg \in Nat /\ MaxPkt \in Nat
    /\ MsgLimit \in Nat /\ PktLimit \in Nat
ASSUME ThreadNamesAssumption ==
    Parser \cap {"inputer", "capture", "worker"} = {}

Thread   == {"inputer", "capture", "worker"} \cup Parser
Consumer == {"worker"} \cup Parser

\* The struct a thread works on: the parsers share one.
Component == {"inputer", "capture", "worker", "parser"}
StructOf(t) == IF t \in Parser THEN "parser" ELSE t

Channel == {"msg", "pkt"}
ChanOf(t) == IF t \in {"inputer", "worker"} THEN "msg" ELSE "pkt"

\* What is opened or created, and must be released.
Resource == {"magt", "puller", "words", "regex", "pcap", "chans"}

VARIABLES
    main,              \* where the main thread is
    thr,               \* where each thread is
    shutdown,          \* the shutdown flag of each component
    count,             \* its counter (count; pkts of struct capture)
    breakloop,         \* pcap's flag set by pcap_breakloop
    sent, taken,       \* messages put in and taken from each channel
    done,              \* messages of each channel processed and freed
    arrived,           \* messages received from zmq, packets from pcap
    dropped,           \* packets lost because packet_new failed
    res,               \* state of each resource
    signal             \* SIGINT or SIGTERM caught, not yet handled

work == <<count, breakloop, sent, taken, done, arrived, dropped>>
vars == <<main, thr, shutdown, res, signal, work>>

Queued(c) == sent[c] - taken[c]

Started(t) == thr[t] \notin {"none", "created"}
AllStarted == \A t \in Thread : Started(t)

Init ==
    /\ main = "magt_init"
    /\ thr = [t \in Thread |-> "none"]
    /\ shutdown = [c \in Component |-> FALSE]
    /\ count = [c \in Component |-> 0]
    /\ breakloop = FALSE
    /\ sent = [c \in Channel |-> 0]
    /\ taken = [c \in Channel |-> 0]
    /\ done = [c \in Channel |-> 0]
    /\ arrived = [c \in Channel |-> 0]
    /\ dropped = 0
    /\ res = [x \in Resource |-> "absent"]
    /\ signal = FALSE
-----------------------------------------------------------------------------
(***************************************************************************)
(* Start-up, on the main thread.  A function that fails releases what it   *)
(* had acquired itself; main then goes to err.                             *)
(***************************************************************************)

Goto(from, to) == main = from /\ main' = to

\* After magt_init come the two cchan_new.
MagtInit ==
    /\ \/ /\ Goto("magt_init", "inputer_open")
          /\ res' = [res EXCEPT !["magt"] = "open", !["chans"] = "open"]
       \/ /\ Goto("magt_init", "exit1")
          /\ res' = res
    /\ UNCHANGED <<thr, shutdown, signal, work>>

InputerOpen ==
    /\ \/ /\ Goto("inputer_open", "parser_create")
          /\ res' = [res EXCEPT !["puller"] = "open"]
       \/ /\ Goto("inputer_open", "err")
          /\ res' = res
    /\ UNCHANGED <<thr, shutdown, signal, work>>

\* The words are read first, and destroyed again if the regexes fail.
ParserCreate ==
    /\ \/ /\ Goto("parser_create", "capture_open")
          /\ res' = [res EXCEPT !["words"] = "open", !["regex"] = "open"]
       \/ /\ Goto("parser_create", "err")
          /\ \/ res' = res
             \/ res' = [res EXCEPT !["words"] = "closed"]
    /\ UNCHANGED <<thr, shutdown, signal, work>>

CaptureOpen ==
    /\ \/ /\ Goto("capture_open", "spawn_worker")
          /\ res' = [res EXCEPT !["pcap"] = "open"]
       \/ /\ Goto("capture_open", "err")
          /\ res' = res
    /\ UNCHANGED <<thr, shutdown, signal, work>>

\* Giving up something twice is an error of its own.
Released(x) == IF res[x] = "open" THEN "closed" ELSE "released twice"
ReleasedIfOpen(x) == IF res[x] = "open" THEN "closed" ELSE res[x]

\* Mutant: the error path forgets parser_destroy.
ErrExitKeepsPolicies ==
    /\ Goto("err", "exit1")
    /\ shutdown' = [shutdown EXCEPT !["inputer"] = TRUE]
    /\ res' = [res EXCEPT !["magt"] = Released("magt"),
                          !["pcap"] = ReleasedIfOpen("pcap"),
                          !["chans"] = Released("chans")]
    /\ UNCHANGED <<thr, signal, work>>

\* magt_close, inputer_stop, capture_close, parser_destroy, cchan_free twice.
ErrExit ==
    /\ Goto("err", "exit1")
    /\ shutdown' = [shutdown EXCEPT !["inputer"] = TRUE, !["parser"] = TRUE]
    /\ res' = [res EXCEPT !["magt"] = Released("magt"),
                          !["pcap"] = ReleasedIfOpen("pcap"),
                          !["words"] = ReleasedIfOpen("words"),
                          !["regex"] = ReleasedIfOpen("regex"),
                          !["chans"] = Released("chans")]
    /\ UNCHANGED <<thr, signal, work>>

Spawn(T, from, to) ==
    /\ Goto(from, to)
    /\ thr' = [t \in Thread |-> IF t \in T THEN "created" ELSE thr[t]]
    /\ UNCHANGED <<shutdown, res, signal, work>>

\* The parsers are created one by one.
SpawnParser ==
    /\ main = "spawn_parsers"
    /\ IF \E p \in Parser : thr[p] = "none"
       THEN /\ \E p \in Parser :
                 thr[p] = "none" /\ thr' = [thr EXCEPT ![p] = "created"]
            /\ UNCHANGED main
       ELSE main' = "spawn_capture" /\ UNCHANGED thr
    /\ UNCHANGED <<shutdown, res, signal, work>>

Startup ==
    \/ MagtInit \/ InputerOpen \/ ParserCreate \/ CaptureOpen \/ ErrExit
    \/ Spawn({"worker"}, "spawn_worker", "spawn_inputer")
    \/ Spawn({"inputer"}, "spawn_inputer", "spawn_parsers")
    \/ SpawnParser
    \/ Spawn({"capture"}, "spawn_capture", "loop")
-----------------------------------------------------------------------------
(***************************************************************************)
(* The event loop and the way down.                                        *)
(***************************************************************************)

\* From magt_init to magt_close libevent catches the signals; only the event
\* loop acts on them.
SignalArrives ==
    /\ res["magt"] = "open" /\ ~signal
    /\ signal' = TRUE
    /\ UNCHANGED <<main, thr, shutdown, res, work>>

\* signal_cb breaks the loop.
LoopBreak ==
    /\ Goto("loop", "magt_close")
    /\ signal
    /\ UNCHANGED <<thr, shutdown, res, signal, work>>

MagtClose ==
    /\ Goto("magt_close", "stop_inputer")
    /\ res' = [res EXCEPT !["magt"] = Released("magt")]
    /\ UNCHANGED <<thr, shutdown, signal, work>>

Stop(c, from, to) ==
    /\ Goto(from, to)
    /\ shutdown' = [shutdown EXCEPT ![c] = TRUE]
    /\ UNCHANGED <<thr, res, signal>>

InputerStop ==
    Stop("inputer", "stop_inputer", "join_inputer") /\ UNCHANGED work

\* capture_loop_stop also makes pcap_dispatch return.
CaptureStop ==
    /\ IF res["pcap"] = "open"
       THEN Stop("capture", "stop_capture", "join_capture") /\ breakloop' = TRUE
       ELSE /\ Goto("stop_capture", "join_capture")
            /\ UNCHANGED <<thr, shutdown, res, signal, breakloop>>
    /\ UNCHANGED <<count, sent, taken, done, arrived, dropped>>

WorkerStop == Stop("worker", "stop_worker", "join_worker") /\ UNCHANGED work

ParserStop == Stop("parser", "stop_parsers", "join_parsers") /\ UNCHANGED work

Ended(T) == \A t \in T : thr[t] = "ended"

Join(T, from, to) ==
    /\ Goto(from, to)
    /\ Ended(T)
    /\ UNCHANGED <<thr, signal, work>>

\* Mutant: the inputer is told to stop and not waited for.
JoinInputerSkipped ==
    Join({}, "join_inputer", "stop_capture") /\ UNCHANGED <<shutdown, res>>

JoinInputer ==
    /\ Join({"inputer"}, "join_inputer", "stop_capture")
    /\ UNCHANGED <<shutdown, res>>

\* Mutant: the handle is closed under the running capture.
JoinCaptureSkipped ==
    /\ Join({}, "join_capture", "stop_worker")
    /\ res' = [res EXCEPT !["pcap"] = ReleasedIfOpen("pcap")]
    /\ UNCHANGED shutdown

\* capture_close follows the join.
JoinCapture ==
    /\ Join({"capture"}, "join_capture", "stop_worker")
    /\ res' = [res EXCEPT !["pcap"] = ReleasedIfOpen("pcap")]
    /\ UNCHANGED shutdown

JoinWorker ==
    /\ Join({"worker"}, "join_worker", "stop_parsers")
    /\ UNCHANGED <<shutdown, res>>

\* Mutant: only one of the parser threads is joined.
JoinOneParser ==
    /\ \E p \in Parser : Join({p}, "join_parsers", "exit0")
    /\ shutdown' = [shutdown EXCEPT !["parser"] = TRUE]
    /\ res' = [res EXCEPT !["words"] = ReleasedIfOpen("words"),
                          !["regex"] = ReleasedIfOpen("regex"),
                          !["chans"] = Released("chans")]

\* parser_destroy and the two cchan_free follow the last join.
JoinParsers ==
    /\ Join(Parser, "join_parsers", "exit0")
    /\ shutdown' = [shutdown EXCEPT !["parser"] = TRUE]
    /\ res' = [res EXCEPT !["words"] = ReleasedIfOpen("words"),
                          !["regex"] = ReleasedIfOpen("regex"),
                          !["chans"] = Released("chans")]

Shutdown ==
    \/ LoopBreak \/ MagtClose
    \/ InputerStop \/ JoinInputer
    \/ CaptureStop \/ JoinCapture
    \/ WorkerStop \/ JoinWorker
    \/ ParserStop \/ JoinParsers
-----------------------------------------------------------------------------
(***************************************************************************)
(* What the thread functions have in common.                               *)
(***************************************************************************)

Move(t, from, to) == thr[t] = from /\ thr' = [thr EXCEPT ![t] = to]

\* Mutant: the counter starts at a sentinel.
StartUncounted(t) ==
    /\ Move(t, "created", "top")
    /\ shutdown' = [shutdown EXCEPT ![StructOf(t)] = FALSE]
    /\ count' = [count EXCEPT ![StructOf(t)] = -1]
    /\ UNCHANGED <<main, breakloop, sent, taken, done, arrived, dropped, res,
                   signal>>

\* Each loop function first clears its flag and its counter.
Start(t) ==
    /\ Move(t, "created", "top")
    /\ shutdown' = [shutdown EXCEPT ![StructOf(t)] = FALSE]
    /\ count' = [count EXCEPT ![StructOf(t)] = 0]
    /\ UNCHANGED <<main, breakloop, sent, taken, done, arrived, dropped, res,
                   signal>>

\* Mutant: the loop ignores its shutdown flag.
LoopForever(t, after) ==
    /\ Move(t, "top", "call")
    /\ UNCHANGED <<main, shutdown, res, signal, work>>

\* The test of the while: leave the loop, or go on to the blocking call.
LoopTest(t, after) ==
    /\ IF shutdown[StructOf(t)] THEN Move(t, "top", after)
                                ELSE Move(t, "top", "call")
    /\ UNCHANGED <<main, shutdown, res, signal, work>>

\* cchan_send; then 100 us of sleep if the channel has reached its limit.
Produce(t, limit, after) ==
    LET c == ChanOf(t)
    IN  /\ sent' = [sent EXCEPT ![c] = @ + 1]
        /\ thr' = [thr EXCEPT ![t] =
                       IF Queued(c) + 1 >= limit THEN "nap" ELSE after]

\* cchan_waittime: the oldest message, or none while there is none.
Receive(t) ==
    /\ \/ /\ Queued(ChanOf(t)) > 0
          /\ Move(t, "call", "busy")
          /\ taken' = [taken EXCEPT ![ChanOf(t)] = @ + 1]
       \/ /\ Queued(ChanOf(t)) = 0
          /\ Move(t, "call", "top")
          /\ taken' = taken
    /\ UNCHANGED <<main, shutdown, count, breakloop, sent, done, arrived,
                   dropped, res, signal>>

\* Mutant: the loads and stores of two parsers' count++ interleave.
ProcessRacy(t) ==
    /\ Move(t, "busy", "top")
    /\ \/ count' = [count EXCEPT ![StructOf(t)] = @ + 1]
       \/ /\ \E u \in Thread \ {t} :
                StructOf(u) = StructOf(t) /\ thr[u] = "busy"
          /\ count' = count
    /\ done' = [done EXCEPT ![ChanOf(t)] = @ + 1]
    /\ UNCHANGED <<main, shutdown, breakloop, sent, taken, arrived, dropped,
                   res, signal>>

\* Mutant: a message taken is put aside instead of processed.
ProcessForgotten(t) ==
    /\ Move(t, "busy", "top")
    /\ count' = [count EXCEPT ![StructOf(t)] = @ + 1]
    /\ UNCHANGED <<main, shutdown, breakloop, sent, taken, done, arrived,
                   dropped, res, signal>>

\* Count the message, match it (parsers) and free it.
Process(t) ==
    /\ Move(t, "busy", "top")
    /\ count' = [count EXCEPT ![StructOf(t)] = @ + 1]
    /\ done' = [done EXCEPT ![ChanOf(t)] = @ + 1]
    /\ UNCHANGED <<main, shutdown, breakloop, sent, taken, arrived, dropped,
                   res, signal>>
-----------------------------------------------------------------------------
(***************************************************************************)
(* The inputer.                                                            *)
(***************************************************************************)

\* zmq_msg_recv gives a message; it is counted and sent on.
InputerMessage ==
    /\ thr["inputer"] = "call"
    /\ arrived["msg"] < MaxMsg
    /\ arrived' = [arrived EXCEPT !["msg"] = @ + 1]
    /\ count' = [count EXCEPT !["inputer"] = @ + 1]
    /\ Produce("inputer", MsgLimit, "top")
    /\ UNCHANGED <<main, shutdown, breakloop, taken, done, dropped, res, signal>>

\* EAGAIN after 500 ms, or a zmq_msg_init that failed: free and go on.
InputerRetry ==
    /\ Move("inputer", "call", "top")
    /\ UNCHANGED <<main, shutdown, res, signal, work>>

\* A malloc that failed, or any other error of zmq_msg_recv: break.
InputerBreak ==
    /\ Move("inputer", "call", "close")
    /\ UNCHANGED <<main, shutdown, res, signal, work>>

InputerNap ==
    /\ Move("inputer", "nap", "top")
    /\ UNCHANGED <<main, shutdown, res, signal, work>>

\* zmq_close and zmq_ctx_destroy.
InputerClose ==
    /\ Move("inputer", "close", "ended")
    /\ res' = [res EXCEPT !["puller"] = Released("puller")]
    /\ UNCHANGED <<main, shutdown, signal, work>>

InputerLoop ==
    \/ Start("inputer") \/ LoopTest("inputer", "close")
    \/ InputerMessage \/ InputerRetry \/ InputerBreak \/ InputerNap
    \/ InputerClose
-----------------------------------------------------------------------------
(***************************************************************************)
(* The capture: "call" and "nap" are inside pcap_dispatch.                 *)
(***************************************************************************)

\* pkt_cb: a packet is counted, copied and sent, or dropped for want of
\* memory.
PktCb ==
    /\ thr["capture"] = "call"
    /\ ~breakloop
    /\ arrived["pkt"] < MaxPkt
    /\ arrived' = [arrived EXCEPT !["pkt"] = @ + 1]
    /\ count' = [count EXCEPT !["capture"] = @ + 1]
    /\ \/ Produce("capture", PktLimit, "call") /\ UNCHANGED dropped
       \/ dropped' = dropped + 1 /\ UNCHANGED <<sent, thr>>
    /\ UNCHANGED <<main, shutdown, breakloop, taken, done, res, signal>>

CaptureNap ==
    /\ Move("capture", "nap", "call")
    /\ UNCHANGED <<main, shutdown, res, signal, work>>

\* pcap_dispatch returns: its buffer is done, its timeout over, or it was
\* told to break, which it forgets on the way out.
DispatchReturns ==
    /\ Move("capture", "call", "top")
    /\ breakloop' = FALSE
    /\ UNCHANGED <<main, shutdown, count, sent, taken, done, arrived, dropped,
                   res, signal>>

DispatchFails ==
    /\ Move("capture", "call", "stats")
    /\ UNCHANGED <<main, shutdown, res, signal, work>>

\* The statistics of the handle are read once more after the loop.
CaptureEnd ==
    /\ Move("capture", "stats", "ended")
    /\ UNCHANGED <<main, shutdown, res, signal, work>>

CaptureLoop ==
    \/ Start("capture") \/ LoopTest("capture", "stats")
    \/ PktCb \/ CaptureNap \/ DispatchReturns \/ DispatchFails \/ CaptureEnd
-----------------------------------------------------------------------------
WorkerLoop ==
    \/ Start("worker") \/ LoopTest("worker", "ended")
    \/ Receive("worker") \/ Process("worker")

ParserLoop(p) ==
    \/ Start(p) \/ LoopTest(p, "ended") \/ Receive(p) \/ Process(p)

Main == Startup \/ Shutdown

Next ==
    \/ Main
    \/ SignalArrives
    \/ InputerLoop \/ CaptureLoop \/ WorkerLoop
    \/ \E p \in Parser : ParserLoop(p)

Spec == Init /\ [][Next]_vars

\* Every thread is scheduled; nothing makes a message, a packet or a signal
\* come.
Fairness ==
    /\ WF_vars(Main)
    /\ WF_vars(InputerLoop) /\ WF_vars(CaptureLoop) /\ WF_vars(WorkerLoop)
    /\ \A p \in Parser : WF_vars(ParserLoop(p))

FairSpec == Spec /\ Fairness
-----------------------------------------------------------------------------
(***************************************************************************)
(* Properties.                                                             *)
(***************************************************************************)

MainPCs ==
    {"magt_init", "inputer_open", "parser_create", "capture_open", "err",
     "spawn_worker", "spawn_inputer", "spawn_parsers", "spawn_capture", "loop",
     "magt_close", "stop_inputer", "join_inputer", "stop_capture",
     "join_capture", "stop_worker", "join_worker", "stop_parsers",
     "join_parsers", "exit0", "exit1"}

ThreadPCs == {"none", "created", "top", "call", "nap", "busy", "close",
              "stats", "ended"}

\* The main thread, the threads and the structs have their types.
TypeOK ==
    /\ main \in MainPCs
    /\ thr \in [Thread -> ThreadPCs]
    /\ shutdown \in [Component -> BOOLEAN]
    /\ count \in [Component -> Nat]
    /\ breakloop \in BOOLEAN
    /\ sent \in [Channel -> Nat]
    /\ taken \in [Channel -> Nat]
    /\ done \in [Channel -> Nat]
    /\ arrived \in [Channel -> Nat]
    /\ dropped \in Nat
    /\ res \in [Resource -> {"absent", "open", "closed", "released twice"}]
    /\ signal \in BOOLEAN

Open(x) == res[x] = "open"

\* No thread touches what has been released: the channels, the handle and the
\* policies outlive every thread that uses them, and nothing is given up twice,
\* on the way down or on the error path of main.
NoUseAfterRelease ==
    /\ \A x \in Resource : res[x] # "released twice"
    /\ thr["inputer"] \in {"call", "nap"} => Open("puller") /\ Open("chans")
    /\ thr["capture"] \in {"call", "nap"} => Open("pcap") /\ Open("chans")
    /\ thr["capture"] = "stats" => Open("pcap")
    /\ \A t \in Consumer : thr[t] \in {"call", "busy"} => Open("chans")
    /\ \A p \in Parser : thr[p] = "busy" => Open("words") /\ Open("regex")

InHand(c) == Cardinality({t \in Consumer : ChanOf(t) = c /\ thr[t] = "busy"})

\* Nothing is lost or handled twice between its arrival and its free: what has
\* arrived was sent or dropped, and what was taken is processed or in the hands
\* of exactly one consumer; at the exit no consumer holds anything.
MessagesAccounted ==
    /\ arrived["msg"] = sent["msg"]
    /\ arrived["pkt"] = sent["pkt"] + dropped
    /\ \A c \in Channel :
        /\ taken[c] <= sent[c]
        /\ taken[c] = done[c] + InHand(c)
        /\ main = "exit0" => taken[c] = done[c]

\* Once told to stop, and still told so, the consumers of a channel get no new
\* messages behind their backs: their producer has ended by then.
NoSendAfterConsumersStop ==
    [][/\ shutdown["worker"] => sent'["msg"] = sent["msg"]
       /\ shutdown["parser"] => sent'["pkt"] = sent["pkt"]]_vars

\* From the moment all parsers have started, struct parser counts every packet
\* processed, once.
CountsOnceStarted ==
    [][(\A p \in Parser : Started(p)) =>
          count'["parser"] - count["parser"] = done'["pkt"] - done["pkt"]]_vars

\* A packet that is sent meets a parser that still listens, and is counted.
SentWhileHeard == NoSendAfterConsumersStop /\ CountsOnceStarted

\* However the start-up fails, main gives up everything it had opened, the
\* socket of the inputer excepted.
ErrorPathReleases ==
    main = "exit1" => \A x \in Resource \ {"puller"} : ~Open(x)

\* main gives up what it has opened once, after its last use, on every path.
ReleasesInOrder == TypeOK /\ NoUseAfterRelease /\ ErrorPathReleases

\* A signal that the event loop handles when every thread has started makes
\* main stop and join them all and exit: each notices its flag, in a blocking
\* call, asleep or between two of them.
ShutdownCompletes ==
    (main = "loop" /\ signal /\ AllStarted) ~> main = "exit0"

\* Once the packets stop coming every one that was sent is processed, unless
\* main stops the parsers first.
PacketsGetParsed ==
    done["pkt"] < sent["pkt"]
        ~> (done["pkt"] = sent["pkt"] \/ shutdown["parser"])

\* inputer.c: "use inputer.shutdown to async stop": a thread that is told to
\* stop stops, so a signal ends the process whenever it comes.
SignalEndsProcess == signal ~> main \in {"exit0", "exit1"}
=============================================================================
