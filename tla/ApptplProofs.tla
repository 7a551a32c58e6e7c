----------------------------- MODULE ApptplProofs -----------------------------
(***************************************************************************)
(* Proofs about the life of apptpl for any number of parser threads, of    *)
(* messages and of packets.                                                *)
(*                                                                         *)
(* Where the main thread is decides what is open (Owned) and which threads *)
(* have ended (Ordered): a resource is released behind the join of the     *)
(* last thread that uses it.  The messages are counted on both sides of    *)
(* each channel, and the consumers that hold one are finitely many.        *)
(***************************************************************************)
EXTENDS Apptpl, FiniteSetTheorems, TLAPS

\* Where main is before it has a thread, and behind each of its joins.
Early       == {"magt_init", "inputer_open", "parser_create", "capture_open", "err", "exit1"}
PastWorker  == {"stop_parsers", "join_parsers", "exit0"}
PastCapture == {"stop_worker", "join_worker"} \cup PastWorker
PastInputer == {"stop_capture", "join_capture"} \cup PastCapture
BeforeClose == {"spawn_worker", "spawn_inputer", "spawn_parsers", "spawn_capture", "loop",
                "magt_close"}

\* Threads exist behind the start-up, and main waits for each before it goes on.
Ordered ==
    /\ main \in Early \cup {"spawn_worker"} => \A t \in Thread : thr[t] = "none"
    /\ main = "spawn_inputer" => thr["inputer"] = "none"
    /\ main \in PastInputer => thr["inputer"] = "ended"
    /\ main \in PastCapture => thr["capture"] = "ended"
    /\ main \in PastWorker => thr["worker"] = "ended"
    /\ main = "exit0" => \A p \in Parser : thr[p] = "ended"

\* A thread is at a place of its own loop.
Placed ==
    /\ thr["inputer"] \in {"none", "created", "top", "call", "nap", "close", "ended"}
    /\ thr["capture"] \in {"none", "created", "top", "call", "nap", "stats", "ended"}
    /\ \A t \in Consumer : thr[t] \in {"none", "created", "top", "call", "busy", "ended"}

\* What is open while main starts up, gives up, or has its threads running.
Starting ==
    /\ main = "magt_init" => \A x \in Resource : res[x] = "absent"
    /\ main \in {"inputer_open", "parser_create", "capture_open", "err"} =>
          Open("magt") /\ Open("chans") /\ res["pcap"] = "absent"
    /\ main = "inputer_open" => res["puller"] = "absent"
    /\ main \in {"inputer_open", "parser_create"} =>
          res["words"] = "absent" /\ res["regex"] = "absent"
    /\ main \in {"parser_create", "capture_open"} => Open("puller")
    /\ main = "capture_open" => Open("words") /\ Open("regex")
    /\ main = "exit1" => \A x \in Resource \ {"puller"} : ~Open(x)
    /\ main \in Early => \A x \in Resource : res[x] # "released twice"

Running ==
    main \notin Early =>
        /\ res["magt"] = IF main \in BeforeClose THEN "open" ELSE "closed"
        /\ res["pcap"] = IF main \in PastCapture THEN "closed" ELSE "open"
        /\ res["puller"] = IF thr["inputer"] = "ended" THEN "closed" ELSE "open"
        /\ \A x \in {"words", "regex", "chans"} :
              res[x] = IF main = "exit0" THEN "closed" ELSE "open"

\* A consumer is told to stop when its producer has ended.
Told ==
    /\ shutdown["worker"] => main \in PastInputer
    /\ shutdown["parser"] => main \in PastCapture \cup {"exit1"}

\* The inductive invariant.
IInv == TypeOK /\ Ordered /\ Placed /\ Starting /\ Running /\ Told /\ MessagesAccounted
-----------------------------------------------------------------------------
(***************************************************************************)
(* Types.  TypeOK in parts, so that a step is looked at one part at a time.*)
(***************************************************************************)

TypeMain   == main \in MainPCs
TypeThr    == thr \in [Thread -> ThreadPCs]
TypeFlags  == shutdown \in [Component -> BOOLEAN] /\ breakloop \in BOOLEAN /\ signal \in BOOLEAN
TypeCounts ==
    /\ count \in [Component -> Nat]
    /\ sent \in [Channel -> Nat]
    /\ taken \in [Channel -> Nat]
    /\ done \in [Channel -> Nat]
    /\ arrived \in [Channel -> Nat]
    /\ dropped \in Nat
TypeRes    == res \in [Resource -> {"absent", "open", "closed", "released twice"}]
TypeParts  == TypeMain /\ TypeThr /\ TypeFlags /\ TypeCounts /\ TypeRes

\* The type invariant, in parts.
LEMMA PartsAreTypeOK == TypeOK <=> TypeParts
  BY DEF TypeOK, TypeParts, TypeMain, TypeThr, TypeFlags, TypeCounts, TypeRes

\* A thread has a struct and a channel, and the parsers share theirs.
LEMMA StructType ==
    /\ \A t \in Thread : StructOf(t) \in Component /\ ChanOf(t) \in Channel
    /\ \A t \in {"inputer", "capture", "worker"} : StructOf(t) = t /\ t \notin Parser
    /\ \A p \in Parser : StructOf(p) = "parser" /\ ChanOf(p) = "pkt"
    /\ ChanOf("inputer") = "msg" /\ ChanOf("worker") = "msg" /\ ChanOf("capture") = "pkt"
  BY ThreadNamesAssumption DEF Thread, StructOf, ChanOf, Component, Channel

\* The steps that only move a thread.
LEMMA Moves ==
    ASSUME NEW t \in Thread
    PROVE  /\ LoopTest(t, "close") \/ LoopTest(t, "stats") \/ LoopTest(t, "ended")
                => \E from, to \in ThreadPCs : Move(t, from, to)
                      /\ UNCHANGED <<main, shutdown, res, signal, work>>
           /\ t = "inputer" /\ (InputerRetry \/ InputerBreak \/ InputerNap)
                => \E from, to \in ThreadPCs : Move(t, from, to)
                      /\ UNCHANGED <<main, shutdown, res, signal, work>>
           /\ t = "capture" /\ (CaptureNap \/ DispatchFails \/ CaptureEnd)
                => \E from, to \in ThreadPCs : Move(t, from, to)
                      /\ UNCHANGED <<main, shutdown, res, signal, work>>
  BY DEF LoopTest, InputerRetry, InputerBreak, InputerNap, CaptureNap, DispatchFails, CaptureEnd,
         ThreadPCs

\* Types.
LEMMA TypeStep == TypeParts /\ [Next]_vars => TypeParts'
<1> SUFFICES ASSUME TypeParts, [Next]_vars PROVE TypeParts'
  OBVIOUS
<1> USE DEF TypeParts
<1>1. CASE MagtInit
  <2>1. TypeMain'
    BY <1>1 DEF MagtInit, Goto, MainPCs, TypeMain
  <2>2. TypeRes'
    BY <1>1 DEF MagtInit, Goto, Resource, TypeRes
  <2>3. TypeThr' /\ TypeFlags' /\ TypeCounts'
    BY <1>1 DEF MagtInit, work, TypeThr, TypeFlags, TypeCounts
  <2>4. QED
    BY <2>1, <2>2, <2>3
<1>2. CASE InputerOpen
  <2>1. TypeMain'
    BY <1>2 DEF InputerOpen, Goto, MainPCs, TypeMain
  <2>2. TypeRes'
    BY <1>2 DEF InputerOpen, Goto, Resource, TypeRes
  <2>3. TypeThr' /\ TypeFlags' /\ TypeCounts'
    BY <1>2 DEF InputerOpen, work, TypeThr, TypeFlags, TypeCounts
  <2>4. QED
    BY <2>1, <2>2, <2>3
<1>3. CASE ParserCreate
  <2>1. TypeMain'
    BY <1>3 DEF ParserCreate, Goto, MainPCs, TypeMain
  <2>2. TypeRes'
    BY <1>3 DEF ParserCreate, Goto, Resource, TypeRes
  <2>3. TypeThr' /\ TypeFlags' /\ TypeCounts'
    BY <1>3 DEF ParserCreate, work, TypeThr, TypeFlags, TypeCounts
  <2>4. QED
    BY <2>1, <2>2, <2>3
<1>4. CASE CaptureOpen
  <2>1. TypeMain'
    BY <1>4 DEF CaptureOpen, Goto, MainPCs, TypeMain
  <2>2. TypeRes'
    BY <1>4 DEF CaptureOpen, Goto, Resource, TypeRes
  <2>3. TypeThr' /\ TypeFlags' /\ TypeCounts'
    BY <1>4 DEF CaptureOpen, work, TypeThr, TypeFlags, TypeCounts
  <2>4. QED
    BY <2>1, <2>2, <2>3
<1>5. CASE ErrExit
  <2>1. TypeMain'
    BY <1>5 DEF ErrExit, Goto, MainPCs, TypeMain
  <2>2. TypeFlags'
    BY <1>5 DEF ErrExit, Component, work, TypeFlags
  <2>3. TypeRes'
    BY <1>5 DEF ErrExit, Released, ReleasedIfOpen, Resource, TypeRes
  <2>4. TypeThr' /\ TypeCounts'
    BY <1>5 DEF ErrExit, work, TypeThr, TypeCounts
  <2>5. QED
    BY <2>1, <2>2, <2>3, <2>4
<1>6. ASSUME NEW T, NEW from, NEW to \in MainPCs, Spawn(T, from, to)
      PROVE  TypeParts'
  <2>1. TypeMain'
    BY <1>6 DEF Spawn, Goto, TypeMain
  <2>2. TypeThr'
    BY <1>6 DEF Spawn, ThreadPCs, TypeThr
  <2>3. TypeFlags' /\ TypeCounts' /\ TypeRes'
    BY <1>6 DEF Spawn, work, TypeFlags, TypeCounts, TypeRes
  <2>4. QED
    BY <2>1, <2>2, <2>3
<1>7. CASE SpawnParser
  <2>1. TypeMain'
    BY <1>7 DEF SpawnParser, MainPCs, TypeMain
  <2>2. TypeThr'
    BY <1>7 DEF SpawnParser, ThreadPCs, Thread, TypeThr
  <2>3. TypeFlags' /\ TypeCounts' /\ TypeRes'
    BY <1>7 DEF SpawnParser, work, TypeFlags, TypeCounts, TypeRes
  <2>4. QED
    BY <2>1, <2>2, <2>3
<1>8. CASE SignalArrives
  <2>1. TypeFlags'
    BY <1>8 DEF SignalArrives, work, TypeFlags
  <2>2. TypeMain' /\ TypeThr' /\ TypeCounts' /\ TypeRes'
    BY <1>8 DEF SignalArrives, work, TypeMain, TypeThr, TypeCounts, TypeRes
  <2>3. QED
    BY <2>1, <2>2
<1>9. CASE LoopBreak
  <2>1. TypeMain'
    BY <1>9 DEF LoopBreak, Goto, MainPCs, TypeMain
  <2>2. TypeThr' /\ TypeFlags' /\ TypeCounts' /\ TypeRes'
    BY <1>9 DEF LoopBreak, work, TypeThr, TypeFlags, TypeCounts, TypeRes
  <2>3. QED
    BY <2>1, <2>2
<1>10. CASE MagtClose
  <2>1. TypeMain'
    BY <1>10 DEF MagtClose, Goto, MainPCs, TypeMain
  <2>2. TypeRes'
    BY <1>10 DEF MagtClose, Released, Resource, TypeRes
  <2>3. TypeThr' /\ TypeFlags' /\ TypeCounts'
    BY <1>10 DEF MagtClose, work, TypeThr, TypeFlags, TypeCounts
  <2>4. QED
    BY <2>1, <2>2, <2>3
<1>11. ASSUME NEW c \in Component, NEW from, NEW to \in MainPCs, Stop(c, from, to), UNCHANGED work
       PROVE  TypeParts'
  <2>1. TypeMain'
    BY <1>11 DEF Stop, Goto, TypeMain
  <2>2. TypeFlags'
    BY <1>11 DEF Stop, Component, work, TypeFlags
  <2>3. TypeThr' /\ TypeCounts' /\ TypeRes'
    BY <1>11 DEF Stop, work, TypeThr, TypeCounts, TypeRes
  <2>4. QED
    BY <2>1, <2>2, <2>3
<1>12. CASE CaptureStop
  <2>1. TypeMain'
    BY <1>12 DEF CaptureStop, Stop, Goto, MainPCs, TypeMain
  <2>2. TypeFlags'
    BY <1>12 DEF CaptureStop, Stop, Goto, Component, TypeFlags
  <2>3. TypeThr' /\ TypeCounts' /\ TypeRes'
    BY <1>12 DEF CaptureStop, Stop, Goto, work, TypeThr, TypeCounts, TypeRes
  <2>4. QED
    BY <2>1, <2>2, <2>3
<1>13. ASSUME NEW T, NEW from, NEW to \in MainPCs, Join(T, from, to), UNCHANGED <<shutdown, res>>
       PROVE  TypeParts'
  <2>1. TypeMain'
    BY <1>13 DEF Join, Goto, TypeMain
  <2>2. TypeThr' /\ TypeFlags' /\ TypeCounts' /\ TypeRes'
    BY <1>13 DEF Join, work, TypeThr, TypeFlags, TypeCounts, TypeRes
  <2>3. QED
    BY <2>1, <2>2
<1>14. CASE JoinCapture
  <2>1. TypeMain'
    BY <1>14 DEF JoinCapture, Join, Goto, MainPCs, TypeMain
  <2>2. TypeRes'
    BY <1>14 DEF JoinCapture, Join, Goto, ReleasedIfOpen, Resource, TypeRes
  <2>3. TypeThr' /\ TypeFlags' /\ TypeCounts'
    BY <1>14 DEF JoinCapture, Join, work, TypeThr, TypeFlags, TypeCounts
  <2>4. QED
    BY <2>1, <2>2, <2>3
<1>15. CASE JoinParsers
  <2>1. TypeMain'
    BY <1>15 DEF JoinParsers, Join, Goto, MainPCs, TypeMain
  <2>2. TypeFlags'
    BY <1>15 DEF JoinParsers, Join, Component, work, TypeFlags
  <2>3. TypeRes'
    BY <1>15 DEF JoinParsers, Join, Released, ReleasedIfOpen, Resource, TypeRes
  <2>4. TypeThr' /\ TypeCounts'
    BY <1>15 DEF JoinParsers, Join, work, TypeThr, TypeCounts
  <2>5. QED
    BY <2>1, <2>2, <2>3, <2>4
<1>16. ASSUME NEW t \in Thread, Start(t)
       PROVE  TypeParts'
  <2>1. TypeThr'
    BY <1>16 DEF Start, Move, ThreadPCs, TypeThr
  <2>2. TypeFlags'
    BY <1>16, StructType DEF Start, Move, TypeFlags
  <2>3. TypeCounts'
    BY <1>16, StructType DEF Start, Move, TypeCounts
  <2>4. TypeMain' /\ TypeRes'
    BY <1>16 DEF Start, Move, work, TypeMain, TypeRes
  <2>5. QED
    BY <2>1, <2>2, <2>3, <2>4
<1>17. ASSUME NEW t \in Thread, NEW from, NEW to \in ThreadPCs, Move(t, from, to),
             UNCHANGED <<main, shutdown, res, signal, work>>
       PROVE  TypeParts'
  <2>1. TypeThr'
    BY <1>17 DEF Move, TypeThr
  <2>2. TypeMain' /\ TypeFlags' /\ TypeCounts' /\ TypeRes'
    BY <1>17 DEF Move, work, TypeMain, TypeFlags, TypeCounts, TypeRes
  <2>3. QED
    BY <2>1, <2>2
<1>18. CASE InputerMessage
  <2>1. TypeThr'
    BY <1>18 DEF InputerMessage, Produce, ThreadPCs, TypeThr
  <2>2. TypeCounts'
    BY <1>18, StructType DEF InputerMessage, Produce, Component, Channel, ChanOf, TypeCounts
  <2>3. TypeMain' /\ TypeFlags' /\ TypeRes'
    BY <1>18 DEF InputerMessage, Produce, work, TypeMain, TypeFlags, TypeRes
  <2>4. QED
    BY <2>1, <2>2, <2>3
<1>19. CASE InputerClose
  <2>1. TypeThr'
    BY <1>19 DEF InputerClose, Move, ThreadPCs, TypeThr
  <2>2. TypeRes'
    BY <1>19 DEF InputerClose, Move, Released, Resource, TypeRes
  <2>3. TypeMain' /\ TypeFlags' /\ TypeCounts'
    BY <1>19 DEF InputerClose, Move, work, TypeMain, TypeFlags, TypeCounts
  <2>4. QED
    BY <2>1, <2>2, <2>3
<1>20. CASE PktCb
  <2>1. TypeThr'
    BY <1>20 DEF PktCb, Produce, ThreadPCs, TypeThr
  <2>2. TypeCounts'
    BY <1>20, StructType DEF PktCb, Produce, Component, Channel, ChanOf, TypeCounts
  <2>3. TypeMain' /\ TypeFlags' /\ TypeRes'
    BY <1>20 DEF PktCb, Produce, work, TypeMain, TypeFlags, TypeRes
  <2>4. QED
    BY <2>1, <2>2, <2>3
<1>21. CASE DispatchReturns
  <2>1. TypeThr'
    BY <1>21 DEF DispatchReturns, Move, ThreadPCs, TypeThr
  <2>2. TypeFlags'
    BY <1>21 DEF DispatchReturns, Move, TypeFlags
  <2>3. TypeMain' /\ TypeCounts' /\ TypeRes'
    BY <1>21 DEF DispatchReturns, Move, work, TypeMain, TypeCounts, TypeRes
  <2>4. QED
    BY <2>1, <2>2, <2>3
<1>22. ASSUME NEW t \in Thread, Receive(t)
       PROVE  TypeParts'
  <2>1. TypeThr'
    BY <1>22 DEF Receive, Move, ThreadPCs, TypeThr
  <2>2. TypeCounts'
    BY <1>22, StructType DEF Receive, Move, TypeCounts
  <2>3. TypeMain' /\ TypeFlags' /\ TypeRes'
    BY <1>22 DEF Receive, Move, work, TypeMain, TypeFlags, TypeRes
  <2>4. QED
    BY <2>1, <2>2, <2>3
<1>23. ASSUME NEW t \in Thread, Process(t)
       PROVE  TypeParts'
  <2>1. TypeThr'
    BY <1>23 DEF Process, Move, ThreadPCs, TypeThr
  <2>2. TypeCounts'
    BY <1>23, StructType DEF Process, Move, TypeCounts
  <2>3. TypeMain' /\ TypeFlags' /\ TypeRes'
    BY <1>23 DEF Process, Move, work, TypeMain, TypeFlags, TypeRes
  <2>4. QED
    BY <2>1, <2>2, <2>3
<1>24. CASE UNCHANGED vars
  BY <1>24 DEF vars, work, TypeMain, TypeThr, TypeFlags, TypeCounts, TypeRes
<1>25. CASE Main
  <2>1. CASE Startup
    <3>1. {"spawn_inputer", "spawn_parsers", "loop"} \subseteq MainPCs
      BY DEF MainPCs
    <3>2. QED
      BY <1>1, <1>2, <1>3, <1>4, <1>5, <1>6, <1>7, <2>1, <3>1 DEF Startup
  <2>2. CASE Shutdown
    <3>1. {"join_inputer", "stop_capture", "join_worker", "stop_parsers", "join_parsers"}
             \subseteq MainPCs /\ {"inputer", "worker", "parser"} \subseteq Component
      BY DEF MainPCs, Component
    <3>2. QED
      BY <1>9, <1>10, <1>11, <1>12, <1>13, <1>14, <1>15, <2>2, <3>1
         DEF Shutdown, InputerStop, WorkerStop, ParserStop, JoinInputer, JoinWorker
  <2>3. QED
    BY <1>25, <2>1, <2>2 DEF Main
<1>26. CASE InputerLoop \/ CaptureLoop
  BY <1>16, <1>17, <1>18, <1>19, <1>20, <1>21, <1>26, Moves DEF InputerLoop, CaptureLoop, Thread
<1>27. CASE WorkerLoop \/ \E p \in Parser : ParserLoop(p)
  BY <1>16, <1>17, <1>22, <1>23, <1>27, Moves DEF WorkerLoop, ParserLoop, Thread
<1>28. QED
  BY <1>8, <1>24, <1>25, <1>26, <1>27 DEF Next
-----------------------------------------------------------------------------
(***************************************************************************)
(* The order of the way up and down.                                       *)
(***************************************************************************)

\* A step of a thread moves that thread, which is neither to come nor gone.
LEMMA ThreadStep ==
    ASSUME TypeParts,
           InputerLoop \/ CaptureLoop \/ WorkerLoop \/ \E p \in Parser : ParserLoop(p)
    PROVE  /\ main' = main
           /\ \E t \in Thread : /\ thr[t] \notin {"none", "ended"} /\ thr'[t] # "none"
                                /\ \A u \in Thread \ {t} : thr'[u] = thr[u]
<1> USE DEF TypeParts, TypeThr, Move
<1>1. ASSUME NEW t \in Thread,
             \/ Start(t) \/ Receive(t) \/ Process(t)
             \/ LoopTest(t, "close") \/ LoopTest(t, "stats") \/ LoopTest(t, "ended")
      PROVE  /\ main' = main
             /\ thr[t] \notin {"none", "ended"} /\ thr'[t] # "none"
             /\ \A u \in Thread \ {t} : thr'[u] = thr[u]
  BY <1>1 DEF Start, Receive, Process, LoopTest
<1>2. ASSUME InputerMessage \/ InputerRetry \/ InputerBreak \/ InputerNap \/ InputerClose
      PROVE  /\ main' = main
             /\ thr["inputer"] \notin {"none", "ended"} /\ thr'["inputer"] # "none"
             /\ \A u \in Thread \ {"inputer"} : thr'[u] = thr[u]
  BY <1>2 DEF InputerMessage, InputerRetry, InputerBreak, InputerNap, InputerClose, Produce, Thread
<1>3. ASSUME PktCb \/ CaptureNap \/ DispatchReturns \/ DispatchFails \/ CaptureEnd
      PROVE  /\ main' = main
             /\ thr["capture"] \notin {"none", "ended"} /\ thr'["capture"] # "none"
             /\ \A u \in Thread \ {"capture"} : thr'[u] = thr[u]
  BY <1>3 DEF PktCb, CaptureNap, DispatchReturns, DispatchFails, CaptureEnd, Produce, Thread
<1>4. CASE InputerLoop
  BY <1>1, <1>2, <1>4 DEF InputerLoop, Thread
<1>5. CASE CaptureLoop
  BY <1>1, <1>3, <1>5 DEF CaptureLoop, Thread
<1>6. CASE WorkerLoop \/ \E p \in Parser : ParserLoop(p)
  BY <1>1, <1>6 DEF WorkerLoop, ParserLoop, Thread
<1>7. QED
  BY <1>4, <1>5, <1>6

\* What a step of main does to the threads, and when.
LEMMA MainStep ==
    ASSUME TypeParts, Main
    PROVE  /\ UNCHANGED <<count, sent, taken, done, arrived, dropped>>
           /\ \/ thr' = thr
              \/ /\ main \in BeforeClose /\ main' \in BeforeClose
                 /\ UNCHANGED <<res, shutdown>>
                 /\ \A t \in Thread : thr'[t] \in {thr[t], "created"}
                 /\ main # "spawn_inputer" => thr'["inputer"] = thr["inputer"]
<1>1. CASE MagtInit \/ InputerOpen \/ ParserCreate \/ CaptureOpen \/ ErrExit
  BY <1>1 DEF MagtInit, InputerOpen, ParserCreate, CaptureOpen, ErrExit, work
<1>2. CASE \/ Spawn({"worker"}, "spawn_worker", "spawn_inputer")
           \/ Spawn({"inputer"}, "spawn_inputer", "spawn_parsers")
           \/ Spawn({"capture"}, "spawn_capture", "loop")
  BY <1>2 DEF Spawn, Goto, work, BeforeClose, Thread
<1>3. CASE SpawnParser
  BY <1>3, ThreadNamesAssumption DEF SpawnParser, work, BeforeClose, TypeParts, TypeThr, Thread
<1>4. CASE Shutdown
  BY <1>4 DEF Shutdown, LoopBreak, MagtClose, InputerStop, JoinInputer, CaptureStop, JoinCapture,
              WorkerStop, JoinWorker, ParserStop, JoinParsers, Stop, Join, work
<1>5. QED
  BY <1>1, <1>2, <1>3, <1>4 DEF Main, Startup

\* main goes one way: from one place to the next, or to the error path.
LEMMA OneWay ==
    ASSUME Main
    PROVE  /\ main' \in Early => main \in Early /\ thr' = thr
           /\ main' = "spawn_worker" => main \in Early /\ thr' = thr
           /\ main' = "spawn_inputer" =>
                 /\ main = "spawn_worker"
                 /\ thr["inputer"] = "none" => thr'["inputer"] = "none"
           /\ main' \in PastInputer =>
                 thr' = thr /\ (main \in PastInputer \/ Ended({"inputer"}))
           /\ main' \in PastCapture => main \in PastCapture \/ Ended({"capture"})
           /\ main' \in PastWorker => main \in PastWorker \/ Ended({"worker"})
           /\ main' = "exit0" => Ended(Parser)
<1> USE DEF Early, PastInputer, PastCapture, PastWorker, Goto
<1>1. CASE MagtInit \/ InputerOpen \/ ParserCreate \/ CaptureOpen \/ ErrExit
  BY <1>1 DEF MagtInit, InputerOpen, ParserCreate, CaptureOpen, ErrExit
<1>2. CASE \/ Spawn({"worker"}, "spawn_worker", "spawn_inputer")
           \/ Spawn({"inputer"}, "spawn_inputer", "spawn_parsers")
           \/ Spawn({"capture"}, "spawn_capture", "loop") \/ SpawnParser
  BY <1>2 DEF Spawn, SpawnParser, Thread
<1>3. CASE LoopBreak \/ MagtClose \/ InputerStop \/ CaptureStop \/ WorkerStop \/ ParserStop
  BY <1>3 DEF LoopBreak, MagtClose, InputerStop, CaptureStop, WorkerStop, ParserStop, Stop
<1>4. CASE JoinInputer \/ JoinCapture \/ JoinWorker \/ JoinParsers
  BY <1>4 DEF JoinInputer, JoinCapture, JoinWorker, JoinParsers, Join
<1>5. QED
  BY <1>1, <1>2, <1>3, <1>4 DEF Main, Startup, Shutdown

\* The threads start and end in the order of main.
LEMMA OrderedStep == TypeParts /\ Ordered /\ [Next]_vars => Ordered'
<1> SUFFICES ASSUME TypeParts, Ordered, [Next]_vars PROVE Ordered'
  OBVIOUS
<1>1. CASE Main
  BY <1>1, OneWay DEF Ordered, Ended, Thread, PastInputer, PastCapture, PastWorker
<1>2. CASE InputerLoop \/ CaptureLoop \/ WorkerLoop \/ \E p \in Parser : ParserLoop(p)
  <2>1. PICK t \in Thread : /\ thr[t] \notin {"none", "ended"}
                            /\ \A u \in Thread \ {t} : thr'[u] = thr[u]
    BY <1>2, ThreadStep
  <2>2. main' = main /\ main \notin Early
    BY <1>2, <2>1, ThreadStep DEF Ordered
  <2>3. \A u \in Thread : thr[u] \in {"none", "ended"} => thr'[u] = thr[u]
    BY <2>1
  <2>4. QED
    BY <2>2, <2>3 DEF Ordered, Thread
<1>3. CASE SignalArrives \/ UNCHANGED vars
  BY <1>3 DEF SignalArrives, vars, Ordered
<1>4. QED
  BY <1>1, <1>2, <1>3 DEF Next

\* A thread is at a place of its own.
LEMMA PlacedStep == TypeParts /\ Placed /\ [Next]_vars => Placed'
<1> SUFFICES ASSUME TypeParts, Placed, [Next]_vars PROVE Placed'
  OBVIOUS
<1> USE StructType DEF TypeParts, TypeThr, Move
<1>1. CASE Main
  BY <1>1, MainStep DEF Placed, Thread, Consumer
<1>2. CASE InputerLoop
  <2>1. \A u \in Thread \ {"inputer"} : thr'[u] = thr[u]
    BY <1>2 DEF InputerLoop, Start, LoopTest, InputerMessage, InputerRetry, InputerBreak,
                InputerNap, InputerClose, Produce
  <2>2. thr'["inputer"] \in {"top", "call", "nap", "close", "ended"}
    BY <1>2 DEF InputerLoop, Start, LoopTest, InputerMessage, InputerRetry, InputerBreak,
                InputerNap, InputerClose, Produce, Thread
  <2>3. QED
    BY <2>1, <2>2 DEF Placed, Thread, Consumer
<1>3. CASE CaptureLoop
  <2>1. \A u \in Thread \ {"capture"} : thr'[u] = thr[u]
    BY <1>3 DEF CaptureLoop, Start, LoopTest, PktCb, CaptureNap, DispatchReturns, DispatchFails,
                CaptureEnd, Produce
  <2>2. thr'["capture"] \in {"top", "call", "nap", "stats", "ended"}
    BY <1>3 DEF CaptureLoop, Start, LoopTest, PktCb, CaptureNap, DispatchReturns, DispatchFails,
                CaptureEnd, Produce, Thread
  <2>3. QED
    BY <2>1, <2>2 DEF Placed, Thread, Consumer
<1>4. ASSUME NEW t \in Consumer, Start(t) \/ LoopTest(t, "ended") \/ Receive(t) \/ Process(t)
      PROVE  Placed'
  <2>1. \A u \in Thread \ {t} : thr'[u] = thr[u]
    BY <1>4 DEF Start, LoopTest, Receive, Process
  <2>2. thr'[t] \in {"top", "call", "busy", "ended"}
    BY <1>4 DEF Start, LoopTest, Receive, Process, Thread, Consumer
  <2>3. QED
    BY <2>1, <2>2 DEF Placed, Thread, Consumer
<1>5. CASE SignalArrives \/ UNCHANGED vars
  BY <1>5 DEF SignalArrives, vars, Placed
<1>6. QED
  BY <1>1, <1>2, <1>3, <1>4, <1>5 DEF Next, WorkerLoop, ParserLoop, Consumer
-----------------------------------------------------------------------------
(***************************************************************************)
(* What is open.                                                           *)
(***************************************************************************)

\* A thread releases nothing but the socket of the inputer, as its last act.
LEMMA ThreadsRelease ==
    ASSUME TypeParts, Placed,
           InputerLoop \/ CaptureLoop \/ WorkerLoop \/ \E p \in Parser : ParserLoop(p)
    PROVE  \/ res' = res /\ (thr'["inputer"] = "ended" <=> thr["inputer"] = "ended")
           \/ /\ thr["inputer"] = "close" /\ thr'["inputer"] = "ended"
              /\ res' = [res EXCEPT !["puller"] = Released("puller")]
<1> USE StructType DEF TypeParts, TypeThr, Move, Thread
<1>1. CASE InputerLoop
  BY <1>1 DEF InputerLoop, Start, LoopTest, InputerMessage, InputerRetry, InputerBreak, InputerNap,
              InputerClose, Produce
<1>2. CASE CaptureLoop
  BY <1>2 DEF CaptureLoop, Start, LoopTest, PktCb, CaptureNap, DispatchReturns, DispatchFails,
              CaptureEnd, Produce
<1>3. CASE WorkerLoop
  BY <1>3 DEF WorkerLoop, Start, LoopTest, Receive, Process
<1>4. ASSUME NEW p \in Parser, ParserLoop(p)
      PROVE  res' = res /\ thr'["inputer"] = thr["inputer"]
  BY <1>4 DEF ParserLoop, Start, LoopTest, Receive, Process
<1>5. QED
  BY <1>1, <1>2, <1>3, <1>4

\* Up to the creation of the threads.
LEMMA StartingStep ==
    TypeParts /\ Ordered /\ Placed /\ Starting /\ [Next]_vars => Starting'
<1> SUFFICES ASSUME TypeParts, Ordered, Placed, Starting, [Next]_vars PROVE Starting'
  OBVIOUS
<1> USE DEF Starting, Early, Open, Goto, Resource
<1>1. CASE MagtInit
  BY <1>1 DEF MagtInit, TypeParts, TypeRes
<1>2. CASE InputerOpen
  BY <1>2 DEF InputerOpen, TypeParts, TypeRes
<1>3. CASE ParserCreate
  BY <1>3 DEF ParserCreate, TypeParts, TypeRes
<1>4. CASE CaptureOpen
  BY <1>4 DEF CaptureOpen, TypeParts, TypeRes
<1>5. CASE ErrExit
  BY <1>5 DEF ErrExit, Released, ReleasedIfOpen, TypeParts, TypeRes
<1>6. ASSUME main' \notin Early
      PROVE  Starting'
  BY <1>6
<1>7. CASE \/ Spawn({"worker"}, "spawn_worker", "spawn_inputer")
           \/ Spawn({"inputer"}, "spawn_inputer", "spawn_parsers")
           \/ Spawn({"capture"}, "spawn_capture", "loop") \/ SpawnParser
  BY <1>6, <1>7 DEF Spawn, SpawnParser
<1>8. CASE Shutdown
  BY <1>6, <1>8 DEF Shutdown, LoopBreak, MagtClose, InputerStop, JoinInputer, CaptureStop,
                    JoinCapture, WorkerStop, JoinWorker, ParserStop, JoinParsers, Stop, Join
<1>9. CASE InputerLoop \/ CaptureLoop \/ WorkerLoop \/ \E p \in Parser : ParserLoop(p)
  BY <1>6, <1>9, ThreadStep DEF Ordered
<1>10. CASE SignalArrives \/ UNCHANGED vars
  BY <1>10 DEF SignalArrives, vars
<1>11. QED
  BY <1>1, <1>2, <1>3, <1>4, <1>5, <1>7, <1>8, <1>9, <1>10 DEF Next, Main, Startup

\* With the threads, and behind them.
LEMMA RunningStep ==
    TypeParts /\ Ordered /\ Placed /\ Starting /\ Running /\ [Next]_vars => Running'
<1> SUFFICES ASSUME TypeParts, Ordered, Placed, Starting, Running, [Next]_vars,
                    main' \notin Early
             PROVE  Running'
  BY DEF Running
<1> USE DEF Running, Early, BeforeClose, PastCapture, PastWorker, Goto
<1>1. CASE MagtInit \/ InputerOpen \/ ParserCreate \/ ErrExit
  BY <1>1 DEF MagtInit, InputerOpen, ParserCreate, ErrExit
<1>2. CASE CaptureOpen
  BY <1>2 DEF CaptureOpen, Starting, Ordered, Open, Resource, TypeParts, TypeRes, Thread
<1>3. CASE \/ Spawn({"worker"}, "spawn_worker", "spawn_inputer")
           \/ Spawn({"inputer"}, "spawn_inputer", "spawn_parsers")
           \/ Spawn({"capture"}, "spawn_capture", "loop") \/ SpawnParser
  <2>1. main \notin Early /\ main' \in BeforeClose /\ main \in BeforeClose /\ res' = res
    BY <1>3 DEF Spawn, SpawnParser
  <2>2. thr'["inputer"] = "ended" <=> thr["inputer"] = "ended"
    BY <1>3, StructType DEF Spawn, SpawnParser, Ordered, TypeParts, TypeThr, Thread
  <2>3. QED
    BY <2>1, <2>2
<1>4. CASE LoopBreak \/ InputerStop \/ CaptureStop \/ WorkerStop \/ ParserStop
  BY <1>4 DEF LoopBreak, InputerStop, CaptureStop, WorkerStop, ParserStop, Stop
<1>5. CASE MagtClose
  BY <1>5 DEF MagtClose, Released, Resource, TypeParts, TypeRes
<1>6. CASE JoinInputer \/ JoinWorker
  BY <1>6 DEF JoinInputer, JoinWorker, Join
<1>7. CASE JoinCapture
  BY <1>7 DEF JoinCapture, Join, ReleasedIfOpen, Resource, TypeParts, TypeRes
<1>8. CASE JoinParsers
  BY <1>8 DEF JoinParsers, Join, Released, ReleasedIfOpen, Resource, TypeParts, TypeRes
<1>9. CASE InputerLoop \/ CaptureLoop \/ WorkerLoop \/ \E p \in Parser : ParserLoop(p)
  BY <1>9, ThreadStep, ThreadsRelease DEF Released, Resource, TypeParts, TypeRes
<1>10. CASE SignalArrives \/ UNCHANGED vars
  BY <1>10 DEF SignalArrives, vars
<1>11. QED
  BY <1>1, <1>2, <1>3, <1>4, <1>5, <1>6, <1>7, <1>8, <1>9, <1>10
     DEF Next, Main, Startup, Shutdown

\* The flag of a consumer is set by main only, behind the join of its producer.
LEMMA ToldStep == TypeParts /\ Told /\ [Next]_vars => Told'
<1> SUFFICES ASSUME TypeParts, Told, [Next]_vars PROVE Told'
  OBVIOUS
<1> USE StructType DEF Told, PastInputer, PastCapture, PastWorker, Goto, TypeParts, TypeFlags, Component
<1>1. CASE MagtInit \/ InputerOpen \/ ParserCreate \/ CaptureOpen
  BY <1>1 DEF MagtInit, InputerOpen, ParserCreate, CaptureOpen
<1>2. CASE ErrExit
  BY <1>2 DEF ErrExit
<1>3. CASE \/ Spawn({"worker"}, "spawn_worker", "spawn_inputer")
           \/ Spawn({"inputer"}, "spawn_inputer", "spawn_parsers")
           \/ Spawn({"capture"}, "spawn_capture", "loop") \/ SpawnParser
  BY <1>3 DEF Spawn, SpawnParser
<1>4. CASE LoopBreak \/ MagtClose \/ InputerStop \/ CaptureStop \/ WorkerStop \/ ParserStop
  BY <1>4 DEF LoopBreak, MagtClose, InputerStop, CaptureStop, WorkerStop, ParserStop, Stop
<1>5. CASE JoinInputer \/ JoinCapture \/ JoinWorker \/ JoinParsers
  BY <1>5 DEF JoinInputer, JoinCapture, JoinWorker, JoinParsers, Join
<1>6. ASSUME NEW t \in Thread, Start(t)
      PROVE  Told'
  BY <1>6 DEF Start
<1>7. ASSUME UNCHANGED <<main, shutdown>>
      PROVE  Told'
  BY <1>7
<1>8. ASSUME NEW t \in Thread,
             \/ LoopTest(t, "close") \/ LoopTest(t, "stats") \/ LoopTest(t, "ended")
             \/ Receive(t) \/ Process(t)
      PROVE  Told'
  BY <1>7, <1>8 DEF LoopTest, Receive, Process
<1>9. CASE InputerLoop
  BY <1>6, <1>7, <1>8, <1>9
     DEF InputerLoop, InputerMessage, InputerRetry, InputerBreak, InputerNap, InputerClose, Thread
<1>10. CASE CaptureLoop
  BY <1>6, <1>7, <1>8, <1>10
     DEF CaptureLoop, PktCb, CaptureNap, DispatchReturns, DispatchFails, CaptureEnd, Thread
<1>11. CASE WorkerLoop \/ \E p \in Parser : ParserLoop(p)
  BY <1>6, <1>8, <1>11 DEF WorkerLoop, ParserLoop, Thread
<1>12. CASE SignalArrives \/ UNCHANGED vars
  BY <1>7, <1>12 DEF SignalArrives, vars
<1>13. QED
  BY <1>1, <1>2, <1>3, <1>4, <1>5, <1>9, <1>10, <1>11, <1>12 DEF Next, Main, Startup, Shutdown
-----------------------------------------------------------------------------
(***************************************************************************)
(* The messages.                                                           *)
(***************************************************************************)

Holding(c) == {t \in Consumer : ChanOf(t) = c /\ thr[t] = "busy"}

\* Who is busy with a message of a channel is one of finitely many.
LEMMA HoldingFinite ==
    ASSUME NEW c \in Channel
    PROVE  IsFiniteSet(Holding(c)) /\ InHand(c) = Cardinality(Holding(c)) /\ InHand(c) \in Nat
<1>1. IsFiniteSet(Consumer)
  BY ParserAssumption, FS_Singleton, FS_Union DEF Consumer
<1>2. IsFiniteSet(Holding(c))
  BY <1>1, FS_Subset DEF Holding
<1>3. QED
  BY <1>2, FS_CardinalityType DEF InHand, Holding

\* Taking a message puts it in one more hand, processing it in one less.
LEMMA HandsChange ==
    ASSUME TypeParts, NEW t \in Consumer, NEW pc \in ThreadPCs, thr' = [thr EXCEPT ![t] = pc]
    PROVE  /\ thr[t] # "busy" /\ pc = "busy" => InHand(ChanOf(t))' = InHand(ChanOf(t)) + 1
           /\ thr[t] = "busy" /\ pc # "busy" => InHand(ChanOf(t))' = InHand(ChanOf(t)) - 1
           /\ \A c \in Channel : c # ChanOf(t) => InHand(c)' = InHand(c)
           /\ thr[t] # "busy" /\ pc # "busy" => \A c \in Channel : InHand(c)' = InHand(c)
<1> USE DEF TypeParts, TypeThr
<1> DEFINE c == ChanOf(t)
<1>1. c \in Channel /\ t \in Thread
  BY StructType DEF Consumer, Thread
<1>2. \A u \in Thread : thr'[u] = IF u = t THEN pc ELSE thr[u]
  BY <1>1
<1>3. Consumer \subseteq Thread
  BY DEF Consumer, Thread
<1>4. ASSUME thr[t] # "busy", pc = "busy"
      PROVE  Cardinality(Holding(c)') = Cardinality(Holding(c)) + 1
  <2>1. Holding(c)' = Holding(c) \cup {t} /\ t \notin Holding(c)
    BY <1>1, <1>2, <1>3, <1>4 DEF Holding
  <2>2. QED
    BY <1>1, <2>1, HoldingFinite, FS_AddElement
<1>5. ASSUME thr[t] = "busy", pc # "busy"
      PROVE  Cardinality(Holding(c)') = Cardinality(Holding(c)) - 1
  <2>1. Holding(c)' = Holding(c) \ {t} /\ t \in Holding(c)
    BY <1>1, <1>2, <1>3, <1>5 DEF Holding
  <2>2. QED
    BY <1>1, <2>1, HoldingFinite, FS_RemoveElement
<1>6. ASSUME NEW d \in Channel, d # c \/ (thr[t] # "busy" /\ pc # "busy")
      PROVE  Holding(d)' = Holding(d)
  BY <1>2, <1>3, <1>6 DEF Holding
<1>7. QED
  BY <1>1, <1>4, <1>5, <1>6 DEF InHand, Holding

\* Threads that are not consumers hold nothing, and so do new ones.
LEMMA HandsStay ==
    ASSUME \A t \in Consumer : thr'[t] = "busy" <=> thr[t] = "busy"
    PROVE  \A c \in Channel : InHand(c)' = InHand(c)
  BY DEF InHand, Consumer

\* main neither gives nor takes what a thread holds.
LEMMA MainHoldsNothing ==
    ASSUME TypeParts, Ordered, Placed, Main
    PROVE  \A t \in Thread : thr'[t] = "busy" <=> thr[t] = "busy"
<1>1. CASE \/ MagtInit \/ InputerOpen \/ ParserCreate \/ CaptureOpen \/ ErrExit \/ Shutdown
  BY <1>1 DEF MagtInit, InputerOpen, ParserCreate, CaptureOpen, ErrExit, Shutdown, LoopBreak,
              MagtClose, InputerStop, JoinInputer, CaptureStop, JoinCapture, WorkerStop, JoinWorker,
              ParserStop, JoinParsers, Stop, Join
<1>2. CASE Spawn({"worker"}, "spawn_worker", "spawn_inputer")
  BY <1>2 DEF Spawn, Goto, Ordered
<1>3. CASE Spawn({"inputer"}, "spawn_inputer", "spawn_parsers")
  BY <1>3 DEF Spawn, Goto, Ordered
<1>4. CASE Spawn({"capture"}, "spawn_capture", "loop")
  BY <1>4 DEF Spawn, Goto, Placed
<1>5. CASE SpawnParser
  BY <1>5 DEF SpawnParser, TypeParts, TypeThr
<1>6. QED
  BY <1>1, <1>2, <1>3, <1>4, <1>5 DEF Main, Startup

\* What has arrived, was sent and taken, channel by channel.
Flow ==
    /\ arrived["msg"] = sent["msg"]
    /\ arrived["pkt"] = sent["pkt"] + dropped
    /\ \A c \in Channel : taken[c] <= sent[c] /\ taken[c] = done[c] + InHand(c)

\* A message that arrived is dropped, done, in a queue or in hand.
LEMMA FlowStep == TypeParts /\ Ordered /\ Placed /\ Flow /\ [Next]_vars => Flow'
<1> SUFFICES ASSUME TypeParts, Ordered, Placed, Flow, [Next]_vars PROVE Flow'
  OBVIOUS
<1> USE StructType DEF TypeParts, TypeCounts, Channel
<1>1. ASSUME UNCHANGED <<sent, taken, done, arrived, dropped>>,
             \A t \in Consumer : thr'[t] = "busy" <=> thr[t] = "busy"
      PROVE  Flow'
  BY <1>1, HandsStay DEF Flow
<1>2. CASE Main
  BY <1>1, <1>2, MainStep, MainHoldsNothing DEF Thread, Consumer
<1>3. ASSUME NEW t \in Thread, NEW pc, thr[t] # "busy", pc # "busy", thr' = [thr EXCEPT ![t] = pc],
             UNCHANGED <<sent, taken, done, arrived, dropped>>
      PROVE  Flow'
  BY <1>1, <1>3 DEF TypeThr, Thread, Consumer
<1>4. ASSUME NEW t \in Thread,
             Start(t) \/ LoopTest(t, "close") \/ LoopTest(t, "stats") \/ LoopTest(t, "ended")
      PROVE  Flow'
  BY <1>3, <1>4 DEF Start, LoopTest, Move, work
<1>5. CASE InputerMessage
  <2>1. /\ arrived' = [arrived EXCEPT !["msg"] = @ + 1]
        /\ sent' = [sent EXCEPT !["msg"] = @ + 1]
        /\ UNCHANGED <<taken, done, dropped>>
    BY <1>5 DEF InputerMessage, Produce
  <2>2. \A t \in Consumer : thr'[t] = thr[t]
    BY <1>5 DEF InputerMessage, Produce, TypeThr, Thread, Consumer
  <2>3. \A c \in Channel : InHand(c)' = InHand(c)
    BY <2>2, HandsStay
  <2>4. QED
    BY <2>1, <2>3 DEF Flow
<1>6. CASE PktCb
  <2>1. /\ arrived' = [arrived EXCEPT !["pkt"] = @ + 1]
        /\ \/ sent' = [sent EXCEPT !["pkt"] = @ + 1] /\ dropped' = dropped
           \/ sent' = sent /\ dropped' = dropped + 1
        /\ UNCHANGED <<taken, done>>
    BY <1>6 DEF PktCb, Produce
  <2>2. \A t \in Consumer : thr'[t] = thr[t]
    BY <1>6 DEF PktCb, Produce, TypeThr, Thread, Consumer
  <2>3. \A c \in Channel : InHand(c)' = InHand(c)
    BY <2>2, HandsStay
  <2>4. QED
    BY <2>1, <2>3 DEF Flow
<1>7. CASE InputerRetry \/ InputerBreak \/ InputerNap \/ InputerClose
  BY <1>3, <1>7 DEF InputerRetry, InputerBreak, InputerNap, InputerClose, Move, work, Thread
<1>8. CASE CaptureNap \/ DispatchReturns \/ DispatchFails \/ CaptureEnd
  BY <1>3, <1>8 DEF CaptureNap, DispatchReturns, DispatchFails, CaptureEnd, Move, work, Thread
<1>9. ASSUME NEW t \in Consumer, Receive(t)
      PROVE  Flow'
  <2> DEFINE c == ChanOf(t)
  <2>1. t \in Thread /\ c \in Channel /\ UNCHANGED <<sent, done, arrived, dropped>>
    BY <1>9 DEF Receive, Thread, Consumer
  <2>2. CASE Queued(c) > 0 /\ Move(t, "call", "busy") /\ taken' = [taken EXCEPT ![c] = @ + 1]
    <3>1. InHand(c)' = InHand(c) + 1 /\ \A d \in Channel : d # c => InHand(d)' = InHand(d)
      BY <2>2, HandsChange DEF Move, ThreadPCs
    <3>2. \A d \in Channel : InHand(d) \in Nat
      BY HoldingFinite
    <3>3. QED
      BY <2>1, <2>2, <3>1, <3>2 DEF Flow, Queued
  <2>3. CASE Move(t, "call", "top") /\ taken' = taken
    BY <1>3, <2>1, <2>3 DEF Move
  <2>4. QED
    BY <1>9, <2>2, <2>3 DEF Receive
<1>10. ASSUME NEW t \in Consumer, Process(t)
       PROVE  Flow'
  <2> DEFINE c == ChanOf(t)
  <2>1. /\ t \in Thread /\ c \in Channel /\ UNCHANGED <<sent, taken, arrived, dropped>>
        /\ done' = [done EXCEPT ![c] = @ + 1]
    BY <1>10 DEF Process, Thread, Consumer
  <2>2. InHand(c)' = InHand(c) - 1 /\ \A d \in Channel : d # c => InHand(d)' = InHand(d)
    BY <1>10, HandsChange DEF Process, Move, ThreadPCs
  <2>3. \A d \in Channel : InHand(d) \in Nat
    BY HoldingFinite
  <2>4. QED
    BY <2>1, <2>2, <2>3 DEF Flow
<1>11. CASE SignalArrives \/ UNCHANGED vars
  BY <1>1, <1>11 DEF SignalArrives, vars, work
<1>12. CASE InputerLoop \/ CaptureLoop
  BY <1>4, <1>5, <1>6, <1>7, <1>8, <1>12 DEF InputerLoop, CaptureLoop, Thread
<1>13. CASE WorkerLoop \/ \E p \in Parser : ParserLoop(p)
  BY <1>4, <1>9, <1>10, <1>13 DEF WorkerLoop, ParserLoop, Thread, Consumer
<1>14. QED
  BY <1>2, <1>11, <1>12, <1>13 DEF Next

\* When main leaves, all consumers have ended, and none holds anything.
LEMMA NothingHeldAtExit ==
    ASSUME TypeParts, Ordered, main = "exit0", NEW c \in Channel
    PROVE  InHand(c) = 0
<1>1. \A t \in Consumer : thr[t] # "busy"
  BY DEF Ordered, PastWorker, Consumer
<1>2. Holding(c) = {}
  BY <1>1 DEF Holding
<1>3. QED
  BY <1>2, HoldingFinite, FS_EmptySet

\* At the end nothing is in hand.
LEMMA FlowIsAccounted ==
    ASSUME TypeParts, Ordered
    PROVE  MessagesAccounted <=> Flow
  BY NothingHeldAtExit, HoldingFinite DEF MessagesAccounted, Flow, TypeParts, TypeCounts
-----------------------------------------------------------------------------
(***************************************************************************)
(* The results.                                                            *)
(***************************************************************************)

\* The first state has the invariant.
LEMMA IInvInit == Init => IInv
<1> SUFFICES ASSUME Init PROVE IInv
  OBVIOUS
<1> USE DEF Init
<1>1. TypeParts
  BY DEF TypeParts, TypeMain, TypeThr, TypeFlags, TypeCounts, TypeRes, MainPCs, ThreadPCs
<1>2. Ordered /\ Placed /\ Told
  BY DEF Ordered, Placed, Told, PastWorker, PastCapture, PastInputer, Consumer, Thread, Component
<1>3. Starting /\ Running
  BY DEF Starting, Running, Early, Open
<1>4. Flow
  <2>1. ASSUME NEW c \in Channel
        PROVE  InHand(c) = 0
    <3>1. Holding(c) = {}
      BY DEF Holding, Thread, Consumer
    <3>2. QED
      BY <3>1, HoldingFinite, FS_EmptySet
  <2>2. QED
    BY <2>1 DEF Flow, Channel
<1>5. QED
  BY <1>1, <1>2, <1>3, <1>4, PartsAreTypeOK, FlowIsAccounted DEF IInv

\* Every step keeps it.
LEMMA IInvStep == IInv /\ [Next]_vars => IInv'
<1> SUFFICES ASSUME IInv, [Next]_vars PROVE IInv'
  OBVIOUS
<1>1. TypeParts /\ Ordered /\ Placed /\ Starting /\ Running /\ Told /\ Flow
  BY PartsAreTypeOK, FlowIsAccounted DEF IInv
<1>2. TypeParts' /\ Ordered' /\ Placed' /\ Starting' /\ Running' /\ Told' /\ Flow'
  BY <1>1, TypeStep, OrderedStep, PlacedStep, StartingStep, RunningStep, ToldStep, FlowStep
<1>3. TypeOK'
  BY <1>2 DEF TypeOK, TypeParts, TypeMain, TypeThr, TypeFlags, TypeCounts, TypeRes
<1>4. main' = "exit0" => \A c \in Channel : InHand(c)' = 0
  <2> SUFFICES ASSUME main' = "exit0", NEW c \in Channel PROVE InHand(c)' = 0
    OBVIOUS
  <2>1. \A t \in Consumer : thr'[t] # "busy"
    BY <1>2 DEF Ordered, PastWorker, Consumer
  <2>2. Holding(c)' = {} /\ InHand(c)' = Cardinality(Holding(c)')
    BY <2>1 DEF Holding, InHand
  <2>3. QED
    BY <2>2, FS_EmptySet
<1>5. MessagesAccounted'
  BY <1>2, <1>4 DEF MessagesAccounted, Flow, TypeParts, TypeCounts
<1>6. QED
  BY <1>2, <1>3, <1>5 DEF IInv

\* Every state has it.
LEMMA Inductive == Spec => []IInv
  BY IInvInit, IInvStep, PTL DEF Spec

\* No thread touches what main has released, nothing is released twice, and
\* the error path forgets nothing, for any number of parsers.
THEOREM ReleasedInOrder == Spec => []ReleasesInOrder
<1>1. ASSUME IInv
      PROVE  NoUseAfterRelease
  <2>1. \A x \in Resource : res[x] # "released twice"
    BY <1>1 DEF IInv, Starting, Running, Resource
  <2>2. ASSUME NEW t \in Thread, thr[t] \notin {"none", "ended"}
        PROVE  main \notin Early /\ main # "exit0" /\ Open("chans") /\ Open("words") /\ Open("regex")
    BY <1>1, <2>2 DEF IInv, Ordered, Running, Open, Thread, PastInputer, PastCapture, PastWorker
  <2>3. thr["inputer"] \in {"call", "nap"} => Open("puller") /\ Open("chans")
    BY <1>1, <2>2 DEF IInv, Running, Open, Thread
  <2>4. thr["capture"] \in {"call", "nap", "stats"} => Open("pcap") /\ Open("chans")
    BY <1>1, <2>2 DEF IInv, Ordered, Running, Open, Thread
  <2>5. QED
    BY <2>1, <2>2, <2>3, <2>4 DEF NoUseAfterRelease, Consumer, Thread
<1>2. IInv => ReleasesInOrder
  BY <1>1 DEF IInv, Starting, ReleasesInOrder, ErrorPathReleases
<1>3. QED
  BY Inductive, <1>2, PTL

\* Every message and every packet is sent or dropped, then processed once by
\* one consumer, for any number of them and of parsers.
THEOREM MessagesCounted == Spec => []MessagesAccounted
<1>1. IInv => MessagesAccounted
  BY DEF IInv
<1>2. QED
  BY Inductive, <1>1, PTL

\* A message is sent by its producer only, which is then in its call.
LEMMA SendersOnly ==
    ASSUME TypeParts, [Next]_vars
    PROVE  /\ sent'["msg"] # sent["msg"] => thr["inputer"] = "call"
           /\ sent'["pkt"] # sent["pkt"] => thr["capture"] = "call"
<1> USE StructType DEF TypeParts, TypeCounts, Channel
<1>1. ASSUME UNCHANGED sent
      PROVE  sent'["msg"] = sent["msg"] /\ sent'["pkt"] = sent["pkt"]
  BY <1>1
<1>2. CASE Main
  BY <1>1, <1>2, MainStep
<1>3. ASSUME NEW t \in Thread,
             Start(t) \/ LoopTest(t, "close") \/ LoopTest(t, "stats") \/ LoopTest(t, "ended")
                \/ Receive(t) \/ Process(t)
      PROVE  UNCHANGED sent
  BY <1>3 DEF Start, LoopTest, Receive, Process, work
<1>4. CASE InputerMessage
  BY <1>4 DEF InputerMessage, Produce
<1>5. CASE PktCb
  BY <1>5 DEF PktCb, Produce
<1>6. CASE \/ SignalArrives \/ InputerRetry \/ InputerBreak \/ InputerNap \/ InputerClose
           \/ CaptureNap \/ DispatchReturns \/ DispatchFails \/ CaptureEnd \/ UNCHANGED vars
  BY <1>1, <1>6 DEF SignalArrives, InputerRetry, InputerBreak, InputerNap, InputerClose, CaptureNap,
                    DispatchReturns, DispatchFails, CaptureEnd, vars, work
<1>7. QED
  BY <1>1, <1>2, <1>3, <1>4, <1>5, <1>6
     DEF Next, InputerLoop, CaptureLoop, WorkerLoop, ParserLoop, Thread

\* When all parsers have started, the counter of their struct and the packets
\* done move together.
LEMMA CountersMove ==
    ASSUME TypeParts, Placed, \A p \in Parser : Started(p), [Next]_vars
    PROVE  count'["parser"] - count["parser"] = done'["pkt"] - done["pkt"]
<1> USE StructType DEF TypeParts, TypeCounts, Channel, Component
<1>1. ASSUME count'["parser"] = count["parser"], done'["pkt"] = done["pkt"]
      PROVE  count'["parser"] - count["parser"] = done'["pkt"] - done["pkt"]
  BY <1>1
<1>2. CASE Main
  BY <1>1, <1>2, MainStep
<1>3. ASSUME NEW t \in {"inputer", "capture", "worker"}, Start(t) \/ Process(t)
      PROVE  count'["parser"] = count["parser"]
  BY <1>3 DEF Start, Process
<1>4. ASSUME NEW t \in Thread, Start(t)
      PROVE  t \notin Parser /\ UNCHANGED done
  BY <1>4 DEF Start, Move, Started
<1>5. ASSUME Process("worker")
      PROVE  done'["pkt"] = done["pkt"]
  BY <1>5 DEF Process
<1>6. ASSUME NEW p \in Parser, Process(p)
      PROVE  count'["parser"] - count["parser"] = done'["pkt"] - done["pkt"]
  BY <1>6 DEF Process
<1>7. ASSUME NEW t \in Thread,
             LoopTest(t, "close") \/ LoopTest(t, "stats") \/ LoopTest(t, "ended") \/ Receive(t)
      PROVE  UNCHANGED <<count, done>>
  BY <1>7 DEF LoopTest, Receive, work
<1>8. CASE InputerMessage
  BY <1>1, <1>8 DEF InputerMessage
<1>9. CASE PktCb
  BY <1>1, <1>9 DEF PktCb
<1>10. CASE \/ SignalArrives \/ InputerRetry \/ InputerBreak \/ InputerNap \/ InputerClose
            \/ CaptureNap \/ DispatchReturns \/ DispatchFails \/ CaptureEnd \/ UNCHANGED vars
  BY <1>1, <1>10 DEF SignalArrives, InputerRetry, InputerBreak, InputerNap, InputerClose, CaptureNap,
                     DispatchReturns, DispatchFails, CaptureEnd, vars, work
<1>11. CASE InputerLoop \/ CaptureLoop
  BY <1>1, <1>3, <1>4, <1>7, <1>8, <1>9, <1>10, <1>11 DEF InputerLoop, CaptureLoop, Thread
<1>12. CASE WorkerLoop
  BY <1>1, <1>3, <1>4, <1>5, <1>7, <1>12 DEF WorkerLoop, Thread
<1>13. ASSUME NEW p \in Parser, ParserLoop(p)
       PROVE  count'["parser"] - count["parser"] = done'["pkt"] - done["pkt"]
  BY <1>1, <1>4, <1>6, <1>7, <1>13 DEF ParserLoop, Thread
<1>14. QED
  BY <1>2, <1>10, <1>11, <1>12, <1>13 DEF Next

\* The consumers of a channel are told to stop when its producer has ended, so
\* nothing is sent behind their backs; and the counter the parsers share counts
\* every packet that is processed once they have all started.
THEOREM HeardAndCounted == Spec => SentWhileHeard
<1>1. ASSUME IInv, [Next]_vars
      PROVE  /\ shutdown["worker"] => sent'["msg"] = sent["msg"]
             /\ shutdown["parser"] => sent'["pkt"] = sent["pkt"]
  <2>1. shutdown["worker"] => thr["inputer"] # "call"
    BY <1>1 DEF IInv, Told, Ordered
  <2>2. shutdown["parser"] => thr["capture"] # "call"
    BY <1>1 DEF IInv, Told, Ordered, Early, Thread
  <2>3. QED
    BY <1>1, <2>1, <2>2, PartsAreTypeOK, SendersOnly DEF IInv
<1>2. ASSUME IInv, [Next]_vars
      PROVE  (\A p \in Parser : Started(p)) =>
                count'["parser"] - count["parser"] = done'["pkt"] - done["pkt"]
  BY <1>2, PartsAreTypeOK, CountersMove DEF IInv
<1>3. Spec => NoSendAfterConsumersStop
  BY Inductive, <1>1, PTL DEF Spec, NoSendAfterConsumersStop
<1>4. Spec => CountsOnceStarted
  BY Inductive, <1>2, PTL DEF Spec, CountsOnceStarted
<1>5. QED
  BY <1>3, <1>4 DEF SentWhileHeard
===============================================================================
