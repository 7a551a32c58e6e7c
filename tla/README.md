# A verification project for capptpl

capptpl is a collection of C program templates: `apptpl` (packet capture and
message intake with worker threads), `apptpl2` (a redis consumer on an event
loop), `cpptpl` (the management part again in C++), and the libraries they
share. The TLA+ modules here model the parts whose correctness depends on
interleavings, failures and order, and the algorithms and data structures they
rest on; TLC checks them on small instances, and TLAPS proves the safety
properties of the eight concurrent or reactive components, and what two of the
data structures do, for all instances. All paths below are relative to
the repository (`src/` in `PROJECT.json`).

- `PROJECT.json` lists components, runs, mutants, findings, hazards, theorems
  and, definition by definition, the source lines each one models.
- To check a module: `tlc -config <run>.cfg <MC module>.tla`; to check proofs:
  `tlapm <Module>Proofs.tla`.

## The system

### Components

| Component | State it keeps | Operations | Modelled in |
|---|---|---|---|
| cchan channel (`lib/cchan-0.1`) | ring buffer `alloc next first used data`, mutex, condition variable | `cchan_send`, `cchan_recv`, `cchan_wait`, `cchan_waittime` | `CChan`, `Fifo`, `CondTimeout` |
| main (`apptpl/main.c`) | thread ids, the two channels, the component structs | open, create, run the loop, stop, join, release | `Apptpl` |
| inputer (`apptpl/inputer.c`) | zmq socket, `shutdown`, `count` | `inputer_open`, `inputer_loop`, `inputer_stop` | `Apptpl` |
| capture (`apptpl/capture.c`, `pkt.c`) | pcap handle, `shutdown`, `pkts` | `capture_open`, `pkt_cb`, `capture_loop`, `capture_loop_stop`, `capture_close` | `Apptpl` |
| worker (`apptpl/worker.c`) | `shutdown`, `count` | `worker_loop` | `Apptpl` |
| parsers (`apptpl/parser.c`) | one struct for all threads: `shutdown`, `count`, policies | `parser_create`, `parser_loop`, `parser_destroy` | `Apptpl` |
| policies (`word_policy.c`, `re_policy.c`) | compiled automata | create, match, destroy | creation in `Setup`, life time in `Apptpl` |
| configuration (`myconfig.c`, `lib/load_config.c`), INI (`lib/inih-r62`) | `struct config`; section and previous name; the files | copy the template, parse, validate | `Setup` |
| management (`apptpl/magt.c`, `apptpl2/magt.c`, `cpptpl/magt.cpp`) | event base, TLS context, signal and timer events, http server | `magt_init`, `ssl_init`, `magt_loop`, callbacks, `magt_close` | `HttpApi`; `Apptpl` (as the threads see it), `Logger` (timer) |
| HTTP API (`api_handler.c` of each program) | route table, the request being served | `api_route_init`, `api_route_free`, `api_handler` and its handlers | `HttpApi`, `UtHash` |
| logger (`lib/c-logger-0.4.1`, `lib/init_log.c`) | mutex, stream, current size, the files | log, rotate, flush, close, init | `Logger` |
| crash handler (`lib/backtrace.c`) | none | log, flush, `_exit(99)` | `Logger` |
| redis client (`apptpl2/doredis.c`) | `redis_ctx`, status, timers | connect, auth, BRPOP, reconnect, close | `DoRedis` |
| lock-free queue (`lib/lfqueue-1.2.2`) | linked list, free list, size | enqueue, dequeue, destroy | `LFQueue` |
| Aho-Corasick (`lib/aho-corasick`) | table of transitions, hash table of word numbers | `acism_create`, `acism_more` | `AhoCorasick` |
| cJSON (`lib/cJSON-1.7.19/cJSON.c`) | trees of items; the parse buffer, the print buffer | create, add, insert, detach, replace, copy, compare, look up, delete; parse, print, minify | `JsonTree`, `JsonList`, `Forest`; `JsonText`, `JsonString` |
| uthash (`lib/uthash-2.3.0/uthash.h`) | buckets, list in the order of the application | add, add in order, replace, delete, find, sort, select, clear | `UtHash`, `UtHashSort` |
| `apptpl2_init.c`, `cpptpl_init.cpp` | configuration | | not modelled: `apptpl`'s again |
| hex dump, CPU statistics | the last sample | | not modelled: formatting |
| sds, cJSON_Utils, utlist, utstring, cre2, argparse, nanoid | | | not modelled: see the end |
| test programs | | | read as documentation |

### Interactions

```
 zmq --> inputer --chan_msg--> worker
 pcap -> capture --chan_pkt--> parser 1..n   (one struct parser)
 HTTP clients --> evhttp --> api_handler --(uthash)--> handler --(cJSON)--> answer
 main: magt event loop; sets shutdown flags, joins, releases
 every thread --> logger (mutex);  event loop, crash handler --> logger_flush (no mutex)
 redis <--> doredis callbacks on the event loop of apptpl2
```

Threads share the channels (mutex and condition variable), plain `int`
shutdown flags and counters (atomic in `struct parser`), and the logger's static
structs. Callbacks of libevent, libpcap and hiredis run on the thread of the
loop that calls them.

### What is hard in it

- Concurrency: several parsers on one channel and one struct; a signal at any
  moment; a timed receive racing a send; an unlocked flush racing a rotation; a
  queue without locks whose nodes are freed while others may hold them.
- Order: producers before consumers, joins before releases; the chain of
  renames; BRPOP after BRPOP.
- Failure: every step of the start-up; the file-system calls of a rotation; a
  kill in the middle of it, or of the copy of a template; a fault inside the
  logger; a redis server that refuses, drops or answers with errors.
- Ownership: trees of JSON items shared by reference, a hash table that lives in
  the items it holds, answers built from buffers that may fail half-way.
- Compressed forms: the interleaved table of the matcher, the grown print buffer,
  the length of a string estimated before it is escaped.
- Time: absolute deadlines computed from `gettimeofday`; retries on timers.

`PROJECT.json` "hazards" has each of these at its line, with the properties
that would catch it.

## The modules

### Fifo: what a channel promises

Messages are numbered as they are sent. A reader that is in a call is given the
oldest message not yet given to anyone, or nothing, which is allowed only while
there is no message. Nothing is lost, duplicated or reordered.

### CChan: the channel as it is written

`alloc`, `next`, `first`, `used` and `data` are the fields of `cchan_t`. A step
is a stretch of code between two points where the mutex is free: a whole
`cchan_send` (`Send`, with the doubling in `Room` and `Expanded` and the signal
in `Signal`), a whole `cchan_recv` (`Recv`), one turn of the loop of `cchan_wait`
(`Wait`), and the two halves of `cchan_waittime` (`WaitTime`, `WaitTimeWoken`).
A reader's `pc` says whether it wants the mutex, is queued on the condition
variable, or has been taken off it. `Elapse` and `SpuriousWakeup` are what the
condition variable may do by itself. `SendAbort` is the `abort()` after a
failed `realloc`.

`RingHoldsBacklog` relates every index and every entry to the numbers of
messages sent and received. `NoLostWakeup` says that while somebody is blocked,
there are as many woken readers as entries: this is what makes one
`pthread_cond_signal` a send sufficient, although a reader that calls in between
may take the message the signal was for. `ImplementsFifo` is the refinement of
`Fifo`, with the mapping `busy`: a reader that is not idle is in a call.

### CondTimeout: the deadline of a timed receive

`cchan_cond_waittime_1` turns the time of day and a number of milliseconds into
a `timespec`. `Timespec` is that arithmetic; the rest of the module is one
thread calling it against a clock. `DeadlineExact` compares each valid deadline
with the exact microsecond; `EarlyOnlyAtFullSecond` characterises the one case
in which a call comes back early. Its initial state and next-state relation are
`ClockInit` and `ClockNext`, so that `CChanProofs` can extend this module beside
`CChan`.

### Apptpl: the process

`main` and `thr` are the program counters of the main thread and the others.
Start-up actions (`MagtInit`, `InputerOpen`, `ParserCreate`, `CaptureOpen`,
`Spawn`, `SpawnParser`) succeed or fail as the functions do; `ErrExit` is the
code behind `err:`. `LoopBreak` to `JoinParsers` is the code behind the event
loop, one action a line. Each thread function is `Start` (clear the flag and the
counter), `LoopTest`, and the body: `InputerMessage`, `InputerRetry`,
`InputerBreak`, `PktCb`, `DispatchReturns`, `DispatchFails`, `Receive`,
`Process`. A channel is the queue of `Fifo`, which `CChan` is proved to
implement: two counters, since message n is the n-th sent. `res` records what is
open, closed, or given up twice.

Merged or left out: the stores at the head of a loop function are one step; the
read of `used` that decides the sleep of a producer is taken with the send,
which leaves out sleeps that were not taken only; `timer_interval` gates a trace
line; results of `pthread_create` are ignored by the code and taken to be
success; signals before `magt_init` and after `magt_close` kill the process, as
no handler is installed then; byte and match counters follow the packet counter.

### Logger: rotation, flush, faults and restarts

A rotation is one step per call that changes the files or the stream: `CloseFull`,
then `Remove` and `Rename` from the last backup down, then `Reopen`; so a kill
finds every state in between. `FlushLoad` and `FlushDo` are `logger_flush`, which
reads the stream without the mutex and uses it later. `Fault` sends a thread to
`segfault_handler`, which logs, flushes and exits; `CloseNull` is the fault the
logger can cause itself. Lines still in the stdio buffer are lost when the
process dies (`Die`), and `Restart` goes on with the files it finds. Lines have
one length; only their number matters for the size. `held` is the state of the
stream a thread has loaded for its flush: `CloseStream` makes an open one a
closed one. A flush of a closed stream is undefined, and here does nothing. The
several log calls and two flushes of the handler are one of each; since
`SA_NODEFER` is set, a fault inside the handler enters it again.

### DoRedis: the redis client of apptpl2

One action per callback. A context is numbered by its attempt, has a queue of
commands without a reply and at most one reply on the wire, and is freed by
hiredis after a failed connect or a disconnect, which gives NULL to the pending
callbacks. `redis_ctx` keeps what the code keeps, also when it points to a freed
context; a use of freed memory ends the behaviour and is recorded in
`undefined`. Timers carry the context they were armed with, as
`event_base_once` does.

### LFQueue: the queue without locks

One access to a shared word is one step: `EnqRead`, `EnqLink`, `EnqSwing` and
`DeqHead`, `DeqCheck`, `DeqNext`, `DeqTail` (or `DeqEmpty`), `DeqSwing` are the
loops of `_enqueue` and `_dequeue`, `Recycle...` those of `__lfq_recycle_free`,
`Check...` the scan of `__lfq_check_free`, `SizeAdd` and `SizeSub` the counting,
and `Destroy` is `lfqueue_destroy`. `mine` and `other` are the two local
pointers each function has. The refinement of `Fifo` puts the effect of a call
where it is decided: at the link, at the swing of head, and, for NULL, where the
next pointer is read.

Nodes are numbered as they are linked and memory is not given out twice, so a
pointer into freed memory is known as one; using it ends the behaviour, and
`undefined` says where. Nodes are freed by their age in seconds, which protects a
thread only if it is not too slow: `Tick` lets no turn of a loop take more than
`Delay`, at most the age `Grace`. Under that assumption no pointer of the queue
itself goes wrong (`QueueNodesLive`). malloc succeeds. A node's stamp is
uninitialised until `RecycleStamp`, and 0 here; the scan stops at `move_free`,
which reaches a node only after its stamp. `Chain(n)` is what the free list holds
from n on: the least set with n that is closed under `nextfree`, written so, and
not as a recursion, because the proofs reason about it.

### Setup: the files a start reads

`load_config`, then what `parser_create` reads: `Access`, `CopyOpen`, `CopyBlock`,
`CopyShort` and `CopyDone` are `copy_file_from_tpl` for each of the three files,
`Ini...` is one line of `ini_parse_stream` with the call of `ini_callback` in
`Handler`, `IniEnd` is the validation, `WordCreate` and `WordCrash` are
`word_policy_create`, `Scan...` is one turn of the `fscanf` loop of
`re_policy_load`, and `RulesMalloc` to `SetCompile` are `re_policy_create` with
its `err:` path in `ErrPath` and `Fail`. `Kill` ends the process anywhere, and
`Start` begins again with the files as they are; `meant` and `broken` remember
what the files should hold and which copies were cut short.

An ini line is a record of what the reader finds in it (kind, indentation, name,
value, and the line as a whole, which is the value of a continuation);
`Meaning` says without the reader's state which line gives each option its
value. What lines there are is a constant (`Item`, with `IsLine` the least that
is asked of one), so that the theorems hold for any; `MCItem` gives the run seven.
The regex file is a sequence of characters of which only newline, space
and an invalid expression matter. Of the word file only its length matters:
`slurp` of an empty one writes through a null pointer. What `open`, `malloc` and
`cre2` return is free to fail, one failure a start. A template is there or the
start fails (`Fail` at "open").

### HttpApi: the management interface

The three programs have the same management part with small differences, so the
module has one behaviour for each (`prog`). A function of the source is a list
of steps (`MagtInit`, `SslInit`, `ApptplStatus`, `CaptureDump`, ...): what it
acquires with the alternative that follows a failure (`Get`, `Check`, `Grow`),
what it uses unchecked (`Need`), what it sends, links and releases. `todo` is
what is left of the function that runs, and each kind of step is an action
(`Acquire`, `Refused`, `Proceed`, `Release`, `Reply`, `AddRoute`, `FreeRoute`,
`FindRoute`, `Crash`, ...). So every failure at every place is a behaviour, and
a handler takes many steps during which clients leave and signals arrive, though
only the event loop itself serves requests: one at a time. `held` is what has been
acquired and not released. The routes are a table of `UtHash`, and `FreeRoute`
deletes from it while it is iterated over, as `HASH_ITER` allows.

Behind the interface, `apptpl` has more to open and more to end. If its input, parser
or capture does not open, main goes to `err:` and closes the interface before the loop
has begun (`Close`, `CloseEarly`). After the loop and `magt_close` it stops and joins the inputer, the
capture, the worker and the parsers (`Join`, `JoinThreads`, one step here; `Apptpl`
has them one by one). A join need not return: run `apptpl_loststop` shows that main
can wait for ever. So `AllServed` promises the end of the process after a signal
for `apptpl2` and `cpptpl` only; for `apptpl` it promises that the management
interface is closed and released, whatever the threads do. A request with a command
other than GET and HEAD is outside it: `api_handler` returns without an answer
(`api_handler.c:100`), and `AnsweredOnce` says so.

Left out: the texts of the answers and the numbers in them, the check of the
Api-key, which only logs, and timer_cb, which is in `Logger`.

### Forest, JsonList and JsonTree: the trees of cJSON

`JsonList` is the surgery of the lists, one operator for each function that
stores links (`AddToList`, `Detach`, `InsertBefore`, `Exchange`, and `Attach` and
`CloseList` for lists that are built at a stretch). `prev` of a first child is the
last child, which makes the append fast and every removal delicate; `Linked` says
that the children of an item are a given sequence in this form.

`JsonTree` is the heap: items with `next`, `prev`, `child`, flags, and counts of
the blocks allocated for their keys and strings. An action is
a call of the API with its failing allocations; the caller keeps the library's
rules (it adds what it holds, and what a reference points to outlives it).
`Forest` is what the calls promise on ordered trees, and `CallsMean` says that
each call is the operation of `Forest` its name says, and nothing else.

### JsonText and JsonString: cJSON between texts and values

`JsonText` has the recursive descent of `parse_value`, `parse_array` and
`parse_object` with its nesting limit and each allocation, and `print_value` with
`ensure`, the growing buffer. A text is a sequence of tokens. `JsonString` has
`print_string_ptr`, `parse_string` with `utf16_literal_to_utf8`, and
`cJSON_Minify`, on the codes of characters.

### AhoCorasick: the matcher

`acism_create` in its steps: symbols by frequency, the tree, the back links of
each level with their pruning, the interleaving of the nodes in one table, the
hash table for the numbers of words that go on, and the width of the symbols; and
`acism_more`. A read behind the table finds what lies there: the hash table,
then nothing; `reach` is the furthest place read.

### UtHash: the hash table

A table is a record: the buckets as sequences with their counts and multipliers,
`next` and `prev` of the application's order, head, tail and the expansion's
memory. Each macro is an operator on it. `Filter` is every walk along a list
that keeps some of its items. `Fsck` is the library's own HASH_FSCK.
`UtHashSort` adds HASH_SRT, the merge sort of the list. It is apart because it is
recursive: the prover for arithmetic does not work in a module that reaches a
RECURSIVE operator, and the rest of the table is proved about.

### Algorithms: pure functions against their meaning

The module picks an input of one of seven kinds, one piece at a time (`Grow`), and each
invariant compares what the operators of the last four modules compute with a
definition of what they mean, written without them: a grammar (`Meant`), the
words that end at each place (`Matches`), a sequence without a hash (`Asked`).

### Mutants

Operators marked "Mutant" stand before the definition they are a wrong version
of. No specification uses them; each shows that a property fails when the code
has that mistake.

## The runs

| Run | Instance | Shows |
|---|---|---|
| `cchan` | 2 readers, 5 sends, spurious wakeups, aborts, fair | the ring holds the backlog, no wakeup is lost, the channel is a FIFO queue; a timed receive returns and nobody is left behind beside a message (`ReadersServed`) |
| `condtimeout` | 16 instants around each carry, 7 timeouts | valid deadlines are exact; early returns have one cause |
| `apptpl` | 2 parsers, 1 message, 2 packets, signal at any time, every start-up failure, fair | no use after release and no double release (`ReleasesInOrder`), nothing lost or handled twice, no send behind a stopped consumer and no packet uncounted (`SentWhileHeard`); the shutdown completes when all threads run, packets get parsed |
| `apptpl_loststop` (violated) | signal while threads start, fair | a shutdown flag is cleared by the thread it is for; main waits for ever |
| `logger` | 2 threads, 3 files, 4 lines, every call may fail, faults, kill and restart anywhere, fair | order kept, newest line kept, no gap (`OneLog`); nothing erased early, sizes right (`LimitsKept`); a fault ends the process |
| `redis` | 3 attempts, 3 messages, refusals, drops, errors and connects that fail at once, fair | one connection or retry, one request (`OneLinkAtATime`); each message once and in order; all received, refused clients retry (`ChainGoesOn`) |
| `lfqueue` | 2 threads that both enqueue and dequeue, 2 elements, 2 seconds, fair | an atomic FIFO queue; no pointer of it into freed memory, each node freed once and all in the end, size right at rest (`NodesAndSize`); calls return |
| `setup` | ini files of up to 4 lines of 7 kinds, regex files of up to 4 characters, missing and empty files, kills, failures and short writes anywhere, 2 starts, fair | configuration and rules are what the files mean; files damaged only by a copy cut short and a failed start releases (`FailureIsClean`); a start ends |
| `http` | 3 programs, with and without TLS, 7 paths, GET, HEAD and POST, 2 clients, a failure of every call, a signal at any time, fair | each GET and HEAD answered once and rightly, everything released once and in order, the routes never stale; none of them is left waiting, and a signal ends `apptpl2` and `cpptpl` and closes the interface of `apptpl` |
| `json` | 5 items, 4 callers of 3 to 6 calls, failing allocations | lists closed, one owner for every item and block, comparison is equality, each call does what its name says |
| `algorithms` | texts of 4 pieces of 1 to 3 tokens, values of 2, strings of 4, escapes, comments and sets of words of 3, 4 calls on a table | parser, printer, string codec, minifier, matcher and hash table compute what they mean, within their buffers |
| `algorithms_words` (violated) | the same | the matcher misses words |

A property that is a conjunction of named parts has a mutant for more than one of
them, so that each part is seen to matter.

Where a property holds only as long as some call succeeds, it says so itself, by
the history variable `failed` (Logger) or `happened` (DoRedis): one run then
covers the good and the bad course together.

### Why the bounds are enough

- CChan: five sends take the ring through capacities 1, 2, 4 and 8, with every
  position of `first` at each doubling that a wrap can give; of two readers one
  is signalled while the other comes in between. What holds for all numbers of
  readers and sends is proved (below).
- CondTimeout: the instants lie on both sides of every carry; the theorems hold
  for all instants.
- Apptpl: two parsers are the fewest that share a struct and a channel and can
  start at different times; the second packet meets a channel at the length at
  which the capture sleeps; limits of 1 and 2 stand for 16384 and 1024.
- Logger: three files are the fewest with a rename between backups; one line
  fills a file, so the fourth line is the first to erase one; files of several
  lines occur where a rename fails. One restart is enough for a second process
  to meet what a killed one left at any point.
- DoRedis: three attempts are two refused and one accepted; three messages give
  a predecessor and a successor to one that is lost. The last attempt the bound
  allows is accepted (guard of `OnConnectError`).
- LFQueue: two threads in both roles contend for every word; with two elements
  and the two base nodes the free list has three; two ticks make a stamp older
  than the grace of one, which stands for two seconds.
- Setup: a section, an option, a second header and a continuation in every order
  need four lines; an empty line between two expressions with a space before the
  second, four characters. A template block stands for 64 bytes; templates of two
  to five blocks are cut at every place. The second start meets what the first
  one left.
- HttpApi: with one client that asks for everything and one that asks for little,
  a client leaves or asks while the other is served. A client asks once: what
  is served leaves nothing behind in the model's state (`ReleasedOnce`). The
  table starts with 2 buckets, where the code has 32, so that seven routes make
  it grow, and collide.
- JsonTree: five items are a list of three in a parent with one left to insert,
  or two lists and a reference; six calls build a list and take it apart in any
  order. Keys `a` and `A` differ by case only.
- Algorithms: a piece of a text is one token, or a few that belong together
  (`[[`, `{x:`), so that four pieces open, fill and close two levels, the limit,
  and try a third; buffers start
  at 3 bytes, double, and meet the limit of 24; the words include suffixes,
  infixes and equal ones, on every text of five characters; five items of the
  table share or part their bucket at every expansion, and one has the key of
  another.

Deadlock is not checked where the system really stops: the processes end, and
readers of `CChan` that wait for a send nobody owes stay blocked; `LFQueue` ends
with `Destroy` or with a use of freed memory; after the last start `Setup` stays
down; the programs of `HttpApi` exit; the calls of `JsonTree` are counted; an
input of `Algorithms` is complete.

### Fairness

- CChan: weak fairness of each reader's turn (a thread that can get the mutex
  runs on) and of its deadline (time passes). No fairness of sends, calls or
  spurious wakeups. With the sends bounded, a reader's turn stays enabled until it is taken.
- Apptpl: weak fairness of each thread and of main; none of arrivals, failures
  or signals. pcap's read timeout (100 ms), zmq's receive timeout (500 ms) and
  the timed receives (200 ms) end every blocking call, so a thread can always
  take its next step.
- Logger: weak fairness of a thread inside the logger; none of calls, timer,
  faults or kills.
- DoRedis: the event loop runs callbacks and timers that are due, the server
  answers the commands it has read. Nothing makes it accept a connection but the
  bound on the refusals.
- LFQueue: weak fairness of every thread that is in a call: the loops have no
  blocking call, so the scheduler alone decides. None of calls or time.
- HttpApi: weak fairness of the function that runs (`Run`) and of the delivery of
  a pending signal; strong fairness of `Serve` for each client, since the loop
  dispatches every active event in turn, also when other clients keep it busy.
  None of clients or signals, and none of `JoinThreads`: the threads that `apptpl`
  joins may run for ever.
- Setup: weak fairness of the process's own work; none of starts, kills or stops.

## What is proved

`CChanProofs`, for every finite set of readers and every bound on the sends,
with and without spurious wakeups:

- `TypeCorrect`, `RingCorrect`: `Spec => []TypeOK`, `Spec => []RingHoldsBacklog`.
  The inductive invariant `RingInv` is their conjunction: the types alone are
  not inductive, since `used <= alloc` and `next` in range after a doubling need
  `next = Slot(used)`. The heart is the doubling: the entry k places behind
  `first` is found k places behind `first` in the larger buffer, whether it had
  wrapped (then `memcpy` moved it) or not (then `realloc` kept it).
- `WakeupsSuffice`: `Spec => []NoLostWakeup`, by induction on top of `TypeOK`
  with the cardinality of the woken readers: a send adds an entry and a woken
  reader, a woken reader leaves the set only by taking an entry or with the ring
  empty.
- `ChannelIsFifo`: `Spec => ImplementsFifo`. Each step of `CChan` is a step of
  `Fifo` under the mapping or leaves the queue's variables alone; `Take` delivers
  the oldest message because of `RingHoldsBacklog`.

And in its last section, on `CondTimeout`, for all sets of instants and timeouts:

- `DeadlinesExact`: a valid deadline is `start + ms * 1000` microseconds, by
  division with remainder on both sides of the carry.
- `EarlyOnlyThen`: a call returns early only when the microseconds add up to
  exactly one second.

`DoRedisProofs`, for any number of connection attempts, of messages and any set
of faults:

- `OneLink`: `Spec => []OneLinkAtATime`; `MessagesOnce`: `Spec => []EachMessageOnce`.
  Neither is inductive: a stale callback could start a second chain unless the
  context it belongs to is known to be dead. The invariant `IInv` adds `OneLive`
  (only the context that `redis_ctx` names is live), `OneTry` (an attempt or a
  retry timer is pending, never both) and `OneRequest` (a connected context has one
  command or one timer for it, until the server answers with an error). `Accounted`
  adds where each popped message is: received, on the wire of the live context, or
  lost, and that the one on the wire is the newest.

`ApptplProofs`, for any finite set of parsers and any number of messages and
packets, with every failure of the start-up:

- `ReleasedInOrder`: `Spec => []ReleasesInOrder`. What is open follows from where
  main is (`Starting`, `Running`); that no thread still uses it, from the joins
  main has passed (`Ordered`) and from each thread being in its own loop (`Placed`).
- `MessagesCounted`: `Spec => []MessagesAccounted`, by the cardinality of the set
  of consumers that hold a message, finite because the parsers are.
- `HeardAndCounted`: `Spec => SentWhileHeard`, an action property: it follows step
  by step from `IInv`, in which `Told` says that a consumer is told to stop only
  behind the join of its producer.

`LFQueueProofs`, for any finite sets of producers and consumers, any number of
elements and seconds, one access to shared memory a step:

- `GarbageAndSize`: `Spec => []NodesAndSize`. What protects a node from being
  freed under a thread is `Protected`: all that a thread may reach in its turn
  left the queue after the turn began, so it is stamped later than that, and
  `Timely` bounds the turn by `Delay <= Grace`. To keep it, the invariant needs
  the shape of the free list (`Placed`, `ListShape`): every node is freed, on the
  list, in one hand, in the queue or new; and its end (`ListEnd`): it is
  `move_free`, or the one node behind it that a thread is just putting there,
  which is why an unstamped node is never scanned. `Counted` has the elements that are linked and
  not yet counted, and those gone and still counted, on each side of `size`.
- `AtomicFifo`: `Spec => ImplementsFifo`. `StepsAsFifo` maps each access: the link
  is the send, the swing of `head` the receipt, a NULL `next` under an unmoved
  head the receipt of nothing; all the others are stutters.

`LoggerProofs`, for any number of threads, lines, line lengths and backups up to
255, any set of calls that may fail, any number of kills and restarts:

- `FilesAreOneLog`: `Spec => []OneLog`. The files are said to be sound (`Sound`) by
  four facts about a value of `files` alone: each holds consecutive lines
  (`Runs`), younger than those behind it (`Descend`), none from the future
  (`Within`), the current one ending with the newest (`Ends`). What `Remove`,
  `Rename`, an append and a truncation do to them are lemmas without a state
  (`Removed`, `Renames`, `Appends`, `Truncates`), so that the actions need
  to say only which of them they are, and who may be in the rotation (`Mutex`,
  `Turns`). `Chained` is the rotation half done: no gap but at the place whose
  file the last rename took away.
- `RotationKeepsLimits`: `Spec => []LimitsKept`, from `Limited` and `Turns`.

`SetupProofs`, for all files and templates whose lines have the fields the
reader looks at, and any number of starts, kills and failures:

- `LoadsTheMeaning`: `Spec => []ConfigRight`. `Meaning` of a file is defined by
  quantifiers over its lines and has no reader in it; the lemmas `OpenNext`,
  `LastNext` and `MeaningNext` say what one more line adds to it. The invariant
  (`Reading`, with `ReaderAt`) is that the reader behind line n has the section,
  the open name and the configuration that the first n lines mean.
- `LinesAreRules`: `Spec => []RulesAreTheLines`: `NextLineBegins` and `LineRead` say
  how the valid lines in front of a place grow by one turn of the loop, also over
  the whitespace that `fscanf` skips; `Scanning` says the rules read are those.
- `CleanFailure`: `Spec => []FailureIsClean`: `Copying` has how much of a template
  has been written, `Allocated` what is held at each place of `re_policy_create`.

`JsonListProofs`, for heaps of any number of items and lists of any length:

- `AppendsItem`, `DetachesItem`, `InsertsItem`, `ExchangesItem`: if the children of
  c are the sequence s, then after the operation they are `Append(s, i)`,
  `RemoveAt(s, k)`, `InsertAt(s, k, i)`, `ReplaceAt(s, k, r)`, at every place, the
  first, the last and the only one included; an item that left the list points
  nowhere, and no item outside the list was stored to (`Within`). `AttachesItem`
  and `ClosesList` say the same of a list that is being built, and `OthersKeep` that a
  list elsewhere is as before. Each proof goes from the single stores (the lemmas
  `...Stores`) to the places of the new sequence (`Ring`). They are about
  `Linked`, which `ListsClosed` says of every container of `JsonTree`, whose calls
  are made of these operators.

`HttpApiProofs` has two parts. The first is about the hash table, for every
finite set of items, every hash function, every number of buckets and every
threshold:

- `AddsItem`, `DeletesItem`, `FindsItem`, `ReplacesItem`, `IteratesInOrder`,
  `FsckPasses`.
  `Holds(t, s)` says that the table t holds the items of the sequence s: its list
  links them in this order, and each bucket has, once each, those that hash to it.
  An addition leaves a table that holds `Append(s, x)`, whether the buckets were
  doubled or not, a deletion one that holds `RemoveAt(s, i)`; and `Holds` is all
  that a walk, a look-up and `Fsck` depend on. The walks are recursive functions, so these
  proofs use induction over the numbers, by the lemma `UpTo`: the set of the
  numbers for which a fact holds has no least exception. A doubling loses
  nothing because the bucket among 2n of an item is, modulo n, its bucket among n
  (`HalfTheBuckets`).

The second is about the three programs, for every set of clients and of
requests, every failure, every order of requests and signals:

- `SpecAnswersOnce`: `Spec => []AnsweredOnce`; `SpecReleasesOnce`:
  `Spec => []ReleasedOnce`; `SpecRoutesLive`: `Spec => []RoutesLive`. None is
  inductive: whether a request gets its answer, and its buffers are released,
  depends on all the steps that are still in `todo`. `IInv` says of those that
  they are `Safe`: there is a set of configurations (what is still to do, what is
  held, the routes in the table, the answer so far) that contains the present one,
  that no step leaves, whatever fails, and all of whose members are `Good`.
  `Good` is what the properties need of a single configuration: what it frees is
  held, a function that is done has given the right answer and holds what it held
  before. So each function of the code has one lemma which says that it is safe
  where it is called, proved from its last step to its first (`SafeBefore`), and a
  step of the program only has to be shown to be a step of a configuration
  (`SafeSteps`). `Goes` ties the configuration to the table by `Holds`, so the
  doubling, the deletion while iterating and the look-up of a path are those of
  the first part; the rest of `IInv` keeps the requests of the other clients as
  they are while one is served.

`IInv` of `HttpApi` is not an invariant of a run: `Safe` quantifies over sets of
configurations, which TLC cannot enumerate. The three properties it implies are.

Assumptions: the named ASSUMEs of the modules, nothing else: finite sets of
threads where something is counted, bounds that are natural numbers, threads no
slower than `Delay` in `LFQueue`, templates that are not empty in `Setup`, a
finite set of items whose hashes are numbers in `UtHash`, and in `HttpApi` that
a route is its own key and each route of the programs is an item.

Model-checked only:

- all liveness: fairness and ENABLED are outside what the prover handles here;
- `JsonTree` as a whole, `JsonText`, `JsonString` and `AhoCorasick`: deleting,
  copying and comparing trees, parsing and printing are recursive in the code and
  RECURSIVE operators here, with which the prover for arithmetic does not work;
  and what they compute needs an induction over trees, which the installed
  provers cannot instantiate from the library. (An induction over numbers is
  possible, see `UpTo`.) The list operations that `JsonTree` is made of are proved;
- of the hash table `AddInorder`, `Select` and `Sort` (`TableIsDictionary`). The
  programs use none of them.

## Findings

Each is a run expected to be violated; `PROJECT.json` "findings" quotes the line
the code disagrees with.

1. A shutdown flag set before its thread has started is cleared by it
   (`capture.c:190` and the other loops): main hangs in `pthread_join`.
2. The matcher misses words (`acism_create.c:323`, `acism_create.c:241`): with
   `a` and `abb` the last `a` of `aabab`, with `abce`, `bc` and `ce` the `ce` of
   `abce`. The compiled library does the same.

Observed and stated as exceptions of properties, without runs of their own:

- `cchan_waittime` returns zero before its time when its message is taken by
  another reader (`cchan.c:127`), though `cchan.h:30` says "zero on timeout".
- A deadline whose nanoseconds are exactly one second is refused, and the receive
  returns at once (`cchan_api_pthread.h:24`, the exception of
  `EarlyOnlyAtFullSecond`), though `cchan-0.1/README:65` says "at least ms
  milliseconds".
- A late parser resets the counters all parsers share (`parser.c:59`);
  `CountsOnceStarted` begins when all have started.
- A failed reopen leads to `fclose(NULL)` under the mutex, and the crash handler
  waits for that mutex for ever (`logger.c:300`, `backtrace.c:64`, the exception of
  `FaultEndsProcess`).
- Any error of `zmq_msg_recv` but EAGAIN ends the inputer for good
  (`inputer.c:115`); an AUTH that is refused leaves an idle connection
  (`doredis.c:125`).
- The size of a channel's ring is an int, and nothing bounds the backlog
  (`cchan.c:46`).
- The back-pressure of the capture is a sleep; it does not bound the channel
  (`capture.c:241`).
- A log file exceeds its limit by up to a line (`logger.c:297`,
  `OverByLessThanALine`). With no backup files it has no limit: the rotation
  reopens the full file to append to it (`logger.c:301`, `logger.c:319`). The
  programs ask for five.
- A dropped redis connection is never replaced (`doredis.c:118`, the exception of
  `PushedIsReceived`).
- `__lfq_recycle_free` can write through a node that was freed after it read
  `move_free`, however short the time between: what counts is the age of that
  node, and the first one is stamped 0 (`lfqueue.c:209`, `undefined` = "free
  list").
- `lfqueue_size` can be the largest `size_t` for a moment, when an element is
  taken before it is counted (`lfqueue.c:292`).
- A reconnect that fails at once is the last one (`doredis.c:185`, the exception
  of `RefusedClientRetries`).
- After a dropped connection the first-BRPOP timer and `redis_close` can use a
  freed context, and `redis_close` frees an idle context twice (`undefined`).
- The timer's flush may use a stream that a rotation has closed (`logger.c:237`,
  `held` = "closed").
- A regex file that begins with a newline is read for ever (`re_policy.c:221`,
  the exception of `StartEnds`); one that is a single line without a newline
  overruns the line buffer by its terminating zero (`re_policy.c:209`, the
  exception of `RulesAreTheLines`).
- The copies of the expressions are not released when their set does not compile
  (`re_policy.c:91`, the exception of `FailureReleases`).
- In an ini file a pair without a name (`=5`) ends the pair before it, as a header
  does: the next indented line continues nothing (`Open` in `Setup`).
- A template copy that was cut short stays cut (`load_config.c:70`); an empty
  word file ends every start in a fault (`msutil.c:205`; the exceptions of
  `FilesAsMeant`).
- A command other than GET and HEAD is never answered (`api_handler.c:101`, the
  exception of `AllServed`); an allocation a handler does not check ends the
  process (`Need`); a dump whose growth fails is lost (`parser.c:131`), as is the
  status text of apptpl2 (`apptpl2/api_handler.c:150`); the routes that exist
  when `api_route_init` fails stay (all `Forgotten` in `ReleasedOnce`).
- `config2json` never returns NULL: its callers' test is dead.
- `device` (160 bytes) is escaped into a buffer of its own size
  (`capture.c:252`, `cpptpl_init.cpp:16`) and can lose its terminator
  (`myconfig.c:45`). Texts are not modelled.
- `captr->ps` is written by the event loop and by the capture thread.
- cJSON: `cJSON_AddItemReferenceToObject` loses the reference when the key cannot
  be copied (`cJSON.c:2132`, `Forgotten` in `EverythingOwned`); objects with a key
  twice do not compare equal to their copies; a replacement is renamed even
  if nothing is replaced; a buffer of size 0 that cannot grow is written to
  (`cJSON.c:561`); `\u` with four characters that are no digits is `\u0000`;
  `cJSON_Minify` loses its way behind a string that ends in an escaped
  backslash (`cJSON.c:2901`); printing has no nesting limit; a byte order mark
  counts only with two more bytes behind it.
- uthash: the tail of a selection is its first item, so it must be sorted before
  anything is added or deleted (`uthash.h:1007`, the exception in
  `TableIsDictionary`).

## Plan

Done: all modules above, checked; proofs for `CChan`, `CondTimeout`, `DoRedis`,
`Apptpl`, `LFQueue`, `Logger`, `Setup`, `HttpApi`, `JsonList` and the part of
`UtHash` that the programs use. Open:

1. A composition of `Apptpl` with `CChan` in place of the counters, checked
   small, to confirm the abstraction of the channels.
2. `AddInorder` and `Select` of `UtHash`, by the same `Holds`.
3. Lemmas on the arithmetic of `JsonString` (surrogate pairs, lengths of escapes)
   apart from its recursion.

## Not modelled

- `apptpl2_init.c` and `cpptpl_init.cpp` repeat the configuration that `Setup`
  models, with other options; the argument parser (`argparse.c`) is called once.
- `hex.c`, `proc_cpu_stat.c`, `api_handler`'s texts: formatting of values for a
  reader, without a state to keep.
- sds and utstring are strings that grow, of which the programs use an append or
  two; `utlist.h` and `cJSON_Utils.c` are used by no program; `cre2.cpp` hands
  its arguments to RE2; `nanoid.h` is randomness.
- libevent, libpcap, zmq, hiredis, OpenSSL and RE2 are outside `src/`: the models
  take what the code assumes of them.
