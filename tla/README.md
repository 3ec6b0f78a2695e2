# Verification of taste-setup

TLA+ models of the programs of this repository that have state, concurrency or
algorithms of their own, TLC configurations that check them on small
instances, and TLAPS proofs about them. Paths are relative to the repository
root, `src/` included; `antlr3/` stands for
`src/antlr/antlr_python_runtime-3.1.3/antlr3/`. Most of the rest of the
repository is installers, wrappers around other tools, and data; the inventory
says what is left out and why.

## 1. Inventory

| Part | State | Operations | What is hard |
|---|---|---|---|
| **SpaceWire packet application** `misc/HW_experiments/GR740_SPW/src/test.c` | `devs[]` with the lists `rx_list`, `tx_list`, `tx_buf_list` and a counter beside each, `dma_sem`, `tasks_stop` | `test_app`: commands, transmit, cleanup; `dma_task`/`dma_process`: prepare, receive, reclaim, send | two tasks share lists under a binary semaphore; driver calls fail half-way; the shutdown waits by sleeping |
| **Its configuration library and router set-up** `grspw_pkt_lib.c`, `spwrouter_custom_config.c` | open devices, channels, ports | open, start with undo, stop, close; activate ports one by one | partial failure |
| **Exchange queues** `misc/AutoGUI/queue_manager.c` | kernel names and queues, each process's descriptors and table `qinfo[]` | create, open, retrieve, write, delete | several processes, crashes that leave queues behind, check and use of a full queue, a table with a limit |
| **Trace daemon** `misc/AutoGUI/tracerd.py` | two dictionaries under `lockSocket`, log, numbering, `g_abort`, threads | accept, receive, collect and sort, forward and wait, store, stop | threads per connection, fragments, delayed sorting, signals |
| **Trace clients** `tracer-inner.py`, `tracer.py`, `tracerGUI.py` | message number, two connections | report a message, stop the daemon | two connections that are not ordered to each other |
| **ZestSC1 library** `misc/ZestSC1/linux/*.c` | open handles, two URBs in flight per transfer, loaded images | open, close, configure, transfer, wait | URBs reaped in an order not checked, errors with one URB still in flight |
| **PeekPoke** `misc/peek-poke/peekpoke.py` | grid of variables, what the target monitors, telemetry queue, FIFOs to plotters | add, load, remove, plot, unplot, poll, quit | a poll thread uses the plotters outside the GTK lock, under which the callbacks run |
| **ANTLR runtime: streams** `antlr3/streams.py`, `tokens.py` | character position with line and column, markers; token buffer and position; rewrite programs | look ahead, consume, mark, rewind, seek; filter; insert, replace, delete, roll back, render | lookahead has to give back everything it moved; instructions are reduced in place |
| **ANTLR runtime: recognizers** `recognizers.py`, `dfa.py` | follow stack, error and backtracking state, memo per rule | match, predict, try a predicate, recover | exceptions that cross rules, memos used in another context than the one that made them, termination of recovery |
| **ANTLR runtime: trees** `tree.py`, `treewizard.py` | nodes with children, parent and place; rewrite streams; node stream with marks and calls | build, edit, copy, collect and take again; read, skip, jump; match patterns | aliasing: nil lists dissolve, elements are used twice, children are replaced under a reader |
| **ANTLR runtime: debugging** `debug.py` | stream and adaptor that report, a socket | send an event and wait for the answer | the debugger has only the events to know the parser by |
| **Progress dialog**, **project scripts** `misc/helper-scripts/*` | progress value; MD5 of the interface view | read a line; generate, edit | see section 7 |
| **File patchers**, **installer**, **demonstrations**, **data** | none kept | - | not modelled, see section 7 |

The parts interact little, and the models follow that. `test.c` calls its
library and router code, so `SpwLifecycle` has all three. The GUIs that the
code generators build talk to the application over the exchange queues and
report to the trace clients, over standard output; the clients talk to the
daemon over two TCP connections, and `Tracerd` has both ends of them. PeekPoke
talks to the target by messages of its own; `PeekPoke` has the target as
environment. The ANTLR runtime, vendored and installed by `install/05_antlr.sh`,
serves parsers that ANTLR generates, which are not in the repository: what
calls it is external. Its parts build on each other as the modules do: parser and debugger on
the token stream, everything about trees on `Tree`.

What makes each part correct: packets and buffers are neither lost nor
duplicated and keep their order, a command returns and a queued packet is
sent, nothing calls a driver that is closed (SpaceWire); a sole writer always
finds room, a new queue is empty (queues); what was received is logged once and
in order, and a stop ends the daemon (trace); completions belong to the buffer
they are taken for (ZestSC1); what is monitored is shown, and the thread ends
(PeekPoke); tokens tile the input, instructions mean what they say whenever
they are rendered, an error is reported exactly where there is one, a parser
ends, a tree stays a tree and is read alike by everything that reads it, a
pattern finds what has its form, and a debugger sees what the parser does
(ANTLR). PROJECT.json lists the hazards, each at its line and with the
properties that are about it.

## 2. Modules

| Module | Models |
|---|---|
| `SpwPackets` | `test_app` from its first prompt to `exit`, `dma_task` and `dma_process`; the driver and the links as environment |
| `SpwTransmit` | abstract: the transmit buffers of a device circulate through *free*, *queue* and *wire* |
| `SpwLifecycle` | power-up, router set-up, opening and starting of the devices, and the timed shutdown |
| `ExchangeQueue` | `queue_manager.c` in any number of processes that may die and start again |
| `Tracerd` | `tracerd.py` with what `tracer-inner.py` sends |
| `CardTransfer` | abstract: a transfer moves the chunks of its buffer in order, and succeeds when all are moved |
| `ZestTransfer` | a transfer of `DataLinux.c` with its two URBs, the kernel and the clock |
| `PeekPoke` | `peekpoke.py`: GTK callbacks, poll thread, target, plotters |
| `TokenStream` | `CommonTokenStream` as a value with operations |
| `Recognizer` | `BaseRecognizer`, `Parser`, `DFA` under a generated parser that interprets a grammar |
| `Lexer` | `ANTLRStringStream` and `Lexer` under a generated lexer that does what it likes |
| `TokenRewrite` | `TokenRewriteStream` |
| `LazyRewrite` | abstract: what a list of instructions means |
| `Tree` | `BaseTree`, `CommonTree`, `BaseTreeAdaptor` as operations on a heap |
| `TreeWalk` | the three ways a tree is read: node stream, wildcard, visitor |
| `TreeRewrite` | rules that build trees, and a `RewriteRuleSubtreeStream` |
| `TreeWizard` | `treewizard.py`: the pattern lexer and parser, and the searches |
| `NodeStream` | `CommonTreeNodeStream` as a value, and `inContext` |
| `TreeReader` | a tree parser over both |
| `DebugEvents` | `debug.py` with a debugger at the other end |
| `MC*` | the instances TLC checks |
| `SpwPackets_proofs`, `SpwLifecycle_proofs`, `ExchangeQueue_proofs`, `ZestTransfer_proofs`, `PeekPoke_proofs`, `Tracerd_proofs`, `TreeRewrite_proofs` | theorems about the modules they are named after |
| `Streams_proofs` | theorems about `TokenRewrite` and `Lexer`, which for its sake share no name |

### SpwPackets
A step goes from one point where the code may be interrupted (a semaphore
call, a sleep, a console write, a driver call) to the next one. `appPc` and
`dmaPc` name those points. The lists are sequences of buffer indices, with the
C counters kept beside them as variables of their own, because the code passes
the counter, not the list, to the driver. `MayFail` lets a driver call return
an error once its device is stopped or closed, which is when the code meets
one. Commands that only read (`C I L S T`) are one action, `Query`; `X` is
`ReadXmit`, `XmitObtain`, then `XmitTake` or `XmitNoBuffer`, then
`XmitSchedule`. A device number one too high is let through
(`ReadAstray` when `devs[]` is full): what the command then does to the memory
behind `devs[]` is undefined, and the model ends there. `Transmit` is the refinement mapping to `SpwTransmit`: a
buffer is *free* in `tx_buf_list` or in the hand of `test_app`, *queue*d in
`tx_list`, and on the *wire* with the driver or in `lst`.

### SpwLifecycle
Here time counts: `dev_cleanup` sleeps 4 ticks per device and takes no
semaphore, so whether `dma_task` is still in the driver depends on how long it
waits for the console. A task's step takes no time, and the clock ticks only
when no task is ready. `dma_process` may write in three places before it is
through with a device (a full receive ring before `rx_prepare`, a packet after
it, or the failure of a driver call before it returns), and what it
writes at one place takes up to `WriteTicks` together; the first line of `dma_task` takes as long.

### ExchangeQueue
A step is one `mq_*` call with the code up to the next, so processes
interleave inside create, write and delete. Descriptors are per process, names
and queues are in the kernel, and a dead process leaves its names behind.
`since` in a handle and the numbers used as messages are there for the
properties only. `Writers` says which processes write to which name; the
library has no such notion, but the generated code writes a queue from one
side.

### Tracerd
`lockSocket` is held around the uses of the two dictionaries, so each of them
is one step. Of the daemon's time only the order of arrival is kept: `Take(n, n2)` takes
the first entries of each dictionary, any number of them, for "older than one
second". `Sorted` gives each entry the place of its rank: the entries with a
smaller time stamp, or with the same and an earlier arrival, come before it, as
in the tuples that the code sorts. What is smaller differs: a line's time stamp is
converted to an integer (`tracerd.py:189`), a record's stays the string it came
as (`363`), and `StringOf` gives the place of a stamp among the strings, where
"10" is before "9". A client may give its messages any time stamps, equal ones and
falling ones too.

`out` is what a client writes on its control connection: two lines for each message,
and before them a line for each task that the message shows for the first time
(`tracer-inner.py:111-116`). One entry of `g_messages` is all that one `recv`
returned, `first` to `last` of these lines; its time stamp is 0 if a
line of a task is among them, whole, and otherwise the first that is found in it, and
there may be none, whereupon it is dropped (`LineStamp`). A line or a record may be cut by
`recv`: `GuiFragment` and `MsgFragment` do what the code does with the pieces,
and `cut` says whether the rest of a line, which the next `recv` begins with, still has its time stamp.
SIGINT has an effect only
in `accept`, since the handler evaluates `abortFunction` without calling it.
The content of messages is abstracted to client, half (sent or received),
time stamp and number. `Control` and `Data` say which clients use which of
their two connections.

### ZestTransfer
A step is one ioctl with the code up to the next. The kernel is two variables,
the URBs it works on and those it has completed in that order. `Count` is in
chunks, and a URB is named by its call and its chunk, which the code does not
know: `ReapsOwn` says that what it reaps blindly is the URB it means. The
properties speak of a card on which no transfer has failed since it was opened
(`failed`); after a failure the next transfer reaps what the last one left,
because the cancel of the error path does nothing. The deadline is kept in
seconds and ticks, as the code does, without a carry. `Card` is the refinement
mapping to `CardTransfer`, what the caller sees: `moved` are the chunks of this
call that were reaped with status 0 or were completed well and are still to be
reaped. That a count of reaped URBs is a count of chunks is what `ReapsOwn` adds.
A card on which something has failed is not `trusted`, and all that
`CardTransfer` promises of it is that a call does not time out early.

### PeekPoke
Every callback runs under the GTK lock, as does the update of the grid by the
poll thread, so each is one step but for the places where plotters are
touched, which the poll thread does without the lock: a kill, the wait for the
end of the plotter and the closing of its FIFO are steps. A removal goes by the
name in the selected row and by the place of that variable's first element, as
the code does; `job` is what the callback has in hand. A name whose offset is
no number (outside `Numbered`) gets a row, about which no callback and no poll can do
anything but raise. Three flags are there for the properties only:
`disturbed` is set by a plotter that ends of itself, and by nothing the program
does; `raced` when a callback forgets the FIFO that the poll thread has tested and not
yet written to; `intact` is lost with a telecommand that fails or a removal whose rows
are scattered. The target is what
`StartMonitor` and `StopMonitor` telecommands make of it. A row of the grid is
an element of a variable; variables may share addresses, the first
included, and with an address its entry in the maps that are indexed by address.

### TokenStream, Recognizer
The token stream is a record, and each of its methods an operator from record
to record. The generated parser is external: `Body` and `Decision` give a
grammar, and `Recognizer` runs it the way generated code does, with a stack of
the rules under way. `raised` is the exception on its way up, which every rule
catches, `BacktrackingFailed` excepted. Sets of follow tokens are computed
from the grammar as the tool does. `SilentIffSentence` compares the parser
with the derivations of the grammar, which are defined without a stack or a
memo.

### Lexer
The grammar is left open: the rule takes any characters, may look ahead as
far as it likes, and may fail. `EmptyLoops` says whether a `(...)+` loop may
fail before it took a character; it is FALSE in the run `streams`, and section 6
says what happens where it is TRUE.
`Lexer.reset` leaves line and column, so that the bounds of `Place` grow with
the number of resets, and the lines of `TokensTile` are of lexers that were not
reset.

### TokenRewrite, LazyRewrite
`program` is the list the code keeps, reduced in place by each rendering.
`LazyRewrite` knows only the instructions as they were given and defines what
stands for each token; `RendersLazily` is the refinement, and covers the
reduction that raises half-way. `MCStreams` puts the lexer before it: once three
letters have become three tokens, these are what is edited.

### Tree, TreeWalk, TreeRewrite
The heap is the sequence of all nodes ever made, so object identity is an
index. `TreeRewrite` is a program of rules: `held` are the roots a rule has in
hand, and what it does with them is any sequence of calls of the adaptor and
of the stream. A tree that was handed on is not held any more.

### TreeWizard, NodeStream, TreeReader
A pattern is a sequence of tokens and a parsed pattern names its nodes by
their place in it. `Match` has the labels too that a failed match leaves behind; a
search starts each with none. `TreeReader` first finds a subtree by a pattern, and then
is a tree parser on the stream over what was found: it reads, looks ahead,
skips what a wildcard matches, jumps to a subtree and returns, and replaces
children it has read. `path` is what the parser believes to be in.

### DebugEvents
An operation of the parser changes stream or trees at once and leaves its
events in `todo`; `Transmit` and `Ack` send them one by one, and each may fail once
the debugger is gone. A `rewind` without a marker goes to `lastMarker`, on a line
without an index; the debugger remembers the last mark itself. It
keeps what it can know from the lines it got.

## 3. Runs

| Run | Instance | States | Shows |
|---|---|---|---|
| `spw_packets` | 1 device, `devs[]` full, 3 receive and 3 transmit buffers | 128 k | lists exclusive, counters right, buffers in ring order, refinement of `SpwTransmit`; queued packets are handed over and commands return (`WorkIsDone`) |
| `spw_lifecycle` | 2 devices with 3 channels, 2 enabled, writes of up to 2 ticks | 125 k | the router is complete and nothing served that does not run, nothing is left running or open, no call on a closed channel if rounds fit in the pauses, a quit ends |
| `exchange_queue` | 2 processes, 2 names, 2 messages, 2 queues made, 1 slot, 2 descriptors | 810 k | a sole writer finds room and returns, a created queue is fresh |
| `tracerd` | lines of one client beside records of another, 1 message each and 1 signal; and lines alone and records alone, 2 messages with time stamps 9 or 10 and a task at either | 355 k | records are logged, and lines forwarded, once and in order but for a lower stamp; what announces a task goes before its use; what was read gets into the log while the daemon runs; a stop ends it |
| `zest_transfer` | 2 transfers of up to 3 chunks, second of 3 ticks, timeout of 5 | 175 k | the URB reaped is the one meant, the code knows which are with the kernel and leaves none after a success, refinement of `CardTransfer`, which includes that a transfer waits its time, and returns |
| `peekpoke` | 2 variables of 1 or 2 elements at overlapping addresses and a name without a number, 1 plotter, 1 telemetry message waiting, 3 calls of the user | 1.72 M | what is monitored is shown, a removal takes its own rows, the poll thread dies of nothing but what `PollSurvives` names, and is joined |
| `parser` | a grammar of 4 rules and 2 syntactic predicates, every source of up to 6 tokens of 3 types and white space, 3 filters, 1 reset | 562 k | an error is reported exactly where there is no derivation, memos are right, the parser ends |
| `streams` | inputs of up to 4 characters, marks 2 deep, 1 reset; 3 instructions on 3 tokens | 1.26 M | line and column are right, tokens and skipped text tile the input, `nextToken` returns; one operation per index, refinement of `LazyRewrite` |
| `tree` | 4 nodes, 2 trees in hand, streams of up to 2 elements | 1.21 M | nodes know their places and are in one tree, all readers agree |
| `tree_reader` | all patterns of up to 3 nodes of 7 kinds on all trees of up to 3 nodes of 2 types and on chains of 4; one more node, 2 marks or jumps | 1.76 M | patterns denote what they write, find what they mean where a wildcard is a single node; a tree parser knows where it is |
| `tree_wildcard` | the same | violation | "the node/subtree wildcard": it stands for no subtree (`WildcardsAreSubtrees`) |
| `debug` | sources of up to 3 tokens, 2 marks, trees of up to 5 nodes | 2.71 M | the debugger shows what the parser has done and the trees it has; the parser never hangs |

The run marked *violation* checks one property, which states a comment of the code
and which TLC finds violated; PROJECT.json quotes the comment ("findings").
Every property of the other runs has a mutant in PROJECT.json: a plausible bug,
written in the module as a definition marked "Mutated", that breaks it. The
type invariants of the later modules are the first conjunct of a safety
invariant.

Why these bounds are enough. The list code of `test.c` treats buffers alike,
so three transmit buffers give every combination of empty, one and several in
each stage; `devs[]` is full, so that the off-by-one check leads
out of it; the spare entry it otherwise leads to, and rounds of several devices, are
covered by the proofs of the run's invariants and of its refinement, and `WorkIsDone`
was checked for one device only. Two devices and two enabled channels are the least in which
a start can fail after another succeeded and a cleanup is between devices. Two
processes, each able to write, own, delete and die, and two queues made under
two names give every pairing of an old handle and a new queue; the table has
one slot so that its limit is met. Writes of two ticks, three of them for each of
two devices, are the longest that fit in the pauses (`RoundFits`). In `tracerd` one client's lines meet
another's records, so all threads of both kinds run against the main loop;
the order of one connection needs no other, and has instances of its own (`MCTracerd`):
two messages with a task before either, cut anywhere and sorted in any
batches. Stamps 9 and
10 are in one order as numbers and in the other as strings. A buffer of three chunks uses both URBs, one of
them twice, and 0, 1 and 2 chunks are the boundary cases of the loop; the call
begins at any tick of a second, so the missing carry is met. Two variables
whose elements share an address are the least where the maps by address can be
wrong, and with three calls one can be added, plotted and removed, or removed
and another loaded, while the thread is anywhere. Six tokens contain every
sentence in which a predicate fails after it has crossed a memoized rule, and
errors in it, before it and behind it. Three tokens have a first, a middle and
a last, and in `debug` a hidden one between two others; three instructions are the most that the case table of the
reduction relates at once, with one rendering between any two. Four nodes are
a nil list of two over a root, or a chain that can be rotated; three pattern
nodes have both siblings and depth. In `debug` trees are built only for the
empty source, since tokens and trees do not influence each other there
(`TreeTokens`): with each other they would only multiply.
The proofs of section 5 remove the bounds for the properties they cover.

`CHECK_DEADLOCK FALSE` is set because the programs do stop: they exit, both
tasks of `test.c` may wait for a semaphore nobody gives back, the daemon may be
left with a dead main thread, a parser reaches the end of its input, a pattern
is not found, a heap is full; in `ExchangeQueue` also because nobody has to
begin a call.

## 4. Fairness

* `SpwPackets`: both tasks have one priority and run whenever they are not
  waiting: weak fairness of their steps. `dma_sem` is created with
  `RTEMS_FIFO`, so a waiter gets a semaphore that is given back again and
  again: strong fairness of the two obtains. Nothing is assumed of the user or
  of the links.
* `SpwLifecycle`: weak fairness of all steps but the quit.
* `ExchangeQueue`: a process inside a call goes on with it; nobody has to
  begin a call, to read, or to stay alive.
* `Tracerd`: the threads run (weak fairness), the second goes by for all that
  is in the dictionaries at some collection again and again (strong fairness
  of taking everything; in the code an entry stays old once it is), and the
  MSC tracer answers. Clients and the user owe nothing.
* `ZestTransfer`: the caller goes on where it can and the clock runs (weak
  fairness of both). The card need not complete anything, nor fail.
* `PeekPoke`: the GTK thread finishes the callback it is in, and the poll
  thread runs. The user calls nothing, the target sends nothing, and a plotter
  lives as long as it likes.
* `Recognizer`, `Lexer`: the parser, or the lexer within `nextToken`, takes its
  next step. Nobody has to ask for a token or to reset. That a rule of the
  open grammar of `Lexer` ends is part of what is assumed.
* `DebugEvents`: the proxy's process runs, and a debugger that is there answers
  the line it has got or hangs up. It need not connect, and the parser need
  not do anything.

## 5. Proofs

TLAPS proves the following for every value of the constants that meets the
assumption named in the module. The assumptions say that sizes and bounds are
natural numbers, and what the code fixes: there is a device, a channel, a
buffer, a message and a slot; `devs[]` has an entry for each device, and may have no
more; different time stamps are different strings;
channel 0 is enabled; octet strings add nothing to an address, there is a kind
of plotter, and files list variables with their types; a newline is a character; None is
not an operation. What was a bound for TLC (devices, buffers, chunks, messages,
resets) is then any number. Where an `IInv` is named, it holds in every
reachable state (theorem `Inductive` or `LexInductive`, or a step of the theorems that follow).

* `SpwPackets_proofs`: `TypeCorrect`, `Exclusion`, `Counters`. The types say that
  every index but `ReadAstray`'s is that of a device or a spare entry, also where
  `devs[]` is full. Exclusion is
  inductive with the value of the semaphore: whoever is inside has it at 0.
  Counters needs Exclusion and the types, since each task reads list and
  counter in different steps. `Implementation`, the refinement of `SpwTransmit`, has for
  each action of `SpwPackets` the abstract action it maps to or a stutter; it
  rests on the counters, because the code hands over as many packets as the
  counter says. `TransmitRing` and `ReceiveRing`: a rotation of a ring is a ring
  (`RingRotates`), and a step either keeps the order or moves what is in front
  to the end. On the receive side only `RxAppend` turns the ring; what the
  driver takes or refuses, and a channel that is stopped, leave it as it is.
* `SpwLifecycle_proofs`: `TypeCorrect`, `OnlyRunningServed`,
  `NothingLeftRunning`, `DriverNotCalledOnClosed`. The invariants say little
  about the stages before the one they speak of, so `IInv` has `Stages`: at
  each place of `test_app` what it has made of the devices so far, those before
  `dev` done and those behind not. That no call meets a closed channel is a
  race, and `Ahead` is its inductive form: for every device that both have yet
  to reach, the ticks that `dma_task` needs to leave it (`LeaveIn`, up to three writes for this device
  and each before it) are fewer than those until `dev_cleanup` closes it (`CloseIn`). A tick takes one from
  both, and where a quit meets a round, `RoundFits` gives the inequality.
* `ExchangeQueue_proofs`: `TypeCorrect`, `Room`, `Fresh`. `IInv` is the types,
  `NamesApart` (a queue has one name for good: two names never stand for one
  queue and a handle keeps the name of its queue though the name may be
  another's by now), `Contents` (no queue over its length, no message older
  than its queue) and `RoomToSend`. `RoomToSend` alone is not inductive: that a
  second process cannot fill the queue between `mq_getattr` and `mq_send` needs
  the two handles to have the same name, hence the same writers. `FilesStep`
  and `CallStepOf` reduce the sixteen actions to three effects on names and
  three on queues.
* `ZestTransfer_proofs`: `TypeCorrect`, `ReapsItsOwn`, `QueuedIsExact`,
  `WaitsLongEnough`, `Implementation`. `ReapsOwn` is about a moment; what makes it so is
  `Window`: the kernel has exactly the chunks between the one reaped last and
  the one submitted last, and has completed a prefix of them, in their order.
  `Turn` says that slots and chunks alternate together and `Flags` that
  `Queued[]` is the window seen by slot. All three are about a card without a
  failed transfer, which after one stays excluded (`failed`). `Implementation`,
  the refinement of `CardTransfer`, rests on `Window` too: the chunks moved are
  those reaped and the good ones of the prefix (`Well`), so a completion adds
  the next one behind them, a reaped one stays (`WellTail`) since the code looks
  at its status, and the last reap finds them all there. `WaitsLongEnough` has
  the part about the time.
* `PeekPoke_proofs`: `MonitoredCanBeRemoved`, `PollThreadSurvives`, and the
  action property `DeletesItsRows`. The rows of the variable that is being
  removed must stand in one block from step to step, where the first stood and
  one shorter with each deletion (`RowsInBlock`); with the grid free of
  duplicates (`IsInjective`) this makes "delete the row where the first was"
  right. `PollThreadSurvives` is an action property: whatever step the thread dies at,
  it dies of one of the four things `PollSurvives` names. It rests on `Records` (no
  plotter is on record twice, and as long as none ended of itself each one on record runs,
  but for the one a callback has killed and is about to clear) and on `Thread` (what
  the thread found before its unlocked steps is still there, unless `raced`). Two names for one
  address are allowed: an assumption that addresses are distinct, which a
  first proof used, turned out not to be needed once `job` had the name that
  the code compares.
* `Tracerd_proofs`: `EveryRecordOnce`, `LinesInOrder` and `TasksBeforeUse`. Dictionary,
  batch and log in a row are `AllRecords` and `AllLines`; `LinesInv` and `RecordsInv`
  say of any two entries of one client in them that they are apart and in order, or
  the later one has the lower stamp. The step at stake is the sort: `Sorted` is a permutation that
  puts an entry before another only if its stamp is smaller, or equal and it
  came earlier, which is proved by counting (the ranks `UpTo` have different
  sizes, so each place is taken once), and any two that are exchanged so keep the
  statement (`Swaps`). Entries taken out at different times are never exchanged
  (`Batches`). `TasksBeforeUse` follows since nothing is lower than 0, the stamp of what announces a
  task (`Reported`).
* `Streams_proofs`, about `Lexer`: `InputIsTiled`. Inside a rule the tokens tile only what is
  before the beginning of the token under way (`Tiled`), and a rewind must not
  get behind that or ahead of the stream: `Nested` says where each open mark
  lies. `Located` has line and column for marks, beginnings and tokens, and
  `RightAfter` is the lemma that a consumed character keeps them right:
  counting one newline more, or one column more since the last. `Places`
  bounds them after resets. The attempt to prove the types showed that the
  bound of `Place` was wrong for more than one reset, which the instance does
  not have; it now grows with the resets.

* `TreeRewrite_proofs`: `TreesLinked`, `TreesReadAlike`, and `NothingDropped`, which is proved only. `Inv` has four
  parts. `Sound` is about the whole heap: no node is under itself, there is a
  rank that falls from node to child. `NoLists` is about the whole heap, too: no child is a
  list, since every way to hand over a tree hands over a list's children instead. `Forest` is about the roots (in hand, or
  elements the stream has not given out, `Gives`): their trees are disjoint,
  no node hangs in two places, and each knows its place; of the rest of the heap,
  where the code leaves wrong parents behind, it says nothing. `StreamOK` has
  the elements of the stream apart from each other as long as they are given out
  as they are. `DupTree` is the step at stake, since what it copies may
  be such a wreck: an element given out before, changed since. `GrownLinks` and
  `CopyLinks` show that the copy is a tree of new nodes whatever shape the
  original has by then. `Dropless` is the action property, from the same invariant.

  `TreesReadAlike` rests on a lemma about all walks that write something before
  the children of a node and something after them (`Walk`): the buffer of a
  stream, the calls of the visitor and the nodes in prefix order are three of
  them, so what one selects from the walk of a tree is the walk with what one
  selects at each node (`MappedWalk`). DOWN and UP balance in a walk and never
  go below the level it began at (`Balanced`). That is why `matchAny`, which counts them
  from any node on, stops at the UP that closes this node's children and not at one
  inside or behind them (`Wildcard`, `SkipsAlike`). The place of a call is the
  only one because the trees of a forest have no node twice (`WalkOnce`,
  `PlaceOnce`). Without `NoLists` it fails: a list is a node in
  prefix order, but the stream has nothing of its own for it.

Walks of a tree and copies are recursive functions, and what they compute is
proved, here and in `Streams_proofs`, by induction over the elements of a set, which is the one form of induction
the prover can use (`Induct`, from `WFMin`; the induction theorems of
the library take an operator). That such a function equals its body for every
node is itself a lemma (`Recursion`), by the rank of `Sound`.

A first attempt at this proof failed for a good reason: `DupTree` of the model
copied the subtree's nodes as a set, so a node that hung in it twice (in an element
changed after it was given out) would have had one copy with two parents. The
loop of `dupTree` makes a copy for each place, and so does the model now.

* `Streams_proofs`, about `TokenRewrite`: `OneOperationPerIndex` and
  `RendersAsAsked`, the refinement of `LazyRewrite`. `OnePerIndex` needs only
  types (`Typed`: what the instructions make of operations) and what the two
  walks do: what comes behind a replace or an insert is `Spaced` from it, so in
  a reduced program any two operations are apart (`Reduced`). The refinement
  needs `Keeps`: until a rollback after a rendering, the program `Follows` the
  instructions asked for, which is to say that
    * its operations stand for instructions, with other texts (`Thinned`), and
    * either every reduction will fail, at a cut whose two sides are both still
      there (`StuckBehind`),
    * or the program is as a walk over the replaces leaves it that has come to
      some `w` (`Sound`): what is gone was covered by a replace, or merged into
      an operation that is still there; and, unless one replace cuts another
      somewhere, it says of every token what the instructions say (`Means`).

  `w` is what makes this inductive: a program that was reduced, added to and is
  reduced again has been walked up to the old end and is as given behind it,
  and the walk starts anew from the beginning. `FollowsMore` is the step of an
  instruction and `Reduces` that of a rendering: a reduction fails just when
  the instructions are invalid, and else means the same. `Means` is kept by the
  second walk since an insert that goes has another behind it at its index (`Twins`), or a
  replace that starts there, which has its text in the right place (`ReadsKept`,
  `ReadsGiven`), while other indices do not notice (`ReadsElsewhere`). What
  a token's text is in `LazyRewrite` is a sum over all instructions, and
  `JoinsFurther` and `JoinsNothing` are the algebra of such sums. At last
  `LoopHandles` has the loop of `toString`, which jumps behind a replace, add
  for each token what the sum over the tokens adds.

Only model-checked:

* every liveness property: temporal properties under fairness, and `ENABLED`,
  are beyond the prover;
* `SilentIffSentence` and `MemoIsParse` (`Recognizer`), and the three
  invariants of `TreeReader`: they compare what the runtime does step by step
  with the derivations of a grammar, or with what a pattern means, each of them
  a recursion through several functions at once;
* `DebuggerFollows` (`DebugEvents`), whose tree half needs a heap like that of
  `TreeRewrite` on both ends of a channel.

## 6. Where code and documentation differ

Seen while modelling; the models do what the code does.

SpaceWire:
* With no free transmit buffer command X continues without releasing `dma_sem`
  (`test.c:763`), and `dma_task` waits for ever, where the header
  (`test.c:17-18`) has it handle reception and transmission. `WorkIsDone` is
  about the runs in which the semaphore is not lost.
* `dev_cleanup` sleeps 4 ticks and closes the device (`test.c:434`), while
  `dma_process` may still be printing a line per packet and call the driver
  afterwards; the comment at `test.c:433` says it waits for other tasks to be
  out of the driver. `NoCallOnClosed` has as its condition that a round fits:
  that the up to three times `dma_process` waits for the console, for this device
  and each before it, are shorter than the pauses (`RoundFits`). Nothing in the code ensures it.
* `devno > nospw` (`test.c:746`) lets a packet be queued on a device
  `dma_task` never visits, or, when `devs[]` is full (`test.c:499-502` allows it),
  behind its end; the model ends there (`ReadAstray`). The comment `test.c:967` speaks of retransmission,
  where `TxAppend` puts sent packets among the free ones.

Exchange queues:
* `qinfoIdx > MAX_POSSIBLE_QUEUES` (`queue_manager.c:184`, `358`) is false at
  the limit, so one entry beyond `qinfo[]` is written; deleting a queue gives
  no slot back.
* `delete_exchange_queue` unlinks whatever the name stands for by now
  (`queue_manager.c:404`), which after another create is another process's
  queue, where `queue_manager.h:108-110` speaks of the queue of the handle.

Trace:
* The SIGINT handler evaluates `abortFunction` and does not call it
  (`tracerd.py:408`): a signal outside `accept` is lost, while `tracerGUI.py`
  sends one and waits.
* The time stamps of records are strings and sorted as such (`tracerd.py:363`), so 10 comes
  before 9; those of lines are sorted as integers (`189`). `LogComplete` and `ForwardedInOrder`
  allow what that costs: a later entry comes first for its lower stamp, nothing else.
  All that one `recv` returns shares one time stamp, and that is 0 with a
  line of a task in it (`180-182`): messages in it come before earlier ones that are
  collected with it. What is cut by `recv` inside a line is given up ("Fragmentation... message lost"),
  though the rest may be taken for a line of its own.
* If a client's first record arrives while `abortFunction` writes the declarations, the
  change of `g_messagesDecl` under its loop ends it with an exception (`Declare`): the
  file stays incomplete and the threads run on, which `StopEnds` counts as an end.
* A record that arrives in pieces is joined with a newline in its
  delimiter's place, and the thread dies of it (`tracerd.py:262`). A tracer
  that closes its connection makes `recv` return the empty string for ever
  (`tracerd.py:143`). `tracer.py` sends six fields where seven are unpacked.
  The halves of a message get different numbers when the records of two clients interleave
  (`tracerd.py:245` numbers by change of time stamp); no property is about the numbers.

ZestSC1:
* `USBDEVFS_DISCARDURB` is given the address of a pointer (`DataLinux.c:140`)
  and cancels nothing; a URB on the stack stays with the kernel, and
  the next transfer takes it for its own: no property catches this. `ReapsOwn`, `QueuedExact` and
  `TransferSpec` are about cards where no transfer has failed.
* The deadline is not carried into the seconds (`DataLinux.c:48`), so a transfer may give
  up almost a second early, which `TransferSpec` allows.
* `*Handle` is set before the configuration of the FPGA is tried
  (`Main.c:212`), and points to freed memory when that fails.

PeekPoke:
* The poll thread can die of four things, which `PollSurvives` names, and dies of no other:
  a plotter whose window was closed, to which the next write raises (`disturbed`); a
  row whose offset is no number (`533-534`, `551`), at the next telemetry;
  a callback that kills the very plotter whose FIFO the thread is writing to (`110`), until the FIFO is
  forgotten; and a FIFO that is forgotten between the thread's test and its write (`raced`). The
  last two are races of the program with itself, which the GTK lock would exclude.
* The thread resets `_bDie` when it starts, and shows values under the GTK
  lock, which the main thread holds when it leaves `gtk.main` by an interrupt:
  "when the main thread sets it, we will die" (`peekpoke.py:74`) needs neither
  to have happened. `Joins` has both as its condition, and catches neither.
* Rows that stand apart, dragged in the grid or added later, make a removal delete others or raise,
  so that Exit cannot end, as it cannot with a row whose offset is no
  number. A removal that raises, or whose telecommand is lost, leaves the target monitoring
  what has no row any more: the condition `intact` of `WatchedIsShown`. Adding a variable that is there replaces its
  `PlottedVariable`, and its plotter cannot be fed or killed any more.
  Switching recording off and on with the same file name records nothing
  (`121-143`). `SaveAs` stores an octet string with one element.

Streams and lexer:
* A rollback after a rendering takes back less than was asked for, since the
  program was reduced (`streams.py:1015`). The message for a bad range in
  `replace` concatenates integers.
* `EarlyExitException` consumes nothing and nothing recovers from it, so
  `nextToken` may go round for ever in a `(...)+` loop that fails at its
  first character (`EmptyLoops`). `Lexer.reset` leaves
  line and column.
* A token type that is overridden to another channel is discarded, where the
  comment says it is ignored by the parser. `reset` seeks to 0, which may be
  off the channel. `getTokens` omits its last index.

Recognizer:
* A speculative match clears `errorRecovery`. The branch for an unwanted token
  does not leave recovery. `BacktrackingFailed` passes rules without popping
  their follow sets, which stay on the stack. At the end of the start rule
  trailing tokens lead to an inserted EOF.

Trees:
* A rewrite stream over a list of one element gives None the second time,
  where the comment promises the element again. `becomeRoot` under `^(nil x)`
  leaves `x` a stale parent, as `deleteChild` does; `addChildren` sets no
  parents. `getAncestors` and `inContext` call undefined names. `...` in a
  context is matched greedily, and needs a node even at the start, where the
  comment says it is a no-op; the contexts asked have one name before each.
* The node stream: a push before the first use saves -1, and the pop fills
  the buffer again; so does a push of a node that is not in the buffer.
  `reset` before the first use leaves it empty. The constructor for a part
  of a tree appends the whole tree. The buffer is stale once children are
  replaced; a phase that rewrites does not jump or reset in `TreeReader`.
* `TreeWizard`: a dot matches only a node with the children the pattern gives it, mostly
  none, where `treewizard.py:519` calls it the node/subtree wildcard and `547` has it
  match anything (run `tree_wildcard`); `WizardFinds` asks for the matches in which a dot
  stands for a single node. What follows the closing parenthesis of a pattern is ignored,
  where a malformed pattern is to match nothing (`521-522`, `PatternsDenote` asks only well-formed ones);
  a character it does not know reads as the end, and its flag is never looked
  at; a subtree that cannot be read is left out; an unclosed `[` raises
  `TypeError`; `%l:nil` loses its label; a pattern cannot begin with a dot or
  a label. Labels are filled in also by a match that fails later.

Debugging:
* `errorNode`, the listener of the adaptor, and the events of tree parsers refer to
  undefined names; `reportError` leaves out what the base class counts; edits
  of children send no event; the event of `becomeRoot` names the new root as
  it was given, where the comment (`debug.py:688-706`) says the result. A
  `mark` does not announce hidden tokens before the first look ahead, so a
  debugger that goes back to that mark does not know them. A seek sends no
  event.

## 7. Not modelled

File patchers, installers and wrappers are sequences of calls to other tools.
Of `taste-generate-skeletons` the one thing with a history is the checksum,
which is written before the skeletons are generated and stays if that fails
(line 103). The progress dialog passes one number from a thread to the
GUI; its guard `100 < from_value < 0` (line 42) is never true, which needs
no model. The AADL, ASN.1 and Tcl files are data for other programs. The
documentation samples are not part of the product.

In the modelled parts, left out are: the packet header and addressing of
command X, the link monitor (`link_ctrl_task` is never started), the contents
of messages and their rendering, the check of `msg_max`, the wording of the MSC
file, socket errors other than EINTR, an MSC tracer that goes away, the application's own prints in
`test.c`, which only `SpwLifecycle` would notice; of the
ZestSC1 library everything but the transfers; of PeekPoke poking, recording,
saving, the dialogs and the buttons; of the ANTLR runtime the wording of
errors, printing and DOT, files as input, error nodes, the debug tree parser,
the listeners that print or record events, and the generated code.

## 8. Plan

Done: all modules of section 2, and proofs of every invariant and every action
property of the runs `spw_packets`, `spw_lifecycle`, `exchange_queue`,
`tracerd`, `zest_transfer`, `peekpoke`, `streams` and `tree`.

Left, as proofs: the stream half of `DebuggerFollows`. As a model: `pkt_init_hdr`
against "dstadr[0] is always non-zero" (`test.c:282`). As runs: the disagreements of
section 6 that no property catches, each against the comment it is beside.
