------------------------------- MODULE Tracerd -------------------------------
(***************************************************************************)
(* The trace daemon misc/AutoGUI/tracerd.py and its clients, tracer-inner. *)
(* A client runs an application and reports each message it sees twice,    *)
(* as it leaves and as it arrives: a line on the control connection and a  *)
(* record on the data connection.  The daemon has a thread per connection, *)
(* which puts what it receives in g_messages (lines) or g_messages2        *)
(* (records); the main thread takes out what is older than a second, sorts *)
(* it, forwards the lines to the MSC tracer, waiting for its ack, and logs *)
(* the records, which abortFunction writes to the MSC file at the end.     *)
(*                                                                         *)
(* lockSocket is held where both dictionaries are used, and for no other   *)
(* step, so each such block is one step.  Of time only the one second is   *)
(* kept: entries grow old in the order in which they arrived.              *)
(***************************************************************************)
EXTENDS Integers, Sequences, FiniteSets, SequencesExt

CONSTANTS
  Client,    \* tracer-inner processes
  Control, Data,  \* those that get as far as the one and the other connection
  Stamp,     \* time stamps
  StringOf,  \* the place of a stamp, written down, among the strings: "10" < "9"
  NEvents,   \* bound: messages each client reports
  NTasks,    \* bound: tasks of each application
  NSignals   \* bound: how often Ctrl-C is pressed

ASSUME TracerdAssumption ==
  /\ Control \subseteq Client /\ Data \subseteq Client
  /\ Stamp \subseteq Nat \ {0}
  /\ StringOf \in [Stamp -> Nat \ {0}]
  /\ \A t, u \in Stamp : StringOf[t] = StringOf[u] => t = u
  /\ NEvents \in Nat /\ NTasks \in Nat /\ NSignals \in Nat

\* A message has two halves, 2*e - 1 as it leaves and 2*e as it arrives.
Half      == 1 .. 2 * NEvents
EventOf(h) == (h + 1) \div 2

VARIABLES
  stamp,       \* the time stamps of the messages each client has reported
  out,         \* its control lines: a message by its number, a new task as 0
  control,     \* each control connection: not yet accepted, served or closed
  data,        \* each data connection; served, it may also be at the records of
               \* one recv (parsing), have its buffer spoilt, or be dead
  lines,       \* control lines each client's thread has read, to their end or
  cut,         \* the last of them in part: its rest shows its time stamp, or not
  records,     \* records each client's thread has read
  g_messages, g_messages2,   \* entries in the order in which they arrived
  toSort, toSort2,           \* what the main thread has taken out and sorted
  g_timestamp, g_order,
  g_messagesDecl,            \* clients whose message has been declared
  g_completeLog, forwarded,  \* records logged, entries acknowledged by the tracer
  g_abort,
  mainPc,      \* the main thread
  mscFile,     \* the records in the MSC file, once it is written
  signals      \* SIGINTs received

clientVars == <<stamp, out>>
lineVars   == <<control, lines, cut, g_messages>>
recordVars == <<data, records, g_messages2, g_timestamp, g_order, g_messagesDecl>>
mainVars   == <<toSort, toSort2, g_completeLog, forwarded, g_abort, mainPc, mscFile, signals>>
vars       == <<clientVars, lineVars, recordVars, mainVars>>

Init ==
  /\ stamp = [c \in Client |-> <<>>]
  /\ out   = [c \in Client |-> <<>>]
  /\ control = [c \in Client |-> "connecting"]
  /\ data    = [c \in Client |-> "connecting"]
  /\ lines   = [c \in Client |-> 0]
  /\ cut     = [c \in Client |-> "no"]
  /\ records = [c \in Client |-> 0]
  /\ g_messages = <<>> /\ g_messages2 = <<>>
  /\ toSort = <<>> /\ toSort2 = <<>>
  /\ g_timestamp = 0 /\ g_order = 0
  /\ g_messagesDecl = {}
  /\ g_completeLog = <<>> /\ forwarded = <<>>
  /\ g_abort = FALSE
  /\ mainPc = "collect"
  /\ mscFile = <<>>
  /\ signals = 0

----------------------------------------------------------------------------
(* The clients (tracer-inner.py)                                            *)

IsNew(c, i) == out[c][i] = 0
Tasks(c)    == {i \in DOMAIN out[c] : IsNew(c, i)}

\* A line for the sender and for the receiver, where it is a task not seen before,
\* then a line and a record for each half.  Nothing makes the stamps rise.
Report(c) ==
  /\ Len(stamp[c]) < NEvents
  /\ \E t \in Stamp : stamp' = [stamp EXCEPT ![c] = Append(@, t)]
  /\ \E new \in {<<>>, <<0>>, <<0, 0>>} :
       /\ new = <<>> => Tasks(c) # {}
       /\ Cardinality(Tasks(c)) + Len(new) <= NTasks
       /\ out' = [out EXCEPT ![c] = @ \o new \o <<Len(stamp'[c]), Len(stamp'[c])>>]
  /\ UNCHANGED <<lineVars, recordVars, mainVars>>

\* Records sent.
Sent(c) == 2 * Len(stamp[c])

----------------------------------------------------------------------------
(* GUIThread: one entry for whatever recv returns, which may begin with the *)
(* rest of a line cut before.                                               *)

\* Where the next recv may end.
Ends(c) == lines[c] + (IF cut[c] = "no" THEN 1 ELSE 0) .. Len(out[c])

\* A piece with a whole line of a task.
Announces(c, first, last) == \E i \in first .. last : IsNew(c, i)

\* The lines in which the search for a time stamp finds one.
Stamped(c, last) ==
  {i \in lines[c] + 1 .. last : ~IsNew(c, i)}
    \cup (IF cut[c] = "stamped" THEN {lines[c]} ELSE {})

\* The time stamp it returns, if any.
FirstFound(c, last) ==
  {stamp[c][out[c][i]] : i \in {j \in Stamped(c, last) : \A k \in Stamped(c, last) : j <= k}}

\* What is stamped 0 is sorted before everything.
LineStamp(c, last) ==
  IF Announces(c, lines[c] + 1, last) THEN {0} ELSE FirstFound(c, last)

\* Data without a time stamp is dropped.
GuiReceive(c) ==
  /\ control[c] = "served"
  /\ ~g_abort
  /\ \E last \in Ends(c) :
       /\ lines' = [lines EXCEPT ![c] = last]
       /\ \/ LineStamp(c, last) = {} /\ UNCHANGED g_messages
          \/ \E t \in LineStamp(c, last) :
               g_messages' = Append(g_messages, [ts |-> t, client |-> c,
                                                 first |-> lines[c] + 1, last |-> last])
  /\ cut' = [cut EXCEPT ![c] = "no"]
  /\ UNCHANGED <<control, clientVars, recordVars, mainVars>>

\* "Fragmentation... message lost": what recv returned ends inside a line, before
\* its time stamp or behind it; the SystemExit of panic is caught.
GuiFragment(c) ==
  /\ control[c] = "served"
  /\ ~g_abort
  /\ \E last \in Ends(c) :
       /\ lines' = [lines EXCEPT ![c] = last]
       /\ \E rest \in {"bare", "stamped"} :
            /\ rest = "stamped" => ~IsNew(c, last)
            /\ last = lines[c] /\ cut[c] = "bare" => rest = "bare"
            /\ cut' = [cut EXCEPT ![c] = rest]
  /\ UNCHANGED <<control, g_messages, clientVars, recordVars, mainVars>>

\* Mutated: the loop of the thread does not look at g_abort.
GuiNeverEnds(c) == FALSE /\ UNCHANGED vars

GuiEnd(c) ==
  /\ control[c] = "served"
  /\ g_abort
  /\ control' = [control EXCEPT ![c] = "closed"]
  /\ UNCHANGED <<lines, cut, g_messages, clientVars, recordVars, mainVars>>

----------------------------------------------------------------------------
(* MsgThread                                                                *)

\* The time stamp of a record is a string.
RecordStamp(c, h) == StringOf[stamp[c][EventOf(h)]]

\* A time stamp other than the last takes the next number.
NextOrder(c, h) == IF RecordStamp(c, h) # g_timestamp THEN g_order + 1 ELSE g_order

\* A new name in g_messagesDecl ends abortFunction with an exception if it is
\* in the loop that writes the declarations, which does not take lockSocket.
Declare(c) ==
  /\ g_messagesDecl' = g_messagesDecl \cup {c}
  /\ \/ mainPc' = mainPc
     \/ /\ mainPc = "dump" /\ g_messagesDecl # {} /\ c \notin g_messagesDecl
        /\ mainPc' = "crashed"

Add(c) ==
  LET h == records[c] + 1
  IN  /\ h <= Sent(c)
      /\ g_timestamp' = RecordStamp(c, h)
      /\ g_order' = NextOrder(c, h)
      /\ g_messages2' = Append(g_messages2,
           [ts |-> RecordStamp(c, h), client |-> c, half |-> h, order |-> NextOrder(c, h)])
      /\ records' = [records EXCEPT ![c] = h]
      /\ Declare(c)

\* g_abort is tested before recv, not between the records recv has returned.
InRecv(c) == data[c] = "parsing" \/ (data[c] = "served" /\ ~g_abort)

MsgReceive(c) ==
  /\ InRecv(c)
  /\ Add(c)
  /\ \/ data' = [data EXCEPT ![c] = "served"]
     \/ records'[c] < Sent(c) /\ data' = [data EXCEPT ![c] = "parsing"]
  /\ UNCHANGED <<toSort, toSort2, g_completeLog, forwarded, g_abort, mscFile,
                 signals, clientVars, lineVars>>

\* recv ends inside a record, behind its first delimiter: the join of the rest
\* with newlines loses the delimiter.  Up to its last delimiter the record counts.
MsgFragment(c) ==
  /\ InRecv(c)
  /\ records[c] < Sent(c)
  /\ data' = [data EXCEPT ![c] = "spoilt"]
  /\ \/ Add(c)
     \/ UNCHANGED <<records, g_timestamp, g_order, g_messages2, g_messagesDecl, mainPc>>
  /\ UNCHANGED <<toSort, toSort2, g_completeLog, forwarded, g_abort, mscFile,
                 signals, clientVars, lineVars>>

\* "Protocol error" when the next bytes come: the thread ends.
MsgPanic(c) ==
  /\ data[c] = "spoilt"
  /\ records[c] < Sent(c)
  /\ ~g_abort
  /\ data' = [data EXCEPT ![c] = "dead"]
  /\ UNCHANGED <<records, g_messages2, g_timestamp, g_order, g_messagesDecl,
                 clientVars, lineVars, mainVars>>

MsgEnd(c) ==
  /\ data[c] \in {"served", "spoilt"}
  /\ g_abort
  /\ data' = [data EXCEPT ![c] = "closed"]
  /\ UNCHANGED <<records, g_messages2, g_timestamp, g_order, g_messagesDecl,
                 clientVars, lineVars, mainVars>>

----------------------------------------------------------------------------
(* The main thread                                                          *)

\* Mutated: not sorted, in the order of the dictionary, which can be any.
SortedNot(s) == Reverse(s)

\* Sorted by time stamp, then by arrival.
UpTo(s, i)  == {j \in DOMAIN s : s[j].ts < s[i].ts \/ (s[j].ts = s[i].ts /\ j <= i)}
Place(s, k) == CHOOSE i \in DOMAIN s : Cardinality(UpTo(s, i)) = k

Sorted(s) == [k \in DOMAIN s |-> s[Place(s, k)]]

Older(s, n) == SubSeq(s, 1, n)

\* Mutated: an entry that was taken out stays in the dictionary.
NewerKept(s, n) == SubSeq(s, IF n = 0 THEN 1 ELSE n, Len(s))

Newer(s, n) == SubSeq(s, n + 1, Len(s))

\* The first n and n2 entries are older than a second.
Take(n, n2) ==
  /\ mainPc = "collect"
  /\ toSort'  = Sorted(Older(g_messages, n))   /\ g_messages'  = Newer(g_messages, n)
  /\ toSort2' = Sorted(Older(g_messages2, n2)) /\ g_messages2' = Newer(g_messages2, n2)
  /\ mainPc' = "forward"
  /\ UNCHANGED <<control, lines, cut, data, records, g_timestamp, g_order, g_messagesDecl,
                 g_completeLog, forwarded, g_abort, mscFile, signals, clientVars>>

Collect == \E n \in 0 .. Len(g_messages), n2 \in 0 .. Len(g_messages2) : Take(n, n2)

mainRest == <<g_abort, mscFile, signals, clientVars, lineVars, recordVars>>

\* mysend, up to its wait for the ack.
Forward ==
  /\ mainPc = "forward" /\ toSort # <<>>
  /\ mainPc' = "ack"
  /\ UNCHANGED <<toSort, toSort2, g_completeLog, forwarded, mainRest>>

\* The MSC tracer answers.
Ack ==
  /\ mainPc = "ack"
  /\ forwarded' = Append(forwarded, Head(toSort))
  /\ toSort' = Tail(toSort)
  /\ mainPc' = "forward"
  /\ UNCHANGED <<toSort2, g_completeLog, mainRest>>

Store ==
  /\ mainPc = "forward" /\ toSort = <<>>
  /\ g_completeLog' = g_completeLog \o toSort2
  /\ toSort2' = <<>>
  /\ mainPc' = "accept1"
  /\ UNCHANGED <<toSort, forwarded, mainRest>>

pollRest == <<toSort, toSort2, g_completeLog, forwarded, g_abort, mscFile, signals,
              lines, cut, g_messages, records, g_messages2, g_timestamp, g_order,
              g_messagesDecl, clientVars>>

\* PollSocketNonBlock: a connection, or the timeout, and a sleep in which SIGINT
\* is lost as it is in Collect.
AcceptControl ==
  /\ mainPc = "accept1"
  /\ \E c \in Control : /\ control[c] = "connecting"
                        /\ control' = [control EXCEPT ![c] = "served"]
  /\ mainPc' = "accept2"
  /\ UNCHANGED <<data, pollRest>>

AcceptData ==
  /\ mainPc = "accept2"
  /\ \E c \in Data : /\ data[c] = "connecting"
                     /\ data' = [data EXCEPT ![c] = "served"]
  /\ mainPc' = "collect"
  /\ UNCHANGED <<control, pollRest>>

\* Mutated: no timeout on the listening sockets.
NoConnectionBlocks == FALSE /\ UNCHANGED vars

NoConnection ==
  /\ mainPc \in {"accept1", "accept2"}
  /\ mainPc' = IF mainPc = "accept1" THEN "accept2" ELSE "collect"
  /\ UNCHANGED <<control, data, pollRest>>

\* SIGINT.  The handler returns abortFunction and does not call it: only an
\* accept that ends with EINTR calls it.
Signal ==
  /\ signals < NSignals
  /\ mainPc \notin {"exited"}
  /\ signals' = signals + 1
  /\ mainPc' = IF mainPc \in {"accept1", "accept2"} THEN "dump" ELSE mainPc
  /\ UNCHANGED <<toSort, toSort2, g_completeLog, forwarded, g_abort, mscFile,
                 clientVars, lineVars, recordVars>>

\* The end of abortFunction: the file is complete, the threads are told to end.
Dump ==
  /\ mainPc = "dump"
  /\ mscFile' = g_completeLog
  /\ g_abort' = TRUE
  /\ mainPc' = "join"
  /\ UNCHANGED <<toSort, toSort2, g_completeLog, forwarded, signals, clientVars,
                 lineVars, recordVars>>

Join ==
  /\ mainPc = "join"
  /\ \A c \in Client : /\ control[c] \in {"connecting", "closed"}
                       /\ data[c] \in {"connecting", "closed", "dead"}
  /\ mainPc' = "exited"
  /\ UNCHANGED <<toSort, toSort2, g_completeLog, forwarded, mainRest>>

Main == \/ Collect \/ Forward \/ Store \/ AcceptControl \/ AcceptData
        \/ NoConnection \/ Dump \/ Join

Gui(c) == GuiReceive(c) \/ GuiFragment(c) \/ GuiEnd(c)
Msg(c) == MsgReceive(c) \/ MsgFragment(c) \/ MsgPanic(c) \/ MsgEnd(c)

Next ==
  \/ \E c \in Client : Report(c) \/ Gui(c) \/ Msg(c)
  \/ Ack \/ Signal \/ Main

Spec == Init /\ [][Next]_vars

\* The threads run, the second goes by for all that is in the dictionaries, and
\* the MSC tracer answers.
Fairness ==
  /\ WF_vars(Main) /\ WF_vars(Ack)
  /\ SF_vars(Take(Len(g_messages), Len(g_messages2)))
  /\ \A c \in Client : WF_vars(Gui(c)) /\ WF_vars(Msg(c))

FairSpec == Spec /\ Fairness

----------------------------------------------------------------------------
LineEntry == [ts : {0} \cup Stamp, client : Client, first : Nat, last : Nat]
Record == [ts : Nat, client : Client, half : Half, order : 1 .. g_order]

\* Types, and the collected batch of lines is non-empty while an ack is due.
TypeOK ==
  /\ stamp \in [Client -> Seq(Stamp)]
  /\ out \in [Client -> Seq(0 .. NEvents)]
  /\ control \in [Client -> {"connecting", "served", "closed"}]
  /\ data \in [Client -> {"connecting", "served", "parsing", "spoilt", "dead", "closed"}]
  /\ lines \in [Client -> Nat] /\ cut \in [Client -> {"no", "bare", "stamped"}]
  /\ records \in [Client -> 0 .. 2 * NEvents]
  /\ g_messages \in Seq(LineEntry) /\ toSort \in Seq(LineEntry) /\ forwarded \in Seq(LineEntry)
  /\ g_messages2 \in Seq(Record) /\ toSort2 \in Seq(Record) /\ g_completeLog \in Seq(Record)
  /\ g_timestamp \in Nat /\ g_order \in Nat
  /\ g_messagesDecl \subseteq Client
  /\ g_abort \in BOOLEAN /\ signals \in 0 .. NSignals
  /\ mainPc \in {"collect", "forward", "ack", "accept1", "accept2",
                 "dump", "join", "exited", "crashed"}
  /\ mscFile \in Seq(Record)
  /\ mainPc = "ack" => toSort # <<>>

\* Through the dictionary, the batch and the log, every record a MsgThread has
\* read is there once, and of two of one client the later comes first only if
\* its time stamp is the lower string.
LogComplete ==
  /\ TypeOK
  /\ LET s == g_completeLog \o toSort2 \o g_messages2 IN
     /\ \A c \in Client :
          {s[i].half : i \in {j \in DOMAIN s : s[j].client = c}} = 1 .. records[c]
     /\ \A i, j \in DOMAIN s :
          i < j /\ s[i].client = s[j].client =>
            s[i].half < s[j].half \/ (s[j].half < s[i].half /\ s[i].ts < s[j].ts)

\* Of two pieces of one client's lines the MSC tracer gets the later one first
\* only if its time stamp is lower, and no line twice.
ForwardedInOrder ==
  LET s == forwarded \o toSort \o g_messages
  IN  \A i, j \in DOMAIN s :
        i < j /\ s[i].client = s[j].client =>
          s[i].last < s[j].first \/ (s[j].last < s[i].first /\ s[i].ts < s[j].ts)

\* What announces a task gets to the tracer before all that the client sent after
\* it, whatever the time stamps: this is what the stamp 0 is for.
TasksFirst ==
  \A i, j \in DOMAIN forwarded :
    LET e == forwarded[i]
        f == forwarded[j]
    IN  i < j /\ e.client = f.client /\ Announces(f.client, f.first, f.last) =>
          e.last < f.first

\* Once abortFunction runs, the process ends, or an exception ends the function.
StopEnds == (mainPc = "dump") ~> (mainPc \in {"exited", "crashed"})

Stopping == mainPc \in {"dump", "join", "exited", "crashed"}

\* Every record a MsgThread has read gets into the log, unless the daemon stops.
ReadIsLogged ==
  \A c \in Data, h \in Half :
    (records[c] >= h) ~>
      (Stopping \/ \E i \in DOMAIN g_completeLog :
                     g_completeLog[i].client = c /\ g_completeLog[i].half = h)
=============================================================================
