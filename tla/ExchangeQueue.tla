---------------------------- MODULE ExchangeQueue ----------------------------
(***************************************************************************)
(* The message queues of misc/AutoGUI/queue_manager.c, used by several     *)
(* processes at once: the application, the GUIs and the Python scripts.    *)
(* What the processes share is in the kernel: names, and queues that       *)
(* outlive the process that made them and, once opened, their name.  Each  *)
(* process has its descriptors and its table qinfo[].                      *)
(*                                                                         *)
(* A step is one mq_* call with the code up to the next one, so processes  *)
(* interleave inside create, write and delete.  A process may die at any   *)
(* moment and be started again.                                            *)
(***************************************************************************)
EXTENDS Integers, Sequences, FiniteSets

CONSTANTS
  Proc,       \* processes
  Name,       \* queue names
  Writers,    \* the processes that write to the queue of each name
  MaxMsg,     \* max_msg_nubmer: what a queue holds
  MaxSlots,   \* MAX_POSSIBLE_QUEUES
  NFd,        \* bound: descriptors a process may have open
  MaxQueues   \* bound: queues made in a run

ASSUME QueueAssumption ==
  /\ Writers \in [Name -> SUBSET Proc]
  /\ MaxMsg \in Nat \ {0}
  /\ MaxSlots \in Nat \ {0}
  /\ NFd \in Nat \ {0}
  /\ MaxQueues \in Nat

Fd == 1 .. NFd
Queue == 1 .. MaxQueues
NoQueue == 0

VARIABLES
  file,     \* the queue each name stands for
  queue,    \* the messages in each queue, oldest first
  made,     \* number of queues made so far
  fds,      \* what each descriptor of each process refers to
  qinfo,    \* qinfo[0 .. qinfoIdx-1] of each process
  op        \* the call each process is in

vars == <<file, queue, made, fds, qinfo, op>>

(***************************************************************************)
(* A descriptor refers to a queue; for the properties it also has the name *)
(* it was opened by and the making of a queue (the first, the second, ...) *)
(* it comes from.  A message is the latest making when it was written.     *)
(***************************************************************************)
Handle  == [q : Queue, name : Name, since : 0 .. MaxQueues]
Closed  == [q |-> NoQueue]
Message == 0 .. MaxQueues
Slot    == [fd : Fd, name : Name]

Idle == [at |-> "idle"]
Call ==
  {Idle} \cup [at : {"unlink", "reopen"}, name : Name]
         \cup [at : {"drain", "send"}, fd : Fd]
         \cup [at : {"delete"}, was : Handle]

Init ==
  /\ file  = [n \in Name |-> NoQueue]
  /\ queue = [q \in Queue |-> <<>>]
  /\ made  = 0
  /\ fds   = [p \in Proc |-> [f \in Fd |-> Closed]]
  /\ qinfo = [p \in Proc |-> <<>>]
  /\ op    = [p \in Proc |-> Idle]

----------------------------------------------------------------------------
At(p, at) == op[p].at = at
Go(p, o)  == op' = [op EXCEPT ![p] = o]

\* mq_open returns the lowest descriptor that is free.
IsFree(p, f) == fds[p][f] = Closed /\ \A g \in 1 .. f - 1 : fds[p][g] # Closed

\* exit(-1), or a crash: the kernel closes the descriptors, the names stay.
Exit(p) ==
  /\ fds'   = [fds EXCEPT ![p] = [f \in Fd |-> Closed]]
  /\ qinfo' = [qinfo EXCEPT ![p] = <<>>]
  /\ Go(p, Idle)

Die(p) == Exit(p) /\ UNCHANGED <<file, queue, made>>

\* "Out of Q slots"
OutOfSlots(p) == Len(qinfo[p]) > MaxSlots

\* A slot of qinfo[] is taken and the call returns 0.
Register(p, n, q, since) ==
  /\ \E f \in Fd :
       /\ IsFree(p, f)
       /\ fds' = [fds EXCEPT ![p][f] = [q |-> q, name |-> n, since |-> since]]
       /\ qinfo' = [qinfo EXCEPT ![p] = Append(@, [fd |-> f, name |-> n])]
  /\ Go(p, Idle)

\* mq_open with O_CREAT | O_EXCL where there is no such name.
MakeFile(n) ==
  /\ file[n] = NoQueue
  /\ made < MaxQueues
  /\ made' = made + 1
  /\ file' = [file EXCEPT ![n] = made + 1]
  /\ UNCHANGED queue

Make(p, n) ==
  /\ ~OutOfSlots(p)
  /\ MakeFile(n)
  /\ Register(p, n, made + 1, made + 1)

\* exit(-1) once the queue is made, and it stays under the name.
MakeOutOfSlots(p, n) ==
  /\ OutOfSlots(p)
  /\ MakeFile(n)
  /\ Exit(p)

----------------------------------------------------------------------------
(* create_exchange_queue *)

Create(p, n) ==
  /\ At(p, "idle")
  /\ Make(p, n)

\* Mutated: the queue that exists is used.
CreateExistsReuse(p, n) ==
  /\ At(p, "idle")
  /\ file[n] # NoQueue
  /\ made < MaxQueues
  /\ made' = made + 1
  /\ Register(p, n, file[n], made + 1)
  /\ UNCHANGED <<file, queue>>

\* The name exists: unlink it.
CreateExists(p, n) ==
  /\ At(p, "idle")
  /\ file[n] # NoQueue
  /\ Go(p, [at |-> "unlink", name |-> n])
  /\ UNCHANGED <<file, queue, made, fds, qinfo>>

CreateUnlink(p) ==
  /\ At(p, "unlink")
  /\ LET n == op[p].name
     IN  IF file[n] = NoQueue
           THEN Go(p, Idle) /\ UNCHANGED file   \* "failed while trying to unlink"
           ELSE /\ file' = [file EXCEPT ![n] = NoQueue]
                /\ Go(p, [at |-> "reopen", name |-> n])
  /\ UNCHANGED <<queue, made, fds, qinfo>>

CreateReopen(p) ==
  /\ At(p, "reopen")
  /\ Make(p, op[p].name)

\* "failed to reopen after unlinking", or no slot: exit(-1).
CreateReopenFails(p) ==
  /\ At(p, "reopen")
  /\ file[op[p].name] # NoQueue
  /\ Die(p)

----------------------------------------------------------------------------
(* common: open_exchange_queue_for_reading and _for_writing *)

Open(p, n) ==
  /\ At(p, "idle")
  /\ file[n] # NoQueue
  /\ ~OutOfSlots(p)
  /\ Register(p, n, file[n], file[n])
  /\ UNCHANGED <<file, queue, made>>

OpenOutOfSlots(p, n) ==
  /\ At(p, "idle")
  /\ file[n] # NoQueue
  /\ OutOfSlots(p)
  /\ Die(p)

----------------------------------------------------------------------------
(* retrieve_message_from_queue and write_message_to_queue *)

\* mq_receive; with nothing in the queue the call returns -1.
Receive(q) == queue[q] # <<>> /\ queue' = [queue EXCEPT ![q] = Tail(@)]

Retrieve(p, f) ==
  /\ At(p, "idle")
  /\ fds[p][f] # Closed
  /\ Receive(fds[p][f].q)
  /\ UNCHANGED <<file, made, fds, qinfo, op>>

MayWrite(p, f) == fds[p][f] # Closed /\ p \in Writers[fds[p][f].name]

\* Mutated: a queue found full is not emptied.
WriteNoDrain(p, f) ==
  /\ At(p, "idle")
  /\ MayWrite(p, f)
  /\ Go(p, [at |-> "send", fd |-> f])
  /\ UNCHANGED <<file, queue, made, fds, qinfo>>

\* mq_getattr: is the queue full?
Write(p, f) ==
  /\ At(p, "idle")
  /\ MayWrite(p, f)
  /\ Go(p, [at |-> IF Len(queue[fds[p][f].q]) = MaxMsg THEN "drain" ELSE "send",
            fd |-> f])
  /\ UNCHANGED <<file, queue, made, fds, qinfo>>

\* "had to empty %d msgs": retrieve until there is nothing left.
Drain(p) ==
  /\ At(p, "drain")
  /\ Receive(fds[p][op[p].fd].q)
  /\ UNCHANGED <<file, made, fds, qinfo, op>>

\* Mutated: the test of the loop is the wrong way round.
DrainedWhileAny(p) ==
  /\ At(p, "drain")
  /\ queue[fds[p][op[p].fd].q] # <<>>
  /\ Go(p, [op[p] EXCEPT !.at = "send"])
  /\ UNCHANGED <<file, queue, made, fds, qinfo>>

Drained(p) ==
  /\ At(p, "drain")
  /\ queue[fds[p][op[p].fd].q] = <<>>
  /\ Go(p, [op[p] EXCEPT !.at = "send"])
  /\ UNCHANGED <<file, queue, made, fds, qinfo>>

Send(p) ==
  /\ At(p, "send")
  /\ LET q == fds[p][op[p].fd].q
     IN  /\ Len(queue[q]) < MaxMsg
         /\ queue' = [queue EXCEPT ![q] = Append(@, made)]
  /\ Go(p, Idle)
  /\ UNCHANGED <<file, made, fds, qinfo>>

\* "MESSAGE LOST, can't even be placed in the queue"
SendFails(p) ==
  /\ At(p, "send")
  /\ Len(queue[fds[p][op[p].fd].q]) = MaxMsg
  /\ Go(p, Idle)
  /\ UNCHANGED <<file, queue, made, fds, qinfo>>

----------------------------------------------------------------------------
(* delete_exchange_queue, of a queue under its own name *)

Delete(p, f) ==
  /\ At(p, "idle")
  /\ fds[p][f] # Closed
  /\ Go(p, [at |-> "delete", was |-> fds[p][f]])
  /\ fds' = [fds EXCEPT ![p][f] = Closed]
  /\ UNCHANGED <<file, queue, made, qinfo>>

DeleteUnlink(p) ==
  /\ At(p, "delete")
  /\ file' = [file EXCEPT ![op[p].was.name] = NoQueue]
  /\ Go(p, Idle)
  /\ UNCHANGED <<queue, made, fds, qinfo>>

----------------------------------------------------------------------------
Begin(p) ==
  \/ \E n \in Name : \/ Create(p, n) \/ CreateExists(p, n)
                     \/ At(p, "idle") /\ MakeOutOfSlots(p, n)
                     \/ Open(p, n) \/ OpenOutOfSlots(p, n)
  \/ \E f \in Fd : Retrieve(p, f) \/ Write(p, f) \/ Delete(p, f)

Continue(p) ==
  \/ CreateUnlink(p) \/ CreateReopen(p) \/ CreateReopenFails(p)
  \/ At(p, "reopen") /\ MakeOutOfSlots(p, op[p].name)
  \/ Drain(p) \/ Drained(p) \/ Send(p) \/ SendFails(p)
  \/ DeleteUnlink(p)

Next == \E p \in Proc : Begin(p) \/ Continue(p) \/ Die(p)

Spec == Init /\ [][Next]_vars

\* A process that is in a call goes on with it; nobody has to begin one.
Fairness == \A p \in Proc : WF_vars(Continue(p))

FairSpec == Spec /\ Fairness

----------------------------------------------------------------------------
(* Properties *)

Handles(p) == {fds[p][f] : f \in Fd} \ {Closed}

TypeOK ==
  /\ file  \in [Name -> Queue \cup {NoQueue}]
  /\ queue \in [Queue -> Seq(Message)]
  /\ made  \in 0 .. MaxQueues
  /\ fds   \in [Proc -> [Fd -> Handle \cup {Closed}]]
  /\ qinfo \in [Proc -> Seq(Slot)]
  /\ op    \in [Proc -> Call]
  /\ \A p \in Proc : op[p].at \in {"drain", "send"} => MayWrite(p, op[p].fd)

SoleWriter(p, f) == Writers[fds[p][f].name] = {p}

\* A process that alone writes under a name never loses the message it sends,
\* readers, restarts and deletions of the queue notwithstanding: between its
\* mq_getattr and its mq_send nobody else fills the queue.
RoomToSend ==
  \A p \in Proc :
    At(p, "send") /\ SoleWriter(p, op[p].fd) => Len(queue[fds[p][op[p].fd].q]) < MaxMsg

\* What a process gets from create_exchange_queue holds nothing written before
\* the call: neither what a dead process left under the name, nor what a live
\* one still writes to the queue that was unlinked.
FreshQueue ==
  \A p \in Proc : \A h \in Handles(p) :
    \A i \in 1 .. Len(queue[h.q]) : queue[h.q][i] >= h.since

\* A write by the sole writer of a name returns: its emptying of the queue ends.
WriteReturns ==
  \A p \in Proc :
    op[p].at = "drain" /\ SoleWriter(p, op[p].fd) ~> op[p] = Idle
=============================================================================
