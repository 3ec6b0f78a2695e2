------------------------ MODULE ExchangeQueue_proofs ------------------------
(* Proofs about ExchangeQueue, for any number of processes, names, messages,  *)
(* slots, descriptors and queues.                                             *)
EXTENDS ExchangeQueue, TLAPS

USE QueueAssumption

----------------------------------------------------------------------------
(* Types                                                                      *)

\* TypeOK in parts, for the lemmas that change one of them.
FileType  == file \in [Name -> Queue \cup {NoQueue}]
QueueType == queue \in [Queue -> Seq(Message)]
MadeType  == made \in 0 .. MaxQueues
FdsType   == fds \in [Proc -> [Fd -> Handle \cup {Closed}]]
InfoType  == qinfo \in [Proc -> Seq(Slot)]
OpType    == op \in [Proc -> Call]
Writing(p) == op[p].at \in {"drain", "send"} => MayWrite(p, op[p].fd)

LEMMA TypeParts ==
  TypeOK <=> /\ FileType /\ QueueType /\ MadeType /\ FdsType /\ InfoType /\ OpType
             /\ \A p \in Proc : Writing(p)
BY DEF TypeOK, FileType, QueueType, MadeType, FdsType, InfoType, OpType, Writing

LEMMA TypePartsNext ==
  ASSUME FileType', QueueType', MadeType', FdsType', InfoType', OpType',
         \A p \in Proc : Writing(p)'
  PROVE  TypeOK'
BY DEF TypeOK, FileType, QueueType, MadeType, FdsType, InfoType, OpType, Writing

\* What the place of a process in its call says of its arguments.
LEMMA CallArguments ==
  ASSUME TypeOK, NEW p \in Proc
  PROVE  /\ op[p] \in Call
         /\ op[p].at \in {"unlink", "reopen"} => op[p].name \in Name
         /\ op[p].at \in {"drain", "send"} => op[p].fd \in Fd
         /\ op[p].at = "delete" => op[p].was.name \in Name
<1>1. op[p] \in Call BY DEF TypeOK
<1>2. QED BY <1>1 DEF Call, Idle, Handle

LEMMA OpenHandle ==
  ASSUME TypeOK, NEW p \in Proc, NEW f \in Fd, fds[p][f] # Closed
  PROVE  /\ fds[p][f] \in Handle
         /\ fds[p][f].q \in Queue /\ fds[p][f].name \in Name
<1>1. fds[p][f] \in Handle BY DEF TypeOK
<1>2. QED BY <1>1 DEF Handle

\* A call begins or goes on where nothing is being written.
LEMMA GoType ==
  ASSUME TypeOK, NEW p \in Proc, NEW o \in Call, o.at \notin {"drain", "send"},
         Go(p, o), \A r \in Proc \ {p} : fds'[r] = fds[r]
  PROVE  OpType' /\ \A r \in Proc : Writing(r)'
<1>1. op \in [Proc -> Call] /\ op' = [op EXCEPT ![p] = o] BY DEF TypeOK, Go
<1>2. OpType' BY <1>1 DEF OpType
<1>3. ASSUME NEW r \in Proc PROVE Writing(r)'
  <2>1. CASE r = p BY <1>1, <2>1 DEF Writing
  <2>2. CASE r # p
    <3>1. op'[r] = op[r] /\ fds'[r] = fds[r] BY <1>1, <2>2
    <3>2. Writing(r) BY TypeParts
    <3>3. QED BY <3>1, <3>2 DEF Writing, MayWrite
  <2>3. QED BY <2>1, <2>2
<1>4. QED BY <1>2, <1>3

LEMMA IdleIsCall == Idle \in Call /\ Idle.at = "idle"
BY DEF Call, Idle

LEMMA ExitType ==
  ASSUME TypeOK, NEW p \in Proc, Exit(p)
  PROVE  /\ FdsType' /\ InfoType' /\ OpType'
         /\ \A r \in Proc : Writing(r)'
<1>1. FdsType' BY DEF TypeOK, FdsType, Exit
<1>2. InfoType' BY DEF TypeOK, InfoType, Exit
<1>3. \A r \in Proc \ {p} : fds'[r] = fds[r] BY DEF TypeOK, Exit
<1>4. Go(p, Idle) BY DEF Exit
<1>5. QED BY <1>1, <1>2, <1>3, <1>4, GoType, IdleIsCall

LEMMA RegisterType ==
  ASSUME TypeOK, NEW p \in Proc, NEW n \in Name, NEW q \in Queue, NEW since \in 0 .. MaxQueues,
         Register(p, n, q, since)
  PROVE  /\ FdsType' /\ InfoType' /\ OpType'
         /\ \A r \in Proc : Writing(r)'
<1>1. PICK f \in Fd :
        /\ fds[p][f] = Closed
        /\ fds' = [fds EXCEPT ![p] = [fds[p] EXCEPT ![f] = [q |-> q, name |-> n, since |-> since]]]
        /\ qinfo' = [qinfo EXCEPT ![p] = Append(@, [fd |-> f, name |-> n])]
  BY DEF Register, IsFree
<1>2. [q |-> q, name |-> n, since |-> since] \in Handle BY DEF Handle
<1>3. fds \in [Proc -> [Fd -> Handle \cup {Closed}]] BY DEF TypeOK
<1>4. FdsType'
  <2>1. [fds[p] EXCEPT ![f] = [q |-> q, name |-> n, since |-> since]] \in [Fd -> Handle \cup {Closed}]
    BY <1>2, <1>3
  <2>2. QED BY <1>1, <1>3, <2>1 DEF FdsType
<1>5. InfoType'
  <2>1. [fd |-> f, name |-> n] \in Slot BY DEF Slot
  <2>2. qinfo \in [Proc -> Seq(Slot)] BY DEF TypeOK
  <2>3. Append(qinfo[p], [fd |-> f, name |-> n]) \in Seq(Slot) BY <2>1, <2>2
  <2>4. QED BY <1>1, <2>2, <2>3 DEF InfoType
<1>6. \A r \in Proc \ {p} : fds'[r] = fds[r] BY <1>1, <1>3
<1>7. Go(p, Idle) BY DEF Register
<1>8. QED BY <1>4, <1>5, <1>6, <1>7, GoType, IdleIsCall

LEMMA MakeFileType ==
  ASSUME TypeOK, NEW n \in Name, MakeFile(n)
  PROVE  /\ FileType' /\ QueueType' /\ MadeType'
         /\ made + 1 \in Queue /\ made + 1 \in 0 .. MaxQueues
<1>1. /\ made \in 0 .. MaxQueues /\ made < MaxQueues
      /\ made' = made + 1 /\ queue' = queue
      /\ file' = [file EXCEPT ![n] = made + 1]
      /\ file \in [Name -> Queue \cup {NoQueue}] /\ queue \in [Queue -> Seq(Message)]
  BY DEF TypeOK, MakeFile
<1>2. made + 1 \in Queue /\ made + 1 \in 0 .. MaxQueues BY <1>1 DEF Queue
<1>3. QED BY <1>1, <1>2 DEF FileType, QueueType, MadeType

LEMMA ReceiveType ==
  ASSUME TypeOK, NEW q \in Queue, Receive(q)
  PROVE  QueueType'
<1>1. queue \in [Queue -> Seq(Message)] /\ queue[q] # <<>> /\ queue' = [queue EXCEPT ![q] = Tail(@)]
  BY DEF TypeOK, Receive
<1>2. Tail(queue[q]) \in Seq(Message) BY <1>1
<1>3. QED BY <1>1, <1>2 DEF QueueType

LEMMA SendType ==
  ASSUME TypeOK, NEW q \in Queue, queue' = [queue EXCEPT ![q] = Append(@, made)]
  PROVE  QueueType'
<1>1. queue \in [Queue -> Seq(Message)] /\ made \in Message BY DEF TypeOK, Message
<1>2. Append(queue[q], made) \in Seq(Message) BY <1>1
<1>3. QED BY <1>1, <1>2 DEF QueueType

\* The actions that change neither files, queues nor tables: a call moves on.
LEMMA MoveType ==
  ASSUME TypeOK, NEW p \in Proc, NEW o \in Call, Go(p, o),
         o.at \in {"drain", "send"} => MayWrite(p, o.fd),
         UNCHANGED fds
  PROVE  OpType' /\ \A r \in Proc : Writing(r)'
<1>1. op \in [Proc -> Call] /\ op' = [op EXCEPT ![p] = o] BY DEF TypeOK, Go
<1>2. OpType' BY <1>1 DEF OpType
<1>3. ASSUME NEW r \in Proc PROVE Writing(r)'
  <2>1. CASE r = p BY <1>1, <2>1 DEF Writing, MayWrite
  <2>2. CASE r # p
    <3>1. op'[r] = op[r] BY <1>1, <2>2
    <3>2. Writing(r) BY TypeParts
    <3>3. QED BY <3>1, <3>2 DEF Writing, MayWrite
  <2>3. QED BY <2>1, <2>2
<1>4. QED BY <1>2, <1>3

\* The places a call can move on to.
LEMMA Places ==
  /\ \A n \in Name : /\ [at |-> "unlink", name |-> n] \in Call
                     /\ [at |-> "reopen", name |-> n] \in Call
  /\ \A f \in Fd : /\ [at |-> "drain", fd |-> f] \in Call
                   /\ [at |-> "send", fd |-> f] \in Call
  /\ \A h \in Handle : [at |-> "delete", was |-> h] \in Call
BY DEF Call

LEMMA BeginType ==
  ASSUME TypeOK, NEW p \in Proc, Begin(p)
  PROVE  TypeOK'
<1> USE TypeParts, TypePartsNext
<1>1. ASSUME NEW n \in Name, Create(p, n) PROVE TypeOK'
  <2>1. MakeFile(n) /\ Register(p, n, made + 1, made + 1) BY <1>1 DEF Create, Make
  <2>2. /\ FileType' /\ QueueType' /\ MadeType'
        /\ made + 1 \in Queue /\ made + 1 \in 0 .. MaxQueues
    BY <2>1, MakeFileType
  <2>3. FdsType' /\ InfoType' /\ OpType' /\ \A r \in Proc : Writing(r)'
    BY <2>1, <2>2, RegisterType
  <2>4. QED BY <2>2, <2>3
<1>2. ASSUME NEW n \in Name, CreateExists(p, n) PROVE TypeOK'
  <2>1. Go(p, [at |-> "unlink", name |-> n]) /\ UNCHANGED <<file, queue, made, fds, qinfo>>
    BY <1>2 DEF CreateExists
  <2>2. OpType' /\ \A r \in Proc : Writing(r)'
    BY <2>1, MoveType, Places
  <2>3. QED BY <2>1, <2>2 DEF FileType, QueueType, MadeType, FdsType, InfoType
<1>3. ASSUME NEW n \in Name, MakeOutOfSlots(p, n) PROVE TypeOK'
  <2>1. FileType' /\ QueueType' /\ MadeType' BY <1>3, MakeFileType DEF MakeOutOfSlots
  <2>2. FdsType' /\ InfoType' /\ OpType' /\ \A r \in Proc : Writing(r)'
    BY <1>3, ExitType DEF MakeOutOfSlots
  <2>3. QED BY <2>1, <2>2
<1>4. ASSUME NEW n \in Name, Open(p, n) PROVE TypeOK'
  <2>1. /\ Register(p, n, file[n], file[n]) /\ file[n] # NoQueue
        /\ UNCHANGED <<file, queue, made>>
    BY <1>4 DEF Open
  <2>2. file[n] \in Queue /\ file[n] \in 0 .. MaxQueues
    BY <2>1 DEF FileType, Queue, NoQueue
  <2>3. FdsType' /\ InfoType' /\ OpType' /\ \A r \in Proc : Writing(r)'
    BY <2>1, <2>2, RegisterType
  <2>4. QED BY <2>1, <2>3 DEF FileType, QueueType, MadeType
<1>5. ASSUME NEW n \in Name, OpenOutOfSlots(p, n) PROVE TypeOK'
  <2>1. Exit(p) /\ UNCHANGED <<file, queue, made>> BY <1>5 DEF OpenOutOfSlots, Die
  <2>2. QED BY <2>1, ExitType DEF FileType, QueueType, MadeType
<1>6. ASSUME NEW f \in Fd, Retrieve(p, f) PROVE TypeOK'
  <2>1. QueueType' BY <1>6, OpenHandle, ReceiveType DEF Retrieve
  <2>2. UNCHANGED <<file, made, fds, qinfo, op>> BY <1>6 DEF Retrieve
  <2>3. QED BY <2>1, <2>2 DEF FileType, MadeType, FdsType, InfoType, OpType, Writing, MayWrite
<1>7. ASSUME NEW f \in Fd, Write(p, f) PROVE TypeOK'
  <2>1. PICK o \in {[at |-> "drain", fd |-> f], [at |-> "send", fd |-> f]} : Go(p, o)
    BY <1>7 DEF Write
  <2>2. MayWrite(p, f) /\ UNCHANGED <<file, queue, made, fds, qinfo>> BY <1>7 DEF Write
  <2>3. o \in Call /\ o.fd = f
    <3>1. CASE o = [at |-> "drain", fd |-> f] BY <3>1, Places
    <3>2. CASE o = [at |-> "send", fd |-> f] BY <3>2, Places
    <3>3. QED BY <2>1, <3>1, <3>2
  <2>4. OpType' /\ \A r \in Proc : Writing(r)' BY <2>1, <2>2, <2>3, MoveType
  <2>5. QED BY <2>2, <2>4 DEF FileType, QueueType, MadeType, FdsType, InfoType
<1>8. ASSUME NEW f \in Fd, Delete(p, f) PROVE TypeOK'
  <2>1. /\ fds[p][f] # Closed
        /\ Go(p, [at |-> "delete", was |-> fds[p][f]])
        /\ fds' = [fds EXCEPT ![p] = [fds[p] EXCEPT ![f] = Closed]]
        /\ UNCHANGED <<file, queue, made, qinfo>>
    BY <1>8 DEF Delete
  <2>2. fds \in [Proc -> [Fd -> Handle \cup {Closed}]] BY DEF FdsType
  <2>3. FdsType' BY <2>1, <2>2 DEF FdsType
  <2>4. \A r \in Proc \ {p} : fds'[r] = fds[r] BY <2>1, <2>2
  <2>5. [at |-> "delete", was |-> fds[p][f]] \in Call BY <2>1, OpenHandle, Places
  <2>6. OpType' /\ \A r \in Proc : Writing(r)' BY <2>1, <2>4, <2>5, GoType
  <2>7. QED BY <2>1, <2>3, <2>6 DEF FileType, QueueType, MadeType, InfoType
<1>9. QED BY <1>1, <1>2, <1>3, <1>4, <1>5, <1>6, <1>7, <1>8 DEF Begin

LEMMA ContinueType ==
  ASSUME TypeOK, NEW p \in Proc, Continue(p)
  PROVE  TypeOK'
<1> USE TypeParts, TypePartsNext
<1>1. CASE CreateUnlink(p)
  <2>1. op[p].at = "unlink" /\ op[p].name \in Name BY <1>1, CallArguments DEF CreateUnlink, At
  <2>2. UNCHANGED <<queue, made, fds, qinfo>> BY <1>1 DEF CreateUnlink
  <2>3. \/ file' = file /\ Go(p, Idle)
        \/ /\ file' = [file EXCEPT ![op[p].name] = NoQueue]
           /\ Go(p, [at |-> "reopen", name |-> op[p].name])
    BY <1>1 DEF CreateUnlink
  <2>4. FileType' BY <2>3 DEF FileType
  <2>5. OpType' /\ \A r \in Proc : Writing(r)'
    BY <2>1, <2>2, <2>3, MoveType, Places, IdleIsCall
  <2>6. QED BY <2>2, <2>4, <2>5 DEF QueueType, MadeType, FdsType, InfoType
<1>2. CASE CreateReopen(p)
  <2>1. PICK n \in Name : n = op[p].name BY <1>2, CallArguments DEF CreateReopen, At
  <2>2. MakeFile(n) /\ Register(p, n, made + 1, made + 1)
    BY <1>2, <2>1 DEF CreateReopen, Make
  <2>3. /\ FileType' /\ QueueType' /\ MadeType'
        /\ made + 1 \in Queue /\ made + 1 \in 0 .. MaxQueues
    BY <2>2, MakeFileType
  <2>4. FdsType' /\ InfoType' /\ OpType' /\ \A r \in Proc : Writing(r)'
    BY <2>2, <2>3, RegisterType
  <2>5. QED BY <2>3, <2>4
<1>3. CASE CreateReopenFails(p)
  <2>1. Exit(p) /\ UNCHANGED <<file, queue, made>> BY <1>3 DEF CreateReopenFails, Die
  <2>2. QED BY <2>1, ExitType DEF FileType, QueueType, MadeType
<1>4. CASE At(p, "reopen") /\ MakeOutOfSlots(p, op[p].name)
  <2>1. PICK n \in Name : n = op[p].name BY <1>4, CallArguments DEF At
  <2>2. MakeFile(n) /\ Exit(p) BY <1>4, <2>1 DEF MakeOutOfSlots
  <2>3. QED BY <2>2, MakeFileType, ExitType
<1>5. CASE Drain(p)
  <2>1. PICK f \in Fd : f = op[p].fd /\ fds[p][f] # Closed
    BY <1>5, CallArguments DEF Drain, At, Writing, MayWrite
  <2>2. QueueType' BY <1>5, <2>1, OpenHandle, ReceiveType DEF Drain
  <2>3. UNCHANGED <<file, made, fds, qinfo, op>> BY <1>5 DEF Drain
  <2>4. QED BY <2>2, <2>3 DEF FileType, MadeType, FdsType, InfoType, OpType, Writing, MayWrite
<1>6. CASE Drained(p)
  <2>1. op[p] \in Call /\ op[p].at = "drain" /\ op[p].fd \in Fd /\ MayWrite(p, op[p].fd)
    BY <1>6, CallArguments DEF Drained, At, Writing
  <2>2. [op[p] EXCEPT !.at = "send"] = [at |-> "send", fd |-> op[p].fd]
    BY <2>1 DEF Call, Idle
  <2>3. Go(p, [at |-> "send", fd |-> op[p].fd]) /\ UNCHANGED <<file, queue, made, fds, qinfo>>
    BY <1>6, <2>2 DEF Drained
  <2>4. OpType' /\ \A r \in Proc : Writing(r)' BY <2>1, <2>3, MoveType, Places
  <2>5. QED BY <2>3, <2>4 DEF FileType, QueueType, MadeType, FdsType, InfoType
<1>7. CASE Send(p)
  <2>1. PICK f \in Fd : f = op[p].fd /\ fds[p][f] # Closed
    BY <1>7, CallArguments DEF Send, At, Writing, MayWrite
  <2>2. QueueType' BY <1>7, <2>1, OpenHandle, SendType DEF Send
  <2>3. Go(p, Idle) /\ UNCHANGED <<file, made, fds, qinfo>> BY <1>7 DEF Send
  <2>4. OpType' /\ \A r \in Proc : Writing(r)' BY <2>3, MoveType, IdleIsCall
  <2>5. QED BY <2>2, <2>3, <2>4 DEF FileType, MadeType, FdsType, InfoType
<1>8. CASE SendFails(p)
  <2>1. Go(p, Idle) /\ UNCHANGED <<file, queue, made, fds, qinfo>> BY <1>8 DEF SendFails
  <2>2. OpType' /\ \A r \in Proc : Writing(r)' BY <2>1, MoveType, IdleIsCall
  <2>3. QED BY <2>1, <2>2 DEF FileType, QueueType, MadeType, FdsType, InfoType
<1>9. CASE DeleteUnlink(p)
  <2>1. /\ Go(p, Idle) /\ UNCHANGED <<queue, made, fds, qinfo>>
        /\ file' = [file EXCEPT ![op[p].was.name] = NoQueue]
    BY <1>9 DEF DeleteUnlink
  <2>2. FileType' BY <2>1 DEF FileType
  <2>3. OpType' /\ \A r \in Proc : Writing(r)' BY <2>1, MoveType, IdleIsCall
  <2>4. QED BY <2>1, <2>2, <2>3 DEF QueueType, MadeType, FdsType, InfoType
<1>10. QED BY <1>1, <1>2, <1>3, <1>4, <1>5, <1>6, <1>7, <1>8, <1>9 DEF Continue

LEMMA DieType ==
  ASSUME TypeOK, NEW p \in Proc, Die(p)
  PROVE  TypeOK'
<1>1. Exit(p) /\ UNCHANGED <<file, queue, made>> BY DEF Die
<1>2. QED BY <1>1, TypeParts, TypePartsNext, ExitType DEF FileType, QueueType, MadeType

LEMMA InitType == Init => TypeOK
BY DEF Init, TypeOK, Idle, Call, Queue, NoQueue, Closed, Message

\* What queue_manager.c keeps is of its type, and a write is under way only on
\* an open descriptor of a queue the process writes to.
THEOREM TypeCorrect == Spec => []TypeOK
<1>1. Init => TypeOK BY InitType
<1>2. TypeOK /\ [Next]_vars => TypeOK'
  <2>1. ASSUME TypeOK, NEW p \in Proc, Begin(p) \/ Continue(p) \/ Die(p) PROVE TypeOK'
    BY <2>1, BeginType, ContinueType, DieType
  <2>2. ASSUME TypeOK, UNCHANGED vars PROVE TypeOK'
    BY <2>2 DEF TypeOK, vars, MayWrite
  <2>3. QED BY <2>1, <2>2 DEF Next
<1>3. QED BY <1>1, <1>2, PTL DEF Spec

----------------------------------------------------------------------------
(* Names, queues and handles                                                *)

AllHandles == {fds[p][f] : p \in Proc, f \in Fd} \ {Closed}

\* A queue has one name for good: two names do not stand for one queue, and a
\* handle keeps the name of its queue though the name may be somebody else's by
\* now.  A handle is as old as its queue.
NamesApart ==
  /\ \A n \in Name : file[n] <= made
  /\ \A n, m \in Name : file[n] = file[m] /\ file[n] # NoQueue => n = m
  /\ \A h \in AllHandles : h.q <= made /\ h.since = h.q
  /\ \A h \in AllHandles, n \in Name : file[n] = h.q => n = h.name
  /\ \A g, h \in AllHandles : g.q = h.q => g.name = h.name

New(n, q) == [q |-> q, name |-> n, since |-> q]

\* What a step can do to files and handles: lose some, make a queue, open one.
Lost == /\ made' = made /\ AllHandles' \subseteq AllHandles
        /\ \A n \in Name : file'[n] \in {file[n], NoQueue}
MadeOne(n) == MakeFile(n) /\ AllHandles' \subseteq AllHandles \cup {New(n, made + 1)}
Opened(n) == /\ file[n] # NoQueue /\ file' = file /\ made' = made
             /\ AllHandles' \subseteq AllHandles \cup {New(n, file[n])}

LEMMA HandlesTyped == TypeOK => AllHandles \subseteq Handle
BY DEF AllHandles, TypeOK

LEMMA LostKeeps ==
  ASSUME TypeOK, NamesApart, Lost
  PROVE  NamesApart'
<1>1. \A h \in AllHandles : h.q # NoQueue BY HandlesTyped DEF Handle, Queue, NoQueue
<1>2. file \in [Name -> Queue \cup {NoQueue}] /\ made \in Nat BY DEF TypeOK
<1>3. \A n \in Name : file'[n] <= made' BY <1>2 DEF Lost, NamesApart, NoQueue
<1>4. \A n, m \in Name : file'[n] = file'[m] /\ file'[n] # NoQueue => n = m
  BY DEF Lost, NamesApart
<1>5. \A h \in AllHandles' : h.q <= made' /\ h.since = h.q BY DEF Lost, NamesApart
<1>6. \A h \in AllHandles', n \in Name : file'[n] = h.q => n = h.name
  BY <1>1 DEF Lost, NamesApart
<1>7. \A g, h \in AllHandles' : g.q = h.q => g.name = h.name BY DEF Lost, NamesApart
<1>8. QED BY <1>3, <1>4, <1>5, <1>6, <1>7 DEF NamesApart

LEMMA MadeOneKeeps ==
  ASSUME TypeOK, NamesApart, NEW n \in Name, MadeOne(n)
  PROVE  NamesApart'
<1>1. /\ file \in [Name -> Queue \cup {NoQueue}] /\ made \in Nat
      /\ \A m \in Name : file[m] \in Nat
  BY DEF TypeOK, Queue, NoQueue
<1>2. /\ made' = made + 1 /\ file' = [file EXCEPT ![n] = made + 1]
      /\ AllHandles' \subseteq AllHandles \cup {New(n, made + 1)}
  BY DEF MadeOne, MakeFile
<1>3. \A h \in AllHandles : h.q \in Nat /\ h.q <= made /\ h.since = h.q
  BY HandlesTyped DEF NamesApart, Handle, Queue
<1>4. New(n, made + 1).q = made + 1 /\ New(n, made + 1).since = made + 1
      /\ New(n, made + 1).name = n
  BY DEF New
<1>5. \A m \in Name : file[m] <= made BY DEF NamesApart
<1>6. \A m \in Name : file'[m] <= made' BY <1>1, <1>2, <1>5
<1>7. ASSUME NEW m \in Name, NEW k \in Name, file'[m] = file'[k], file'[m] # NoQueue PROVE m = k
  <2>1. CASE m = n BY <1>1, <1>2, <1>5, <1>7, <2>1
  <2>2. CASE k = n BY <1>1, <1>2, <1>5, <1>7, <2>2
  <2>3. CASE m # n /\ k # n
    <3>1. file'[m] = file[m] /\ file'[k] = file[k] BY <1>1, <1>2, <2>3
    <3>2. QED BY <1>7, <3>1 DEF NamesApart
  <2>4. QED BY <2>1, <2>2, <2>3
<1>8. \A h \in AllHandles' : h.q <= made' /\ h.since = h.q BY <1>1, <1>2, <1>3, <1>4
<1>9. ASSUME NEW h \in AllHandles', NEW m \in Name, file'[m] = h.q PROVE m = h.name
  <2>1. CASE h \in AllHandles
    <3>1. h.q <= made /\ h.q \in Nat BY <1>3, <2>1
    <3>2. m # n BY <1>1, <1>2, <1>9, <3>1
    <3>3. file[m] = h.q BY <1>1, <1>2, <1>9, <3>2
    <3>4. QED BY <2>1, <3>3 DEF NamesApart
  <2>2. CASE h = New(n, made + 1)
    <3>1. file'[m] = made + 1 BY <1>4, <1>9, <2>2
    <3>2. m = n BY <1>1, <1>2, <1>5, <3>1
    <3>3. QED BY <1>4, <2>2, <3>2
  <2>3. QED BY <1>2, <1>9, <2>1, <2>2
<1>10. ASSUME NEW g \in AllHandles', NEW h \in AllHandles', g.q = h.q PROVE g.name = h.name
  <2>1. CASE g \in AllHandles /\ h \in AllHandles BY <1>10, <2>1 DEF NamesApart
  <2>2. CASE g \in AllHandles /\ h = New(n, made + 1) BY <1>1, <1>3, <1>4, <1>10, <2>2
  <2>3. CASE g = New(n, made + 1) /\ h \in AllHandles BY <1>1, <1>3, <1>4, <1>10, <2>3
  <2>4. CASE g = New(n, made + 1) /\ h = New(n, made + 1) BY <2>4
  <2>5. QED BY <1>2, <1>10, <2>1, <2>2, <2>3, <2>4
<1>11. QED BY <1>6, <1>7, <1>8, <1>9, <1>10 DEF NamesApart

LEMMA OpenedKeeps ==
  ASSUME TypeOK, NamesApart, NEW n \in Name, Opened(n)
  PROVE  NamesApart'
<1>1. /\ file[n] # NoQueue /\ file' = file /\ made' = made
      /\ AllHandles' \subseteq AllHandles \cup {New(n, file[n])}
  BY DEF Opened
<1>2. New(n, file[n]).q = file[n] /\ New(n, file[n]).since = file[n] /\ New(n, file[n]).name = n
  BY DEF New
<1>3. \A h \in AllHandles' : h.q <= made' /\ h.since = h.q BY <1>1, <1>2 DEF NamesApart
<1>4. \A h \in AllHandles', m \in Name : file'[m] = h.q => m = h.name
  BY <1>1, <1>2 DEF NamesApart
<1>5. ASSUME NEW g \in AllHandles', NEW h \in AllHandles', g.q = h.q PROVE g.name = h.name
  <2>1. CASE g \in AllHandles /\ h \in AllHandles BY <1>5, <2>1 DEF NamesApart
  <2>2. CASE g \in AllHandles /\ h = New(n, file[n]) BY <1>2, <1>5, <2>2 DEF NamesApart
  <2>3. CASE g = New(n, file[n]) /\ h \in AllHandles BY <1>2, <1>5, <2>3 DEF NamesApart
  <2>4. CASE g = New(n, file[n]) /\ h = New(n, file[n]) BY <2>4
  <2>5. QED BY <1>1, <1>5, <2>1, <2>2, <2>3, <2>4
<1>6. QED BY <1>1, <1>3, <1>4, <1>5 DEF NamesApart

\* What Exit, Delete and Register do to the handles.
LEMMA HandlesOfExit ==
  ASSUME TypeOK, NEW p \in Proc, Exit(p)
  PROVE  AllHandles' \subseteq AllHandles
<1>1. fds \in [Proc -> [Fd -> Handle \cup {Closed}]] BY DEF TypeOK
<1>2. fds' = [fds EXCEPT ![p] = [f \in Fd |-> Closed]] BY DEF Exit
<1>3. ASSUME NEW r \in Proc, NEW f \in Fd PROVE fds'[r][f] \in {fds[r][f], Closed}
  BY <1>1, <1>2
<1>4. QED BY <1>3 DEF AllHandles

LEMMA HandlesOfDelete ==
  ASSUME TypeOK, NEW p \in Proc, NEW f \in Fd, fds' = [fds EXCEPT ![p][f] = Closed]
  PROVE  AllHandles' \subseteq AllHandles
<1>1. fds \in [Proc -> [Fd -> Handle \cup {Closed}]] BY DEF TypeOK
<1>2. ASSUME NEW r \in Proc, NEW g \in Fd PROVE fds'[r][g] \in {fds[r][g], Closed}
  BY <1>1
<1>3. QED BY <1>2 DEF AllHandles

LEMMA HandlesOfRegister ==
  ASSUME TypeOK, NEW p \in Proc, NEW n \in Name, NEW q \in Queue, Register(p, n, q, q)
  PROVE  AllHandles' \subseteq AllHandles \cup {New(n, q)}
<1>1. fds \in [Proc -> [Fd -> Handle \cup {Closed}]] BY DEF TypeOK
<1>2. PICK f \in Fd : fds' = [fds EXCEPT ![p] = [fds[p] EXCEPT ![f] = New(n, q)]]
  BY DEF Register, New
<1>3. ASSUME NEW r \in Proc, NEW g \in Fd PROVE fds'[r][g] \in {fds[r][g], New(n, q)}
  BY <1>1, <1>2
<1>4. QED BY <1>3 DEF AllHandles

LEMMA FilesStep ==
  ASSUME TypeOK, NEW p \in Proc, Begin(p) \/ Continue(p) \/ Die(p)
  PROVE  Lost \/ \E n \in Name : MadeOne(n) \/ Opened(n)
<1>1. ASSUME UNCHANGED <<file, made, fds>> PROVE Lost
  BY <1>1 DEF Lost, AllHandles
<1>2. ASSUME Exit(p), UNCHANGED <<file, made>> PROVE Lost
  BY <1>2, HandlesOfExit DEF Lost
<1>3. ASSUME NEW n \in Name, Make(p, n) PROVE MadeOne(n)
  <2>1. MakeFile(n) /\ Register(p, n, made + 1, made + 1) BY <1>3 DEF Make
  <2>2. made + 1 \in Queue BY <2>1, MakeFileType
  <2>3. AllHandles' \subseteq AllHandles \cup {New(n, made + 1)} BY <2>1, <2>2, HandlesOfRegister
  <2>4. QED BY <2>1, <2>3 DEF MadeOne
<1>4. ASSUME NEW n \in Name, MakeOutOfSlots(p, n) PROVE MadeOne(n)
  BY <1>4, HandlesOfExit DEF MakeOutOfSlots, MadeOne
<1>5. ASSUME NEW n \in Name, Open(p, n) PROVE Opened(n)
  <2>1. /\ Register(p, n, file[n], file[n]) /\ file[n] # NoQueue
        /\ UNCHANGED <<file, queue, made>>
    BY <1>5 DEF Open
  <2>2. file[n] \in Queue BY <2>1 DEF TypeOK
  <2>3. AllHandles' \subseteq AllHandles \cup {New(n, file[n])} BY <2>1, <2>2, HandlesOfRegister
  <2>4. QED BY <2>1, <2>3 DEF Opened
<1>6. ASSUME NEW f \in Fd, Delete(p, f) PROVE Lost
  <2>1. fds' = [fds EXCEPT ![p][f] = Closed] /\ UNCHANGED <<file, made>> BY <1>6 DEF Delete
  <2>2. QED BY <2>1, HandlesOfDelete DEF Lost
<1>7. ASSUME file' = [file EXCEPT ![op[p].name] = NoQueue] \/
             file' = [file EXCEPT ![op[p].was.name] = NoQueue],
             UNCHANGED <<made, fds>>
      PROVE  Lost
  BY <1>7 DEF Lost, AllHandles, TypeOK
<1>8. CASE Begin(p)
  BY <1>1, <1>2, <1>3, <1>4, <1>5, <1>6, <1>8
  DEF Begin, Create, CreateExists, OpenOutOfSlots, Die, Retrieve, Write
<1>9. CASE Continue(p)
  <2>1. CASE CreateUnlink(p) BY <1>1, <1>7, <2>1 DEF CreateUnlink
  <2>2. CASE CreateReopen(p)
    <3>1. PICK n \in Name : n = op[p].name BY <2>2, CallArguments DEF CreateReopen, At
    <3>2. Make(p, n) BY <2>2, <3>1 DEF CreateReopen
    <3>3. QED BY <1>3, <3>2
  <2>3. CASE CreateReopenFails(p) BY <1>2, <2>3 DEF CreateReopenFails, Die
  <2>4. CASE At(p, "reopen") /\ MakeOutOfSlots(p, op[p].name)
    <3>1. PICK n \in Name : n = op[p].name BY <2>4, CallArguments DEF At
    <3>2. QED BY <1>4, <2>4, <3>1
  <2>5. CASE Drain(p) \/ Drained(p) \/ Send(p) \/ SendFails(p)
    BY <1>1, <2>5 DEF Drain, Drained, Send, SendFails
  <2>6. CASE DeleteUnlink(p) BY <1>7, <2>6 DEF DeleteUnlink
  <2>7. QED BY <1>9, <2>1, <2>2, <2>3, <2>4, <2>5, <2>6 DEF Continue
<1>10. CASE Die(p) BY <1>2, <1>10 DEF Die
<1>11. QED BY <1>8, <1>9, <1>10

----------------------------------------------------------------------------
(* Messages                                                                 *)

QueueOf(p) == fds[p][op[p].fd].q

\* No queue holds more than MaxMsg messages, and none is older than its queue.
Contents ==
  \A q \in Queue : /\ Len(queue[q]) <= MaxMsg
                   /\ \A i \in 1 .. Len(queue[q]) : queue[q][i] >= q

\* What a step of a process does to the queues and to its place in a call.
TakesOne == queue' = queue \/ \E q \in Queue : Receive(q)
PutsOne(p) == /\ At(p, "send") /\ Len(queue[QueueOf(p)]) < MaxMsg
              /\ queue' = [queue EXCEPT ![QueueOf(p)] = Append(@, made)]
CallStep(p) ==
  /\ \A r \in Proc \ {p} : op'[r] = op[r] /\ fds'[r] = fds[r]
  /\ \/ op'[p].at # "send" /\ (TakesOne \/ PutsOne(p))
     \/ /\ op'[p].at = "send" /\ fds'[p] = fds[p] /\ queue' = queue
        /\ Len(queue[QueueOf(p)']) < MaxMsg

LEMMA Elsewhere ==
  ASSUME TypeOK, NEW p \in Proc, NEW o, Go(p, o)
  PROVE  op'[p] = o /\ \A r \in Proc \ {p} : op'[r] = op[r]
BY DEF TypeOK, Go

LEMMA QueueOfInQueue ==
  ASSUME TypeOK, NEW p \in Proc, op[p].at \in {"drain", "send"}
  PROVE  QueueOf(p) \in Queue /\ fds[p][op[p].fd] \in AllHandles
         /\ p \in Writers[fds[p][op[p].fd].name] /\ op[p].fd \in Fd
<1>1. MayWrite(p, op[p].fd) /\ op[p].fd \in Fd BY CallArguments DEF TypeOK
<1>2. QED BY <1>1, OpenHandle DEF QueueOf, MayWrite, AllHandles

LEMMA CallStepOf ==
  ASSUME TypeOK, Contents, NEW p \in Proc, Begin(p) \/ Continue(p) \/ Die(p)
  PROVE  CallStep(p)
<1>1. fds \in [Proc -> [Fd -> Handle \cup {Closed}]] /\ op \in [Proc -> Call] BY DEF TypeOK
<1>2. ASSUME Go(p, Idle), \A r \in Proc \ {p} : fds'[r] = fds[r], TakesOne \/ PutsOne(p)
      PROVE  CallStep(p)
  <2>1. op'[p] = Idle /\ \A r \in Proc \ {p} : op'[r] = op[r] BY <1>2, Elsewhere
  <2>2. QED BY <1>2, <2>1, IdleIsCall DEF CallStep
<1>3. ASSUME NEW o, Go(p, o), o.at # "send", \A r \in Proc \ {p} : fds'[r] = fds[r],
             queue' = queue
      PROVE  CallStep(p)
  <2>1. op'[p] = o /\ \A r \in Proc \ {p} : op'[r] = op[r] BY <1>3, Elsewhere
  <2>2. QED BY <1>3, <2>1 DEF CallStep, TakesOne
<1>4. ASSUME NEW f \in Fd, Go(p, [at |-> "send", fd |-> f]), UNCHANGED <<fds, queue>>,
             Len(queue[fds[p][f].q]) < MaxMsg
      PROVE  CallStep(p)
  <2>1. op'[p] = [at |-> "send", fd |-> f] /\ \A r \in Proc \ {p} : op'[r] = op[r]
    BY <1>4, Elsewhere
  <2>2. QED BY <1>4, <2>1 DEF CallStep, QueueOf
<1>5. ASSUME Exit(p), queue' = queue PROVE CallStep(p)
  <2>1. Go(p, Idle) /\ \A r \in Proc \ {p} : fds'[r] = fds[r] BY <1>1, <1>5 DEF Exit
  <2>2. QED BY <1>2, <1>5, <2>1 DEF TakesOne
<1>6. ASSUME NEW n, NEW q, NEW since, Register(p, n, q, since), queue' = queue PROVE CallStep(p)
  <2>1. Go(p, Idle) /\ \A r \in Proc \ {p} : fds'[r] = fds[r] BY <1>1, <1>6 DEF Register
  <2>2. QED BY <1>2, <1>6, <2>1 DEF TakesOne
<1>7. ASSUME op[p].at # "send", NEW q \in Queue, Receive(q), UNCHANGED <<fds, op>> PROVE CallStep(p)
  BY <1>7 DEF CallStep, TakesOne
<1>8. CASE Begin(p)
  <2>1. ASSUME NEW n \in Name, Create(p, n) PROVE CallStep(p)
    BY <1>6, <2>1 DEF Create, Make, MakeFile
  <2>2. ASSUME NEW n \in Name, CreateExists(p, n) PROVE CallStep(p)
    BY <1>3, <2>2 DEF CreateExists
  <2>3. ASSUME NEW n \in Name, MakeOutOfSlots(p, n) PROVE CallStep(p)
    BY <1>5, <2>3 DEF MakeOutOfSlots, MakeFile
  <2>4. ASSUME NEW n \in Name, Open(p, n) PROVE CallStep(p)
    BY <1>6, <2>4 DEF Open
  <2>5. ASSUME NEW n \in Name, OpenOutOfSlots(p, n) PROVE CallStep(p)
    BY <1>5, <2>5 DEF OpenOutOfSlots, Die
  <2>6. ASSUME NEW f \in Fd, Retrieve(p, f) PROVE CallStep(p)
    <3>1. fds[p][f].q \in Queue BY <2>6, OpenHandle DEF Retrieve
    <3>2. Receive(fds[p][f].q) /\ UNCHANGED <<fds, op>> /\ op[p].at # "send"
      BY <2>6 DEF Retrieve, At
    <3>3. QED BY <1>7, <3>1, <3>2
  <2>7. ASSUME NEW f \in Fd, Write(p, f) PROVE CallStep(p)
    <3>1. MayWrite(p, f) /\ UNCHANGED <<fds, queue>> BY <2>7 DEF Write
    <3>2. fds[p][f].q \in Queue BY <3>1, OpenHandle DEF MayWrite
    <3>3. CASE Len(queue[fds[p][f].q]) = MaxMsg
      <4>1. Go(p, [at |-> "drain", fd |-> f]) BY <2>7, <3>3 DEF Write
      <4>2. QED BY <1>3, <3>1, <4>1
    <3>4. CASE Len(queue[fds[p][f].q]) # MaxMsg
      <4>1. Go(p, [at |-> "send", fd |-> f]) BY <2>7, <3>4 DEF Write
      <4>2. queue[fds[p][f].q] \in Seq(Message) BY <3>2 DEF TypeOK
      <4>3. Len(queue[fds[p][f].q]) < MaxMsg BY <3>2, <3>4, <4>2 DEF Contents
      <4>4. QED BY <1>4, <3>1, <4>1, <4>3
    <3>5. QED BY <3>3, <3>4
  <2>8. ASSUME NEW f \in Fd, Delete(p, f) PROVE CallStep(p)
    <3>1. Go(p, [at |-> "delete", was |-> fds[p][f]]) /\ queue' = queue BY <2>8 DEF Delete
    <3>2. \A r \in Proc \ {p} : fds'[r] = fds[r] BY <1>1, <2>8 DEF Delete
    <3>3. QED BY <1>3, <3>1, <3>2
  <2>9. QED BY <1>8, <2>1, <2>2, <2>3, <2>4, <2>5, <2>6, <2>7, <2>8 DEF Begin
<1>9. CASE Continue(p)
  <2>1. CASE CreateUnlink(p)
    <3>1. /\ Go(p, Idle) \/ Go(p, [at |-> "reopen", name |-> op[p].name])
          /\ UNCHANGED <<fds, queue>>
      BY <2>1 DEF CreateUnlink
    <3>2. QED BY <1>3, <3>1, IdleIsCall
  <2>2. CASE CreateReopen(p)
    BY <1>6, <2>2 DEF CreateReopen, Make, MakeFile
  <2>3. CASE CreateReopenFails(p) BY <1>5, <2>3 DEF CreateReopenFails, Die
  <2>4. CASE MakeOutOfSlots(p, op[p].name) BY <1>5, <2>4 DEF MakeOutOfSlots, MakeFile
  <2>5. CASE Drain(p)
    <3>1. QueueOf(p) \in Queue BY <2>5, QueueOfInQueue DEF Drain, At
    <3>2. Receive(QueueOf(p)) /\ UNCHANGED <<fds, op>> /\ op[p].at # "send"
      BY <2>5 DEF Drain, At, QueueOf
    <3>3. QED BY <1>7, <3>1, <3>2
  <2>6. CASE Drained(p)
    <3>1. op[p] \in Call /\ op[p].at = "drain" /\ op[p].fd \in Fd
      BY <2>6, CallArguments DEF Drained, At
    <3>2. [op[p] EXCEPT !.at = "send"] = [at |-> "send", fd |-> op[p].fd]
      BY <3>1 DEF Call, Idle
    <3>3. Go(p, [at |-> "send", fd |-> op[p].fd]) /\ UNCHANGED <<fds, queue>>
      BY <2>6, <3>2 DEF Drained
    <3>4. Len(queue[fds[p][op[p].fd].q]) < MaxMsg BY <2>6 DEF Drained
    <3>5. QED BY <1>4, <3>1, <3>3, <3>4
  <2>7. CASE Send(p)
    <3>1. Go(p, Idle) /\ UNCHANGED fds /\ PutsOne(p) BY <2>7 DEF Send, PutsOne, QueueOf
    <3>2. QED BY <1>2, <3>1
  <2>8. CASE SendFails(p) BY <1>2, <2>8 DEF SendFails, TakesOne
  <2>9. CASE DeleteUnlink(p) BY <1>2, <2>9 DEF DeleteUnlink, TakesOne
  <2>10. QED BY <1>9, <2>1, <2>2, <2>3, <2>4, <2>5, <2>6, <2>7, <2>8, <2>9 DEF Continue
<1>10. CASE Die(p) BY <1>5, <1>10 DEF Die
<1>11. QED BY <1>8, <1>9, <1>10

LEMMA TailFacts ==
  ASSUME NEW s \in Seq(Message), s # <<>>
  PROVE  /\ Tail(s) \in Seq(Message) /\ Len(Tail(s)) = Len(s) - 1 /\ Len(s) \in Nat \ {0}
         /\ \A i \in 1 .. Len(Tail(s)) : Tail(s)[i] = s[i + 1]
OBVIOUS

LEMMA AppendFacts ==
  ASSUME NEW s \in Seq(Message), NEW m \in Message
  PROVE  /\ Len(Append(s, m)) = Len(s) + 1 /\ Len(s) \in Nat
         /\ \A i \in 1 .. Len(s) : Append(s, m)[i] = s[i]
         /\ Append(s, m)[Len(s) + 1] = m
OBVIOUS

LEMMA ReceiveKeeps ==
  ASSUME TypeOK, Contents, NEW q \in Queue, Receive(q)
  PROVE  Contents' /\ \A r \in Queue : Len(queue'[r]) <= Len(queue[r])
<1>1. /\ queue \in [Queue -> Seq(Message)] /\ queue[q] # <<>>
      /\ queue' = [queue EXCEPT ![q] = Tail(queue[q])]
  BY DEF TypeOK, Receive
<1>2. /\ Len(Tail(queue[q])) = Len(queue[q]) - 1 /\ Len(queue[q]) \in Nat \ {0}
      /\ \A i \in 1 .. Len(Tail(queue[q])) : Tail(queue[q])[i] = queue[q][i + 1]
  BY <1>1, TailFacts
<1>3. Len(Tail(queue[q])) <= MaxMsg BY <1>2 DEF Contents
<1>4. \A i \in 1 .. Len(Tail(queue[q])) : Tail(queue[q])[i] >= q
  <2>1. ASSUME NEW i \in 1 .. Len(Tail(queue[q])) PROVE Tail(queue[q])[i] >= q
    <3>1. i + 1 \in 1 .. Len(queue[q]) BY <1>2
    <3>2. QED BY <1>2, <3>1 DEF Contents
  <2>2. QED BY <2>1
<1>5. Contents' BY <1>1, <1>3, <1>4 DEF Contents
<1>6. ASSUME NEW r \in Queue PROVE Len(queue'[r]) <= Len(queue[r])
  <2>1. queue[r] \in Seq(Message) BY <1>1
  <2>2. CASE r = q BY <1>1, <1>2, <2>2
  <2>3. CASE r # q BY <1>1, <2>1, <2>3
  <2>4. QED BY <2>2, <2>3
<1>7. QED BY <1>5, <1>6

LEMMA PutKeeps ==
  ASSUME TypeOK, Contents, NEW q \in Queue, q <= made, Len(queue[q]) < MaxMsg,
         queue' = [queue EXCEPT ![q] = Append(@, made)]
  PROVE  Contents'
<1>1. /\ queue \in [Queue -> Seq(Message)] /\ made \in Message /\ made \in Nat
      /\ queue' = [queue EXCEPT ![q] = Append(queue[q], made)]
  BY DEF TypeOK, Message
<1>2. /\ Len(Append(queue[q], made)) = Len(queue[q]) + 1 /\ Len(queue[q]) \in Nat
      /\ \A i \in 1 .. Len(queue[q]) : Append(queue[q], made)[i] = queue[q][i]
      /\ Append(queue[q], made)[Len(queue[q]) + 1] = made
  BY <1>1, AppendFacts
<1>3. Len(Append(queue[q], made)) <= MaxMsg BY <1>2
<1>4. ASSUME NEW i \in 1 .. Len(Append(queue[q], made)) PROVE Append(queue[q], made)[i] >= q
  <2>1. CASE i \in 1 .. Len(queue[q]) BY <1>2, <2>1 DEF Contents
  <2>2. CASE i = Len(queue[q]) + 1 BY <1>1, <1>2, <2>2 DEF Queue
  <2>3. QED BY <1>2, <2>1, <2>2
<1>5. QED BY <1>1, <1>3, <1>4 DEF Contents

LEMMA ContentsKeeps ==
  ASSUME TypeOK, Contents, NamesApart, NEW p \in Proc, CallStep(p)
  PROVE  Contents'
<1>1. CASE queue' = queue BY <1>1 DEF Contents
<1>2. CASE \E q \in Queue : Receive(q) BY <1>2, ReceiveKeeps
<1>3. CASE PutsOne(p)
  <2>1. PICK q \in Queue : q = QueueOf(p) BY <1>3, QueueOfInQueue DEF PutsOne, At
  <2>2. q <= made BY <1>3, <2>1, QueueOfInQueue DEF NamesApart, QueueOf, PutsOne, At
  <2>3. QED BY <1>3, <2>1, <2>2, PutKeeps DEF PutsOne
<1>4. QED BY <1>1, <1>2, <1>3 DEF CallStep, TakesOne

LEMMA RoomKeeps ==
  ASSUME TypeOK, Contents, NamesApart, RoomToSend, NEW p \in Proc, CallStep(p)
  PROVE  RoomToSend'
<1> SUFFICES ASSUME NEW r \in Proc, op'[r].at = "send", SoleWriter(r, op[r].fd)'
             PROVE  Len(queue'[QueueOf(r)']) < MaxMsg
  BY DEF RoomToSend, At, QueueOf
<1>1. CASE r = p BY <1>1 DEF CallStep, QueueOf
<1>2. CASE r # p
  <2>1. op'[r] = op[r] /\ fds'[r] = fds[r] BY <1>2 DEF CallStep
  <2>2. op[r].at = "send" /\ Writers[fds[r][op[r].fd].name] = {r} /\ QueueOf(r)' = QueueOf(r)
    BY <2>1 DEF SoleWriter, QueueOf
  <2>3. QueueOf(r) \in Queue /\ fds[r][op[r].fd] \in AllHandles BY <2>2, QueueOfInQueue
  <2>4. Len(queue[QueueOf(r)]) < MaxMsg BY <2>2 DEF RoomToSend, At, SoleWriter, QueueOf
  <2>5. PICK k \in Queue : k = QueueOf(r) BY <2>3
  <2>6. queue \in [Queue -> Seq(Message)] /\ queue[k] \in Seq(Message) BY DEF TypeOK
  <2>7. Len(queue'[k]) < MaxMsg
    <3>1. CASE queue' = queue BY <2>4, <2>5, <3>1
    <3>2. CASE \E q \in Queue : Receive(q)
      <4>1. PICK q \in Queue : Receive(q) BY <3>2
      <4>2. Len(queue'[k]) <= Len(queue[k]) BY <4>1, ReceiveKeeps
      <4>3. queue' \in [Queue -> Seq(Message)] BY <4>1, ReceiveType DEF QueueType
      <4>4. Len(queue'[k]) \in Nat /\ Len(queue[k]) \in Nat BY <2>6, <4>3
      <4>5. QED BY <2>4, <2>5, <4>2, <4>4
    <3>3. CASE PutsOne(p)
      <4>1. /\ QueueOf(p) \in Queue /\ fds[p][op[p].fd] \in AllHandles
            /\ p \in Writers[fds[p][op[p].fd].name]
        BY <3>3, QueueOfInQueue DEF PutsOne, At
      <4>2. QueueOf(p) # k
        <5>1. SUFFICES ASSUME fds[p][op[p].fd].q = fds[r][op[r].fd].q PROVE FALSE
          BY <2>5 DEF QueueOf
        <5>2. fds[p][op[p].fd].name = fds[r][op[r].fd].name BY <2>3, <4>1, <5>1 DEF NamesApart
        <5>3. QED BY <1>2, <2>2, <4>1, <5>2
      <4>3. queue'[k] = queue[k] BY <2>6, <3>3, <4>1, <4>2 DEF PutsOne
      <4>4. QED BY <2>4, <2>5, <4>3
    <3>4. QED BY <3>1, <3>2, <3>3 DEF CallStep, TakesOne
  <2>8. QED BY <2>2, <2>5, <2>7
<1>3. QED BY <1>1, <1>2

----------------------------------------------------------------------------
IInv == TypeOK /\ NamesApart /\ Contents /\ RoomToSend

LEMMA InitInv == Init => IInv
<1> SUFFICES ASSUME Init PROVE IInv OBVIOUS
<1>1. TypeOK BY InitType
<1>2. AllHandles = {} BY DEF Init, AllHandles
<1>3. NamesApart BY <1>2 DEF Init, NamesApart, NoQueue
<1>4. Contents BY DEF Init, Contents
<1>5. RoomToSend BY DEF Init, RoomToSend, At, Idle
<1>6. QED BY <1>1, <1>3, <1>4, <1>5 DEF IInv

LEMMA NextInv == IInv /\ [Next]_vars => IInv'
<1>1. ASSUME IInv, NEW p \in Proc, Begin(p) \/ Continue(p) \/ Die(p) PROVE IInv'
  <2>1. TypeOK /\ NamesApart /\ Contents /\ RoomToSend BY <1>1 DEF IInv
  <2>2. TypeOK' BY <1>1, <2>1, BeginType, ContinueType, DieType
  <2>3. NamesApart' BY <1>1, <2>1, FilesStep, LostKeeps, MadeOneKeeps, OpenedKeeps
  <2>4. CallStep(p) BY <1>1, <2>1, CallStepOf
  <2>5. Contents' BY <2>1, <2>4, ContentsKeeps
  <2>6. RoomToSend' BY <2>1, <2>4, RoomKeeps
  <2>7. QED BY <2>2, <2>3, <2>5, <2>6 DEF IInv
<1>2. ASSUME IInv, UNCHANGED vars PROVE IInv'
  BY <1>2 DEF IInv, TypeOK, MayWrite, NamesApart, AllHandles, Contents, RoomToSend, At,
              SoleWriter, vars
<1>3. QED BY <1>1, <1>2 DEF Next

\* write_message_to_queue never loses the message of a process that alone
\* writes under a name, whatever readers, owners and other processes do between
\* its look at the queue and its mq_send.
THEOREM Room == Spec => []RoomToSend
<1>1. IInv => RoomToSend BY DEF IInv
<1>2. QED BY <1>1, InitInv, NextInv, PTL DEF Spec

LEMMA InvFresh == IInv => FreshQueue
<1> SUFFICES ASSUME IInv, NEW p \in Proc, NEW h \in Handles(p)
             PROVE  \A i \in 1 .. Len(queue[h.q]) : queue[h.q][i] >= h.since
  BY DEF FreshQueue
<1>1. h \in AllHandles BY DEF Handles, AllHandles
<1>2. h.since = h.q /\ h.q \in Queue BY <1>1, HandlesTyped DEF IInv, NamesApart, Handle
<1>3. QED BY <1>2 DEF IInv, Contents

\* What create_exchange_queue returns holds no message written before the call.
THEOREM Fresh == Spec => []FreshQueue
BY InitInv, NextInv, InvFresh, PTL DEF Spec
=============================================================================
