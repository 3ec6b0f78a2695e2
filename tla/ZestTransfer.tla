---------------------------- MODULE ZestTransfer ----------------------------
(***************************************************************************)
(* ZestSC1_Transfer of misc/ZestSC1/linux/DataLinux.c, called by           *)
(* ZestSC1ReadData and ZestSC1WriteData on an open card.  The buffer is    *)
(* cut into chunks of ZESTSC1_MAX_TRANSFER_LENGTH; two URBs take turns, so *)
(* that the next chunk is with the kernel while the last one is waited     *)
(* for.  The kernel (usbfs) completes the URBs of an endpoint in the order *)
(* in which they were submitted, and hands those it has completed, the     *)
(* first one first, to whoever reaps.  The URBs and the flags Queued are   *)
(* on the stack, so a URB that is with the kernel when its call has        *)
(* returned belongs to nobody.                                             *)
(*                                                                         *)
(* A step is one ioctl with the code up to the next one.  Time is counted  *)
(* from the full second before the call.                                   *)
(***************************************************************************)
EXTENDS Integers, Sequences, Functions

CONSTANTS
  MaxChunks,   \* bound: chunks of a transfer
  NCalls,      \* bound: transfers
  Sec,         \* ticks in a second
  TimeOut      \* Struct->TimeOut, in ticks

ASSUME TransferAssumption ==
  /\ MaxChunks \in Nat /\ NCalls \in Nat
  /\ Sec \in Nat \ {0}
  /\ TimeOut \in Nat

VARIABLES
  pc,       \* "idle", or before a submit, in the reaping loop, at Error
  calls,    \* transfers begun
  chunks,   \* chunks of the buffer
  count,    \* Count, in chunks
  i,        \* the URB whose turn it is
  Queued,   \* the flags
  pending,  \* the URBs the kernel works on
  done,     \* the URBs it has completed, in that order
  start, now, TimeEnd,   \* the clock at the call, the clock, the deadline
  result,   \* of the last transfer
  failed    \* a transfer has failed since the card was opened

callVars == <<calls, chunks, start, TimeEnd>>
loopVars == <<count, i, Queued>>
kernel   == <<pending, done>>
vars == <<pc, callVars, loopVars, kernel, now, result, failed>>

Slot == {0, 1}
Urb  == [call : 1 .. NCalls, chunk : 0 .. MaxChunks - 1]

Init ==
  /\ pc = "idle" /\ calls = 0 /\ chunks = 0
  /\ count = 0 /\ i = 0 /\ Queued = [s \in Slot |-> FALSE]
  /\ pending = {} /\ done = <<>>
  /\ start = 0 /\ now = 0 /\ TimeEnd = [sec |-> 0, usec |-> 0]
  /\ result = "none" /\ failed = FALSE

----------------------------------------------------------------------------
\* The microseconds may add up to more than a second; they are not carried.
Deadline(t) == [sec  |-> (t \div Sec) + (TimeOut \div Sec),
                usec |-> (t % Sec) + (TimeOut % Sec)]

Late == \/ now \div Sec > TimeEnd.sec
        \/ now \div Sec = TimeEnd.sec /\ now % Sec >= TimeEnd.usec

Transfer ==
  /\ pc = "idle"
  /\ calls < NCalls
  /\ calls' = calls + 1
  /\ chunks' \in 0 .. MaxChunks
  /\ start' \in 0 .. Sec - 1
  /\ now' = start'
  /\ TimeEnd' = Deadline(start')
  /\ count' = 0 /\ i' = 0 /\ Queued' = [s \in Slot |-> FALSE]
  /\ pc' = "submit" /\ result' = "none"
  /\ UNCHANGED <<kernel, failed>>

Return(r) == pc' = "idle" /\ result' = r

Fail(r) == pc' = "error" /\ result' = r

\* The end of a round of the loop: the next chunk, or there are no more.
NextRound ==
  IF count = chunks
    THEN Return("success") /\ UNCHANGED count
    ELSE count' = count + 1 /\ pc' = "submit" /\ UNCHANGED result

\* Mutated: the first round reaps as well.
ThenReapAlways == pc' = "reap" /\ UNCHANGED <<count, result>>

\* Behind the submit: reap the previous URB, if there is one.
ThenReap ==
  IF count = 0 THEN NextRound ELSE pc' = "reap" /\ UNCHANGED <<count, result>>

Submit ==
  /\ pc = "submit"
  /\ count < chunks
  /\ pending' = pending \cup {[call |-> calls, chunk |-> count]}
  /\ Queued' = [Queued EXCEPT ![i] = TRUE]
  /\ i' = 1 - i
  /\ ThenReap
  /\ UNCHANGED <<callVars, done, now, failed>>

SubmitFails ==
  /\ pc = "submit"
  /\ count < chunks
  /\ Fail("internal")
  /\ UNCHANGED <<callVars, loopVars, kernel, now, failed>>

\* LastTransfer: a round without a submit, for the last URB.
NothingLeft ==
  /\ pc = "submit"
  /\ count = chunks
  /\ i' = 1 - i
  /\ ThenReap
  /\ UNCHANGED <<callVars, Queued, kernel, now, failed>>

\* Mutated: the flag of the URB that comes next is cleared.
ReapOther ==
  /\ pc = "reap"
  /\ done # <<>> /\ Head(done).ok
  /\ done' = Tail(done)
  /\ Queued' = [Queued EXCEPT ![1 - i] = FALSE]
  /\ NextRound
  /\ UNCHANGED <<callVars, i, pending, now, failed>>

\* Mutated: the status of the URB is not looked at.
ReapUnchecked ==
  /\ pc = "reap"
  /\ done # <<>>
  /\ done' = Tail(done)
  /\ Queued' = [Queued EXCEPT ![i] = FALSE]
  /\ NextRound
  /\ UNCHANGED <<callVars, i, pending, now, failed>>

\* USBDEVFS_REAPURBNDELAY gives a URB that went well; whose it is, is not asked.
Reap ==
  /\ pc = "reap"
  /\ done # <<>> /\ Head(done).ok
  /\ done' = Tail(done)
  /\ Queued' = [Queued EXCEPT ![i] = FALSE]
  /\ NextRound
  /\ UNCHANGED <<callVars, i, pending, now, failed>>

ReapFailed ==
  /\ pc = "reap"
  /\ done # <<>> /\ ~Head(done).ok
  /\ done' = Tail(done)
  /\ Fail("internal")
  /\ UNCHANGED <<callVars, loopVars, pending, now, failed>>

\* An errno other than EAGAIN, such as ENODEV.
ReapError ==
  /\ pc = "reap"
  /\ done = <<>> /\ ~Late
  /\ Fail("internal")
  /\ UNCHANGED <<callVars, loopVars, kernel, now, failed>>

Expired ==
  /\ pc = "reap"
  /\ done = <<>> /\ Late
  /\ Fail("timeout")
  /\ UNCHANGED <<callVars, loopVars, kernel, now, failed>>

\* Mutated: the error path waits until the kernel is through with the URBs.
ErrorWaits ==
  /\ pc = "error"
  /\ pending = {}
  /\ pc' = "idle"
  /\ failed' = TRUE
  /\ UNCHANGED <<callVars, loopVars, kernel, now, result>>

\* "Cancel URB": USBDEVFS_DISCARDURB is given &urb[i], the address of the
\* pointer, which is no URB, and does nothing.
Error ==
  /\ pc = "error"
  /\ pc' = "idle"
  /\ failed' = TRUE
  /\ UNCHANGED <<callVars, loopVars, kernel, now, result>>

\* The steps the caller can always take; ReapError is the card's doing.
Step == \/ Submit \/ SubmitFails \/ NothingLeft
        \/ Reap \/ ReapFailed \/ Expired \/ Error

----------------------------------------------------------------------------
\* The kernel completes the oldest URB of a call, well or not.
Complete ==
  /\ \E u \in pending, ok \in BOOLEAN :
       /\ \A v \in pending : v.call = u.call => u.chunk <= v.chunk
       /\ pending' = pending \ {u}
       /\ done' = Append(done, [urb |-> u, ok |-> ok])
  /\ UNCHANGED <<pc, callVars, loopVars, now, result, failed>>

\* The clock, which is of no interest behind the deadline.
Tick ==
  /\ pc \in {"submit", "reap"}
  /\ ~Late
  /\ now' = now + 1
  /\ UNCHANGED <<pc, callVars, loopVars, kernel, result, failed>>

\* ZestSC1CloseCard and ZestSC1OpenCard: closing the device ends its URBs.
Reopen ==
  /\ pc = "idle"
  /\ pending' = {} /\ done' = <<>>
  /\ failed' = FALSE
  /\ UNCHANGED <<pc, callVars, loopVars, now, result>>

Next == Transfer \/ Step \/ ReapError \/ Complete \/ Tick \/ Reopen

Spec == Init /\ [][Next]_vars

\* The caller runs and so does the clock; the card owes nothing.
FairSpec == Spec /\ WF_vars(Step) /\ WF_vars(Tick)

----------------------------------------------------------------------------
\* The program's variables have their types and Count stays in the buffer.
TypeOK ==
  /\ pc \in {"idle", "submit", "reap", "error"}
  /\ calls \in 0 .. NCalls
  /\ chunks \in 0 .. MaxChunks /\ count \in 0 .. chunks
  /\ i \in Slot
  /\ Queued \in [Slot -> BOOLEAN]
  /\ pending \subseteq Urb
  /\ done \in Seq([urb : Urb, ok : BOOLEAN])
  /\ start \in 0 .. Sec - 1 /\ now \in Nat
  /\ TimeEnd \in [sec : Nat, usec : Nat]
  /\ result \in {"none", "success", "internal", "timeout"}
  /\ failed \in BOOLEAN

Own(c) == [call |-> calls, chunk |-> c]

\* The URBs the kernel has.
Held == pending \cup {d.urb : d \in Range(done)}

\* What the loop reaps it takes for the previous chunk, without a look at which
\* URB it is (DataLinux.c:101).  It is that one, however the kernel's completions
\* and the submits interleave, unless a transfer has failed on this card.
ReapsOwn ==
  pc = "reap" /\ ~failed =>
    /\ Own(count - 1) \in Held
    /\ done # <<>> => Head(done).urb = Own(count - 1)

\* The flags the error path goes by say which URBs of this call the kernel has;
\* and a call that returns success leaves nothing of the caller's buffer with it:
\* every chunk was submitted, and reaped.
QueuedExact ==
  /\ TypeOK
  /\ pc \in {"submit", "reap"} /\ ~failed =>
       \A s \in Slot : Queued[s] <=> \E u \in Held : u.call = calls /\ u.chunk % 2 = s
  /\ pc = "idle" /\ result = "success" /\ ~failed => Held = {} /\ count = chunks

\* The chunks of this call that the card has moved well: what was reaped, and
\* what it has completed since.
Moved == {c \in 0 .. chunks - 1 :
            c < count - 1 \/ \E d \in Range(done) : d.ok /\ d.urb = Own(c)}

\* A transfer that times out has waited for the time set, less not quite a second
\* for the carry that DataLinux.c:48 does not make.
WaitsItsTime == result = "timeout" => now - start > TimeOut - Sec

\* To its caller, who sees no URBs, ZestSC1_Transfer is the transfer of
\* CardTransfer: on a card without a failed transfer a call returns success only
\* if the card has moved each chunk of its own buffer, in order, without an error;
\* and on any card a timeout keeps WaitsItsTime.
Card ==
  INSTANCE CardTransfer WITH
    busy    <- pc \in {"submit", "reap"},
    size    <- chunks,
    moved   <- IF pc \in {"submit", "reap"} /\ ~failed THEN Moved ELSE {},
    trusted <- ~failed /\ pc # "error",
    elapsed <- now - start,
    outcome <- result,
    Patience <- TimeOut - Sec + 1
TransferSpec == Card!Spec

\* Whatever the card does, a transfer returns.
Returns == (pc # "idle") ~> (pc = "idle")
=============================================================================
