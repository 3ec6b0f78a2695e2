------------------------- MODULE ZestTransfer_proofs -------------------------
(* Proofs about ZestTransfer, for every number of chunks and every clock. *)
EXTENDS ZestTransfer, SequenceTheorems, TLAPS

USE TransferAssumption

Active == pc \in {"submit", "reap"}

\* Chunks of this transfer that were reaped, and that were submitted.
Reaped    == IF count = 0 THEN 0 ELSE count - 1
Submitted == IF pc = "reap" /\ count < chunks THEN count + 1 ELSE count

\* The kernel has the chunks in between: it has completed the first of them,
\* in their order, and works on the others.
Window ==
  /\ Len(done) <= Submitted - Reaped
  /\ \A k \in 1 .. Len(done) : done[k].urb = Own(Reaped + k - 1)
  /\ pending = {Own(c) : c \in Reaped + Len(done) .. Submitted - 1}

\* The URBs take turns: that of the next chunk to submit, or of the next to reap.
Turn == i = IF pc = "submit" THEN count % 2 ELSE (count + 1) % 2

Flags == \A s \in Slot : Queued[s] <=> \E c \in Reaped .. Submitted - 1 : c % 2 = s

\* What a call has in hand while it runs.
Running ==
  /\ pc # "idle" => calls >= 1 /\ TimeEnd = Deadline(start)
  /\ pc = "reap" => count >= 1
  /\ Active => result = "none"
  /\ result = "success" => pc = "idle" /\ count = chunks

\* On a card on which no transfer has failed.
Clean ==
  ~failed => /\ Active => Window /\ Turn /\ Flags
             /\ pc = "idle" => pending = {} /\ done = <<>>

IInv == TypeOK /\ Running /\ Clean /\ WaitsItsTime
----------------------------------------------------------------------------
(* Types *)

LEMMA TypeInit == Init => IInv
<1> SUFFICES ASSUME Init PROVE IInv
  OBVIOUS
<1>1. TypeOK BY DEF Init, TypeOK, Slot, Urb
<1>2. QED BY <1>1 DEF Init, IInv, Running, Clean, Active, WaitsItsTime

LEMMA DeadlineType == \A t \in Nat : Deadline(t) \in [sec : Nat, usec : Nat]
BY DEF Deadline

LEMMA OwnType ==
  ASSUME TypeOK, calls >= 1, NEW c \in 0 .. chunks - 1
  PROVE  Own(c) \in Urb
BY DEF TypeOK, Own, Urb

LEMMA TypeStep == IInv /\ [Next]_vars => TypeOK'
<1> SUFFICES ASSUME IInv, [Next]_vars PROVE TypeOK'
  OBVIOUS
<1> USE DEF IInv, TypeOK, Slot
<1>1. CASE Transfer BY <1>1, DeadlineType DEF Transfer, kernel
<1>2. CASE Submit
  <2>1. Own(count) \in Urb BY <1>2, OwnType DEF Submit, Running
  <2>2. pending' \subseteq Urb BY <1>2, <2>1 DEF Submit, Own
  <2>3. QED BY <1>2, <2>2 DEF Submit, ThenReap, NextRound, Return, callVars
<1>3. CASE SubmitFails BY <1>3 DEF SubmitFails, Fail, callVars, loopVars, kernel
<1>4. CASE NothingLeft
  BY <1>4 DEF NothingLeft, ThenReap, NextRound, Return, callVars, kernel
<1>5. CASE Reap
  BY <1>5 DEF Reap, NextRound, Return, callVars
<1>6. CASE ReapFailed BY <1>6 DEF ReapFailed, Fail, callVars, loopVars
<1>7. CASE ReapError BY <1>7 DEF ReapError, Fail, callVars, loopVars, kernel
<1>8. CASE Expired BY <1>8 DEF Expired, Fail, callVars, loopVars, kernel
<1>9. CASE Error BY <1>9 DEF Error, callVars, loopVars, kernel
<1>10. CASE Complete
  <2>1. done' \in Seq([urb : Urb, ok : BOOLEAN]) /\ pending' \subseteq Urb
    BY <1>10 DEF Complete
  <2>2. QED BY <1>10, <2>1 DEF Complete, callVars, loopVars
<1>11. CASE Tick BY <1>11 DEF Tick, callVars, loopVars, kernel
<1>12. CASE Reopen
  <2>1. pending' \subseteq Urb /\ done' \in Seq([urb : Urb, ok : BOOLEAN])
    BY <1>12, EmptySeq DEF Reopen
  <2>2. QED BY <1>12, <2>1 DEF Reopen, callVars, loopVars
<1>13. CASE UNCHANGED vars BY <1>13 DEF vars, callVars, loopVars, kernel
<1>14. QED
  BY <1>1, <1>2, <1>3, <1>4, <1>5, <1>6, <1>7, <1>8, <1>9, <1>10, <1>11,
     <1>12, <1>13 DEF Next, Step

----------------------------------------------------------------------------
(* The call in hand *)

LEMMA RunningStep == IInv /\ [Next]_vars => Running'
<1> SUFFICES ASSUME IInv, [Next]_vars PROVE Running'
  OBVIOUS
<1> USE DEF IInv, TypeOK, Running, Active
<1>1. CASE Transfer BY <1>1 DEF Transfer, kernel, Deadline
<1>2. CASE Submit
  BY <1>2 DEF Submit, ThenReap, NextRound, Return, callVars, Deadline
<1>3. CASE SubmitFails BY <1>3 DEF SubmitFails, Fail, callVars, loopVars, Deadline
<1>4. CASE NothingLeft
  BY <1>4 DEF NothingLeft, ThenReap, NextRound, Return, callVars, Deadline
<1>5. CASE Reap
  BY <1>5 DEF Reap, NextRound, Return, callVars, Deadline
<1>6. CASE ReapFailed BY <1>6 DEF ReapFailed, Fail, callVars, loopVars, Deadline
<1>7. CASE ReapError BY <1>7 DEF ReapError, Fail, callVars, loopVars, Deadline
<1>8. CASE Expired BY <1>8 DEF Expired, Fail, callVars, loopVars, Deadline
<1>9. CASE Error BY <1>9 DEF Error, callVars, loopVars, Deadline
<1>10. CASE Complete BY <1>10 DEF Complete, callVars, loopVars, Deadline
<1>11. CASE Tick BY <1>11 DEF Tick, callVars, loopVars, Deadline
<1>12. CASE Reopen BY <1>12 DEF Reopen, callVars, loopVars, Deadline
<1>13. CASE UNCHANGED vars BY <1>13 DEF vars, callVars, loopVars, Deadline
<1>14. QED
  BY <1>1, <1>2, <1>3, <1>4, <1>5, <1>6, <1>7, <1>8, <1>9, <1>10, <1>11,
     <1>12, <1>13 DEF Next, Step

LEMMA DivMod ==
  ASSUME NEW t \in Nat, NEW q \in Int, NEW r \in Int,
         q = t \div Sec, r = t % Sec
  PROVE  /\ t = q * Sec + r
         /\ q \in Nat /\ r \in 0 .. Sec - 1
<1>1. t = q * Sec + r BY SMTT(60)
<1>2. q \in Nat /\ r \in 0 .. Sec - 1 OBVIOUS
<1>3. QED BY <1>1, <1>2

\* The deadline is before the time set by less than a second.
LEMMA DeadlinePassed ==
  ASSUME TypeOK, TimeEnd = Deadline(start), Late
  PROVE  now - start > TimeOut - Sec
<1> DEFINE q == now \div Sec
           p == TimeOut \div Sec
           r == now % Sec
           m == TimeOut % Sec
<1>1. start \in 0 .. Sec - 1 /\ now \in Nat /\ Sec \in Nat
  BY DEF TypeOK
<1>2. start \div Sec = 0 /\ start % Sec = start BY <1>1
<1>3. p \in Nat /\ m \in 0 .. Sec - 1 /\ q \in Nat /\ r \in 0 .. Sec - 1
  BY <1>1
<1>4. TimeEnd = [sec |-> p, usec |-> start + m]
  BY <1>2, <1>3 DEF Deadline
<1>5. q > p \/ (q = p /\ r >= start + m)
  <2>1. TimeEnd.sec = p /\ TimeEnd.usec = start + m BY <1>4
  <2>2. QED BY <1>1, <1>3, <2>1 DEF Late
<1>6. now = q * Sec + r /\ TimeOut = p * Sec + m
  BY <1>1, <1>3, DivMod
<1> HIDE DEF q, p, r, m
<1>7. CASE q > p
  <2>1. q * Sec >= p * Sec + Sec BY <1>1, <1>3, <1>7
  <2>2. QED BY <1>1, <1>3, <1>6, <2>1
<1>8. CASE q = p /\ r >= start + m
  <2>1. now = p * Sec + r BY <1>6, <1>8
  <2>2. p * Sec \in Nat BY <1>3
  <2>3. QED BY <1>1, <1>3, <1>6, <1>8, <2>1, <2>2
<1>9. QED BY <1>5, <1>7, <1>8

LEMMA WaitsStep == IInv /\ [Next]_vars => WaitsItsTime'
<1> SUFFICES ASSUME IInv, [Next]_vars PROVE WaitsItsTime'
  OBVIOUS
<1>1. CASE Expired
  <2>1. now - start > TimeOut - Sec
    BY <1>1, DeadlinePassed DEF IInv, Running, Expired
  <2>2. QED BY <1>1, <2>1 DEF Expired, callVars, WaitsItsTime
<1>2. CASE Tick
  BY <1>2 DEF Tick, callVars, WaitsItsTime, IInv, Running, Active
<1>3. CASE Transfer BY <1>3 DEF Transfer, WaitsItsTime
<1>4. CASE Submit \/ NothingLeft \/ Reap
  BY <1>4 DEF Submit, NothingLeft, Reap, ThenReap, NextRound, Return, callVars,
              WaitsItsTime, IInv
<1>5. CASE SubmitFails \/ ReapFailed \/ ReapError
  BY <1>5 DEF SubmitFails, ReapFailed, ReapError, Fail, WaitsItsTime
<1>6. CASE Error \/ Complete \/ Reopen \/ UNCHANGED vars
  BY <1>6 DEF Error, Complete, Reopen, vars, callVars, WaitsItsTime, IInv
<1>7. QED
  BY <1>1, <1>2, <1>3, <1>4, <1>5, <1>6 DEF Next, Step
----------------------------------------------------------------------------
(* What the kernel has *)

\* Which chunks are with the kernel, from the variables that say so.
LEMMA NoneYet ==
  ASSUME IInv, Transfer
  PROVE  (Window /\ Turn /\ Flags)' \/ failed
<1> SUFFICES ASSUME ~failed PROVE (Window /\ Turn /\ Flags)'
  OBVIOUS
<1>1. pending' = {} /\ done' = <<>> /\ count' = 0 /\ pc' = "submit" /\ i' = 0
  BY DEF Transfer, kernel, IInv, Clean
<1>2. Reaped' = 0 /\ Submitted' = 0 BY <1>1 DEF Reaped, Submitted
<1>3. Window' BY <1>1, <1>2 DEF Window
<1>4. Turn' BY <1>1 DEF Turn
<1>5. Flags' BY <1>2 DEF Transfer, Flags, Slot
<1>6. QED BY <1>3, <1>4, <1>5

LEMMA SubmitClean ==
  ASSUME IInv, Submit, ~failed
  PROVE  Clean'
<1>1. Window /\ Turn /\ Flags BY DEF Submit, Active, IInv, Clean
<1>2. /\ count \in 0 .. chunks - 1 /\ chunks \in Nat /\ count \in Nat
      /\ calls' = calls /\ chunks' = chunks /\ done' = done
  BY DEF Submit, callVars, IInv, TypeOK
<1>3. /\ Reaped' = Reaped /\ Submitted = count /\ Submitted' = count + 1
      /\ pc' \in {"submit", "reap"}
      /\ count' = IF count = 0 THEN 1 ELSE count
      /\ pc' = IF count = 0 THEN "submit" ELSE "reap"
  <2>1. /\ pc = "submit"
        /\ pc' = IF count = 0 THEN "submit" ELSE "reap"
        /\ count' = IF count = 0 THEN 1 ELSE count
    BY <1>2 DEF Submit, ThenReap, NextRound, Return
  <2>2. Submitted' = count + 1
    BY <1>2, <2>1 DEF Submitted
  <2>3. Reaped' = Reaped BY <1>2, <2>1 DEF Reaped
  <2>4. Submitted = count BY <2>1 DEF Submitted
  <2>5. QED BY <2>1, <2>2, <2>3, <2>4
<1>4. Window'
  <2>1. Len(done)' <= Submitted' - Reaped'
    BY <1>1, <1>2, <1>3 DEF Window, Reaped, IInv, TypeOK
  <2>2. \A k \in 1 .. Len(done) : done[k].urb = (Own(Reaped + k - 1))'
    BY <1>1, <1>2, <1>3 DEF Window, Own
  <2>3. pending' = pending \cup {Own(count)}
    BY DEF Submit, Own
  <2>4. Reaped + Len(done) .. count = (Reaped + Len(done) .. count - 1) \cup {count}
    BY <1>1, <1>2, <1>3 DEF Window, Reaped, IInv, TypeOK
  <2>5. pending' = {Own(c) : c \in Reaped + Len(done) .. count}
    BY <1>1, <1>3, <2>3, <2>4 DEF Window
  <2>6. \A c : Own(c)' = Own(c) BY <1>2 DEF Own
  <2>7. QED
    BY <1>2, <1>3, <2>1, <2>2, <2>5, <2>6 DEF Window
<1>5. Turn'
  <2>1. i = count % 2 /\ i' = 1 - i BY <1>1 DEF Turn, Submit
  <2>2. (count + 1) % 2 = 1 - (count % 2) BY <1>2
  <2>3. CASE count = 0
    <3>1. pc' = "submit" /\ count' = 1 BY <1>3, <2>3
    <3>2. i = 0 /\ i' = 1 BY <2>1, <2>3
    <3>3. QED BY <3>1, <3>2 DEF Turn
  <2>4. CASE count # 0
    <3>1. pc' = "reap" /\ count' = count BY <1>3, <2>4
    <3>2. i' = (count' + 1) % 2 BY <1>2, <2>1, <2>2, <3>1
    <3>3. QED BY <3>1, <3>2 DEF Turn
  <2>5. QED BY <2>3, <2>4
<1>6. Flags'
  <2>1. i = count % 2 BY <1>1 DEF Turn, Submit
  <2>2. \A s \in Slot : Queued'[s] <=> Queued[s] \/ s = count % 2
    BY <2>1 DEF Submit, IInv, TypeOK
  <2>3. Reaped \in Nat /\ Reaped <= count BY <1>2 DEF Reaped
  <2>4. QED BY <1>1, <1>2, <1>3, <2>2, <2>3 DEF Flags
<1>7. QED BY <1>3, <1>4, <1>5, <1>6 DEF Clean

LEMMA NothingLeftClean ==
  ASSUME IInv, NothingLeft, ~failed
  PROVE  Clean'
<1>1. Window /\ Turn /\ Flags BY DEF NothingLeft, Active, IInv, Clean
<1>2. /\ count = chunks /\ chunks \in Nat /\ count' = count
      /\ calls' = calls /\ chunks' = chunks /\ done' = done
      /\ pending' = pending /\ Queued' = Queued
      /\ pc' = IF count = 0 THEN "idle" ELSE "reap"
  BY DEF NothingLeft, ThenReap, NextRound, Return, callVars, kernel, IInv, TypeOK
<1>3. Reaped' = Reaped /\ Submitted = count /\ Submitted' = count
  BY <1>2 DEF NothingLeft, Reaped, Submitted
<1>4. \A c : Own(c)' = Own(c) BY <1>2 DEF Own
<1>5. Window' BY <1>1, <1>2, <1>3, <1>4 DEF Window
<1>6. CASE count = 0
  <2>1. Len(done) = 0 /\ pending = {}
    BY <1>1, <1>2, <1>3, <1>6 DEF Window, Reaped, IInv, TypeOK
  <2>2. done = <<>> BY <2>1, EmptySeq DEF IInv, TypeOK
  <2>3. QED BY <1>2, <1>6, <2>1, <2>2 DEF Clean, Active
<1>7. CASE count # 0
  <2>1. Turn'
    BY <1>1, <1>2, <1>7 DEF NothingLeft, Turn, IInv, TypeOK, Slot
  <2>2. Flags' BY <1>1, <1>2, <1>3 DEF Flags
  <2>3. QED BY <1>2, <1>5, <1>7, <2>1, <2>2 DEF Clean
<1>8. QED BY <1>6, <1>7

LEMMA ReapClean ==
  ASSUME IInv, Reap, ~failed
  PROVE  Clean'
<1>1. Window /\ Turn /\ Flags BY DEF Reap, Active, IInv, Clean
<1>2. /\ count \in 1 .. chunks /\ chunks \in Nat
      /\ calls' = calls /\ chunks' = chunks /\ i' = i
      /\ done' = Tail(done) /\ pending' = pending
      /\ pc = "reap" /\ done # <<>>
  BY DEF Reap, callVars, IInv, TypeOK, Running
<1>3. Reaped = count - 1 /\ Submitted = IF count = chunks THEN count ELSE count + 1
  BY <1>2 DEF Reaped, Submitted
<1>4. /\ count' = IF count = chunks THEN count ELSE count + 1
      /\ pc' = IF count = chunks THEN "idle" ELSE "submit"
  BY DEF Reap, NextRound, Return
<1>5. \A c : Own(c)' = Own(c) BY <1>2 DEF Own
<1>6. /\ Len(Tail(done)) = Len(done) - 1 /\ Len(done) \in Nat \ {0}
      /\ \A k \in 1 .. Len(done) - 1 : Tail(done)[k] = done[k + 1]
      /\ Tail(done) \in Seq([urb : Urb, ok : BOOLEAN])
  BY <1>2, HeadTailProperties DEF IInv, TypeOK
<1>7. CASE count = chunks
  <2>1. Len(done) = 1 BY <1>1, <1>2, <1>3, <1>6, <1>7 DEF Window
  <2>2. pending = {}
    BY <1>1, <1>2, <1>3, <1>7, <2>1 DEF Window
  <2>3. Tail(done) = <<>>
    <3>1. Len(Tail(done)) = 0 BY <1>6, <2>1
    <3>2. QED BY <1>6, <3>1, EmptySeq
  <2>4. QED BY <1>2, <1>4, <1>7, <2>2, <2>3 DEF Clean, Active
<1>8. CASE count # chunks
  <2>1. Reaped' = Reaped + 1 /\ Submitted' = Submitted /\ pc' = "submit"
        /\ count' = count + 1
    BY <1>2, <1>3, <1>4, <1>8 DEF Reaped, Submitted
  <2>2. Window'
    <3>1. Len(done)' <= Submitted' - Reaped'
      BY <1>1, <1>2, <1>3, <1>6, <2>1 DEF Window
    <3>2. \A k \in 1 .. Len(done)' : done'[k].urb = Own(Reaped + 1 + k - 1)
      BY <1>1, <1>2, <1>3, <1>6 DEF Window
    <3>3. Reaped + Len(done) = Reaped' + Len(done)'
      BY <1>2, <1>3, <1>6, <2>1
    <3>4. pending' = {Own(c) : c \in Reaped' + Len(done)' .. Submitted' - 1}
      BY <1>1, <1>2, <2>1, <3>3 DEF Window
    <3>5. QED BY <1>5, <2>1, <3>1, <3>2, <3>4 DEF Window
  <2>3. Turn' BY <1>1, <1>2, <2>1 DEF Turn
  <2>4. Flags'
    <3>1. i = (count + 1) % 2 BY <1>1, <1>2 DEF Turn
    <3>2. \A s \in Slot : Queued'[s] <=> Queued[s] /\ s # (count + 1) % 2
      BY <3>1 DEF Reap, IInv, TypeOK
    <3>3. \A s \in Slot : Queued[s] <=> s = (count - 1) % 2 \/ s = count % 2
      <4>1. Reaped .. Submitted - 1 = {count - 1, count} BY <1>2, <1>3, <1>8
      <4>2. QED BY <1>1, <4>1 DEF Flags
    <3>4. (count - 1) % 2 = (count + 1) % 2 /\ count % 2 # (count + 1) % 2
      BY <1>2
    <3>5. Reaped' .. Submitted' - 1 = {count} BY <1>2, <1>3, <1>8, <2>1
    <3>6. QED BY <3>2, <3>3, <3>4, <3>5 DEF Flags
  <2>5. QED BY <2>1, <2>2, <2>3, <2>4 DEF Clean
<1>9. QED BY <1>7, <1>8

LEMMA CompleteClean ==
  ASSUME IInv, Complete, ~failed
  PROVE  Clean'
<1>1. PICK u \in pending, ok \in BOOLEAN :
        /\ \A v \in pending : v.call = u.call => u.chunk <= v.chunk
        /\ pending' = pending \ {u}
        /\ done' = Append(done, [urb |-> u, ok |-> ok])
  BY DEF Complete
<1>2. UNCHANGED <<pc, calls, chunks, count, i, Queued, failed>>
  BY DEF Complete, callVars, loopVars
<1>3. CASE ~Active
  <2>1. pc # "idle" BY <1>1 DEF IInv, Clean
  <2>2. QED BY <1>2, <1>3, <2>1 DEF Clean, Active
<1>4. CASE Active
  <2>1. Window /\ Turn /\ Flags BY <1>4 DEF IInv, Clean
  <2> DEFINE f == Reaped + Len(done)
             n == Submitted
  <2>2. f \in Nat /\ n \in Nat /\ Len(done) \in Nat /\ Reaped \in Nat
    BY DEF Reaped, Submitted, IInv, TypeOK
  <2>3. Reaped' = Reaped /\ Submitted' = n
    BY <1>2 DEF Reaped, Submitted
  <2>4. pending = {Own(c) : c \in f .. n - 1} BY <2>1 DEF Window
  <2>5. \A c : Own(c)' = Own(c) /\ Own(c).chunk = c /\ Own(c).call = calls
    BY <1>2 DEF Own
  <2>6. u = Own(f) /\ f <= n - 1
    <3>1. PICK c \in f .. n - 1 : u = Own(c) BY <1>1, <2>4
    <3>2. f \in f .. n - 1 BY <2>2, <3>1
    <3>3. Own(f) \in pending BY <2>4, <3>2
    <3>4. c <= f BY <1>1, <2>5, <3>1, <3>3
    <3>5. QED BY <2>2, <3>1, <3>4
  <2>7. /\ Len(done') = Len(done) + 1
        /\ \A k \in 1 .. Len(done) : done'[k] = done[k]
        /\ done'[Len(done) + 1] = [urb |-> u, ok |-> ok]
    BY <1>1, AppendProperties DEF IInv, TypeOK
  <2>8. pending' = {Own(c) : c \in f + 1 .. n - 1}
    <3>1. \A c, e : Own(c) = Own(e) => c = e BY <2>5
    <3>2. f .. n - 1 = {f} \cup (f + 1 .. n - 1) /\ f \notin f + 1 .. n - 1
      BY <2>2, <2>6
    <3> HIDE DEF f, n
    <3>3. QED BY <1>1, <2>4, <2>6, <3>1, <3>2
  <2>9. \A k \in 1 .. Len(done') : done'[k].urb = Own(Reaped + k - 1)
    <3> SUFFICES ASSUME NEW k \in 1 .. Len(done') PROVE done'[k].urb = Own(Reaped + k - 1)
      OBVIOUS
    <3>1. CASE k \in 1 .. Len(done) BY <2>1, <2>7, <3>1 DEF Window
    <3>2. CASE k = Len(done) + 1
      <4>1. Reaped + k - 1 = f BY <2>2, <3>2
      <4>2. QED BY <2>6, <2>7, <3>2, <4>1
    <3>3. QED BY <2>2, <2>7, <3>1, <3>2
  <2>10. Window'
    <3>1. Len(done') <= n - Reaped BY <2>2, <2>6, <2>7
    <3>2. f + 1 = Reaped + Len(done') BY <2>2, <2>7
    <3>3. QED BY <2>3, <2>5, <2>8, <2>9, <3>1, <3>2 DEF Window
  <2>11. Turn' BY <1>2, <2>1 DEF Turn
  <2>12. Flags' BY <1>2, <2>1, <2>3 DEF Flags
  <2>13. QED BY <1>2, <1>4, <2>10, <2>11, <2>12 DEF Clean, Active
<1>5. QED BY <1>3, <1>4

\* The steps that leave the loop and the kernel alone.
LEMMA CleanKept ==
  ASSUME IInv, UNCHANGED <<pc, calls, chunks, count, i, Queued, kernel, failed>>
  PROVE  Clean'
<1>1. UNCHANGED <<pending, done>> BY DEF kernel
<1>2. Reaped' = Reaped /\ Submitted' = Submitted /\ \A c : Own(c)' = Own(c)
  BY DEF Reaped, Submitted, Own
<1>3. Window => Window' BY <1>1, <1>2 DEF Window
<1>4. Turn => Turn' BY DEF Turn
<1>5. Flags => Flags' BY <1>2 DEF Flags
<1>6. QED BY <1>1, <1>3, <1>4, <1>5 DEF IInv, Clean, Active

LEMMA CleanStep == IInv /\ [Next]_vars => Clean'
<1> SUFFICES ASSUME IInv, [Next]_vars PROVE Clean'
  OBVIOUS
<1>1. CASE Transfer
  BY <1>1, NoneYet DEF Transfer, Clean
<1>2. CASE failed /\ (Submit \/ NothingLeft \/ Reap \/ Complete)
  BY <1>2 DEF Submit, NothingLeft, Reap, Complete, Clean
<1>3. CASE ~failed /\ (Submit \/ NothingLeft \/ Reap \/ Complete)
  BY <1>3, SubmitClean, NothingLeftClean, ReapClean, CompleteClean
<1>4. CASE SubmitFails \/ ReapFailed \/ ReapError \/ Expired
  BY <1>4 DEF SubmitFails, ReapFailed, ReapError, Expired, Fail, Clean, Active
<1>5. CASE Error BY <1>5 DEF Error, Clean
<1>6. CASE Reopen BY <1>6 DEF Reopen, Clean, Active
<1>7. CASE Tick \/ UNCHANGED vars
  BY <1>7, CleanKept DEF Tick, vars, callVars, loopVars
<1>8. QED
  BY <1>1, <1>2, <1>3, <1>4, <1>5, <1>6, <1>7 DEF Next, Step

----------------------------------------------------------------------------
(* The theorems *)

LEMMA EveryStep == IInv /\ [Next]_vars => IInv'
BY TypeStep, RunningStep, CleanStep, WaitsStep DEF IInv

\* In every reachable state the slots and flags of the transfer say what the kernel
\* has of it, and a card without a failed transfer holds URBs of this one only.
THEOREM Inductive == Spec => []IInv
BY TypeInit, EveryStep, PTL DEF Spec

\* The program's variables have their types and Count stays in the buffer.
THEOREM TypeCorrect == Spec => []TypeOK
<1>1. IInv => TypeOK BY DEF IInv
<1>2. QED BY <1>1, Inductive, PTL

\* The loop of ZestSC1_Transfer reaps the chunk it takes a URB for, on a card on
\* which no transfer has failed: it need not look at which one it was given.
THEOREM ReapsItsOwn == Spec => []ReapsOwn
<1>1. IInv => ReapsOwn
  <2> SUFFICES ASSUME IInv, pc = "reap", ~failed
               PROVE  /\ Own(count - 1) \in Held
                      /\ done # <<>> => Head(done).urb = Own(count - 1)
    BY DEF ReapsOwn
  <2>1. Window /\ count \in Nat \ {0} BY DEF IInv, Clean, Active, Running, TypeOK
  <2>2. Reaped = count - 1 /\ Submitted \in {count, count + 1}
    BY <2>1 DEF Reaped, Submitted
  <2>3. CASE done = <<>>
    <3>1. count - 1 \in Reaped + Len(done) .. Submitted - 1
      BY <2>1, <2>2, <2>3
    <3>2. QED BY <2>1, <2>3, <3>1 DEF Window, Held
  <2>4. CASE done # <<>>
    <3>1. Len(done) \in Nat \ {0} /\ Head(done) = done[1] /\ 1 \in DOMAIN done
      BY <2>4, EmptySeq DEF IInv, TypeOK
    <3>2. done[1].urb = Own(count - 1)
      BY <2>1, <2>2, <3>1 DEF Window
    <3>3. QED BY <3>1, <3>2 DEF Held, Range
  <2>5. QED BY <2>3, <2>4
<1>2. QED BY <1>1, Inductive, PTL

LEMMA HeldIsWindow ==
  ASSUME TypeOK, Window
  PROVE  Held = {Own(c) : c \in Reaped .. Submitted - 1}
<1> DEFINE f == Reaped + Len(done)
<1>1. /\ Reaped \in Nat /\ Submitted \in Nat /\ Len(done) \in Nat
      /\ DOMAIN done = 1 .. Len(done)
  BY DEF Reaped, Submitted, TypeOK
<1>2. {d.urb : d \in Range(done)} = {Own(Reaped + k - 1) : k \in 1 .. Len(done)}
  BY <1>1 DEF Window, Range
<1>3. {Own(Reaped + k - 1) : k \in 1 .. Len(done)} = {Own(c) : c \in Reaped .. f - 1}
  <2>1. \A k \in 1 .. Len(done) : Reaped + k - 1 \in Reaped .. f - 1
    BY <1>1
  <2>2. \A c \in Reaped .. f - 1 :
          c - Reaped + 1 \in 1 .. Len(done) /\ Reaped + (c - Reaped + 1) - 1 = c
    BY <1>1
  <2>3. QED BY <2>1, <2>2
<1>4. Reaped .. Submitted - 1 = (Reaped .. f - 1) \cup (f .. Submitted - 1)
  BY <1>1 DEF Window
<1>5. pending = {Own(c) : c \in f .. Submitted - 1} BY DEF Window
<1> HIDE DEF f
<1>6. QED BY <1>2, <1>3, <1>4, <1>5 DEF Held

\* The flags are right about the kernel; and success leaves nothing with it and
\* no chunk out.
THEOREM QueuedIsExact == Spec => []QueuedExact
<1>1. IInv => QueuedExact
  <2> SUFFICES ASSUME IInv PROVE QueuedExact
    OBVIOUS
  <2>1. ASSUME Active, ~failed, NEW s \in Slot
        PROVE  Queued[s] <=> \E u \in Held : u.call = calls /\ u.chunk % 2 = s
    <3>1. Held = {Own(c) : c \in Reaped .. Submitted - 1} /\ Flags
      BY <2>1, HeldIsWindow DEF IInv, Clean
    <3>2. \A c : Own(c).call = calls /\ Own(c).chunk = c BY DEF Own
    <3>3. QED BY <3>1, <3>2 DEF Flags
  <2>2. ASSUME pc = "idle", result = "success", ~failed
        PROVE  Held = {} /\ count = chunks
    BY <2>2 DEF IInv, Clean, Running, Held, Range
  <2>3. TypeOK BY DEF IInv
  <2>4. QED BY <2>1, <2>2, <2>3 DEF QueuedExact, Active
<1>2. QED BY <1>1, Inductive, PTL

\* A transfer is not given up before its time, less not quite a second.
THEOREM WaitsLongEnough == Spec => []WaitsItsTime
<1>1. IInv => WaitsItsTime BY DEF IInv
<1>2. QED BY <1>1, Inductive, PTL

----------------------------------------------------------------------------
(* The promise of a transfer *)

\* The chunks moved well, with r reaped and those of s completed.
Well(r, s) == 0 .. r - 1 \cup {r + k - 1 : k \in {j \in 1 .. Len(s) : s[j].ok}}

InHand  == Active /\ ~failed
Trusted == ~failed /\ pc # "error"
MovedIn == IF InHand THEN Moved ELSE {}
Elapsed == now - start

LEMMA MovedIsWell ==
  ASSUME IInv, InHand
  PROVE  /\ Moved = Well(Reaped, done)
         /\ Reaped \in Nat /\ done \in Seq([urb : Urb, ok : BOOLEAN]) /\ Len(done) \in Nat
         /\ Reaped + Len(done) <= chunks
<1>1. Window BY DEF IInv, Clean, InHand
<1>2. /\ Reaped \in Nat /\ Submitted \in Nat /\ Submitted <= chunks /\ chunks \in Nat
      /\ Len(done) \in Nat /\ DOMAIN done = 1 .. Len(done) /\ count \in Nat
      /\ done \in Seq([urb : Urb, ok : BOOLEAN])
  BY DEF Reaped, Submitted, IInv, TypeOK
<1>3. Reaped + Len(done) <= chunks BY <1>1, <1>2 DEF Window
<1>4. ASSUME NEW c \in 0 .. chunks - 1
      PROVE  (\E d \in Range(done) : d.ok /\ d.urb = Own(c)) <=>
               \E k \in 1 .. Len(done) : done[k].ok /\ c = Reaped + k - 1
  <2>1. \A k \in 1 .. Len(done) : done[k].urb = Own(Reaped + k - 1) BY <1>1 DEF Window
  <2>2. \A b, e : Own(b) = Own(e) <=> b = e BY DEF Own
  <2>3. QED BY <1>2, <2>1, <2>2 DEF Range
<1>5. \A c \in Nat : c < count - 1 <=> c \in 0 .. Reaped - 1 BY <1>2 DEF Reaped
<1>6. /\ \A k \in 1 .. Len(done) : Reaped + k - 1 \in 0 .. chunks - 1
      /\ \A c \in 0 .. Reaped - 1 : c \in 0 .. chunks - 1
  BY <1>2, <1>3
<1>7. Moved = Well(Reaped, done)
  <2>1. ASSUME NEW c \in 0 .. chunks - 1 PROVE c \in Moved <=> c \in Well(Reaped, done)
    <3>1. c \in Moved <=> c < count - 1 \/ \E d \in Range(done) : d.ok /\ d.urb = Own(c)
      BY DEF Moved
    <3>2. c \in Well(Reaped, done) <=>
            c \in 0 .. Reaped - 1 \/ \E k \in 1 .. Len(done) : done[k].ok /\ c = Reaped + k - 1
      BY DEF Well
    <3>3. c \in Nat BY <1>2
    <3>4. c < count - 1 <=> c \in 0 .. Reaped - 1 BY <1>5, <3>3
    <3>5. QED BY <1>4, <3>1, <3>2, <3>4
  <2>2. Moved \subseteq 0 .. chunks - 1 BY DEF Moved
  <2>3. Well(Reaped, done) \subseteq 0 .. chunks - 1 BY <1>6 DEF Well
  <2>4. QED BY <2>1, <2>2, <2>3
<1>8. QED BY <1>2, <1>3, <1>7

\* The same with the variables of the next state.
LEMMA MovedIsWellNext ==
  ASSUME IInv', InHand'
  PROVE  Moved' = Well(Reaped', done')
<1>1. (IInv /\ InHand => Moved = Well(Reaped, done))' BY MovedIsWell, PTL
<1>2. QED BY <1>1 DEF Well

\* A step that goes on with the same transfer and moves nothing.
GoesOn == UNCHANGED <<InHand, Active, chunks, Trusted, result, MovedIn, Elapsed>>

LEMMA TransferBegins == ASSUME IInv, IInv', Transfer PROVE Card!Begin
<1>1. /\ ~Active /\ Active' /\ chunks' \in 0 .. MaxChunks /\ result' = "none"
      /\ Trusted' = Trusted
  BY DEF Transfer, Active, Trusted
<1>4. Elapsed' = 0
  <2>1. now' = start' BY DEF Transfer
  <2>2. start' \in 0 .. Sec - 1 BY DEF IInv, TypeOK
  <2>3. \A s \in 0 .. Sec - 1 : s - s = 0 OBVIOUS
  <2>4. QED BY <2>1, <2>2, <2>3 DEF Elapsed
<1>2. MovedIn' = {}
  <2>1. CASE ~InHand' BY <2>1 DEF MovedIn
  <2>2. CASE InHand'
    <3>1. done' = <<>> /\ count' = 0
      BY <2>2 DEF Transfer, kernel, IInv, Clean, InHand
    <3>2. Reaped' = 0 BY <3>1 DEF Reaped
    <3>3. Well(0, <<>>) = {} BY DEF Well
    <3>4. Moved' = {} BY <2>2, <3>1, <3>2, <3>3, MovedIsWellNext
    <3>5. QED BY <2>2, <3>4 DEF MovedIn
  <2>3. QED BY <2>1, <2>2
<1>3. QED BY <1>1, <1>2, <1>4 DEF Card!Begin, Active, Trusted, MovedIn, InHand, Elapsed

LEMMA WellHas ==
  ASSUME NEW r \in Nat, NEW s
  PROVE  \A c : c \in Well(r, s) <=>
                  c \in 0 .. r - 1 \/ \E k \in 1 .. Len(s) : s[k].ok /\ c = r + k - 1
BY DEF Well

\* The kernel adds the next chunk to those moved, if it goes well.
LEMMA WellAppend ==
  ASSUME NEW r \in Nat, NEW S, NEW s \in Seq(S), NEW e \in S
  PROVE  Well(r, Append(s, e)) = IF e.ok THEN Well(r, s) \cup {r + Len(s)} ELSE Well(r, s)
<1> DEFINE n == Len(s)
           t == Append(s, e)
<1>1. /\ n \in Nat /\ Len(t) = n + 1 /\ t[n + 1] = e
      /\ \A k \in 1 .. n : t[k] = s[k]
  BY AppendProperties, LenProperties
<1> HIDE DEF n, t
<1>2. \A c : c \in Well(r, t) <=> c \in 0 .. r - 1 \/ \E k \in 1 .. n + 1 : t[k].ok /\ c = r + k - 1
  BY <1>1 DEF Well
<1>3. \A c : c \in Well(r, s) <=> c \in 0 .. r - 1 \/ \E k \in 1 .. n : s[k].ok /\ c = r + k - 1
  BY DEF Well, n
<1>4. 1 .. n + 1 = (1 .. n) \cup {n + 1} /\ r + (n + 1) - 1 = r + n BY <1>1
<1>5. \A c : c \in Well(r, t) <=> c \in Well(r, s) \/ (e.ok /\ c = r + n)
  BY <1>1, <1>2, <1>3, <1>4
<1>6. CASE e.ok
  <2>1. Well(r, t) = Well(r, s) \cup {r + n} BY <1>5, <1>6
  <2>2. QED BY <1>6, <2>1 DEF n, t
<1>7. CASE ~e.ok
  <2>1. Well(r, t) = Well(r, s) BY <1>5, <1>7
  <2>2. QED BY <1>7, <2>1 DEF n, t
<1>8. QED BY <1>6, <1>7

\* What is reaped well has been moved before.
LEMMA WellTail ==
  ASSUME NEW r \in Nat, NEW S, NEW s \in Seq(S), s # <<>>, Head(s).ok
  PROVE  Well(r + 1, Tail(s)) = Well(r, s)
<1> DEFINE n == Len(s)
           t == Tail(s)
<1>1. /\ n \in Nat \ {0} /\ Len(t) = n - 1 /\ s[1].ok
      /\ \A k \in 1 .. n - 1 : t[k] = s[k + 1]
  BY HeadTailProperties, EmptySeq, LenProperties
<1> HIDE DEF n, t
<1>2. \A c : c \in Well(r + 1, t) <=>
               c \in 0 .. r \/ \E k \in 1 .. n - 1 : s[k + 1].ok /\ c = r + k
  <2>1. \A k \in 1 .. n - 1 : r + 1 + k - 1 = r + k BY <1>1
  <2>2. r + 1 - 1 = r OBVIOUS
  <2>3. \A c : c \in Well(r + 1, t) <=>
                 c \in 0 .. r + 1 - 1 \/ \E k \in 1 .. Len(t) : t[k].ok /\ c = r + 1 + k - 1
    BY WellHas
  <2>4. \A k \in 1 .. n - 1 : t[k].ok <=> s[k + 1].ok BY <1>1
  <2>5. ASSUME NEW c
        PROVE  c \in Well(r + 1, t) <=>
                 c \in 0 .. r \/ \E k \in 1 .. n - 1 : s[k + 1].ok /\ c = r + k
    <3>1. Len(t) = n - 1 BY <1>1
    <3>2. c \in Well(r + 1, t) <=>
            c \in 0 .. r \/ \E k \in 1 .. n - 1 : t[k].ok /\ c = r + 1 + k - 1
      BY <2>2, <2>3, <3>1
    <3>3. (\E k \in 1 .. n - 1 : t[k].ok /\ c = r + 1 + k - 1) <=>
            \E k \in 1 .. n - 1 : s[k + 1].ok /\ c = r + k
      BY <2>1, <2>4
    <3>4. QED BY <3>2, <3>3
  <2>6. QED BY <2>5
<1>3. \A c : c \in Well(r, s) <=> c \in 0 .. r - 1 \/ \E k \in 1 .. n : s[k].ok /\ c = r + k - 1
  BY DEF Well, n
<1>4. \A c : (\E k \in 1 .. n : s[k].ok /\ c = r + k - 1) <=>
               c = r \/ \E k \in 1 .. n - 1 : s[k + 1].ok /\ c = r + k
  <2>1. \A k \in 1 .. n - 1 : k + 1 \in 1 .. n /\ r + (k + 1) - 1 = r + k BY <1>1
  <2>2. 1 \in 1 .. n /\ r + 1 - 1 = r BY <1>1
  <2>3. \A k \in 1 .. n : k = 1 \/ (k - 1 \in 1 .. n - 1 /\ (k - 1) + 1 = k /\ r + (k - 1) = r + k - 1)
    BY <1>1
  <2>4. QED BY <1>1, <2>1, <2>2, <2>3
<1>5. \A c : c \in 0 .. r <=> c \in 0 .. r - 1 \/ c = r OBVIOUS
<1>6. \A c : c \in Well(r + 1, t) <=> c \in Well(r, s) BY <1>2, <1>3, <1>4, <1>5
<1>7. QED BY <1>6 DEF t

LEMMA KernelMoves ==
  ASSUME IInv, IInv', Complete
  PROVE  GoesOn \/ \E c \in 0 .. chunks - 1 : Card!Move(c)
<1>1. UNCHANGED <<InHand, Active, chunks, Trusted, result, Elapsed>> /\ calls' = calls /\ count' = count
  BY DEF Complete, InHand, Active, Trusted, Elapsed, callVars, loopVars
<1>2. CASE ~InHand BY <1>1, <1>2 DEF GoesOn, MovedIn
<1>3. CASE InHand
  <2>1. PICK u \in pending, ok \in BOOLEAN : done' = Append(done, [urb |-> u, ok |-> ok])
    BY DEF Complete
  <2> DEFINE e == [urb |-> u, ok |-> ok]
             n == Len(done)
  <2>2. /\ Moved = Well(Reaped, done) /\ Reaped \in Nat /\ n \in Nat
        /\ done \in Seq([urb : Urb, ok : BOOLEAN])
    BY <1>3, MovedIsWell
  <2>3. /\ Moved' = Well(Reaped', done') /\ Reaped' = Reaped
        /\ Reaped' + Len(done') <= chunks' /\ Len(done') = n + 1
    <3>1. InHand' BY <1>1, <1>3
    <3>2. Reaped' = Reaped BY <1>1 DEF Reaped
    <3>3. (IInv /\ InHand => Reaped + Len(done) <= chunks)' BY MovedIsWell, PTL
    <3>4. e \in [urb : Urb, ok : BOOLEAN] BY <2>1 DEF IInv, TypeOK
    <3>5. Len(done') = n + 1 BY <2>1, <2>2, <3>4, AppendProperties
    <3>6. QED BY <3>1, <3>2, <3>3, <3>5, MovedIsWellNext
  <2>4. e \in [urb : Urb, ok : BOOLEAN] /\ e.ok = ok BY <2>1 DEF IInv, TypeOK
  <2>5. Moved' = IF ok THEN Moved \cup {Reaped + n} ELSE Moved
    <3> HIDE DEF e, n
    <3>1. done' = Append(done, e) BY <2>1 DEF e
    <3>2. Well(Reaped, Append(done, e)) =
            IF e.ok THEN Well(Reaped, done) \cup {Reaped + n} ELSE Well(Reaped, done)
      BY <2>2, <2>4, WellAppend DEF n
    <3>3. QED BY <2>2, <2>3, <2>4, <3>1, <3>2
  <2>6. MovedIn = Moved /\ MovedIn' = Moved' BY <1>1, <1>3 DEF MovedIn
  <2>7. CASE ~ok BY <1>1, <2>5, <2>6, <2>7 DEF GoesOn
  <2>8. CASE ok
    <3>1. Reaped + n \in 0 .. chunks - 1
      BY <1>1, <2>2, <2>3 DEF IInv, TypeOK
    <3>2. \A m \in Moved : m < Reaped + n BY <2>2 DEF Well
    <3>3. Card!Move(Reaped + n)
      BY <1>1, <1>3, <2>5, <2>6, <2>8, <3>2
         DEF Card!Move, InHand, Active, Trusted, MovedIn, Elapsed
    <3>4. QED BY <3>1, <3>3
  <2>9. QED BY <2>7, <2>8
<1>4. QED BY <1>2, <1>3

\* The loop goes on, or has every chunk back.
LEMMA LoopSteps ==
  ASSUME IInv, IInv', Submit \/ NothingLeft \/ Reap
  PROVE  GoesOn \/ Card!Succeed
<1>1. /\ chunks' = chunks /\ failed' = failed /\ Active /\ pc' \in {"submit", "reap", "idle"}
      /\ Trusted' = Trusted /\ Elapsed' = Elapsed
  BY DEF Submit, NothingLeft, Reap, ThenReap, NextRound, Return, callVars, Active, Trusted,
         Elapsed
<1>2. CASE pc' = "idle"
  <2>1. /\ result' = "success" /\ count = chunks /\ ~Active' /\ MovedIn' = {}
        /\ (NothingLeft /\ count = 0) \/ Reap
    BY <1>2 DEF Submit, NothingLeft, Reap, ThenReap, NextRound, Return, Active, MovedIn, InHand
  <2>2. ASSUME ~failed PROVE Moved = 0 .. chunks - 1
    <3>1. InHand BY <1>1, <2>2 DEF InHand
    <3>2. Moved = Well(Reaped, done) /\ Reaped \in Nat /\ Len(done) \in Nat
          /\ Reaped + Len(done) <= chunks /\ done \in Seq([urb : Urb, ok : BOOLEAN])
      BY <3>1, MovedIsWell
    <3>3. CASE NothingLeft /\ count = 0
      <4>1. Moved \subseteq 0 .. chunks - 1 /\ chunks = 0 BY <2>1, <3>3 DEF Moved
      <4>2. QED BY <4>1
    <3>4. CASE Reap
      <4>1. count >= 1 /\ chunks \in Nat BY <3>4 DEF Reap, IInv, Running, TypeOK
      <4>2. Reaped = chunks - 1 BY <2>1, <4>1 DEF Reaped
      <4>3. done # <<>> /\ Head(done).ok BY <3>4 DEF Reap
      <4>4. Well(Reaped + 1, Tail(done)) = Moved BY <3>2, <4>3, WellTail
      <4>5. Len(done) = 1 /\ Len(Tail(done)) = 0
        <5>1. Len(done) # 0 /\ Len(Tail(done)) = Len(done) - 1
          BY <3>2, <4>3, EmptySeq, HeadTailProperties
        <5>2. QED BY <3>2, <4>1, <4>2, <5>1
      <4>6. Moved = 0 .. chunks - 1
        <5> DEFINE t == Tail(done)
        <5>1. Len(t) = 0 /\ Moved = Well(chunks, t) /\ chunks \in Nat
          BY <4>1, <4>2, <4>4, <4>5
        <5> HIDE DEF t
        <5>2. \A c : c \in Well(chunks, t) <=>
                       \/ c \in 0 .. chunks - 1
                       \/ \E k \in 1 .. Len(t) : t[k].ok /\ c = chunks + k - 1
          BY <5>1, WellHas
        <5>3. \A c : c \in Moved <=> c \in 0 .. chunks - 1 BY <5>1, <5>2
        <5>4. QED BY <5>3
      <4>7. QED BY <4>6
    <3>5. QED BY <2>1, <3>3, <3>4
  <2>3. Trusted => MovedIn = 0 .. chunks - 1 BY <1>1, <2>2 DEF Trusted, MovedIn, InHand
  <2>4. QED BY <1>1, <2>1, <2>3 DEF Card!Succeed, Card!Ends, Active, Trusted, MovedIn,
                                   InHand, Elapsed
<1>3. CASE pc' # "idle"
  <2>1. Active' /\ InHand' = InHand /\ result' = result /\ calls' = calls
    BY <1>1, <1>3
       DEF Submit, NothingLeft, Reap, ThenReap, NextRound, Return, Active, InHand, callVars
  <2>2. MovedIn' = MovedIn
    <3>1. CASE ~InHand BY <2>1, <3>1 DEF MovedIn
    <3>2. CASE InHand
      <4>1. Moved = Well(Reaped, done) /\ Reaped \in Nat
            /\ done \in Seq([urb : Urb, ok : BOOLEAN])
        BY <3>2, MovedIsWell
      <4>2. Moved' = Well(Reaped', done') BY <2>1, <3>2, MovedIsWellNext
      <4>3. CASE Submit \/ NothingLeft
        <5>1. done' = done BY <4>3 DEF Submit, NothingLeft, kernel
        <5>2. Reaped' = Reaped
          BY <1>3, <4>3 DEF Submit, NothingLeft, ThenReap, NextRound, Return, Reaped
        <5>3. QED BY <2>1, <3>2, <4>1, <4>2, <5>1, <5>2 DEF MovedIn
      <4>4. CASE Reap
        <5>1. done' = Tail(done) /\ done # <<>> /\ Head(done).ok BY <4>4 DEF Reap
        <5>2. count \in Nat /\ count >= 1 /\ count' = count + 1
          BY <1>3, <4>4 DEF Reap, NextRound, Return, IInv, Running, TypeOK
        <5>3. Reaped' = Reaped + 1 BY <5>2 DEF Reaped
        <5>4. Well(Reaped + 1, Tail(done)) = Well(Reaped, done) BY <4>1, <5>1, WellTail
        <5>5. QED BY <2>1, <3>2, <4>1, <4>2, <5>1, <5>3, <5>4 DEF MovedIn
      <4>5. QED BY <4>3, <4>4
    <3>3. QED BY <3>1, <3>2
  <2>3. QED BY <1>1, <2>1, <2>2 DEF GoesOn
<1>4. QED BY <1>2, <1>3

LEMMA Failures ==
  ASSUME IInv, IInv', SubmitFails \/ ReapFailed \/ ReapError \/ Expired
  PROVE  Card!GiveUp
<1>1. /\ Active /\ ~Active' /\ ~Trusted' /\ chunks' = chunks /\ MovedIn' = {}
      /\ result' \in {"internal", "timeout"} /\ UNCHANGED <<now, start>>
  BY DEF SubmitFails, ReapFailed, ReapError, Expired, Fail, Active, Trusted, MovedIn, InHand,
         callVars
<1>2. ASSUME result' = "timeout" PROVE now - start >= TimeOut - Sec + 1
  <2>1. now' - start' > TimeOut - Sec BY <1>2 DEF IInv, WaitsItsTime
  <2>2. now - start \in Int /\ TimeOut - Sec \in Int
    BY TransferAssumption DEF IInv, TypeOK
  <2>3. QED BY <1>1, <2>1, <2>2
<1>3. QED
  BY <1>1, <1>2 DEF Card!GiveUp, Card!Ends, Active, Trusted, MovedIn, InHand

LEMMA OtherSteps ==
  ASSUME IInv, IInv', Error \/ Tick \/ Reopen \/ UNCHANGED vars
  PROVE  GoesOn \/ Card!Reopen \/ Card!Tick
<1>1. CASE Error
  BY <1>1 DEF Error, GoesOn, Active, Trusted, MovedIn, InHand, Elapsed, callVars
<1>2. CASE Reopen
  BY <1>2 DEF Reopen, Card!Reopen, Active, Trusted, MovedIn, InHand, Elapsed, callVars
<1>3. CASE Tick \/ UNCHANGED vars
  <2>1. UNCHANGED <<pc, calls, chunks, count, done, failed, result>>
    BY <1>3 DEF Tick, vars, callVars, loopVars, kernel
  <2>2. Moved' = Moved BY <2>1 DEF Moved, Own
  <2>3. UNCHANGED <<InHand, Active, Trusted, MovedIn>>
    BY <2>1, <2>2 DEF Active, Trusted, MovedIn, InHand
  <2>4. CASE Tick
    <3>1. Elapsed' = Elapsed + 1 /\ Active
      BY <2>4 DEF Tick, Elapsed, Active, callVars, IInv, TypeOK
    <3>2. QED
      BY <2>1, <2>3, <3>1 DEF Card!Tick, Active, Trusted, MovedIn, InHand, Elapsed
  <2>5. CASE UNCHANGED vars
    <3>1. Elapsed' = Elapsed BY <2>5 DEF vars, callVars, Elapsed
    <3>2. QED BY <2>1, <2>3, <3>1 DEF GoesOn
  <2>6. QED BY <1>3, <2>4, <2>5
<1>4. QED BY <1>1, <1>2, <1>3

\* ZestSC1_Transfer keeps the promise of CardTransfer: with its two URBs, blind
\* reaping and a deadline it does nothing that a caller who sees no URBs could
\* tell from moving the chunks of the buffer one by one.
THEOREM Implementation == Spec => TransferSpec
<1>1. Init => Card!Init BY DEF Init, Card!Init
<1>2. IInv /\ IInv' /\ [Next]_vars => [Card!Next]_Card!vars
  <2> SUFFICES ASSUME IInv, IInv', [Next]_vars PROVE [Card!Next]_Card!vars
    OBVIOUS
  <2>1. \/ GoesOn
        \/ Card!Begin \/ Card!Succeed \/ Card!GiveUp \/ Card!Reopen \/ Card!Tick
        \/ \E c \in 0 .. chunks - 1 : Card!Move(c)
    BY TransferBegins, KernelMoves, LoopSteps, Failures, OtherSteps DEF Next, Step
  <2>2. GoesOn => UNCHANGED Card!vars
    BY DEF GoesOn, Card!vars, Active, Trusted, MovedIn, InHand, Elapsed
  <2>3. QED BY <2>1, <2>2 DEF Card!Next
<1>3. QED BY <1>1, <1>2, Inductive, PTL DEF Spec, TransferSpec, Card!Spec
=============================================================================
