--------------------------- MODULE Tracerd_proofs ---------------------------
(***************************************************************************)
(* Proofs about Tracerd, for any number of clients, messages, time stamps   *)
(* and signals: the second of delay, the batches and the two sorts lose no *)
(* record and put of two entries of a client the later one first only for  *)
(* its lower time stamp; a task is announced before all that follows it.   *)
(***************************************************************************)
EXTENDS Tracerd, SequenceTheorems, FiniteSetTheorems, TLAPS

\* Of two entries the earlier and the later one are related by R.
InOrder(s, R)     == \A i, j \in DOMAIN s : i < j => <<s[i], s[j]>> \in R
Precedes(X, Y, R) == \A e \in X, f \in Y : <<e, f>> \in R

\* Entries with numbers of any size, and the order of two of one client: as they
\* were sent, or the later one first for its lower time stamp.
AnyLine   == [ts : Nat, client : Client, first : Int, last : Int]
AnyRecord == [ts : Nat, client : Client, half : Int, order : Int]
LineOrder ==
  {p \in AnyLine \X AnyLine :
     p[1].client = p[2].client =>
       p[1].last < p[2].first \/ (p[2].last < p[1].first /\ p[1].ts < p[2].ts)}
RecordOrder ==
  {p \in AnyRecord \X AnyRecord :
     p[1].client = p[2].client =>
       p[1].half < p[2].half \/ (p[2].half < p[1].half /\ p[1].ts < p[2].ts)}

AllLines   == forwarded \o toSort \o g_messages
AllRecords == g_completeLog \o toSort2 \o g_messages2

\* What has been read has been reported, and a line that can be read names a
\* message that has its time stamp.
Reported ==
  /\ \A c \in Client :
       /\ Len(stamp[c]) <= NEvents /\ records[c] <= Sent(c)
       /\ \A i \in 1 .. Len(out[c]) : out[c][i] <= Len(stamp[c])
       /\ lines[c] <= Len(out[c])
       /\ cut[c] # "no" => lines[c] \in 1 .. Len(out[c])
       /\ cut[c] = "stamped" => ~IsNew(c, lines[c])
  /\ g_timestamp # 0 => g_order > 0

\* A batch is done with before the next one is taken out.
Batches == mainPc \notin {"forward", "ack"} => toSort = <<>> /\ toSort2 = <<>>

\* An entry has been read; what announces a task is stamped 0.
LineIs(e) ==
  /\ 1 <= e.first /\ e.last <= lines[e.client]
  /\ Announces(e.client, e.first, e.last) => e.ts = 0

LinesInv == InOrder(AllLines, LineOrder) /\ \A e \in Range(AllLines) : LineIs(e)

RecordsInv ==
  /\ InOrder(AllRecords, RecordOrder)
  /\ \A e \in Range(AllRecords) : e.half <= records[e.client]
  /\ \A c \in Client : \A h \in 1 .. records[c] :
       \E e \in Range(AllRecords) : e.client = c /\ e.half = h

IInv == TypeOK /\ Reported /\ Batches /\ LinesInv /\ RecordsInv

----------------------------------------------------------------------------
(* Sequences in order *)

LEMMA Concatenated ==
  ASSUME NEW S, NEW s \in Seq(S), NEW t \in Seq(S)
  PROVE  /\ s \o t \in Seq(S)
         /\ Range(s \o t) = Range(s) \cup Range(t)
         /\ \A R : InOrder(s \o t, R) <=>
              InOrder(s, R) /\ InOrder(t, R) /\ Precedes(Range(s), Range(t), R)
<1> DEFINE u == s \o t
           m == Len(s)
           n == Len(t)
<1>1. /\ u \in Seq(S) /\ Len(u) = m + n
      /\ \A i \in 1 .. m + n : u[i] = IF i <= m THEN s[i] ELSE t[i - m]
  BY ConcatProperties
<1>2. /\ m \in Nat /\ n \in Nat
      /\ DOMAIN s = 1 .. m /\ DOMAIN t = 1 .. n /\ DOMAIN u = 1 .. m + n
  BY <1>1
<1> HIDE DEF u, m, n
<1>3. \A i \in 1 .. m : i \in 1 .. m + n /\ u[i] = s[i] BY <1>1, <1>2
<1>4. ASSUME NEW i \in 1 .. n PROVE i + m \in 1 .. m + n /\ u[i + m] = t[i]
  <2> DEFINE k == i + m
  <2>1. k \in 1 .. m + n /\ ~(k <= m) /\ k - m = i BY <1>2
  <2> HIDE DEF k
  <2>2. u[k] = t[i] BY <1>1, <2>1
  <2>3. QED BY <2>1, <2>2 DEF k
<1>5. \A i \in 1 .. m + n : i \notin 1 .. m => i - m \in 1 .. n /\ u[i] = t[i - m]
  BY <1>1, <1>2
<1>6. Range(u) = Range(s) \cup Range(t)
  <2>1. ASSUME NEW i \in 1 .. m + n PROVE u[i] \in Range(s) \cup Range(t)
    <3>1. CASE i \in 1 .. m BY <1>2, <1>3, <3>1 DEF Range
    <3>2. CASE i \notin 1 .. m BY <1>2, <1>5, <3>2 DEF Range
    <3>3. QED BY <3>1, <3>2
  <2>2. \A i \in 1 .. m : s[i] \in Range(u) BY <1>2, <1>3 DEF Range
  <2>3. \A i \in 1 .. n : t[i] \in Range(u) BY <1>2, <1>4 DEF Range
  <2>4. QED BY <1>2, <2>1, <2>2, <2>3 DEF Range
<1>7. ASSUME NEW R, InOrder(u, R)
      PROVE  InOrder(s, R) /\ InOrder(t, R) /\ Precedes(Range(s), Range(t), R)
  <2>1. InOrder(s, R) BY <1>2, <1>3, <1>7 DEF InOrder
  <2>2. ASSUME NEW i \in 1 .. n, NEW j \in 1 .. n, i < j PROVE <<t[i], t[j]>> \in R
    <3>1. i + m < j + m BY <1>2, <2>2
    <3>2. <<u[i + m], u[j + m]>> \in R BY <1>2, <1>4, <1>7, <3>1 DEF InOrder
    <3>3. QED BY <1>4, <3>2
  <2>3. ASSUME NEW i \in 1 .. m, NEW j \in 1 .. n PROVE <<s[i], t[j]>> \in R
    <3>1. i < j + m BY <1>2
    <3>2. <<u[i], u[j + m]>> \in R BY <1>2, <1>3, <1>4, <1>7, <3>1 DEF InOrder
    <3>3. QED BY <1>3, <1>4, <3>2
  <2>4. QED BY <1>2, <2>1, <2>2, <2>3 DEF InOrder, Precedes, Range
<1>8. ASSUME NEW R, InOrder(s, R), InOrder(t, R), Precedes(Range(s), Range(t), R)
      PROVE  InOrder(u, R)
  <2> SUFFICES ASSUME NEW i \in 1 .. m + n, NEW j \in 1 .. m + n, i < j
               PROVE  <<u[i], u[j]>> \in R
    BY <1>2 DEF InOrder
  <2>1. CASE i \in 1 .. m /\ j \in 1 .. m BY <1>2, <1>3, <1>8, <2>1 DEF InOrder
  <2>2. CASE i \in 1 .. m /\ j \notin 1 .. m
    <3>1. u[i] = s[i] /\ u[j] = t[j - m] /\ j - m \in 1 .. n BY <1>3, <1>5, <2>2
    <3>2. s[i] \in Range(s) /\ t[j - m] \in Range(t) BY <1>2, <2>2, <3>1 DEF Range
    <3>3. QED BY <1>8, <3>1, <3>2 DEF Precedes
  <2>3. CASE i \notin 1 .. m
    <3>1. j \notin 1 .. m /\ i - m < j - m BY <1>2, <2>3
    <3>2. /\ u[i] = t[i - m] /\ u[j] = t[j - m]
          /\ i - m \in 1 .. n /\ j - m \in 1 .. n
      BY <1>5, <2>3, <3>1
    <3>3. QED BY <1>2, <1>8, <3>1, <3>2 DEF InOrder
  <2>4. QED BY <2>1, <2>2, <2>3
<1>9. QED BY <1>1, <1>6, <1>7, <1>8 DEF u

LEMMA Single ==
  ASSUME NEW S, NEW e \in S
  PROVE  <<e>> \in Seq(S) /\ Range(<<e>>) = {e} /\ \A R : InOrder(<<e>>, R)
BY DEF Range, InOrder

LEMMA Appended ==
  ASSUME NEW S, NEW s \in Seq(S), NEW e \in S
  PROVE  /\ Append(s, e) \in Seq(S)
         /\ \A x : x \in Range(Append(s, e)) <=> x \in Range(s) \/ x = e
         /\ \A R : InOrder(s, R) /\ Precedes(Range(s), {e}, R) => InOrder(Append(s, e), R)
<1> DEFINE t == <<e>>
<1>1. t \in Seq(S) /\ Range(t) = {e} /\ \A R : InOrder(t, R) BY Single
<1>2. Append(s, e) = s \o t BY AppendIsConcat
<1> HIDE DEF t
<1>3. t \in Seq(S) BY <1>1
<1>4. /\ s \o t \in Seq(S)
      /\ Range(s \o t) = Range(s) \cup Range(t)
      /\ \A R : InOrder(s \o t, R) <=>
           InOrder(s, R) /\ InOrder(t, R) /\ Precedes(Range(s), Range(t), R)
  BY <1>3, Concatenated
<1>5. QED BY <1>1, <1>2, <1>4

LEMMA Parted ==
  ASSUME NEW S, NEW s \in Seq(S), NEW n \in 0 .. Len(s)
  PROVE  /\ Older(s, n) \in Seq(S) /\ Newer(s, n) \in Seq(S)
         /\ Range(s) = Range(Older(s, n)) \cup Range(Newer(s, n))
         /\ \A R : InOrder(s, R) =>
              /\ InOrder(Older(s, n), R) /\ InOrder(Newer(s, n), R)
              /\ Precedes(Range(Older(s, n)), Range(Newer(s, n)), R)
<1> DEFINE o == Older(s, n)
           w == Newer(s, n)
<1>1. Len(s) \in Nat /\ n \in Int /\ n + 1 \in Int /\ \A i \in 1 .. Len(s) : s[i] \in S
  OBVIOUS
<1>2. o \in Seq(S)
  <2>1. \A i \in 1 .. n : s[i] \in S BY <1>1
  <2>2. QED BY <1>1, <2>1, SubSeqProperties DEF Older
<1>3. w \in Seq(S)
  <2>1. \A i \in n + 1 .. Len(s) : s[i] \in S BY <1>1
  <2>2. QED BY <1>1, <2>1, SubSeqProperties DEF Newer
<1>4. o \o w = s
  <2>1. 1 \in 1 .. Len(s) + 1 /\ n \in 1 - 1 .. Len(s) /\ Len(s) \in n .. Len(s)
    BY <1>1
  <2>2. SubSeq(s, 1, n) \o SubSeq(s, n + 1, Len(s)) = SubSeq(s, 1, Len(s))
    BY <2>1, ConcatAdjacentSubSeq
  <2>3. QED BY <2>2, SubSeqFull DEF Older, Newer
<1> HIDE DEF o, w
<1>5. /\ Range(o \o w) = Range(o) \cup Range(w)
      /\ \A R : InOrder(o \o w, R) <=>
           InOrder(o, R) /\ InOrder(w, R) /\ Precedes(Range(o), Range(w), R)
  BY <1>2, <1>3, Concatenated
<1>6. QED BY <1>2, <1>3, <1>4, <1>5 DEF o, w

LEMMA Taken ==
  ASSUME NEW S, NEW s \in Seq(S), s # <<>>
  PROVE  /\ Head(s) \in S /\ Tail(s) \in Seq(S)
         /\ Range(s) = {Head(s)} \cup Range(Tail(s))
         /\ \A R : InOrder(s, R) =>
              InOrder(Tail(s), R) /\ Precedes({Head(s)}, Range(Tail(s)), R)
<1> DEFINE h == <<Head(s)>>
           t == Tail(s)
<1>1. Head(s) \in S /\ t \in Seq(S) BY HeadTailProperties
<1>2. h \in Seq(S) /\ Range(h) = {Head(s)} BY <1>1, Single
<1>3. h \o t = s
  <2>1. Len(s) \in Nat \ {0} BY EmptySeq
  <2>2. 1 \in 1 .. Len(s) /\ Len(s) \in 1 .. Len(s) BY <2>1
  <2>3. SubSeq(s, 1, Len(s)) = <<s[1]>> \o SubSeq(s, 1 + 1, Len(s))
    BY <2>2, SubSeqRecursiveFirst
  <2>4. QED BY <2>3, SubSeqFull, TailIsSubSeq
<1> HIDE DEF h, t
<1>4. /\ Range(h \o t) = Range(h) \cup Range(t)
      /\ \A R : InOrder(h \o t, R) <=>
           InOrder(h, R) /\ InOrder(t, R) /\ Precedes(Range(h), Range(t), R)
  <2>1. h \in Seq(S) /\ t \in Seq(S) BY <1>1, <1>2
  <2>2. QED BY <2>1, Concatenated
<1>5. QED BY <1>1, <1>2, <1>3, <1>4 DEF t

----------------------------------------------------------------------------
(* Sorting *)

\* Each place of the sorted sequence takes an entry of its own, and swaps no two
\* that come in the order of their time stamps.
LEMMA SortedInOrder ==
  ASSUME NEW S, NEW s \in Seq(S), \A e \in S : e.ts \in Nat,
         NEW R, InOrder(s, R),
         \A i, j \in DOMAIN s : i < j /\ s[j].ts < s[i].ts => <<s[j], s[i]>> \in R
  PROVE  Sorted(s) \in Seq(S) /\ Range(Sorted(s)) = Range(s) /\ InOrder(Sorted(s), R)
<1> DEFINE n == Len(s)
           le(i, j) == s[i].ts < s[j].ts \/ (s[i].ts = s[j].ts /\ i <= j)
           place(i) == Cardinality(UpTo(s, i))
           rank == [i \in 1 .. n |-> place(i)]
           t == Sorted(s)
<1>1. /\ n \in Nat /\ DOMAIN s = 1 .. n
      /\ \A i \in 1 .. n : s[i] \in S /\ s[i].ts \in Nat
  OBVIOUS
<1> HIDE DEF n
<1>2. \A i \in 1 .. n : UpTo(s, i) = {j \in 1 .. n : le(j, i)} BY <1>1 DEF UpTo
<1>3. IsFiniteSet(1 .. n) /\ Cardinality(1 .. n) = n
  <2>1. 1 \in Int /\ n \in Int /\ (IF 1 > n THEN 0 ELSE n - 1 + 1) = n BY <1>1
  <2>2. QED BY <2>1, FS_Interval
<1>4. ASSUME NEW i \in 1 .. n
      PROVE  IsFiniteSet(UpTo(s, i)) /\ place(i) \in 1 .. n /\ i \in UpTo(s, i)
  <2>1. UpTo(s, i) \subseteq 1 .. n /\ i \in UpTo(s, i) BY <1>1, <1>2
  <2>2. IsFiniteSet(UpTo(s, i)) /\ place(i) <= n BY <1>3, <2>1, FS_Subset
  <2>3. place(i) \in Nat /\ place(i) # 0 BY <2>1, <2>2, FS_CardinalityType, FS_EmptySet
  <2>4. QED BY <1>1, <2>1, <2>2, <2>3
<1>5. ASSUME NEW i \in 1 .. n, NEW j \in 1 .. n, i # j, le(i, j)
      PROVE  place(i) < place(j)
  <2>1. ~le(j, i) BY <1>1, <1>5
  <2>2. \A k \in 1 .. n : le(k, i) => le(k, j) BY <1>1, <1>5
  <2>3. UpTo(s, i) \subseteq UpTo(s, j) BY <1>2, <2>2
  <2>4. j \in UpTo(s, j) /\ j \notin UpTo(s, i) BY <1>2, <1>4, <2>1
  <2>5. UpTo(s, i) # UpTo(s, j) BY <2>4
  <2>6. /\ IsFiniteSet(UpTo(s, j))
        /\ Cardinality(UpTo(s, i)) \in Int /\ Cardinality(UpTo(s, j)) \in Int
    BY <1>4
  <2>7. Cardinality(UpTo(s, i)) < Cardinality(UpTo(s, j))
    BY <2>3, <2>5, <2>6, FS_Subset
  <2>8. QED BY <2>7
<1>6. ASSUME NEW i \in 1 .. n, NEW j \in 1 .. n, ~(place(j) <= place(i))
      PROVE  le(i, j)
  <2>1. i # j BY <1>1, <1>4, <1>6
  <2>2. le(i, j) \/ le(j, i) BY <1>1
  <2>3. place(i) \in Int /\ place(j) \in Int BY <1>4
  <2> HIDE DEF place, le
  <2>4. QED BY <1>5, <1>6, <2>1, <2>2, <2>3
<1>7. \A i, j \in 1 .. n : place(i) = place(j) => i = j
  <2> SUFFICES ASSUME NEW i \in 1 .. n, NEW j \in 1 .. n, place(i) = place(j), i # j
               PROVE  FALSE
    OBVIOUS
  <2>1. le(i, j) \/ le(j, i) BY <1>1
  <2>2. place(i) \in Int /\ place(j) \in Int BY <1>4
  <2> HIDE DEF place, le
  <2>3. QED BY <1>5, <2>1, <2>2
<1>8. \A k \in 1 .. n : \E i \in 1 .. n : place(i) = k
  <2>1. rank \in [1 .. n -> 1 .. n] BY <1>4
  <2>2. \A i, j \in 1 .. n : rank[i] = rank[j] => i = j BY <1>7
  <2>3. rank \in Injection(1 .. n, 1 .. n)
    BY <2>1, <2>2 DEF Injection, IsInjective
  <2>4. rank \in Surjection(1 .. n, 1 .. n)
    <3> HIDE DEF rank
    <3>1. QED BY <1>3, <2>3, FS_Injection
  <2>5. QED BY <2>4 DEF Surjection
<1>9. ASSUME NEW k \in 1 .. n
      PROVE  Place(s, k) \in 1 .. n /\ place(Place(s, k)) = k
  BY <1>1, <1>8 DEF Place
<1>10. t = [k \in 1 .. n |-> s[Place(s, k)]] BY <1>1 DEF Sorted
<1> HIDE DEF place, t
<1>11. t \in Seq(S) /\ DOMAIN t = 1 .. n
  <2>1. t \in [1 .. n -> S] BY <1>1, <1>9, <1>10
  <2>2. QED BY <1>1, <2>1
<1>12. Range(t) = Range(s)
  <2>1. \A k \in 1 .. n : t[k] \in Range(s) BY <1>1, <1>9, <1>10 DEF Range
  <2>2. ASSUME NEW i \in 1 .. n PROVE s[i] \in Range(t)
    <3>1. place(i) \in 1 .. n BY <1>4 DEF place
    <3>2. Place(s, place(i)) = i BY <1>7, <1>9, <3>1
    <3>3. t[place(i)] = s[i] BY <1>10, <3>1, <3>2
    <3>4. QED BY <1>11, <3>1, <3>3 DEF Range
  <2>3. QED BY <1>1, <1>11, <2>1, <2>2 DEF Range
<1>13. InOrder(t, R)
  <2> SUFFICES ASSUME NEW k \in 1 .. n, NEW l \in 1 .. n, k < l PROVE <<t[k], t[l]>> \in R
    BY <1>11 DEF InOrder
  <2> DEFINE i == Place(s, k)
             j == Place(s, l)
  <2>1. i \in 1 .. n /\ j \in 1 .. n /\ place(i) = k /\ place(j) = l BY <1>9
  <2>2. t[k] = s[i] /\ t[l] = s[j] BY <1>10
  <2> HIDE DEF i, j
  <2>3. le(i, j) /\ i # j
    <3> HIDE DEF le
    <3>1. QED BY <1>6, <2>1
  <2>4. CASE i < j BY <1>1, <2>1, <2>2, <2>4 DEF InOrder
  <2>5. CASE j < i
    <3>1. s[i].ts < s[j].ts BY <1>1, <2>1, <2>3, <2>5
    <3>2. QED BY <1>1, <2>1, <2>2, <2>5, <3>1
  <2>6. QED BY <2>1, <2>3, <2>4, <2>5
<1>14. QED BY <1>11, <1>12, <1>13 DEF t

----------------------------------------------------------------------------
(* The three places of an entry: forwarded or logged, taken out, arrived *)

LEMMA Three ==
  ASSUME NEW S, NEW a \in Seq(S), NEW b \in Seq(S), NEW q \in Seq(S)
  PROVE  /\ a \o b \o q \in Seq(S)
         /\ Range(a \o b \o q) = Range(a) \cup Range(b) \cup Range(q)
         /\ \A R : InOrder(a \o b \o q, R) <=>
              /\ InOrder(a, R) /\ InOrder(b, R) /\ InOrder(q, R)
              /\ Precedes(Range(a), Range(b), R)
              /\ Precedes(Range(a), Range(q), R) /\ Precedes(Range(b), Range(q), R)
<1> DEFINE u == a \o b
<1>1. /\ u \in Seq(S) /\ Range(u) = Range(a) \cup Range(b)
      /\ \A R : InOrder(u, R) <=>
           InOrder(a, R) /\ InOrder(b, R) /\ Precedes(Range(a), Range(b), R)
  BY Concatenated
<1> HIDE DEF u
<1>2. u \in Seq(S) BY <1>1
<1>3. /\ u \o q \in Seq(S) /\ Range(u \o q) = Range(u) \cup Range(q)
      /\ \A R : InOrder(u \o q, R) <=>
           InOrder(u, R) /\ InOrder(q, R) /\ Precedes(Range(u), Range(q), R)
  BY <1>2, Concatenated
<1>4. \A R : Precedes(Range(u), Range(q), R) <=>
        Precedes(Range(a), Range(q), R) /\ Precedes(Range(b), Range(q), R)
  BY <1>1 DEF Precedes
<1>5. QED BY <1>1, <1>3, <1>4 DEF u

\* What arrived is taken out and sorted.
LEMMA Batched ==
  ASSUME NEW S, NEW a \in Seq(S), NEW q \in Seq(S), NEW n \in 0 .. Len(q),
         \A e \in S : e.ts \in Nat,
         NEW R, InOrder(a \o <<>> \o q, R),
         \A e, f \in Range(q) : <<e, f>> \in R /\ f.ts < e.ts => <<f, e>> \in R
  PROVE  /\ Sorted(Older(q, n)) \in Seq(S) /\ Newer(q, n) \in Seq(S)
         /\ Range(a \o Sorted(Older(q, n)) \o Newer(q, n)) = Range(a \o <<>> \o q)
         /\ InOrder(a \o Sorted(Older(q, n)) \o Newer(q, n), R)
<1> DEFINE o == Older(q, n)
           b == Sorted(Older(q, n))
           w == Newer(q, n)
<1>1. <<>> \in Seq(S) /\ Range(<<>>) = {} BY DEF Range
<1>2. /\ Range(a \o <<>> \o q) = Range(a) \cup Range(q)
      /\ InOrder(a, R) /\ InOrder(q, R) /\ Precedes(Range(a), Range(q), R)
  <2> DEFINE z == <<>>
  <2>1. z \in Seq(S) BY <1>1
  <2> HIDE DEF z
  <2>2. Range(a \o z \o q) = Range(a) \cup Range(z) \cup Range(q)
    BY <2>1, Three
  <2>3. InOrder(a \o z \o q, R) =>
           InOrder(a, R) /\ InOrder(q, R) /\ Precedes(Range(a), Range(q), R)
    BY <2>1, Three
  <2>4. QED BY <1>1, <2>2, <2>3 DEF z
<1>3. /\ o \in Seq(S) /\ w \in Seq(S)
      /\ Range(q) = Range(o) \cup Range(w)
      /\ InOrder(o, R) /\ InOrder(w, R) /\ Precedes(Range(o), Range(w), R)
  BY <1>2, Parted
<1> HIDE DEF o, w
<1>4. \A i, j \in DOMAIN o : i < j /\ o[j].ts < o[i].ts => <<o[j], o[i]>> \in R
  <2> SUFFICES ASSUME NEW i \in DOMAIN o, NEW j \in DOMAIN o, i < j, o[j].ts < o[i].ts
               PROVE  <<o[j], o[i]>> \in R
    OBVIOUS
  <2>1. o[i] \in Range(q) /\ o[j] \in Range(q) BY <1>3 DEF Range
  <2>2. <<o[i], o[j]>> \in R BY <1>3 DEF InOrder
  <2>3. QED BY <2>1, <2>2
<1>5. b \in Seq(S) /\ Range(b) = Range(o) /\ InOrder(b, R)
  <2>1. o \in Seq(S) /\ InOrder(o, R) BY <1>3
  <2>2. Sorted(o) \in Seq(S) /\ Range(Sorted(o)) = Range(o) /\ InOrder(Sorted(o), R)
    BY <1>4, <2>1, SortedInOrder
  <2>3. QED BY <2>2 DEF o
<1> HIDE DEF b
<1>6. /\ Precedes(Range(a), Range(b), R) /\ Precedes(Range(a), Range(w), R)
      /\ Precedes(Range(b), Range(w), R)
  BY <1>2, <1>3, <1>5 DEF Precedes
<1>7. Range(a \o b \o w) = Range(a \o <<>> \o q) /\ InOrder(a \o b \o w, R)
  <2>1. b \in Seq(S) /\ w \in Seq(S) BY <1>3, <1>5
  <2>2. /\ Range(a \o b \o w) = Range(a) \cup Range(b) \cup Range(w)
        /\ InOrder(a \o b \o w, R) <=>
              /\ InOrder(a, R) /\ InOrder(b, R) /\ InOrder(w, R)
              /\ Precedes(Range(a), Range(b), R)
              /\ Precedes(Range(a), Range(w), R) /\ Precedes(Range(b), Range(w), R)
    BY <2>1, Three
  <2>3. QED BY <1>2, <1>3, <1>5, <1>6, <2>2
<1>8. QED BY <1>3, <1>5, <1>7 DEF b, w

\* The first of those taken out is done with, ...
LEMMA OneDone ==
  ASSUME NEW S, NEW a \in Seq(S), NEW b \in Seq(S), NEW q \in Seq(S), b # <<>>
  PROVE  /\ Append(a, Head(b)) \in Seq(S) /\ Tail(b) \in Seq(S)
         /\ Range(Append(a, Head(b)) \o Tail(b) \o q) = Range(a \o b \o q)
         /\ \A R : InOrder(a \o b \o q, R) => InOrder(Append(a, Head(b)) \o Tail(b) \o q, R)
<1> DEFINE h == Head(b)
           t == Tail(b)
           d == Append(a, h)
<1>1. /\ h \in S /\ t \in Seq(S) /\ Range(b) = {h} \cup Range(t)
      /\ \A R : InOrder(b, R) => InOrder(t, R) /\ Precedes({h}, Range(t), R)
  BY Taken
<1> HIDE DEF h, t
<1>2. h \in S /\ t \in Seq(S) BY <1>1
<1>3. /\ d \in Seq(S) /\ Range(d) = Range(a) \cup {h}
      /\ \A R : InOrder(a, R) /\ Precedes(Range(a), {h}, R) => InOrder(d, R)
  <2>1. d \in Seq(S) BY <1>2, Appended
  <2>2. \A x : x \in Range(d) <=> x \in Range(a) \/ x = h BY <1>2, Appended
  <2>3. \A R : InOrder(a, R) /\ Precedes(Range(a), {h}, R) => InOrder(d, R)
    BY <1>2, Appended
  <2>4. QED BY <2>1, <2>2, <2>3
<1> HIDE DEF d
<1>4. /\ Range(a \o b \o q) = Range(a) \cup Range(b) \cup Range(q)
      /\ \A R : InOrder(a \o b \o q, R) <=>
            /\ InOrder(a, R) /\ InOrder(b, R) /\ InOrder(q, R)
            /\ Precedes(Range(a), Range(b), R)
            /\ Precedes(Range(a), Range(q), R) /\ Precedes(Range(b), Range(q), R)
  BY Three
<1>5. /\ Range(d \o t \o q) = Range(d) \cup Range(t) \cup Range(q)
      /\ \A R : InOrder(d \o t \o q, R) <=>
            /\ InOrder(d, R) /\ InOrder(t, R) /\ InOrder(q, R)
            /\ Precedes(Range(d), Range(t), R)
            /\ Precedes(Range(d), Range(q), R) /\ Precedes(Range(t), Range(q), R)
  <2>1. d \in Seq(S) /\ t \in Seq(S) BY <1>2, <1>3
  <2>2. QED BY <2>1, Three
<1>6. ASSUME NEW R, InOrder(a \o b \o q, R) PROVE InOrder(d \o t \o q, R)
  <2>1. Precedes(Range(a), {h}, R) BY <1>1, <1>4, <1>6 DEF Precedes
  <2>2. InOrder(d, R) /\ InOrder(t, R) /\ InOrder(q, R)
    BY <1>1, <1>3, <1>4, <1>6, <2>1
  <2>3. Precedes({h}, Range(t), R) BY <1>1, <1>4, <1>6
  <2>4. /\ Precedes(Range(d), Range(t), R) /\ Precedes(Range(d), Range(q), R)
        /\ Precedes(Range(t), Range(q), R)
    BY <1>1, <1>3, <1>4, <1>6, <2>3 DEF Precedes
  <2>5. QED BY <1>5, <2>2, <2>4
<1>7. Range(d \o t \o q) = Range(a \o b \o q) BY <1>1, <1>3, <1>4, <1>5
<1>8. QED BY <1>2, <1>3, <1>6, <1>7 DEF d, h, t

\* ... or all of them are.
LEMMA AllDone ==
  ASSUME NEW S, NEW a \in Seq(S), NEW b \in Seq(S), NEW q \in Seq(S)
  PROVE  /\ a \o b \in Seq(S)
         /\ Range((a \o b) \o <<>> \o q) = Range(a \o b \o q)
         /\ \A R : InOrder(a \o b \o q, R) => InOrder((a \o b) \o <<>> \o q, R)
<1>1. a \o b \in Seq(S) BY ConcatProperties
<1>2. (a \o b) \o <<>> = a \o b BY <1>1, ConcatEmptySeq
<1>3. QED BY <1>1, <1>2

\* Another one arrives.
LEMMA OneMore ==
  ASSUME NEW S, NEW a \in Seq(S), NEW b \in Seq(S), NEW q \in Seq(S), NEW e \in S
  PROVE  \A R : InOrder(a \o b \o q, R) /\ Precedes(Range(a \o b \o q), {e}, R) =>
           InOrder(a \o b \o Append(q, e), R)
<1> DEFINE t == Append(q, e)
<1>1. /\ t \in Seq(S) /\ Range(t) = Range(q) \cup {e}
      /\ \A R : InOrder(q, R) /\ Precedes(Range(q), {e}, R) => InOrder(t, R)
  <2>1. t \in Seq(S) BY Appended
  <2>2. \A x : x \in Range(t) <=> x \in Range(q) \/ x = e BY Appended
  <2>3. \A R : InOrder(q, R) /\ Precedes(Range(q), {e}, R) => InOrder(t, R)
    BY Appended
  <2>4. QED BY <2>1, <2>2, <2>3
<1>2. /\ Range(a \o b \o q) = Range(a) \cup Range(b) \cup Range(q)
      /\ \A R : InOrder(a \o b \o q, R) <=>
            /\ InOrder(a, R) /\ InOrder(b, R) /\ InOrder(q, R)
            /\ Precedes(Range(a), Range(b), R)
            /\ Precedes(Range(a), Range(q), R) /\ Precedes(Range(b), Range(q), R)
  BY Three
<1> HIDE DEF t
<1>3. /\ Range(a \o b \o t) = Range(a) \cup Range(b) \cup Range(t)
      /\ \A R : InOrder(a \o b \o t, R) <=>
            /\ InOrder(a, R) /\ InOrder(b, R) /\ InOrder(t, R)
            /\ Precedes(Range(a), Range(b), R)
            /\ Precedes(Range(a), Range(t), R) /\ Precedes(Range(b), Range(t), R)
  <2>1. t \in Seq(S) BY <1>1
  <2>2. QED BY <2>1, Three
<1>4. ASSUME NEW R, InOrder(a \o b \o q, R), Precedes(Range(a \o b \o q), {e}, R)
      PROVE  InOrder(a \o b \o t, R)
  <2>1. Precedes(Range(q), {e}, R) BY <1>2, <1>4 DEF Precedes
  <2>2. Precedes(Range(a), Range(t), R) /\ Precedes(Range(b), Range(t), R)
    BY <1>1, <1>2, <1>4 DEF Precedes
  <2>3. QED BY <1>1, <1>2, <1>3, <1>4, <2>1, <2>2
<1>5. QED BY <1>4 DEF t

LEMMA OneMoreIs ==
  ASSUME NEW S, NEW a \in Seq(S), NEW b \in Seq(S), NEW q \in Seq(S), NEW e \in S,
         NEW x
  PROVE  x \in Range(a \o b \o Append(q, e)) <=> x \in Range(a \o b \o q) \/ x = e
<1> DEFINE t == Append(q, e)
<1>1. t \in Seq(S) /\ \A y : y \in Range(t) <=> y \in Range(q) \/ y = e
  <2>1. t \in Seq(S) BY Appended
  <2>2. \A y : y \in Range(t) <=> y \in Range(q) \/ y = e BY Appended
  <2>3. QED BY <2>1, <2>2
<1>2. Range(a \o b \o q) = Range(a) \cup Range(b) \cup Range(q) BY Three
<1> HIDE DEF t
<1>3. t \in Seq(S) BY <1>1
<1>4. Range(a \o b \o t) = Range(a) \cup Range(b) \cup Range(t) BY <1>3, Three
<1>5. QED BY <1>1, <1>2, <1>4 DEF t

----------------------------------------------------------------------------
(* What a client reports *)

LEMMA Events == \A n \in Nat : \A h \in 1 .. 2 * n : EventOf(h) \in 1 .. n
BY SMTT(60) DEF EventOf

LEMMA Orders ==
  /\ \A e, f \in AnyLine : <<e, f>> \in LineOrder <=>
       (e.client = f.client =>
          e.last < f.first \/ (f.last < e.first /\ e.ts < f.ts))
  /\ \A e, f \in AnyRecord : <<e, f>> \in RecordOrder <=>
       (e.client = f.client =>
          e.half < f.half \/ (f.half < e.half /\ e.ts < f.ts))
BY DEF LineOrder, RecordOrder

\* What is in order may be put in the order of the time stamps.
LEMMA Swaps ==
  /\ \A e, f : <<e, f>> \in LineOrder /\ f.ts < e.ts => <<f, e>> \in LineOrder
  /\ \A e, f : <<e, f>> \in RecordOrder /\ f.ts < e.ts => <<f, e>> \in RecordOrder
BY DEF LineOrder, RecordOrder, AnyLine, AnyRecord

LEMMA StampFacts ==
  ASSUME TypeOK, Reported, NEW c \in Client
  PROVE  /\ stamp[c] \in Seq(Stamp) /\ Len(stamp[c]) \in Nat /\ Sent(c) \in Nat
         /\ Sent(c) <= 2 * NEvents
         /\ out[c] \in Seq(0 .. NEvents) /\ Len(out[c]) \in Nat
         /\ \A i \in 1 .. Len(out[c]) :
              /\ out[c][i] \in Nat
              /\ ~IsNew(c, i) => stamp[c][out[c][i]] \in Stamp
         /\ \A h \in 1 .. Sent(c) : RecordStamp(c, h) \in Nat \ {0}
<1>1. /\ stamp[c] \in Seq(Stamp) /\ out[c] \in Seq(0 .. NEvents) /\ NEvents \in Nat
      /\ Len(stamp[c]) <= NEvents
      /\ \A i \in 1 .. Len(out[c]) : out[c][i] <= Len(stamp[c])
  BY TracerdAssumption DEF TypeOK, Reported
<1>2. Len(stamp[c]) \in Nat /\ Len(out[c]) \in Nat BY <1>1, LenProperties
<1>3. \A k \in 1 .. Len(stamp[c]) : stamp[c][k] \in Stamp BY <1>1, ElementOfSeq
<1>4. \A i \in 1 .. Len(out[c]) : out[c][i] \in 0 .. NEvents BY <1>1, ElementOfSeq
<1>5. ASSUME NEW i \in 1 .. Len(out[c]), ~IsNew(c, i)
      PROVE  stamp[c][out[c][i]] \in Stamp
  <2>1. out[c][i] \in 1 .. Len(stamp[c]) BY <1>1, <1>2, <1>4, <1>5 DEF IsNew
  <2>2. QED BY <1>3, <2>1
<1>6. ASSUME NEW h \in 1 .. Sent(c) PROVE RecordStamp(c, h) \in Nat \ {0}
  <2>1. EventOf(h) \in 1 .. Len(stamp[c]) BY <1>2, Events DEF Sent
  <2>2. stamp[c][EventOf(h)] \in Stamp BY <1>3, <2>1
  <2>3. QED BY <2>2, TracerdAssumption DEF RecordStamp
<1>7. Sent(c) \in Nat /\ Sent(c) <= 2 * NEvents BY <1>1, <1>2 DEF Sent
<1>8. QED BY <1>1, <1>2, <1>4, <1>5, <1>6, <1>7

\* A client adds to what it has sent, and changes nothing of it.
LEMMA ReportFacts ==
  ASSUME TypeOK, Reported, NEW c \in Client, Report(c)
  PROVE  /\ stamp' \in [Client -> Seq(Stamp)] /\ out' \in [Client -> Seq(0 .. NEvents)]
         /\ Reported'
         /\ \A d \in Client : \A i \in 1 .. Len(out[d]) : out'[d][i] = out[d][i]
<1>1. PICK t \in Stamp : stamp' = [stamp EXCEPT ![c] = Append(@, t)] BY DEF Report
<1>2. PICK new \in {<<>>, <<0>>, <<0, 0>>} :
        out' = [out EXCEPT ![c] = @ \o new \o <<Len(stamp'[c]), Len(stamp'[c])>>]
  BY DEF Report
<1>3. /\ Len(stamp[c]) < NEvents /\ NEvents \in Nat
      /\ UNCHANGED <<lines, cut, records, g_timestamp, g_order>>
  BY TracerdAssumption DEF Report, lineVars, recordVars
<1>4. /\ stamp \in [Client -> Seq(Stamp)] /\ out \in [Client -> Seq(0 .. NEvents)]
      /\ lines \in [Client -> Nat] /\ records \in [Client -> 0 .. 2 * NEvents]
  BY DEF TypeOK
<1>5. \A d \in Client : /\ Len(stamp[d]) \in Nat /\ Len(out[d]) \in Nat
                        /\ stamp[d] \in Seq(Stamp) /\ out[d] \in Seq(0 .. NEvents)
  BY <1>4, LenProperties
<1> DEFINE n == Len(stamp[c]) + 1
           s == Append(stamp[c], t)
           both == <<n, n>>
           o == out[c] \o new \o both
<1>6. /\ s \in Seq(Stamp) /\ Len(s) = n /\ n \in 1 .. NEvents
  <2>1. stamp[c] \in Seq(Stamp) /\ Len(stamp[c]) \in Nat BY <1>5
  <2>2. QED BY <1>3, <2>1, AppendProperties
<1>7. /\ stamp'[c] = s /\ \A d \in Client : d # c => stamp'[d] = stamp[d]
      /\ DOMAIN stamp' = Client
  BY <1>1, <1>4
<1>8. /\ out'[c] = o /\ \A d \in Client : d # c => out'[d] = out[d]
      /\ DOMAIN out' = Client
  BY <1>2, <1>4, <1>6, <1>7
<1>16. \A S : 0 \in S /\ n \in S => new \in Seq(S) /\ both \in Seq(S)
  <2> HIDE DEF n
  <2> SUFFICES ASSUME NEW S, 0 \in S, n \in S PROVE new \in Seq(S) /\ both \in Seq(S)
    OBVIOUS
  <2>1. <<>> \in Seq(S) /\ <<0>> \in Seq(S) /\ <<0, 0>> \in Seq(S) OBVIOUS
  <2>. both \in Seq(S) OBVIOUS
  <2>2. new = <<>> \/ new = <<0>> \/ new = <<0, 0>> BY <1>2
  <2>3. QED BY <2>1, <2>2
<1> DEFINE tail == new \o both
<1>9. /\ tail \in Seq({0, n}) /\ Len(tail) \in Nat /\ \A i \in 1 .. Len(tail) : tail[i] \in {0, n}
  <2>1. new \in Seq({0, n}) /\ both \in Seq({0, n}) BY <1>16
  <2> HIDE DEF both, n
  <2>2. tail \in Seq({0, n}) BY <2>1, ConcatProperties
  <2> HIDE DEF tail
  <2>3. QED BY <2>2, ElementOfSeq, LenProperties
<1>10. /\ o \in Seq(0 .. NEvents) /\ Len(o) = Len(out[c]) + Len(tail)
       /\ \A i \in 1 .. Len(out[c]) : o[i] = out[c][i]
       /\ \A i \in 1 .. Len(o) : i \notin 1 .. Len(out[c]) => o[i] \in {0, n}
  <2>1. out[c] \in Seq(0 .. NEvents) /\ tail \in Seq(0 .. NEvents)
    <3>1. {0, n} \subseteq 0 .. NEvents BY <1>3, <1>6
    <3> HIDE DEF tail, n
    <3>2. QED BY <1>5, <1>9, <3>1, SeqMonotonic
  <2>2. o = out[c] \o tail
    <3>1. new \in Seq(Nat) /\ both \in Seq(Nat) /\ out[c] \in Seq(Nat)
      <4>1. out[c] \in Seq(Nat) BY <1>5, SeqMonotonic, <1>3
      <4>2. n \in Nat /\ 0 \in Nat BY <1>6
      <4> HIDE DEF n, both
      <4>3. QED BY <1>16, <4>1, <4>2
    <3> HIDE DEF both, n
    <3>2. \A a, b, d \in Seq(Nat) : (a \o b) \o d = a \o (b \o d) BY ConcatAssociative
    <3>3. QED BY <3>1, <3>2
  <2> HIDE DEF tail, o, n
  <2>3. /\ out[c] \o tail \in Seq(0 .. NEvents)
        /\ Len(out[c] \o tail) = Len(out[c]) + Len(tail)
        /\ \A i \in 1 .. Len(out[c]) + Len(tail) :
             (out[c] \o tail)[i] = IF i <= Len(out[c]) THEN out[c][i] ELSE tail[i - Len(out[c])]
    BY <2>1, ConcatProperties
  <2>4. ASSUME NEW i \in 1 .. Len(o), i \notin 1 .. Len(out[c]) PROVE o[i] \in {0, n}
    <3>1. i - Len(out[c]) \in 1 .. Len(tail) /\ ~(i <= Len(out[c]))
      BY <1>5, <1>9, <2>2, <2>3, <2>4
    <3>2. o[i] = tail[i - Len(out[c])] BY <2>2, <2>3, <2>4, <3>1
    <3>3. QED BY <1>9, <3>1, <3>2
  <2>5. \A i \in 1 .. Len(out[c]) : o[i] = out[c][i] BY <1>5, <1>9, <2>2, <2>3
  <2>6. QED BY <2>2, <2>3, <2>4, <2>5
<1> HIDE DEF s, o, n, tail
<1>11. stamp' \in [Client -> Seq(Stamp)] /\ out' \in [Client -> Seq(0 .. NEvents)]
  <2>1. ASSUME NEW d \in Client PROVE stamp'[d] \in Seq(Stamp) /\ out'[d] \in Seq(0 .. NEvents)
    BY <1>5, <1>6, <1>7, <1>8, <1>10
  <2>2. stamp' = [d \in Client |-> stamp'[d]] /\ out' = [d \in Client |-> out'[d]]
    BY <1>1, <1>2, <1>4
  <2>3. QED BY <2>1, <2>2
<1>12. ASSUME NEW d \in Client, NEW i \in 1 .. Len(out[d]) PROVE out'[d][i] = out[d][i]
  BY <1>8, <1>10
<1>13. ASSUME NEW d \in Client
       PROVE  /\ Len(stamp'[d]) <= NEvents /\ records[d] <= 2 * Len(stamp'[d])
              /\ \A i \in 1 .. Len(out'[d]) : out'[d][i] <= Len(stamp'[d])
              /\ lines[d] <= Len(out'[d])
              /\ cut[d] # "no" => lines[d] \in 1 .. Len(out'[d])
              /\ cut[d] = "stamped" => out'[d][lines[d]] # 0
  <2>1. /\ Len(stamp[d]) <= NEvents /\ records[d] <= 2 * Len(stamp[d])
        /\ \A i \in 1 .. Len(out[d]) : out[d][i] <= Len(stamp[d])
        /\ lines[d] <= Len(out[d])
        /\ cut[d] # "no" => lines[d] \in 1 .. Len(out[d])
        /\ cut[d] = "stamped" => out[d][lines[d]] # 0
    BY DEF Reported, Sent, IsNew
  <2>2. CASE d # c BY <1>7, <1>8, <2>1, <2>2
  <2>3. CASE d = c
    <3>1. /\ Len(stamp[c]) \in Nat /\ Len(out[c]) \in Nat /\ Len(tail) \in Nat
          /\ lines[c] \in Nat /\ records[c] \in Nat
      BY <1>4, <1>5, <1>9
    <3>2. n = Len(stamp[c]) + 1 /\ n <= NEvents BY <1>6 DEF n
    <3>3. /\ Len(s) <= NEvents /\ records[c] <= 2 * Len(s) /\ lines[c] <= Len(o)
      BY <1>6, <1>10, <2>1, <2>3, <3>1, <3>2
    <3>4. ASSUME NEW i \in 1 .. Len(o) PROVE o[i] <= Len(s)
      <4>1. CASE i \in 1 .. Len(out[c])
        <5>1. out[c][i] \in 0 .. NEvents BY <1>5, <4>1, ElementOfSeq
        <5>2. out[c][i] \in Int BY <1>3, <5>1
        <5>3. o[i] = out[c][i] /\ out[c][i] <= Len(stamp[c]) BY <1>10, <2>1, <2>3, <4>1
        <5>4. QED BY <1>6, <3>1, <3>2, <5>2, <5>3
      <4>2. CASE i \notin 1 .. Len(out[c])
        <5>1. o[i] \in {0, n} BY <1>10, <4>2
        <5>2. QED BY <1>6, <3>1, <3>2, <5>1
      <4>3. QED BY <4>1, <4>2
    <3>5. /\ cut[c] # "no" => lines[c] \in 1 .. Len(o)
          /\ cut[c] = "stamped" => o[lines[c]] # 0
      BY <1>10, <2>1, <2>3, <3>1
    <3>6. QED BY <1>7, <1>8, <2>3, <3>3, <3>4, <3>5
  <2>4. QED BY <2>2, <2>3
<1>14. Reported'
  <2>1. g_timestamp' # 0 => g_order' > 0 BY <1>3 DEF Reported
  <2>2. QED BY <1>3, <1>13, <2>1 DEF Reported, Sent, IsNew
<1>15. QED BY <1>11, <1>12, <1>14

----------------------------------------------------------------------------
(* The lines *)

LEMMA LineTypes ==
  ASSUME TypeOK
  PROVE  /\ forwarded \in Seq(AnyLine) /\ toSort \in Seq(AnyLine) /\ g_messages \in Seq(AnyLine)
         /\ \A e \in Range(AllLines) : e \in LineEntry /\ e \in AnyLine /\ e.client \in Client
         /\ (\A e \in AnyLine : e.ts \in Nat) /\ LineEntry \subseteq AnyLine
<1>1. /\ forwarded \in Seq(LineEntry) /\ toSort \in Seq(LineEntry)
      /\ g_messages \in Seq(LineEntry)
  BY DEF TypeOK
<1>2. LineEntry \subseteq AnyLine
  <2>1. {0} \cup Stamp \subseteq Nat /\ Nat \subseteq Int BY TracerdAssumption
  <2>2. QED BY <2>1 DEF LineEntry, AnyLine
<1>3. forwarded \in Seq(AnyLine) /\ toSort \in Seq(AnyLine) /\ g_messages \in Seq(AnyLine)
  BY <1>1, <1>2, SeqMonotonic
<1>4. AllLines \in Seq(LineEntry) BY <1>1, Three DEF AllLines
<1>5. Range(AllLines) \subseteq LineEntry BY <1>4, RangeOfSeq
<1>6. \A e \in LineEntry : e.client \in Client BY DEF LineEntry
<1>7. \A e \in AnyLine : e.ts \in Nat BY DEF AnyLine
<1>8. QED BY <1>2, <1>3, <1>5, <1>6, <1>7

\* What a step does to the lines.
LEMMA LineMoves ==
  ASSUME [Next]_vars
  PROVE  \/ UNCHANGED <<forwarded, toSort, g_messages, lines, out>>
         \/ \E c \in Client : Report(c) \/ GuiReceive(c) \/ GuiFragment(c)
         \/ Collect \/ Ack
<1>1. CASE \E c \in Client : Gui(c) /\ ~GuiReceive(c) /\ ~GuiFragment(c)
  BY <1>1 DEF Gui, GuiEnd, clientVars, mainVars
<1>2. CASE \E c \in Client : Msg(c)
  BY <1>2 DEF Msg, MsgReceive, MsgFragment, MsgPanic, MsgEnd, clientVars, lineVars, mainVars
<1>3. CASE Main /\ ~Collect
  BY <1>3 DEF Main, Forward, Store, AcceptControl, AcceptData, NoConnection, Dump, Join,
              mainRest, pollRest, clientVars, lineVars
<1>4. CASE Signal \/ UNCHANGED vars
  BY <1>4 DEF Signal, vars, clientVars, lineVars, mainVars
<1>5. QED BY <1>1, <1>2, <1>3, <1>4 DEF Next, Gui

\* Where a step leaves the end of what has been read.
LEMMA Read ==
  ASSUME TypeOK, Reported, NEW c \in Client, NEW last \in Ends(c)
  PROVE  /\ lines[c] \in Nat /\ last \in Nat /\ lines[c] <= last /\ last <= Len(out[c])
         /\ lines[c] + 1 \in Nat
<1>1. lines[c] \in Nat /\ Len(out[c]) \in Nat BY StampFacts DEF TypeOK
<1>2. QED BY <1>1 DEF Ends

\* The time stamp that is found is one of the client's.
LEMMA Found ==
  ASSUME TypeOK, Reported, NEW c \in Client, NEW last \in Ends(c)
  PROVE  /\ LineStamp(c, last) \subseteq {0} \cup Stamp
         /\ Announces(c, lines[c] + 1, last) => LineStamp(c, last) = {0}
<1>1. ASSUME NEW i \in Stamped(c, last) PROVE i \in 1 .. Len(out[c]) /\ ~IsNew(c, i)
  <2>1. lines[c] \in Nat /\ last \in Nat /\ last <= Len(out[c]) /\ Len(out[c]) \in Nat
    BY Read, StampFacts
  <2>2. CASE i \in lines[c] + 1 .. last /\ ~IsNew(c, i) BY <2>1, <2>2
  <2>3. CASE i = lines[c] /\ cut[c] = "stamped" BY <2>3 DEF Reported
  <2>4. QED BY <1>1, <2>2, <2>3 DEF Stamped
<1>2. \A i \in Stamped(c, last) : stamp[c][out[c][i]] \in Stamp BY <1>1, StampFacts
<1>3. FirstFound(c, last) \subseteq Stamp BY <1>2 DEF FirstFound
<1>4. QED BY <1>3 DEF LineStamp

\* What GuiReceive adds.
LEMMA ReceiveFacts ==
  ASSUME TypeOK, Reported, NEW c \in Client, GuiReceive(c)
  PROVE  \/ UNCHANGED g_messages
         \/ \E e \in LineEntry :
              /\ g_messages' = Append(g_messages, e)
              /\ e.client = c /\ e.first = lines[c] + 1 /\ e.last = lines'[c]
              /\ Announces(c, e.first, e.last) => e.ts = 0
<1>1. PICK last \in Ends(c) :
        /\ lines' = [lines EXCEPT ![c] = last]
        /\ \/ UNCHANGED g_messages
           \/ \E t \in LineStamp(c, last) :
                g_messages' = Append(g_messages, [ts |-> t, client |-> c,
                                                  first |-> lines[c] + 1, last |-> last])
  BY DEF GuiReceive
<1>2. CASE UNCHANGED g_messages BY <1>2
<1>3. ASSUME NEW t \in LineStamp(c, last),
             g_messages' = Append(g_messages, [ts |-> t, client |-> c,
                                               first |-> lines[c] + 1, last |-> last])
      PROVE  \E e \in LineEntry :
              /\ g_messages' = Append(g_messages, e)
              /\ e.client = c /\ e.first = lines[c] + 1 /\ e.last = lines'[c]
              /\ Announces(c, e.first, e.last) => e.ts = 0
  <2> DEFINE e == [ts |-> t, client |-> c, first |-> lines[c] + 1, last |-> last]
  <2>1. lines'[c] = last BY <1>1 DEF TypeOK
  <2>2. t \in {0} \cup Stamp /\ (Announces(c, lines[c] + 1, last) => t = 0) BY <1>3, Found
  <2>3. last \in Nat /\ lines[c] + 1 \in Nat BY Read
  <2>4. e \in LineEntry BY <2>2, <2>3 DEF LineEntry
  <2>5. g_messages' = Append(g_messages, e) BY <1>3
  <2>6. /\ e.client = c /\ e.first = lines[c] + 1 /\ e.last = lines'[c]
        /\ Announces(c, e.first, e.last) => e.ts = 0
    BY <2>1, <2>2
  <2> HIDE DEF e
  <2>7. QED BY <2>4, <2>5, <2>6
<1>4. QED BY <1>1, <1>2, <1>3

\* What is read stays read, and is not read again.
LEMMA LineCounts ==
  ASSUME TypeOK, Reported, NEW c \in Client, NEW last \in Ends(c),
         lines' = [lines EXCEPT ![c] = last]
  PROVE  /\ lines' \in [Client -> Nat]
         /\ \A d \in Client : lines[d] <= lines'[d]
         /\ \A d \in Client : lines'[d] <= Len(out[d])
<1>1. /\ lines[c] \in Nat /\ last \in Nat /\ lines[c] <= last /\ last <= Len(out[c])
  BY Read
<1>2. lines \in [Client -> Nat] /\ \A d \in Client : lines[d] <= Len(out[d])
  BY DEF TypeOK, Reported
<1>3. QED BY <1>1, <1>2

LEMMA LinesStep ==
  ASSUME TypeOK, Reported, Batches, LinesInv, [Next]_vars
  PROVE  LinesInv'
<1> DEFINE a == forwarded
           b == toSort
           q == g_messages
           R == LineOrder
<1>1. /\ a \in Seq(AnyLine) /\ b \in Seq(AnyLine) /\ q \in Seq(AnyLine)
      /\ \A e \in AnyLine : e.ts \in Nat
      /\ \A e \in Range(AllLines) : e \in AnyLine /\ e.client \in Client
      /\ \A e \in Range(AllLines) : e \in LineEntry
  BY LineTypes
<1>2. InOrder(a \o b \o q, R) /\ \A e \in Range(a \o b \o q) : LineIs(e)
  BY DEF LinesInv, AllLines
<1>3. CASE UNCHANGED <<forwarded, toSort, g_messages, lines, out>>
  BY <1>3 DEF LinesInv, AllLines, LineIs, Announces, IsNew
<1>4. CASE /\ lines' = lines /\ out' = out
           /\ Range(AllLines') = Range(AllLines) /\ InOrder(AllLines', R)
  <2>1. \A e \in Range(AllLines') : e \in Range(AllLines) BY <1>4
  <2>2. QED BY <1>4, <2>1 DEF LinesInv, LineIs, Announces, IsNew
<1>5. ASSUME NEW c \in Client, Report(c) PROVE LinesInv'
  <2>1. UNCHANGED <<forwarded, toSort, g_messages, lines>>
    BY <1>5 DEF Report, lineVars, mainVars
  <2>2. ASSUME NEW e \in Range(AllLines) PROVE LineIs(e)'
    <3>1. e \in LineEntry /\ e.client \in Client /\ LineIs(e) BY <1>1, <1>2 DEF AllLines
    <3>2. /\ e.first \in Nat /\ e.last \in Nat /\ 1 <= e.first
          /\ e.last <= lines[e.client] /\ lines[e.client] <= Len(out[e.client])
      BY <3>1 DEF LineEntry, LineIs, Reported
    <3>3. lines[e.client] \in Nat /\ Len(out[e.client]) \in Nat
      BY <3>1, StampFacts DEF TypeOK
    <3>4. ASSUME NEW i \in e.first .. e.last PROVE out'[e.client][i] = out[e.client][i]
      <4>1. i \in 1 .. Len(out[e.client]) BY <3>2, <3>3
      <4>2. QED BY <1>5, <3>1, <4>1, ReportFacts
    <3>5. QED BY <2>1, <3>1, <3>4 DEF LineIs, Announces, IsNew
  <2>3. AllLines' = AllLines BY <2>1 DEF AllLines
  <2>4. QED BY <2>2, <2>3 DEF LinesInv
<1>6. ASSUME NEW c \in Client, NEW last \in Ends(c), lines' = [lines EXCEPT ![c] = last],
             out' = out, NEW f \in Range(AllLines)
      PROVE  LineIs(f)'
  <2>1. f \in AnyLine /\ f.client \in Client /\ LineIs(f) BY <1>1, <1>2 DEF AllLines
  <2>2. /\ lines[f.client] <= lines'[f.client]
        /\ lines[f.client] \in Nat /\ lines'[f.client] \in Nat
    BY <1>6, <2>1, LineCounts DEF TypeOK
  <2>3. f.last \in Int BY <2>1 DEF AnyLine
  <2>4. f.last <= lines'[f.client] BY <2>1, <2>2, <2>3 DEF LineIs
  <2>5. QED BY <1>6, <2>1, <2>4 DEF LineIs, Announces, IsNew
<1>7. ASSUME NEW c \in Client, GuiReceive(c) PROVE LinesInv'
  <2>1. PICK last \in Ends(c) : lines' = [lines EXCEPT ![c] = last]
    BY <1>7 DEF GuiReceive
  <2>2. UNCHANGED <<forwarded, toSort, out>> BY <1>7 DEF GuiReceive, mainVars, clientVars
  <2>3. \A f \in Range(AllLines) : LineIs(f)' BY <1>6, <2>1, <2>2
  <2>4. CASE UNCHANGED g_messages
    <3>1. AllLines' = AllLines BY <2>2, <2>4 DEF AllLines
    <3>2. QED BY <2>3, <3>1 DEF LinesInv
  <2>5. ASSUME NEW e \in LineEntry, g_messages' = Append(g_messages, e),
               e.client = c, e.first = lines[c] + 1, e.last = lines'[c],
               Announces(c, e.first, e.last) => e.ts = 0
        PROVE  LinesInv'
    <3>1. e \in AnyLine BY <2>5, LineTypes
    <3>2. lines[c] \in Nat BY DEF TypeOK
    <3>3. Precedes(Range(a \o b \o q), {e}, R)
      <4> SUFFICES ASSUME NEW f \in Range(AllLines) PROVE <<f, e>> \in LineOrder
        BY DEF Precedes, AllLines
      <4>1. f \in AnyLine /\ LineIs(f) BY <1>1, <1>2 DEF AllLines
      <4>2. f.last \in Int BY <4>1 DEF AnyLine
      <4>3. f.client = e.client => f.last < e.first BY <2>5, <3>2, <4>1, <4>2 DEF LineIs
      <4>4. QED BY <3>1, <4>1, <4>3, Orders
    <3>4. /\ \A x : x \in Range(a \o b \o Append(q, e)) <=> x \in Range(a \o b \o q) \/ x = e
          /\ InOrder(a \o b \o Append(q, e), R)
      <4>1. a \in Seq(AnyLine) /\ b \in Seq(AnyLine) /\ q \in Seq(AnyLine) BY <1>1
      <4>2. InOrder(a \o b \o q, R) BY <1>2
      <4> HIDE DEF a, b, q, R
      <4>3. ASSUME NEW x
            PROVE  x \in Range(a \o b \o Append(q, e)) <=> x \in Range(a \o b \o q) \/ x = e
        BY <3>1, <4>1, OneMoreIs
      <4>4. InOrder(a \o b \o Append(q, e), R) BY <3>1, <3>3, <4>1, <4>2, OneMore
      <4>5. QED BY <4>3, <4>4
    <3>5. AllLines' = a \o b \o Append(q, e) BY <2>2, <2>5 DEF AllLines
    <3>6. LineIs(e)'
      <4>1. lines'[c] \in Nat BY <2>1, LineCounts
      <4>2. 1 <= e.first /\ e.last <= lines'[e.client] BY <2>5, <3>2, <4>1
      <4>3. QED BY <2>2, <2>5, <4>2 DEF LineIs, Announces, IsNew
    <3>7. ASSUME NEW x \in Range(AllLines') PROVE LineIs(x)'
      <4>1. x \in Range(AllLines) \/ x = e BY <3>4, <3>5 DEF AllLines
      <4>2. QED BY <2>3, <3>6, <4>1
    <3>8. InOrder(AllLines', LineOrder) BY <3>4, <3>5
    <3>9. QED BY <3>7, <3>8 DEF LinesInv
  <2>6. QED BY <1>7, <2>4, <2>5, ReceiveFacts
<1>8. ASSUME NEW c \in Client, GuiFragment(c) PROVE LinesInv'
  <2>1. PICK last \in Ends(c) : lines' = [lines EXCEPT ![c] = last]
    BY <1>8 DEF GuiFragment
  <2>2. UNCHANGED <<forwarded, toSort, g_messages, out>>
    BY <1>8 DEF GuiFragment, mainVars, clientVars
  <2>3. \A f \in Range(AllLines) : LineIs(f)' BY <1>6, <2>1, <2>2
  <2>4. AllLines' = AllLines BY <2>2 DEF AllLines
  <2>5. QED BY <2>3, <2>4 DEF LinesInv
<1>9. CASE Collect
  <2>1. PICK n \in 0 .. Len(g_messages), n2 \in 0 .. Len(g_messages2) : Take(n, n2)
    BY <1>9 DEF Collect
  <2>2. /\ toSort' = Sorted(Older(q, n)) /\ g_messages' = Newer(q, n)
        /\ UNCHANGED <<forwarded, lines, out>> /\ mainPc = "collect"
    BY <2>1 DEF Take, clientVars
  <2>3. toSort = <<>> BY <2>2 DEF Batches
  <2>4. InOrder(a \o <<>> \o q, R) BY <1>2, <2>3
  <2>5. \A e, f \in Range(q) : <<e, f>> \in R /\ f.ts < e.ts => <<f, e>> \in R BY Swaps
  <2>6. /\ Range(a \o Sorted(Older(q, n)) \o Newer(q, n)) = Range(a \o <<>> \o q)
        /\ InOrder(a \o Sorted(Older(q, n)) \o Newer(q, n), R)
    <3> HIDE DEF a, q, R
    <3>1. a \in Seq(AnyLine) /\ q \in Seq(AnyLine) /\ n \in 0 .. Len(q)
          /\ \A e \in AnyLine : e.ts \in Nat
      BY <1>1 DEF q
    <3>2. QED BY <2>4, <2>5, <3>1, Batched
  <2>7. AllLines' = a \o Sorted(Older(q, n)) \o Newer(q, n) BY <2>2 DEF AllLines
  <2>8. AllLines = a \o <<>> \o q BY <2>3 DEF AllLines
  <2>9. QED BY <1>4, <2>2, <2>6, <2>7, <2>8
<1>10. CASE Ack
  <2>1. /\ forwarded' = Append(a, Head(b)) /\ toSort' = Tail(b)
        /\ UNCHANGED <<g_messages, lines, out>> /\ b # <<>>
    BY <1>10 DEF Ack, mainRest, clientVars, lineVars, TypeOK
  <2>2. /\ Range(Append(a, Head(b)) \o Tail(b) \o q) = Range(a \o b \o q)
        /\ InOrder(Append(a, Head(b)) \o Tail(b) \o q, R)
    <3> HIDE DEF a, b, q, R
    <3>1. QED BY <1>1, <1>2, <2>1, OneDone
  <2>3. AllLines' = Append(a, Head(b)) \o Tail(b) \o q /\ AllLines = a \o b \o q
    BY <2>1 DEF AllLines
  <2>4. QED BY <1>4, <2>1, <2>2, <2>3
<1>11. QED BY <1>3, <1>5, <1>7, <1>8, <1>9, <1>10, LineMoves

----------------------------------------------------------------------------
(* The records *)

LEMMA RecordTypes ==
  ASSUME TypeOK
  PROVE  /\ g_completeLog \in Seq(AnyRecord) /\ toSort2 \in Seq(AnyRecord)
         /\ g_messages2 \in Seq(AnyRecord)
         /\ \A e \in Range(AllRecords) : e \in Record /\ e \in AnyRecord /\ e.client \in Client
         /\ \A e \in AnyRecord : e.ts \in Nat
<1>1. /\ g_completeLog \in Seq(Record) /\ toSort2 \in Seq(Record)
      /\ g_messages2 \in Seq(Record)
  BY DEF TypeOK
<1>2. Record \subseteq AnyRecord
  <2>1. NEvents \in Nat /\ g_order \in Nat BY TracerdAssumption DEF TypeOK
  <2>2. QED BY <2>1 DEF Record, AnyRecord, Half
<1>3. /\ g_completeLog \in Seq(AnyRecord) /\ toSort2 \in Seq(AnyRecord)
      /\ g_messages2 \in Seq(AnyRecord)
  BY <1>1, <1>2, SeqMonotonic
<1>4. AllRecords \in Seq(Record) BY <1>1, Three DEF AllRecords
<1>5. Range(AllRecords) \subseteq Record BY <1>4, RangeOfSeq
<1>6. \A e \in Record : e.client \in Client BY DEF Record
<1>7. \A e \in AnyRecord : e.ts \in Nat BY DEF AnyRecord
<1>8. QED BY <1>2, <1>3, <1>5, <1>6, <1>7

\* What a step does to the records.
LEMMA RecordMoves ==
  ASSUME [Next]_vars
  PROVE  \/ UNCHANGED <<g_completeLog, toSort2, g_messages2, records>>
         \/ \E c \in Client : Add(c) /\ UNCHANGED <<g_completeLog, toSort2>>
         \/ Collect \/ Store
<1>1. CASE \E c \in Client : Report(c) \/ Gui(c)
  BY <1>1 DEF Report, Gui, GuiReceive, GuiFragment, GuiEnd, recordVars, mainVars
<1>2. ASSUME NEW c \in Client, Msg(c)
      PROVE  \/ UNCHANGED <<g_completeLog, toSort2, g_messages2, records>>
             \/ Add(c) /\ UNCHANGED <<g_completeLog, toSort2>>
  BY <1>2 DEF Msg, MsgReceive, MsgFragment, MsgPanic, MsgEnd, mainVars
<1>3. CASE Main /\ ~Collect /\ ~Store
  BY <1>3 DEF Main, Forward, AcceptControl, AcceptData, NoConnection, Dump, Join,
              mainRest, pollRest, recordVars
<1>4. CASE Ack \/ Signal \/ UNCHANGED vars
  BY <1>4 DEF Ack, Signal, mainRest, vars, recordVars, mainVars
<1>5. QED BY <1>1, <1>2, <1>3, <1>4 DEF Next

\* What Add does.
LEMMA AddFacts ==
  ASSUME TypeOK, Reported, NEW c \in Client, Add(c)
  PROVE  /\ records[c] + 1 \in 1 .. Sent(c)
         /\ records' = [records EXCEPT ![c] = records[c] + 1]
         /\ g_timestamp' \in Nat \ {0}
         /\ g_order' \in Nat /\ g_order' >= g_order /\ g_order' > 0
         /\ \E e : /\ e = [ts |-> g_timestamp', client |-> c, half |-> records[c] + 1,
                          order |-> g_order']
                  /\ g_messages2' = Append(g_messages2, e)
<1> DEFINE h == records[c] + 1
<1>1. /\ h <= Sent(c) /\ records' = [records EXCEPT ![c] = h]
      /\ g_timestamp' = RecordStamp(c, h) /\ g_order' = NextOrder(c, h)
      /\ g_messages2' = Append(g_messages2,
           [ts |-> RecordStamp(c, h), client |-> c, half |-> h, order |-> NextOrder(c, h)])
  BY DEF Add
<1>2. records[c] \in Nat /\ Sent(c) \in Nat /\ g_order \in Nat /\ g_timestamp \in Nat
  BY StampFacts DEF TypeOK
<1>3. h \in 1 .. Sent(c) BY <1>1, <1>2
<1>4. RecordStamp(c, h) \in Nat \ {0} BY <1>3, StampFacts
<1>5. /\ g_order' = IF RecordStamp(c, h) # g_timestamp THEN g_order + 1 ELSE g_order
      /\ g_timestamp # 0 => g_order > 0
  BY <1>1 DEF NextOrder, Reported
<1>6. g_order' \in Nat /\ g_order' >= g_order /\ g_order' > 0
  BY <1>2, <1>4, <1>5
<1>7. QED BY <1>1, <1>3, <1>4, <1>6

LEMMA RecordsStep ==
  ASSUME TypeOK, Reported, Batches, RecordsInv, [Next]_vars
  PROVE  RecordsInv'
<1> DEFINE a == g_completeLog
           b == toSort2
           q == g_messages2
           R == RecordOrder
<1>1. /\ a \in Seq(AnyRecord) /\ b \in Seq(AnyRecord) /\ q \in Seq(AnyRecord)
      /\ \A e \in AnyRecord : e.ts \in Nat
      /\ \A e \in Range(AllRecords) : e \in AnyRecord /\ e.client \in Client
  BY RecordTypes
<1>2. InOrder(a \o b \o q, R) /\ \A e \in Range(a \o b \o q) : e.half <= records[e.client]
  BY DEF RecordsInv, AllRecords
<1>3. CASE UNCHANGED <<g_completeLog, toSort2, g_messages2, records>>
  BY <1>3 DEF RecordsInv, AllRecords
<1>4. CASE /\ records' = records
           /\ Range(AllRecords') = Range(AllRecords) /\ InOrder(AllRecords', R)
  <2>1. \A e \in Range(AllRecords') : e.half <= records'[e.client] BY <1>4 DEF RecordsInv
  <2>2. \A c \in Client : \A h \in 1 .. records'[c] :
          \E e \in Range(AllRecords') : e.client = c /\ e.half = h
    BY <1>4 DEF RecordsInv
  <2>3. QED BY <1>4, <2>1, <2>2 DEF RecordsInv
<1>5. ASSUME NEW c \in Client, Add(c), UNCHANGED <<g_completeLog, toSort2>>
      PROVE  RecordsInv'
  <2>. PICK e : /\ e = [ts |-> g_timestamp', client |-> c, half |-> records[c] + 1,
                        order |-> g_order']
               /\ g_messages2' = Append(q, e)
    BY <1>5, AddFacts
  <2>1. /\ records' = [records EXCEPT ![c] = records[c] + 1]
        /\ g_timestamp' \in Nat /\ g_order' \in Nat
    BY <1>5, AddFacts
  <2>2. records \in [Client -> 0 .. 2 * NEvents] /\ records[c] \in Nat
    BY DEF TypeOK
  <2>4. /\ records'[c] = records[c] + 1
        /\ \A d \in Client : d # c => records'[d] = records[d]
        /\ \A d \in Client : records[d] \in Int /\ records'[d] \in Int
                             /\ records[d] <= records'[d]
    <3>1. records'[c] = records[c] + 1 /\ \A d \in Client : d # c => records'[d] = records[d]
      BY <2>1, <2>2
    <3>2. \A d \in Client : records[d] \in Int BY <2>2
    <3>3. QED BY <3>1, <3>2
  <2>5. e \in AnyRecord BY <2>1, <2>2 DEF AnyRecord
  <2>6. e.client = c /\ e.half = records[c] + 1 OBVIOUS
  <2>7. Precedes(Range(a \o b \o q), {e}, R)
    <3> SUFFICES ASSUME NEW f \in Range(AllRecords) PROVE <<f, e>> \in RecordOrder
      BY DEF Precedes, AllRecords
    <3>1. f \in AnyRecord /\ f.half <= records[f.client] BY <1>1, <1>2 DEF AllRecords
    <3>2. f.half \in Int BY <3>1 DEF AnyRecord
    <3>3. f.client = e.client => f.half < e.half BY <2>2, <2>6, <3>1, <3>2
    <3>4. QED BY <2>5, <3>1, <3>3, Orders
  <2>8. /\ \A x : x \in Range(a \o b \o Append(q, e)) <=> x \in Range(a \o b \o q) \/ x = e
        /\ InOrder(a \o b \o Append(q, e), R)
    <3>1. a \in Seq(AnyRecord) /\ b \in Seq(AnyRecord) /\ q \in Seq(AnyRecord) BY <1>1
    <3>2. InOrder(a \o b \o q, R) BY <1>2
    <3> HIDE DEF a, b, q, R
    <3>3. ASSUME NEW x
          PROVE  x \in Range(a \o b \o Append(q, e)) <=> x \in Range(a \o b \o q) \/ x = e
      BY <2>5, <3>1, OneMoreIs
    <3>4. InOrder(a \o b \o Append(q, e), R) BY <2>5, <2>7, <3>1, <3>2, OneMore
    <3>5. QED BY <3>3, <3>4
  <2>9. AllRecords' = a \o b \o Append(q, e) BY <1>5 DEF AllRecords
  <2>10. \A x : x \in Range(AllRecords') <=> x \in Range(AllRecords) \/ x = e
    BY <2>8, <2>9 DEF AllRecords
  <2>11. ASSUME NEW x \in Range(AllRecords) PROVE x.half <= records'[x.client]
    <3>1. x \in AnyRecord /\ x.client \in Client /\ x.half <= records[x.client]
      BY <1>1, <1>2 DEF AllRecords
    <3>2. x.half \in Int BY <3>1 DEF AnyRecord
    <3>3. QED BY <2>4, <3>1, <3>2
  <2>12. e.half <= records'[e.client] BY <2>2, <2>4, <2>6
  <2>13. ASSUME NEW d \in Client, NEW k \in 1 .. records'[d]
         PROVE  \E x \in Range(AllRecords') : x.client = d /\ x.half = k
    <3>1. CASE k \in 1 .. records[d]
      <4>1. PICK x \in Range(AllRecords) : x.client = d /\ x.half = k
        BY <3>1 DEF RecordsInv
      <4>2. QED BY <2>10, <4>1
    <3>2. CASE k \notin 1 .. records[d]
      <4>1. d = c /\ k = records[c] + 1 BY <2>4, <3>2
      <4>2. QED BY <2>6, <2>10, <4>1
    <3>3. QED BY <3>1, <3>2
  <2>14. ASSUME NEW x \in Range(AllRecords') PROVE x.half <= records'[x.client]
    BY <2>10, <2>11, <2>12
  <2>15. InOrder(AllRecords', RecordOrder) BY <2>8, <2>9
  <2>16. QED BY <2>13, <2>14, <2>15 DEF RecordsInv
<1>6. CASE Collect
  <2>1. PICK n \in 0 .. Len(g_messages), n2 \in 0 .. Len(g_messages2) : Take(n, n2)
    BY <1>6 DEF Collect
  <2>2. /\ toSort2' = Sorted(Older(q, n2)) /\ g_messages2' = Newer(q, n2)
        /\ UNCHANGED <<g_completeLog, records>> /\ mainPc = "collect"
    BY <2>1 DEF Take
  <2>3. toSort2 = <<>> BY <2>2 DEF Batches
  <2>4. InOrder(a \o <<>> \o q, R) BY <1>2, <2>3
  <2>5. \A e, f \in Range(q) : <<e, f>> \in R /\ f.ts < e.ts => <<f, e>> \in R BY Swaps
  <2>6. /\ Range(a \o Sorted(Older(q, n2)) \o Newer(q, n2)) = Range(a \o <<>> \o q)
        /\ InOrder(a \o Sorted(Older(q, n2)) \o Newer(q, n2), R)
    <3> HIDE DEF a, q, R
    <3>1. a \in Seq(AnyRecord) /\ q \in Seq(AnyRecord) /\ n2 \in 0 .. Len(q)
          /\ \A e \in AnyRecord : e.ts \in Nat
      BY <1>1 DEF q
    <3>2. QED BY <2>4, <2>5, <3>1, Batched
  <2>7. AllRecords' = a \o Sorted(Older(q, n2)) \o Newer(q, n2) BY <2>2 DEF AllRecords
  <2>8. AllRecords = a \o <<>> \o q BY <2>3 DEF AllRecords
  <2>9. QED BY <1>4, <2>2, <2>6, <2>7, <2>8
<1>7. CASE Store
  <2>1. /\ g_completeLog' = a \o b /\ toSort2' = <<>>
        /\ UNCHANGED <<g_messages2, records>>
    BY <1>7 DEF Store, mainRest, recordVars
  <2>2. /\ Range((a \o b) \o <<>> \o q) = Range(a \o b \o q)
        /\ InOrder((a \o b) \o <<>> \o q, R)
    <3> HIDE DEF a, b, q, R
    <3>1. QED BY <1>1, <1>2, AllDone
  <2>3. AllRecords' = (a \o b) \o <<>> \o q /\ AllRecords = a \o b \o q
    BY <2>1 DEF AllRecords
  <2>4. QED BY <1>4, <2>1, <2>2, <2>3
<1>8. QED BY <1>3, <1>5, <1>6, <1>7, RecordMoves

----------------------------------------------------------------------------
(* Counters *)

LEMMA ClientMoves ==
  ASSUME [Next]_vars
  PROVE  UNCHANGED clientVars \/ \E c \in Client : Report(c)
<1>1. CASE \E c \in Client : Gui(c)
  BY <1>1 DEF Gui, GuiReceive, GuiFragment, GuiEnd
<1>2. CASE \E c \in Client : Msg(c)
  BY <1>2 DEF Msg, MsgReceive, MsgFragment, MsgPanic, MsgEnd
<1>3. CASE Main
  BY <1>3 DEF Main, Collect, Take, Forward, Store, AcceptControl, AcceptData, NoConnection,
              Dump, Join, mainRest, pollRest
<1>4. CASE Ack \/ Signal \/ UNCHANGED vars
  BY <1>4 DEF Ack, Signal, mainRest, vars
<1>5. QED BY <1>1, <1>2, <1>3, <1>4 DEF Next

\* How the threads of the control connections come on.
LEMMA CutMoves ==
  ASSUME [Next]_vars
  PROVE  \/ UNCHANGED <<lines, cut>>
         \/ /\ UNCHANGED clientVars
            /\ \E c \in Client : \E last \in Ends(c) : \E rest \in {"no", "bare", "stamped"} :
                 /\ lines' = [lines EXCEPT ![c] = last]
                 /\ cut' = [cut EXCEPT ![c] = rest]
                 /\ rest = "stamped" => ~IsNew(c, last)
<1>1. CASE \E c \in Client : Report(c) \/ GuiEnd(c)
  BY <1>1 DEF Report, GuiEnd, lineVars
<1>2. ASSUME NEW c \in Client, GuiReceive(c)
      PROVE  /\ UNCHANGED clientVars
             /\ \E last \in Ends(c) : \E rest \in {"no", "bare", "stamped"} :
                  /\ lines' = [lines EXCEPT ![c] = last]
                  /\ cut' = [cut EXCEPT ![c] = rest]
                  /\ rest = "stamped" => ~IsNew(c, last)
  <2>1. PICK last \in Ends(c) : lines' = [lines EXCEPT ![c] = last]
    BY <1>2 DEF GuiReceive
  <2>2. cut' = [cut EXCEPT ![c] = "no"] /\ UNCHANGED clientVars BY <1>2 DEF GuiReceive
  <2>3. QED BY <2>1, <2>2
<1>3. ASSUME NEW c \in Client, GuiFragment(c)
      PROVE  /\ UNCHANGED clientVars
             /\ \E last \in Ends(c) : \E rest \in {"no", "bare", "stamped"} :
                  /\ lines' = [lines EXCEPT ![c] = last]
                  /\ cut' = [cut EXCEPT ![c] = rest]
                  /\ rest = "stamped" => ~IsNew(c, last)
  BY <1>3 DEF GuiFragment
<1>4. CASE \E c \in Client : Msg(c)
  BY <1>4 DEF Msg, MsgReceive, MsgFragment, MsgPanic, MsgEnd, lineVars
<1>5. CASE Main
  BY <1>5 DEF Main, Collect, Take, Forward, Store, AcceptControl, AcceptData, NoConnection,
              Dump, Join, mainRest, pollRest, lineVars
<1>6. CASE Ack \/ Signal \/ UNCHANGED vars
  BY <1>6 DEF Ack, Signal, mainRest, vars, lineVars
<1>7. QED BY <1>1, <1>2, <1>3, <1>4, <1>5, <1>6 DEF Next, Gui

LEMMA RecordCounts ==
  ASSUME [Next]_vars
  PROVE  \/ UNCHANGED <<records, g_timestamp, g_order>>
         \/ \E c \in Client : Add(c) /\ UNCHANGED clientVars
<1>1. CASE \E c \in Client : Report(c) \/ Gui(c)
  BY <1>1 DEF Report, Gui, GuiReceive, GuiFragment, GuiEnd, recordVars
<1>2. ASSUME NEW c \in Client, Msg(c)
      PROVE  \/ UNCHANGED <<records, g_timestamp, g_order>>
             \/ Add(c) /\ UNCHANGED clientVars
  BY <1>2 DEF Msg, MsgReceive, MsgFragment, MsgPanic, MsgEnd
<1>3. CASE Main
  BY <1>3 DEF Main, Collect, Take, Forward, Store, AcceptControl, AcceptData, NoConnection,
              Dump, Join, mainRest, pollRest, recordVars
<1>4. CASE Ack \/ Signal \/ UNCHANGED vars
  BY <1>4 DEF Ack, Signal, mainRest, vars, recordVars
<1>5. QED BY <1>1, <1>2, <1>3, <1>4 DEF Next

LEMMA ReportedStep ==
  ASSUME TypeOK, Reported, [Next]_vars
  PROVE  Reported'
<1>1. CASE \E c \in Client : Report(c) BY <1>1, ReportFacts
<1>2. CASE UNCHANGED clientVars
  <2>1. out' = out /\ stamp' = stamp BY <1>2 DEF clientVars
  <2>2. /\ lines \in [Client -> Nat] /\ cut \in [Client -> {"no", "bare", "stamped"}]
        /\ records \in [Client -> 0 .. 2 * NEvents]
        /\ \A d \in Client : Len(out[d]) \in Nat /\ Sent(d) \in Nat
    BY StampFacts DEF TypeOK
  <2>3. ASSUME NEW d \in Client
        PROVE  /\ lines'[d] <= Len(out[d])
               /\ cut'[d] # "no" => lines'[d] \in 1 .. Len(out[d])
               /\ cut'[d] = "stamped" => ~IsNew(d, lines'[d])
    <3>1. CASE UNCHANGED <<lines, cut>> BY <3>1 DEF Reported
    <3>2. ASSUME NEW c \in Client, NEW last \in Ends(c), NEW rest \in {"no", "bare", "stamped"},
                 lines' = [lines EXCEPT ![c] = last], cut' = [cut EXCEPT ![c] = rest],
                 rest = "stamped" => ~IsNew(c, last)
          PROVE  /\ lines'[d] <= Len(out[d])
                 /\ cut'[d] # "no" => lines'[d] \in 1 .. Len(out[d])
                 /\ cut'[d] = "stamped" => ~IsNew(d, lines'[d])
      <4>1. CASE d # c
        <5>1. lines'[d] = lines[d] /\ cut'[d] = cut[d] BY <2>2, <3>2, <4>1
        <5>2. QED BY <5>1 DEF Reported
      <4>2. CASE d = c
        <5>1. lines'[c] = last /\ cut'[c] = rest BY <2>2, <3>2
        <5>2. last \in Nat /\ lines[c] \in Nat /\ last <= Len(out[c]) /\ Len(out[c]) \in Nat
          BY <2>2, Read
        <5>3. 1 <= last
          <6>1. CASE cut[c] = "no" BY <2>2, <6>1 DEF Ends
          <6>2. CASE cut[c] # "no"
            <7>1. lines[c] \in 1 .. Len(out[c]) BY <6>2 DEF Reported
            <7>2. QED BY <2>2, <5>2, <7>1, Read
          <6>3. QED BY <6>1, <6>2
        <5>4. QED BY <3>2, <4>2, <5>1, <5>2, <5>3
      <4>3. QED BY <4>1, <4>2
    <3>3. QED BY <3>1, <3>2, CutMoves
  <2>4. /\ \A d \in Client : records'[d] <= Sent(d)
        /\ g_timestamp' # 0 => g_order' > 0
    <3>1. CASE UNCHANGED <<records, g_timestamp, g_order>> BY <2>2, <3>1 DEF Reported
    <3>2. ASSUME NEW c \in Client, Add(c)
          PROVE  (\A d \in Client : records'[d] <= Sent(d)) /\ g_order' > 0
      <4>1. /\ records[c] + 1 \in 1 .. Sent(c) /\ g_order' > 0
            /\ records' = [records EXCEPT ![c] = records[c] + 1]
        BY <3>2, AddFacts
      <4>2. records[c] + 1 <= Sent(c) BY <2>2, <4>1
      <4>3. \A d \in Client : records[d] <= Sent(d) BY DEF Reported
      <4>4. QED BY <2>2, <4>1, <4>2, <4>3
    <3>3. QED BY <3>1, <3>2, RecordCounts
  <2>5. QED BY <2>1, <2>3, <2>4 DEF Reported, Sent, IsNew
<1>3. QED BY <1>1, <1>2, ClientMoves

\* The sorted batches are empty where no batch is worked on.
LEMMA BatchesStep ==
  ASSUME TypeOK, Batches, [Next]_vars
  PROVE  Batches'
<1>1. CASE \E c \in Client : Report(c) \/ Gui(c)
  BY <1>1 DEF Report, Gui, GuiReceive, GuiFragment, GuiEnd, mainVars, Batches
<1>2. ASSUME NEW c \in Client, Msg(c) PROVE Batches'
  <2>1. UNCHANGED <<toSort, toSort2>>
    BY <1>2 DEF Msg, MsgReceive, MsgFragment, MsgPanic, MsgEnd, mainVars
  <2>2. mainPc' = mainPc \/ mainPc = "dump"
    BY <1>2 DEF Msg, MsgReceive, MsgFragment, MsgPanic, MsgEnd, mainVars, Add, Declare
  <2>3. QED BY <2>1, <2>2 DEF Batches
<1>3. CASE Collect BY <1>3 DEF Collect, Take, Batches
<1>4. CASE Store BY <1>4 DEF Store, mainRest, Batches
<1>5. CASE Main /\ ~Collect /\ ~Store
  BY <1>5 DEF Main, Forward, AcceptControl, AcceptData, NoConnection, Dump, Join,
              mainRest, pollRest, Batches
<1>6. CASE Ack BY <1>6 DEF Ack, Batches
<1>7. CASE Signal BY <1>7 DEF Signal, Batches
<1>8. CASE UNCHANGED vars BY <1>8 DEF vars, mainVars, Batches
<1>9. QED BY <1>1, <1>2, <1>3, <1>4, <1>5, <1>6, <1>7, <1>8 DEF Next

----------------------------------------------------------------------------
(* Types *)

LEMMA ClientTypes ==
  ASSUME TypeOK, Reported, [Next]_vars
  PROVE  stamp' \in [Client -> Seq(Stamp)] /\ out' \in [Client -> Seq(0 .. NEvents)]
<1>1. CASE UNCHANGED clientVars BY <1>1 DEF clientVars, TypeOK
<1>2. ASSUME NEW c \in Client, Report(c)
      PROVE  stamp' \in [Client -> Seq(Stamp)] /\ out' \in [Client -> Seq(0 .. NEvents)]
  BY <1>2, ReportFacts
<1>3. QED BY <1>1, <1>2, ClientMoves

LEMMA CountTypes ==
  ASSUME TypeOK, Reported, [Next]_vars
  PROVE  /\ lines' \in [Client -> Nat] /\ cut' \in [Client -> {"no", "bare", "stamped"}]
         /\ records' \in [Client -> 0 .. 2 * NEvents]
         /\ g_timestamp' \in Nat /\ g_order' \in Nat /\ g_order' >= g_order
<1>1. /\ lines \in [Client -> Nat] /\ cut \in [Client -> {"no", "bare", "stamped"}]
      /\ records \in [Client -> 0 .. 2 * NEvents]
      /\ g_timestamp \in Nat /\ g_order \in Nat /\ NEvents \in Nat
  BY TracerdAssumption DEF TypeOK
<1>2. lines' \in [Client -> Nat] /\ cut' \in [Client -> {"no", "bare", "stamped"}]
  <2>1. ASSUME NEW c \in Client, NEW last \in Ends(c), NEW rest \in {"no", "bare", "stamped"},
               lines' = [lines EXCEPT ![c] = last], cut' = [cut EXCEPT ![c] = rest]
        PROVE  lines' \in [Client -> Nat] /\ cut' \in [Client -> {"no", "bare", "stamped"}]
    <3>1. lines' \in [Client -> Nat] BY <2>1, LineCounts
    <3>2. QED BY <1>1, <2>1, <3>1
  <2>2. QED BY <1>1, <2>1, CutMoves
<1>3. CASE UNCHANGED <<records, g_timestamp, g_order>> BY <1>1, <1>2, <1>3
<1>4. ASSUME NEW c \in Client, Add(c)
      PROVE  /\ records' \in [Client -> 0 .. 2 * NEvents]
             /\ g_timestamp' \in Nat /\ g_order' \in Nat /\ g_order' >= g_order
  <2>1. /\ records[c] + 1 \in 1 .. Sent(c)
        /\ records' = [records EXCEPT ![c] = records[c] + 1]
        /\ g_timestamp' \in Nat /\ g_order' \in Nat /\ g_order' >= g_order
    BY <1>4, AddFacts
  <2>2. Sent(c) \in Nat /\ Sent(c) <= 2 * NEvents BY StampFacts
  <2>3. records[c] + 1 \in 0 .. 2 * NEvents BY <1>1, <2>1, <2>2
  <2>4. QED BY <1>1, <2>1, <2>3
<1>5. QED BY <1>2, <1>3, <1>4, RecordCounts

\* What is kept of a sequence keeps its type, and so does what is added to it.
LEMMA SeqTypes ==
  ASSUME NEW S, NEW T, S \subseteq T, NEW a \in Seq(S), NEW b \in Seq(S), NEW q \in Seq(S)
  PROVE  /\ a \in Seq(T) /\ <<>> \in Seq(T) /\ a \o b \in Seq(T)
         /\ \A e \in T : Append(q, e) \in Seq(T)
         /\ b # <<>> => Append(a, Head(b)) \in Seq(T) /\ Tail(b) \in Seq(T)
<1>1. a \in Seq(T) /\ b \in Seq(T) /\ q \in Seq(T) BY SeqMonotonic
<1>2. <<>> \in Seq(T) /\ a \o b \in Seq(T) BY <1>1, ConcatProperties
<1>3. \A e \in T : Append(q, e) \in Seq(T) BY <1>1, AppendProperties
<1>4. ASSUME b # <<>> PROVE Append(a, Head(b)) \in Seq(T) /\ Tail(b) \in Seq(T)
  <2>1. Head(b) \in T /\ Tail(b) \in Seq(T) BY <1>1, <1>4, HeadTailProperties
  <2>2. QED BY <1>1, <2>1, AppendProperties
<1>5. QED BY <1>1, <1>2, <1>3, <1>4

LEMMA BatchTypes ==
  ASSUME NEW S, NEW q \in Seq(S), NEW n \in 0 .. Len(q), \A e \in S : e.ts \in Nat
  PROVE  Sorted(Older(q, n)) \in Seq(S) /\ Newer(q, n) \in Seq(S)
<1> DEFINE R == S \X S
<1>1. <<>> \in Seq(S) /\ <<>> \o <<>> \o q \in Seq(S)
  <2>1. <<>> \in Seq(S) OBVIOUS
  <2>2. QED BY <2>1, Three
<1>2. InOrder(<<>> \o <<>> \o q, R)
  <2> DEFINE t == <<>> \o <<>> \o q
  <2>1. \A i \in DOMAIN t : t[i] \in S BY <1>1, ElementOfSeq, LenProperties
  <2> HIDE DEF t
  <2>2. QED BY <2>1 DEF t, InOrder
<1>3. Range(q) \subseteq S BY RangeOfSeq
<1>4. \A e, f \in Range(q) : <<e, f>> \in R /\ f.ts < e.ts => <<f, e>> \in R BY <1>3
<1> HIDE DEF R
<1>5. QED BY <1>1, <1>2, <1>4, Batched

LEMMA LineSeqTypes ==
  ASSUME TypeOK, Reported, Batches, [Next]_vars
  PROVE  /\ forwarded' \in Seq(LineEntry) /\ toSort' \in Seq(LineEntry)
         /\ g_messages' \in Seq(LineEntry)
<1> DEFINE S == LineEntry
<1>1. /\ forwarded \in Seq(S) /\ toSort \in Seq(S) /\ g_messages \in Seq(S)
      /\ \A e \in S : e.ts \in Nat
  BY LineTypes DEF TypeOK
<1> HIDE DEF S
<1>2. CASE UNCHANGED <<forwarded, toSort, g_messages>> BY <1>1, <1>2 DEF S
<1>3. CASE \E c \in Client : Report(c) \/ GuiFragment(c)
  BY <1>2, <1>3 DEF Report, GuiFragment, lineVars, mainVars
<1>4. ASSUME NEW c \in Client, GuiReceive(c)
      PROVE  /\ forwarded' \in Seq(S) /\ toSort' \in Seq(S) /\ g_messages' \in Seq(S)
  <2>1. forwarded' = forwarded /\ toSort' = toSort BY <1>4 DEF GuiReceive, mainVars
  <2>2. g_messages' = g_messages \/ \E e \in S : g_messages' = Append(g_messages, e)
    BY <1>4, ReceiveFacts DEF S
  <2>3. \A e \in S : Append(g_messages, e) \in Seq(S)
    <3> SUFFICES ASSUME NEW e \in S PROVE Append(g_messages, e) \in Seq(S)
      OBVIOUS
    <3>1. QED BY <1>1, AppendProperties
  <2>4. g_messages' \in Seq(S) BY <1>1, <2>2, <2>3
  <2>5. QED BY <1>1, <2>1, <2>4
<1>5. CASE Collect
  <2>1. PICK n \in 0 .. Len(g_messages), n2 \in 0 .. Len(g_messages2) : Take(n, n2)
    BY <1>5 DEF Collect
  <2>2. /\ toSort' = Sorted(Older(g_messages, n)) /\ g_messages' = Newer(g_messages, n)
        /\ forwarded' = forwarded
    BY <2>1 DEF Take
  <2>3. Sorted(Older(g_messages, n)) \in Seq(S) /\ Newer(g_messages, n) \in Seq(S)
    BY <1>1, BatchTypes
  <2>4. QED BY <1>1, <2>2, <2>3 DEF S
<1>6. CASE Ack
  <2>1. /\ forwarded' = Append(forwarded, Head(toSort)) /\ toSort' = Tail(toSort)
        /\ g_messages' = g_messages /\ toSort # <<>>
    BY <1>6 DEF Ack, mainRest, lineVars, TypeOK
  <2>2. Append(forwarded, Head(toSort)) \in Seq(S) /\ Tail(toSort) \in Seq(S)
    BY <1>1, <2>1, SeqTypes
  <2>3. QED BY <1>1, <2>1, <2>2 DEF S
<1>7. QED BY <1>2, <1>3, <1>4, <1>5, <1>6, LineMoves DEF S

\* The file is what the log was.
LEMMA FileMoves ==
  ASSUME [Next]_vars
  PROVE  mscFile' = mscFile \/ mscFile' = g_completeLog
<1>1. CASE \E c \in Client : Report(c) \/ Gui(c)
  BY <1>1 DEF Report, Gui, GuiReceive, GuiFragment, GuiEnd, mainVars
<1>2. CASE \E c \in Client : Msg(c)
  BY <1>2 DEF Msg, MsgReceive, MsgFragment, MsgPanic, MsgEnd, mainVars
<1>3. CASE Main
  BY <1>3 DEF Main, Collect, Take, Forward, Store, AcceptControl, AcceptData, NoConnection,
              Dump, Join, mainRest, pollRest
<1>4. CASE Ack \/ Signal \/ UNCHANGED vars
  BY <1>4 DEF Ack, Signal, mainRest, vars, mainVars
<1>5. QED BY <1>1, <1>2, <1>3, <1>4 DEF Next

LEMMA RecordSeqTypes ==
  ASSUME TypeOK, Reported, Batches, [Next]_vars
  PROVE  /\ g_messages2' \in Seq(Record') /\ toSort2' \in Seq(Record')
         /\ g_completeLog' \in Seq(Record') /\ mscFile' \in Seq(Record')
<1> DEFINE S == Record
           T == Record'
<1>1. /\ g_completeLog \in Seq(S) /\ toSort2 \in Seq(S) /\ g_messages2 \in Seq(S)
      /\ mscFile \in Seq(S)
      /\ NEvents \in Nat /\ g_order \in Nat
  BY TracerdAssumption DEF TypeOK
<1>2. g_order' \in Nat /\ g_order' >= g_order BY CountTypes
<1>3. /\ S \subseteq T
      /\ \A e \in S : e.ts \in Nat
  BY <1>1, <1>2 DEF Record
<1>4. /\ g_completeLog \in Seq(T) /\ toSort2 \in Seq(T) /\ g_messages2 \in Seq(T)
      /\ mscFile \in Seq(T)
  <2> HIDE DEF S, T
  <2>1. QED BY <1>1, <1>3, SeqMonotonic DEF S
<1>5. mscFile' \in Seq(T) BY <1>4, FileMoves
<1>6. CASE UNCHANGED <<g_completeLog, toSort2, g_messages2>> BY <1>4, <1>5, <1>6
<1>7. ASSUME NEW c \in Client, Add(c), UNCHANGED <<g_completeLog, toSort2>>
      PROVE  g_messages2' \in Seq(T)
  <2>. PICK e : /\ e = [ts |-> g_timestamp', client |-> c, half |-> records[c] + 1,
                        order |-> g_order']
               /\ g_messages2' = Append(g_messages2, e)
    BY <1>7, AddFacts
  <2>1. /\ records[c] + 1 \in 1 .. Sent(c) /\ Sent(c) \in Nat /\ Sent(c) <= 2 * NEvents
        /\ g_timestamp' \in Nat /\ g_order' \in Nat /\ g_order' > 0
    BY <1>7, AddFacts, StampFacts
  <2>2. records[c] + 1 \in Half BY <1>1, <2>1 DEF Half
  <2>3. g_order' \in 1 .. g_order' BY <2>1
  <2>4. e \in T BY <2>1, <2>2, <2>3 DEF Record, Half
  <2> HIDE DEF S, T
  <2>5. QED BY <1>4, <2>4, AppendProperties
<1>8. CASE Collect
  <2>1. PICK n \in 0 .. Len(g_messages), n2 \in 0 .. Len(g_messages2) : Take(n, n2)
    BY <1>8 DEF Collect
  <2>2. /\ toSort2' = Sorted(Older(g_messages2, n2)) /\ g_messages2' = Newer(g_messages2, n2)
        /\ g_completeLog' = g_completeLog
    BY <2>1 DEF Take
  <2> HIDE DEF S, T
  <2>3. g_messages2 \in Seq(S) BY <1>1
  <2>4. Sorted(Older(g_messages2, n2)) \in Seq(S) /\ Newer(g_messages2, n2) \in Seq(S)
    BY <1>3, <2>3, BatchTypes
  <2>5. Sorted(Older(g_messages2, n2)) \in Seq(T) /\ Newer(g_messages2, n2) \in Seq(T)
    BY <1>3, <2>4, SeqMonotonic
  <2>6. QED BY <1>4, <1>5, <2>2, <2>5 DEF T
<1>9. CASE Store
  <2>1. /\ g_completeLog' = g_completeLog \o toSort2 /\ toSort2' = <<>>
        /\ g_messages2' = g_messages2
    BY <1>9 DEF Store, mainRest, recordVars
  <2> HIDE DEF S, T
  <2>2. g_completeLog \o toSort2 \in Seq(T) /\ <<>> \in Seq(T) BY <1>4, ConcatProperties
  <2>3. QED BY <1>4, <1>5, <2>1, <2>2 DEF T
<1>10. QED BY <1>4, <1>5, <1>6, <1>7, <1>8, <1>9, RecordMoves

\* The places of the threads.
LEMMA PlaceTypes ==
  ASSUME TypeOK, [Next]_vars
  PROVE  /\ control' \in [Client -> {"connecting", "served", "closed"}]
         /\ data' \in [Client -> {"connecting", "served", "parsing", "spoilt", "dead", "closed"}]
         /\ g_messagesDecl' \subseteq Client
         /\ g_abort' \in BOOLEAN /\ signals' \in 0 .. NSignals
         /\ mainPc' \in {"collect", "forward", "ack", "accept1", "accept2",
                         "dump", "join", "exited", "crashed"}
         /\ mainPc' = "ack" => toSort' # <<>>
<1> DEFINE C == {"connecting", "served", "closed"}
           D == {"connecting", "served", "parsing", "spoilt", "dead", "closed"}
           P == {"collect", "forward", "ack", "accept1", "accept2",
                 "dump", "join", "exited", "crashed"}
           Places == /\ control' \in [Client -> C] /\ data' \in [Client -> D]
                     /\ g_messagesDecl' \subseteq Client
                     /\ g_abort' \in BOOLEAN /\ signals' \in 0 .. NSignals
                     /\ mainPc' \in P
                     /\ mainPc' = "ack" => toSort' # <<>>
<1>1. /\ control \in [Client -> C] /\ data \in [Client -> D]
      /\ g_messagesDecl \subseteq Client
      /\ g_abort \in BOOLEAN /\ signals \in 0 .. NSignals /\ NSignals \in Nat
      /\ mainPc \in P
      /\ mainPc = "ack" => toSort # <<>>
      /\ Control \subseteq Client /\ Data \subseteq Client
  BY TracerdAssumption DEF TypeOK
<1>2. ASSUME NEW c \in Client, Report(c) \/ GuiReceive(c) \/ GuiFragment(c) PROVE Places
  <2>1. UNCHANGED <<control, data, g_messagesDecl, g_abort, signals, mainPc, toSort>>
    BY <1>2 DEF Report, GuiReceive, GuiFragment, lineVars, recordVars, mainVars
  <2>2. QED BY <1>1, <2>1
<1>3. ASSUME NEW c \in Client, GuiEnd(c) PROVE Places
  <2>1. /\ UNCHANGED <<data, g_messagesDecl, g_abort, signals, mainPc, toSort>>
        /\ control' = [control EXCEPT ![c] = "closed"]
    BY <1>3 DEF GuiEnd, recordVars, mainVars
  <2>2. QED BY <1>1, <2>1
<1>4. ASSUME NEW c \in Client, Msg(c) PROVE Places
  <2>1. /\ UNCHANGED <<control, g_abort, signals, toSort>>
        /\ \E d \in D : data' = [data EXCEPT ![c] = d]
    BY <1>4 DEF Msg, MsgReceive, MsgFragment, MsgPanic, MsgEnd, lineVars, mainVars
  <2>2. /\ mainPc' = mainPc \/ mainPc' = "crashed"
        /\ g_messagesDecl' = g_messagesDecl \/ g_messagesDecl' = g_messagesDecl \cup {c}
    BY <1>4 DEF Msg, MsgReceive, MsgFragment, MsgPanic, MsgEnd, mainVars, Add, Declare
  <2>3. data' \in [Client -> D] BY <1>1, <2>1
  <2>4. control' \in [Client -> C] /\ g_abort' \in BOOLEAN /\ signals' \in 0 .. NSignals
    BY <1>1, <2>1
  <2>5. g_messagesDecl' \subseteq Client /\ mainPc' \in P
    BY <1>1, <2>2
  <2>6. mainPc' = "ack" => toSort' # <<>> BY <1>1, <2>1, <2>2
  <2>7. QED BY <2>3, <2>4, <2>5, <2>6
<1>5. CASE Collect \/ Forward \/ Store \/ Ack
  <2>1. /\ UNCHANGED <<control, data, g_messagesDecl, g_abort, signals>>
        /\ mainPc' \in {"forward", "ack", "accept1"}
        /\ mainPc' = "ack" => toSort' # <<>>
    BY <1>5 DEF Collect, Take, Forward, Store, Ack, mainRest, lineVars, recordVars
  <2>2. QED BY <1>1, <2>1
<1>6. CASE AcceptControl \/ AcceptData \/ NoConnection
  <2>1. /\ UNCHANGED <<g_messagesDecl, g_abort, signals, toSort>>
        /\ mainPc' \in {"accept2", "collect"}
    BY <1>6 DEF AcceptControl, AcceptData, NoConnection, pollRest
  <2>2. /\ \/ control' = control
           \/ \E c \in Client : control' = [control EXCEPT ![c] = "served"]
        /\ \/ data' = data
           \/ \E c \in Client : data' = [data EXCEPT ![c] = "served"]
    BY <1>1, <1>6 DEF AcceptControl, AcceptData, NoConnection
  <2>3. control' \in [Client -> C] /\ data' \in [Client -> D] BY <1>1, <2>2
  <2>4. QED BY <1>1, <2>1, <2>3
<1>7. CASE Signal
  <2>1. /\ UNCHANGED <<control, data, g_messagesDecl, g_abort, toSort>>
        /\ signals < NSignals /\ signals' = signals + 1
        /\ mainPc' = mainPc \/ mainPc' = "dump"
    BY <1>7 DEF Signal, lineVars, recordVars
  <2>2. signals' \in 0 .. NSignals BY <1>1, <2>1
  <2>3. QED BY <1>1, <2>1, <2>2
<1>8. CASE Dump \/ Join
  <2>1. /\ UNCHANGED <<control, data, g_messagesDecl, signals, toSort>>
        /\ mainPc' \in {"join", "exited"} /\ g_abort' \in BOOLEAN
    BY <1>1, <1>8 DEF Dump, Join, mainRest, lineVars, recordVars
  <2>2. QED BY <1>1, <2>1
<1>9. CASE UNCHANGED vars
  <2>1. UNCHANGED <<control, data, g_messagesDecl, g_abort, signals, mainPc, toSort>>
    BY <1>9 DEF vars, lineVars, recordVars, mainVars
  <2>2. QED BY <1>1, <2>1
<1>10. QED BY <1>2, <1>3, <1>4, <1>5, <1>6, <1>7, <1>8, <1>9 DEF Next, Gui, Main

LEMMA TypeStep ==
  ASSUME TypeOK, Reported, Batches, [Next]_vars
  PROVE  TypeOK'
BY ClientTypes, CountTypes, LineSeqTypes, RecordSeqTypes, PlaceTypes DEF TypeOK, LineEntry

----------------------------------------------------------------------------
(* The results *)

LEMMA InitInductive == Init => IInv
<1> SUFFICES ASSUME Init PROVE IInv
  OBVIOUS
<1>1. NEvents \in Nat /\ NSignals \in Nat BY TracerdAssumption
<1>2. /\ forwarded = <<>> /\ toSort = <<>> /\ g_messages = <<>>
      /\ g_completeLog = <<>> /\ toSort2 = <<>> /\ g_messages2 = <<>> /\ mscFile = <<>>
  BY DEF Init
<1>3. TypeOK
  <2>1. /\ stamp \in [Client -> Seq(Stamp)] /\ out \in [Client -> Seq(0 .. NEvents)]
        /\ control \in [Client -> {"connecting", "served", "closed"}]
        /\ data \in [Client -> {"connecting", "served", "parsing", "spoilt", "dead", "closed"}]
    <3>1. \A S : <<>> \in Seq(S) OBVIOUS
    <3>2. QED BY <3>1 DEF Init
  <2>2. /\ g_timestamp \in Nat /\ g_order \in Nat
        /\ g_messagesDecl \subseteq Client /\ signals \in 0 .. NSignals
    BY <1>1 DEF Init
  <2>. g_abort \in BOOLEAN BY DEF Init
  <2>3. /\ lines \in [Client -> Nat] /\ cut \in [Client -> {"no", "bare", "stamped"}]
        /\ records \in [Client -> 0 .. 2 * NEvents]
    BY <1>1 DEF Init
  <2>4. mainPc = "collect" BY DEF Init
  <2>5. <<>> \in Seq(LineEntry) /\ <<>> \in Seq(Record) OBVIOUS
  <2>6. QED BY <1>2, <2>1, <2>2, <2>3, <2>4, <2>5 DEF TypeOK
<1>4. Reported
  <2>1. ASSUME NEW c \in Client
        PROVE  /\ stamp[c] = <<>> /\ out[c] = <<>> /\ lines[c] = 0 /\ records[c] = 0
               /\ cut[c] = "no"
    BY DEF Init
  <2>2. Len(<<>>) = 0 OBVIOUS
  <2>3. g_timestamp = 0 BY DEF Init
  <2>4. QED BY <1>1, <2>1, <2>2, <2>3 DEF Reported, Sent
<1>5. Batches BY <1>2 DEF Batches
<1>6. AllLines = <<>> /\ AllRecords = <<>>
  <2>1. \A S : <<>> \in Seq(S) /\ <<>> \o <<>> = <<>> BY ConcatEmptySeq
  <2>2. QED BY <1>2, <2>1 DEF AllLines, AllRecords
<1>7. (\A R : InOrder(<<>>, R)) /\ Range(<<>>) = {} BY DEF InOrder, Range
<1>8. \A c \in Client : 1 .. records[c] = {} BY DEF Init
<1>9. LinesInv /\ RecordsInv BY <1>6, <1>7, <1>8 DEF LinesInv, RecordsInv
<1>10. QED BY <1>3, <1>4, <1>5, <1>9 DEF IInv

\* In every reachable state the entries of each client stand in the order in which
\* the daemon read them, but for those put first for a lower time stamp, and what
\* announces a task has none lower than its own, 0.
THEOREM Inductive == Spec => []IInv
<1>1. Init => IInv BY InitInductive
<1>2. IInv /\ [Next]_vars => IInv'
  BY TypeStep, ReportedStep, BatchesStep, LinesStep, RecordsStep DEF IInv
<1>3. QED BY <1>1, <1>2, PTL DEF Spec

\* Every record a MsgThread has read is in the dictionary, the batch or the log,
\* once, and of two of one client the later one comes first only for its lower
\* time stamp, as a string.
THEOREM EveryRecordOnce == Spec => []LogComplete
<1>1. IInv => LogComplete
  <2> SUFFICES ASSUME IInv PROVE LogComplete
    OBVIOUS
  <2> DEFINE s == AllRecords
  <2>1. TypeOK /\ RecordsInv BY DEF IInv
  <2>2. /\ g_completeLog \in Seq(AnyRecord) /\ toSort2 \in Seq(AnyRecord)
        /\ g_messages2 \in Seq(AnyRecord)
        /\ \A e \in Range(s) : e \in Record /\ e \in AnyRecord
    BY <2>1, RecordTypes
  <2>3. \A i \in DOMAIN s : s[i] \in Range(s) BY DEF Range
  <2>4. ASSUME NEW i \in DOMAIN s, NEW j \in DOMAIN s, i < j, s[i].client = s[j].client
        PROVE  s[i].half < s[j].half \/ (s[j].half < s[i].half /\ s[i].ts < s[j].ts)
    <3>1. <<s[i], s[j]>> \in RecordOrder BY <2>1, <2>4 DEF RecordsInv, InOrder
    <3>2. s[i] \in AnyRecord /\ s[j] \in AnyRecord BY <2>2, <2>3
    <3> HIDE DEF s
    <3>3. QED BY <2>4, <3>1, <3>2, Orders
  <2>5. ASSUME NEW c \in Client
        PROVE  {s[i].half : i \in {j \in DOMAIN s : s[j].client = c}} = 1 .. records[c]
    <3>1. ASSUME NEW i \in DOMAIN s, s[i].client = c PROVE s[i].half \in 1 .. records[c]
      <4>1. s[i] \in Record /\ s[i].half <= records[s[i].client]
        BY <2>1, <2>2, <2>3 DEF RecordsInv
      <4>2. s[i].half \in Half /\ s[i].half <= records[c]
        BY <3>1, <4>1 DEF Record
      <4>3. records[c] \in Int /\ NEvents \in Nat BY <2>1, TracerdAssumption DEF TypeOK
      <4> HIDE DEF s
      <4>4. QED BY <4>2, <4>3 DEF Half
    <3>2. ASSUME NEW h \in 1 .. records[c]
          PROVE  \E i \in DOMAIN s : s[i].client = c /\ s[i].half = h
      <4>1. PICK e \in Range(s) : e.client = c /\ e.half = h BY <2>1 DEF RecordsInv
      <4>2. QED BY <4>1 DEF Range
    <3> HIDE DEF s
    <3>3. QED BY <3>1, <3>2
  <2>6. QED BY <2>1, <2>4, <2>5 DEF LogComplete, AllRecords
<1>2. QED BY <1>1, Inductive, PTL

\* Of two pieces of one client's lines the MSC tracer gets the later one first only
\* for its lower time stamp, and no line twice.
THEOREM LinesInOrder == Spec => []ForwardedInOrder
<1>1. IInv => ForwardedInOrder
  <2> SUFFICES ASSUME IInv PROVE ForwardedInOrder
    OBVIOUS
  <2> DEFINE s == AllLines
  <2>1. TypeOK /\ LinesInv BY DEF IInv
  <2>2. \A e \in Range(s) : e \in AnyLine BY <2>1, LineTypes
  <2>3. ASSUME NEW i \in DOMAIN s, NEW j \in DOMAIN s, i < j, s[i].client = s[j].client
        PROVE  s[i].last < s[j].first \/ (s[j].last < s[i].first /\ s[i].ts < s[j].ts)
    <3>1. <<s[i], s[j]>> \in LineOrder BY <2>1, <2>3 DEF LinesInv, InOrder
    <3>2. s[i] \in AnyLine /\ s[j] \in AnyLine BY <2>2 DEF Range
    <3> HIDE DEF s
    <3>3. QED BY <2>3, <3>1, <3>2, Orders
  <2>4. QED BY <2>3 DEF ForwardedInOrder, AllLines
<1>2. QED BY <1>1, Inductive, PTL

\* What announces a task gets to the tracer before all that its client sent after it.
THEOREM TasksBeforeUse == Spec => []TasksFirst
<1>1. IInv => TasksFirst
  <2> SUFFICES ASSUME IInv, NEW i \in DOMAIN forwarded, NEW j \in DOMAIN forwarded, i < j,
                      forwarded[i].client = forwarded[j].client,
                      Announces(forwarded[j].client, forwarded[j].first, forwarded[j].last)
               PROVE  forwarded[i].last < forwarded[j].first
    BY DEF TasksFirst
  <2>1. TypeOK /\ LinesInv BY DEF IInv
  <2>2. /\ forwarded \in Seq(AnyLine) /\ toSort \in Seq(AnyLine)
        /\ g_messages \in Seq(AnyLine)
    BY <2>1, LineTypes
  <2>3. /\ InOrder(forwarded, LineOrder)
        /\ Range(forwarded) \subseteq Range(AllLines)
    <3>1. InOrder(forwarded \o toSort \o g_messages, LineOrder)
      BY <2>1 DEF LinesInv, AllLines
    <3>2. /\ Range(AllLines) = Range(forwarded) \cup Range(toSort) \cup Range(g_messages)
          /\ \A R : InOrder(forwarded \o toSort \o g_messages, R) => InOrder(forwarded, R)
      BY <2>2, Three DEF AllLines
    <3>3. QED BY <3>1, <3>2
  <2>4. forwarded[i] \in Range(forwarded) /\ forwarded[j] \in Range(forwarded) BY DEF Range
  <2>5. forwarded[j].ts = 0 BY <2>1, <2>3, <2>4 DEF LinesInv, LineIs
  <2>6. /\ <<forwarded[i], forwarded[j]>> \in LineOrder
        /\ forwarded[i] \in AnyLine /\ forwarded[j] \in AnyLine
    BY <2>1, <2>3, <2>4, LineTypes DEF InOrder
  <2>7. forwarded[i].ts \in Nat BY <2>6 DEF AnyLine
  <2>8. QED BY <2>5, <2>6, <2>7, Orders
<1>2. QED BY <1>1, Inductive, PTL
=============================================================================
