--------------------------- MODULE PeekPoke_proofs ---------------------------
(***************************************************************************)
(* Proofs about PeekPoke, for every set of variables, types and plotters   *)
(* and whatever the threads, the user, the plotters and the target do.     *)
(***************************************************************************)
EXTENDS PeekPoke, SequenceTheorems, FiniteSetTheorems, TLAPS

GridRow == [name : Variable, element : 0 .. MaxElements - 1]
Message == [address : Address, n : 1 .. MaxElements]

\* The grid has a row for an element once, and its variables have a type.
GridInv ==
  /\ grid \in Seq(GridRow)
  /\ IsInjective(grid)
  /\ typeOf \in [Variable -> Type \cup {None}]
  /\ \A i \in DOMAIN grid : typeOf[grid[i].name] # None

AtPlotters == gui \in {"kill", "clear"}
InRemoval  == job.name # None

\* What a callback has in hand.
JobInv ==
  /\ job \in [rows : Nat, at : Nat, offset : Nat, size : Nat, name : Variable \cup {None},
              kinds : Seq(Kind), back : {"ready", "removeAll"}]
  /\ gui = "delete" => InRemoval
  /\ InRemoval => gui = "delete" \/ (AtPlotters /\ job.rows > 0)
  /\ InRemoval => job.at > 0 /\ job.name \in Variable
  /\ gui = "clear" => /\ job.offset \in Address /\ plotted[job.offset] # None
                      /\ job.kinds # <<>>

\* Rows of the variable that is being removed that are still in the grid.
Left == job.rows - IF AtPlotters THEN 1 ELSE 0

Block == job.at .. job.at + Left - 1

\* They stand together where the first one stood.
RowsInBlock ==
  InRemoval /\ intact =>
    {i \in DOMAIN grid : grid[i].name = job.name} = Block

\* What is monitored has its first row in the grid.
FirstRowAt(row, a) == row.name \in Numbered /\ row.element = 0 /\ Base[row.name] = a

Watched ==
  intact => \A a \in Address : monitored[a] > 0 =>
    \/ InRemoval /\ Base[job.name] = a
    \/ \E i \in DOMAIN grid : FirstRowAt(grid[i], a)

\* The plotter on record at an address, and in the PlottedVariable the poll
\* thread has, or None.
Of(a, k)  == IF plotted[a] = None THEN None ELSE plotted[a][k]
HeldOf(k) == IF held = None THEN None ELSE held[k]

\* No plotter is on record twice; each runs, until one ends of itself, but for
\* the one that a callback has killed and is about to take off the record.
Records ==
  /\ \A a, b \in Address, k, l \in Kind :
       Of(a, k) # None /\ Of(a, k) = Of(b, l) => a = b /\ k = l
  /\ \A a \in Address, k, l \in Kind : HeldOf(k) # None => HeldOf(k) # Of(a, l)
  /\ ~disturbed => \A a \in Address, k \in Kind :
       Of(a, k) # None /\ ~(gui = "clear" /\ a = job.offset /\ k = Head(job.kinds))
         => Of(a, k) \in alive
  /\ ~disturbed => \A k \in Kind : HeldOf(k) # None => HeldOf(k) \in alive

\* What the poll thread has found.
Thread ==
  /\ poll \in {"test", "write"} /\ held = None =>
       Head(todo) \in Address /\ plotted[Head(todo)] # None
  /\ poll = "write" /\ ~raced => Plotter # None

Plots == Records /\ Thread

IInv == TypeOK /\ GridInv /\ queue \in Seq(Message) /\ JobInv /\ RowsInBlock /\ Watched /\ Plots

----------------------------------------------------------------------------
(* Removing, inserting and moving in a sequence *)

LEMMA RemoveAtRows ==
  ASSUME NEW S, NEW s \in Seq(S), NEW i \in 1 .. Len(s)
  PROVE  /\ RemoveAt(s, i) \in Seq(S)
         /\ Len(RemoveAt(s, i)) = Len(s) - 1
         /\ \A j \in 1 .. Len(s) - 1 :
              RemoveAt(s, i)[j] = s[IF j < i THEN j ELSE j + 1]
<1> DEFINE t == SubSeq(s, 1, i - 1)
           u == SubSeq(s, i + 1, Len(s))
<1>1. Len(s) \in Nat OBVIOUS
<1>2. t \in Seq(S) /\ Len(t) = i - 1 /\ \A j \in 1 .. i - 1 : t[j] = s[j]
  <2>1. \A j \in 1 .. i - 1 : s[j] \in S OBVIOUS
  <2>2. QED BY <1>1, <2>1, SubSeqProperties
<1>3. u \in Seq(S) /\ Len(u) = Len(s) - i /\ \A j \in 1 .. Len(s) - i : u[j] = s[i + j]
  <2>1. \A j \in i + 1 .. Len(s) : s[j] \in S OBVIOUS
  <2>2. i + 1 \in Int OBVIOUS
  <2>3. /\ u \in Seq(S)
        /\ Len(u) = IF i + 1 <= Len(s) THEN Len(s) - (i + 1) + 1 ELSE 0
        /\ \A j \in 1 .. Len(s) - (i + 1) + 1 : u[j] = s[i + 1 + j - 1]
    BY <1>1, <2>1, <2>2, SubSeqProperties
  <2>4. QED BY <1>1, <2>3
<1> HIDE DEF t, u
<1>4. /\ t \o u \in Seq(S) /\ Len(t \o u) = Len(s) - 1
      /\ \A j \in 1 .. Len(s) - 1 : (t \o u)[j] = IF j <= i - 1 THEN t[j] ELSE u[j - (i - 1)]
  <2>1. /\ t \o u \in Seq(S) /\ Len(t \o u) = Len(t) + Len(u)
        /\ \A j \in 1 .. Len(t) + Len(u) :
             (t \o u)[j] = IF j <= Len(t) THEN t[j] ELSE u[j - Len(t)]
    <3>1. t \in Seq(S) /\ u \in Seq(S) BY <1>2, <1>3
    <3>2. QED BY <3>1, ConcatProperties
  <2>2. Len(t) = i - 1 /\ Len(t) + Len(u) = Len(s) - 1 BY <1>1, <1>2, <1>3
  <2>3. QED BY <2>1, <2>2
<1>5. ASSUME NEW j \in 1 .. Len(s) - 1
      PROVE  (t \o u)[j] = s[IF j < i THEN j ELSE j + 1]
  <2> j < i \/ j >= i OBVIOUS
  <2>1. CASE j < i BY <1>2, <1>4, <2>1
  <2>2. CASE j >= i
    <3>1. j - (i - 1) \in 1 .. Len(s) - i /\ i + (j - (i - 1)) = j + 1
      BY <1>1, <2>2
    <3>2. QED BY <1>3, <1>4, <2>2, <3>1
  <2>3. QED BY <2>1, <2>2
<1>6. QED BY <1>4, <1>5 DEF RemoveAt, t, u

LEMMA InsertAtRows ==
  ASSUME NEW S, NEW s \in Seq(S), NEW i \in 1 .. Len(s) + 1, NEW e \in S
  PROVE  /\ InsertAt(s, i, e) \in Seq(S)
         /\ Len(InsertAt(s, i, e)) = Len(s) + 1
         /\ \A j \in 1 .. Len(s) + 1 :
              InsertAt(s, i, e)[j] = IF j < i THEN s[j] ELSE IF j = i THEN e ELSE s[j - 1]
<1> DEFINE t == SubSeq(s, 1, i - 1)
           u == SubSeq(s, i, Len(s))
           a == Append(t, e)
<1>1. Len(s) \in Nat OBVIOUS
<1>2. t \in Seq(S) /\ Len(t) = i - 1 /\ \A j \in 1 .. i - 1 : t[j] = s[j]
  <2>1. \A j \in 1 .. i - 1 : s[j] \in S OBVIOUS
  <2>2. QED BY <1>1, <2>1, SubSeqProperties
<1>3. u \in Seq(S) /\ Len(u) = Len(s) - i + 1
      /\ \A j \in 1 .. Len(s) - i + 1 : u[j] = s[i + j - 1]
  <2>1. \A j \in i .. Len(s) : s[j] \in S OBVIOUS
  <2>2. QED BY <1>1, <2>1, SubSeqProperties
<1>4. /\ a \in Seq(S) /\ Len(a) = i /\ a[i] = e /\ \A j \in 1 .. i - 1 : a[j] = s[j]
      /\ t \o <<e>> = a
  <2> HIDE DEF t
  <2>1. QED BY <1>2, AppendProperties, AppendIsConcat
<1> HIDE DEF t, u, a
<1>5. /\ a \o u \in Seq(S) /\ Len(a \o u) = Len(s) + 1
      /\ \A j \in 1 .. Len(s) + 1 : (a \o u)[j] = IF j <= i THEN a[j] ELSE u[j - i]
  <2>1. /\ a \o u \in Seq(S) /\ Len(a \o u) = Len(a) + Len(u)
        /\ \A j \in 1 .. Len(a) + Len(u) :
             (a \o u)[j] = IF j <= Len(a) THEN a[j] ELSE u[j - Len(a)]
    <3>1. a \in Seq(S) /\ u \in Seq(S) BY <1>3, <1>4
    <3>2. QED BY <3>1, ConcatProperties
  <2>2. Len(a) = i /\ Len(a) + Len(u) = Len(s) + 1 BY <1>1, <1>3, <1>4
  <2>3. QED BY <2>1, <2>2
<1>6. ASSUME NEW j \in 1 .. Len(s) + 1
      PROVE  (a \o u)[j] = IF j < i THEN s[j] ELSE IF j = i THEN e ELSE s[j - 1]
  <2> j <= i \/ j > i OBVIOUS
  <2>1. CASE j <= i BY <1>4, <1>5, <2>1
  <2>2. CASE j > i
    <3>1. j - i \in 1 .. Len(s) - i + 1 /\ i + (j - i) - 1 = j - 1
      BY <1>1, <2>2
    <3>2. QED BY <1>3, <1>5, <2>2, <3>1
  <2>3. QED BY <2>1, <2>2
<1>7. InsertAt(s, i, e) = a \o u BY <1>4 DEF InsertAt, t, u
<1>8. QED BY <1>5, <1>6, <1>7

\* A row that is moved: the same rows, each once more.
LEMMA Moved ==
  ASSUME NEW S, NEW s \in Seq(S), NEW i \in 1 .. Len(s), NEW j \in 1 .. Len(s)
  PROVE  LET t == InsertAt(RemoveAt(s, i), j, s[i])
         IN  /\ t \in Seq(S) /\ Len(t) = Len(s)
             /\ \A k \in 1 .. Len(s) : \E m \in 1 .. Len(s) : t[k] = s[m]
             /\ \A m \in 1 .. Len(s) : \E k \in 1 .. Len(s) : t[k] = s[m]
             /\ IsInjective(s) => IsInjective(t)
<1> DEFINE r == RemoveAt(s, i)
           t == InsertAt(r, j, s[i])
           from(k) == IF k = j THEN i
                      ELSE LET h == IF k < j THEN k ELSE k - 1
                           IN  IF h < i THEN h ELSE h + 1
<1>1. /\ Len(s) \in Nat
      /\ r \in Seq(S) /\ Len(r) = Len(s) - 1
      /\ \A k \in 1 .. Len(s) - 1 : r[k] = s[IF k < i THEN k ELSE k + 1]
  <2>1. Len(s) \in Nat OBVIOUS
  <2>2. QED BY <2>1, RemoveAtRows
<1>2. /\ t \in Seq(S) /\ Len(t) = Len(s)
      /\ \A k \in 1 .. Len(s) : t[k] = IF k < j THEN r[k] ELSE IF k = j THEN s[i] ELSE r[k - 1]
  <2> HIDE DEF r
  <2>1. j \in 1 .. Len(r) + 1 /\ s[i] \in S /\ Len(r) + 1 = Len(s) BY <1>1
  <2>2. /\ t \in Seq(S) /\ Len(t) = Len(r) + 1
        /\ \A k \in 1 .. Len(r) + 1 :
             t[k] = IF k < j THEN r[k] ELSE IF k = j THEN s[i] ELSE r[k - 1]
    <3>1. r \in Seq(S) BY <1>1
    <3>2. j \in 1 .. Len(r) + 1 /\ s[i] \in S BY <2>1
    <3>3. /\ InsertAt(r, j, s[i]) \in Seq(S)
          /\ Len(InsertAt(r, j, s[i])) = Len(r) + 1
          /\ \A k \in 1 .. Len(r) + 1 :
               InsertAt(r, j, s[i])[k] =
                 IF k < j THEN r[k] ELSE IF k = j THEN s[i] ELSE r[k - 1]
      BY <3>1, <3>2, InsertAtRows
    <3>4. QED BY <3>3 DEF t
  <2>3. QED BY <2>1, <2>2
<1> HIDE DEF r, t
<1>3. ASSUME NEW k \in 1 .. Len(s)
      PROVE  from(k) \in 1 .. Len(s) /\ t[k] = s[from(k)]
  <2>1. CASE k = j BY <1>2, <2>1
  <2>2. CASE k < j
    <3>1. k \in 1 .. Len(s) - 1 /\ t[k] = r[k] BY <1>1, <1>2, <2>2
    <3>2. QED BY <1>1, <2>2, <3>1
  <2>3. CASE k > j
    <3>1. k - 1 \in 1 .. Len(s) - 1 /\ t[k] = r[k - 1] BY <1>1, <1>2, <2>3
    <3>2. r[k - 1] = s[IF k - 1 < i THEN k - 1 ELSE k - 1 + 1] BY <1>1, <3>1
    <3>3. QED BY <1>1, <2>3, <3>1, <3>2
  <2>4. QED BY <2>1, <2>2, <2>3
<1>4. \A k, l \in 1 .. Len(s) : from(k) = from(l) => k = l BY <1>1
<1>5. ASSUME NEW m \in 1 .. Len(s) PROVE \E k \in 1 .. Len(s) : from(k) = m
  <2>1. CASE m = i BY <2>1
  <2>2. CASE m # i
    <3> DEFINE h == IF m < i THEN m ELSE m - 1
               k == IF h < j THEN h ELSE h + 1
    <3>1. k \in 1 .. Len(s) /\ from(k) = m BY <1>1, <2>2
    <3>2. QED BY <3>1
  <2>3. QED BY <2>1, <2>2
<1>6. DOMAIN s = 1 .. Len(s) /\ DOMAIN t = 1 .. Len(s) BY <1>2
<1> HIDE DEF from
<1>7. IsInjective(s) => IsInjective(t)
  BY <1>3, <1>4, <1>6 DEF IsInjective
<1>8. /\ \A k \in 1 .. Len(s) : \E m \in 1 .. Len(s) : t[k] = s[m]
      /\ \A m \in 1 .. Len(s) : \E k \in 1 .. Len(s) : t[k] = s[m]
  <2>1. \A k \in 1 .. Len(s) : from(k) \in 1 .. Len(s) /\ t[k] = s[from(k)]
    BY <1>3
  <2>2. \A m \in 1 .. Len(s) : \E k \in 1 .. Len(s) : from(k) = m BY <1>5
  <2>3. ASSUME NEW m \in 1 .. Len(s) PROVE \E k \in 1 .. Len(s) : t[k] = s[m]
    <3>1. PICK k \in 1 .. Len(s) : from(k) = m BY <2>2
    <3>2. QED BY <2>1, <3>1
  <2>4. QED BY <2>1, <2>3
<1>9. QED BY <1>2, <1>7, <1>8 DEF r, t

----------------------------------------------------------------------------
(* Addresses *)

LEMMA RowAddressNat ==
  ASSUME GridInv, NEW i \in DOMAIN grid
  PROVE  /\ grid[i] \in GridRow /\ grid[i].name \in Variable
         /\ typeOf[grid[i].name] \in Type
         /\ grid[i].name \in Numbered => RowAddress(grid[i]) \in Nat
<1>1. grid[i] \in GridRow BY DEF GridInv
<1>2. grid[i].name \in Variable /\ grid[i].element \in Nat BY <1>1 DEF GridRow
<1>3. typeOf[grid[i].name] \in Type BY <1>2 DEF GridInv
<1>4. \A m, n \in Nat : m * n \in Nat OBVIOUS
<1>5. Size[typeOf[grid[i].name]] * grid[i].element \in Nat
  BY <1>2, <1>3, <1>4, PeekPokeAssumption
<1>6. QED BY <1>1, <1>2, <1>3, <1>5, PeekPokeAssumption DEF RowAddress

----------------------------------------------------------------------------
(* The rows that are added *)

\* The elements of a finite set of numbers are the first, the second, ... of it.
LEMMA Ranks ==
  ASSUME NEW E \in SUBSET Nat, IsFiniteSet(E)
  PROVE  /\ Cardinality(E) \in Nat
         /\ \A j \in 1 .. Cardinality(E) :
              \E e \in E : Cardinality({f \in E : f <= e}) = j
         /\ \A e \in E : Cardinality({f \in E : f <= e}) \in 1 .. Cardinality(E)
         /\ \A e, f \in E :
              Cardinality({g \in E : g <= e}) = Cardinality({g \in E : g <= f}) => e = f
<1> DEFINE upTo(e) == {f \in E : f <= e}
           rank == [e \in E |-> Cardinality(upTo(e))]
           n == Cardinality(E)
<1>1. n \in Nat BY FS_CardinalityType
<1>2. ASSUME NEW e \in E
      PROVE  IsFiniteSet(upTo(e)) /\ Cardinality(upTo(e)) \in 1 .. n
  <2>1. upTo(e) \subseteq E /\ e \in upTo(e) OBVIOUS
  <2>2. IsFiniteSet(upTo(e)) /\ Cardinality(upTo(e)) <= n BY <2>1, FS_Subset
  <2>3. Cardinality(upTo(e)) \in Nat /\ Cardinality(upTo(e)) # 0
    BY <2>1, <2>2, FS_CardinalityType, FS_EmptySet
  <2>4. QED BY <1>1, <2>2, <2>3
<1>3. ASSUME NEW e \in E, NEW f \in E, e < f
      PROVE  Cardinality(upTo(e)) < Cardinality(upTo(f))
  <2>1. upTo(e) \subseteq upTo(f)
    <3>1. e \in Nat /\ f \in Nat /\ \A g \in E : g \in Nat OBVIOUS
    <3>2. \A g \in E : g <= e => g <= f BY <1>3, <3>1
    <3>3. QED BY <3>2
  <2>2. f \in upTo(f) /\ f \notin upTo(e) BY <1>3
  <2>3. upTo(e) # upTo(f) BY <2>2
  <2>4. QED BY <1>2, <2>1, <2>3, FS_Subset
<1>4. ASSUME NEW e \in E, NEW f \in E, Cardinality(upTo(e)) = Cardinality(upTo(f))
      PROVE  e = f
  <2>1. Cardinality(upTo(e)) \in Int /\ Cardinality(upTo(f)) \in Int BY <1>2
  <2>2. ~(e < f) /\ ~(f < e) BY <1>3, <1>4, <2>1
  <2>3. QED BY <2>2
<1>5. IsFiniteSet(1 .. n) /\ Cardinality(1 .. n) = n BY <1>1, FS_Interval
<1>6. rank \in Injection(E, 1 .. n)
  <2>1. rank \in [E -> 1 .. n] BY <1>2
  <2>2. \A e, f \in E : rank[e] = rank[f] => e = f BY <1>4
  <2>3. QED BY <2>1, <2>2 DEF Injection, IsInjective
<1>7. rank \in Surjection(E, 1 .. n)
  <2>1. n = Cardinality(1 .. n) BY <1>5
  <2>2. QED BY <1>5, <1>6, <2>1, FS_Injection
<1>8. \A j \in 1 .. n : \E e \in E : Cardinality(upTo(e)) = j
  BY <1>7 DEF Surjection
<1>9. QED BY <1>1, <1>2, <1>4, <1>8

LEMMA MissingRows ==
  ASSUME GridInv, NEW v \in Variable, NEW n \in 1 .. MaxElements
  PROVE  /\ Missing(v, n) \in Seq(GridRow)
         /\ IsInjective(Missing(v, n))
         /\ \A j \in 1 .. Len(Missing(v, n)) :
              /\ Missing(v, n)[j].name = v
              /\ \A i \in DOMAIN grid : Missing(v, n)[j] # grid[i]
         /\ \/ \E i \in DOMAIN grid : grid[i] = Row(v, 0)
            \/ \E j \in 1 .. Len(Missing(v, n)) : Missing(v, n)[j] = Row(v, 0)
<1> DEFINE new == NewElements(v, n)
           nth(j) == CHOOSE e \in new : Cardinality({f \in new : f <= e}) = j
           m == Missing(v, n)
<1>1. /\ MaxElements \in Nat /\ 0 .. n - 1 \subseteq 0 .. MaxElements - 1
      /\ 0 .. n - 1 \subseteq Nat
  BY PeekPokeAssumption
<1>2. new \subseteq 0 .. n - 1 BY DEF NewElements
<1>3. IsFiniteSet(new)
  <2>1. 0 \in Int /\ n - 1 \in Int OBVIOUS
  <2>2. IsFiniteSet(0 .. n - 1) BY <2>1, FS_Interval
  <2> HIDE DEF new
  <2>3. QED BY <1>2, <2>2, FS_Subset
<1>4. /\ Cardinality(new) \in Nat
      /\ \A j \in 1 .. Cardinality(new) :
           \E e \in new : Cardinality({f \in new : f <= e}) = j
      /\ \A e \in new : Cardinality({f \in new : f <= e}) \in 1 .. Cardinality(new)
      /\ \A e, f \in new :
           Cardinality({g \in new : g <= e}) = Cardinality({g \in new : g <= f}) => e = f
  <2>1. new \in SUBSET Nat BY <1>1, <1>2
  <2> HIDE DEF new
  <2>2. QED BY <1>3, <2>1, Ranks
<1>5. m = [j \in 1 .. Cardinality(new) |-> Row(v, nth(j))] BY DEF Missing
<1> HIDE DEF new, m
<1>6. \A j \in 1 .. Cardinality(new) :
        nth(j) \in new /\ Cardinality({f \in new : f <= nth(j)}) = j
  BY <1>4
<1> HIDE DEF nth
<1>7. \A e \in new : Row(v, e) \in GridRow BY <1>1, <1>2 DEF Row, GridRow
<1>8. m \in Seq(GridRow) /\ Len(m) = Cardinality(new) /\ DOMAIN m = 1 .. Cardinality(new)
  <2>1. m \in [1 .. Cardinality(new) -> GridRow] BY <1>5, <1>6, <1>7
  <2>2. QED BY <1>4, <2>1
<1>9. \A j \in 1 .. Cardinality(new) : m[j] = Row(v, nth(j)) BY <1>5
<1>10. ASSUME NEW j \in 1 .. Len(m), NEW k \in 1 .. Len(m), m[j] = m[k] PROVE j = k
  <2>1. nth(j) = nth(k) BY <1>8, <1>9, <1>10 DEF Row
  <2>2. Cardinality({f \in new : f <= nth(j)}) = j BY <1>6, <1>8
  <2>3. Cardinality({f \in new : f <= nth(k)}) = k BY <1>6, <1>8
  <2>4. QED BY <2>1, <2>2, <2>3
<1>11. ASSUME NEW j \in 1 .. Len(m), NEW i \in DOMAIN grid PROVE m[j] # grid[i]
  <2>1. nth(j) \in new /\ m[j] = Row(v, nth(j)) BY <1>6, <1>8, <1>9
  <2>2. i \in RowsOf(v) => grid[i].element # nth(j) BY <2>1 DEF new, NewElements
  <2>3. QED BY <2>1, <2>2 DEF RowsOf, Row
<1>12. CASE 0 \in new
  <2>1. PICK j \in 1 .. Cardinality(new) : Cardinality({f \in new : f <= 0}) = j
    BY <1>4, <1>12
  <2>2. nth(j) = 0 BY <1>4, <1>6, <1>12, <2>1
  <2>3. QED BY <1>8, <1>9, <1>10, <1>11, <2>2 DEF IsInjective, m, Row
<1>13. CASE 0 \notin new
  <2>1. 0 \in 0 .. n - 1 OBVIOUS
  <2>2. PICK i \in RowsOf(v) : grid[i].element = 0
    BY <1>13, <2>1 DEF new, NewElements
  <2>3. i \in DOMAIN grid /\ grid[i].name = v BY DEF RowsOf
  <2>4. grid[i] = Row(v, 0)
    <3>1. grid[i] \in GridRow BY <2>3 DEF GridInv
    <3>2. QED BY <2>2, <2>3, <3>1 DEF GridRow, Row
  <2>5. QED BY <1>8, <1>9, <1>10, <1>11, <2>3, <2>4 DEF IsInjective, m, Row
<1>14. QED BY <1>12, <1>13

\* AddVariable keeps the rows there are, and the variable has a first row.
LEMMA AddGrid ==
  ASSUME GridInv, NEW v \in Variable, NEW n \in 1 .. MaxElements, NEW t \in Type,
         AddVariable(v, n, t)
  PROVE  /\ GridInv'
         /\ \A i \in DOMAIN grid : i \in DOMAIN grid' /\ grid'[i] = grid[i]
         /\ \E i \in DOMAIN grid' : grid'[i] = Row(v, 0)
<1> DEFINE k == IF t = Octet THEN 1 ELSE n
           m == Missing(v, k)
           l == Len(grid)
<1>1. k \in 1 .. MaxElements BY PeekPokeAssumption
<1>2. /\ grid' = grid \o m
      /\ typeOf' = [typeOf EXCEPT ![v] = t]
  BY DEF AddVariable
<1> HIDE DEF k
<1>3. /\ m \in Seq(GridRow) /\ IsInjective(m)
      /\ \A j \in 1 .. Len(m) : m[j].name = v /\ \A i \in DOMAIN grid : m[j] # grid[i]
      /\ \/ \E i \in DOMAIN grid : grid[i] = Row(v, 0)
         \/ \E j \in 1 .. Len(m) : m[j] = Row(v, 0)
  BY <1>1, MissingRows
<1>4. grid \in Seq(GridRow) /\ l \in Nat /\ DOMAIN grid = 1 .. l BY DEF GridInv
<1> HIDE DEF m
<1>5. /\ grid' \in Seq(GridRow) /\ DOMAIN grid' = 1 .. l + Len(m)
      /\ \A i \in 1 .. l + Len(m) : grid'[i] = IF i <= l THEN grid[i] ELSE m[i - l]
  <2>1. m \in Seq(GridRow) BY <1>3
  <2>2. /\ grid \o m \in Seq(GridRow) /\ Len(grid \o m) = l + Len(m)
        /\ \A i \in 1 .. l + Len(m) : (grid \o m)[i] = IF i <= l THEN grid[i] ELSE m[i - l]
    BY <1>4, <2>1, ConcatProperties
  <2>3. QED BY <1>2, <2>2
<1>6. Len(m) \in Nat /\ DOMAIN m = 1 .. Len(m) BY <1>3
<1> HIDE DEF l
<1>7. \A i \in 1 .. l : i \in DOMAIN grid' /\ grid'[i] = grid[i] BY <1>4, <1>5, <1>6
<1>8. \A i \in 1 .. l + Len(m) : i \notin 1 .. l =>
        i - l \in 1 .. Len(m) /\ grid'[i] = m[i - l]
  BY <1>4, <1>5, <1>6
<1>9. IsInjective(grid)'
  <2> SUFFICES ASSUME NEW i \in 1 .. l + Len(m), NEW j \in 1 .. l + Len(m),
                      grid'[i] = grid'[j]
               PROVE  i = j
    BY <1>5 DEF IsInjective
  <2>1. CASE i \in 1 .. l /\ j \in 1 .. l
    BY <1>4, <1>7, <2>1 DEF GridInv, IsInjective
  <2>2. CASE i \in 1 .. l /\ j \notin 1 .. l
    <3>1. grid'[i] = grid[i] /\ grid'[j] = m[j - l] /\ j - l \in 1 .. Len(m)
      BY <1>7, <1>8, <2>2
    <3>2. QED BY <1>3, <1>4, <2>2, <3>1
  <2>3. CASE i \notin 1 .. l /\ j \in 1 .. l
    <3>1. grid'[j] = grid[j] /\ grid'[i] = m[i - l] /\ i - l \in 1 .. Len(m)
      BY <1>7, <1>8, <2>3
    <3>2. QED BY <1>3, <1>4, <2>3, <3>1
  <2>4. CASE i \notin 1 .. l /\ j \notin 1 .. l
    <3>1. i - l = j - l BY <1>3, <1>6, <1>8, <2>4 DEF IsInjective
    <3>2. QED BY <1>4, <3>1
  <2>5. QED BY <2>1, <2>2, <2>3, <2>4
<1>10. ASSUME NEW i \in DOMAIN grid' PROVE typeOf'[grid'[i].name] # None
  <2>1. t # None /\ typeOf'[v] = t BY <1>2, PeekPokeAssumption DEF GridInv
  <2>2. CASE i \in 1 .. l
    <3>1. grid'[i] = grid[i] /\ grid[i].name \in Variable /\ typeOf[grid[i].name] # None
      BY <1>4, <1>7, <2>2, RowAddressNat DEF GridInv
    <3>2. QED BY <1>2, <2>1, <3>1 DEF GridInv
  <2>3. CASE i \notin 1 .. l BY <1>3, <1>5, <1>8, <2>1, <2>3
  <2>4. QED BY <2>2, <2>3
<1>11. \E i \in DOMAIN grid' : grid'[i] = Row(v, 0)
  <2>1. CASE \E i \in DOMAIN grid : grid[i] = Row(v, 0) BY <1>4, <1>7, <2>1
  <2>2. CASE \E j \in 1 .. Len(m) : m[j] = Row(v, 0)
    <3>1. PICK j \in 1 .. Len(m) : m[j] = Row(v, 0) BY <2>2
    <3> DEFINE i == l + j
    <3>2. i \in 1 .. l + Len(m) /\ i \notin 1 .. l /\ i - l = j
      BY <1>4, <1>6
    <3> HIDE DEF i
    <3>3. grid'[i] = m[j] BY <1>8, <3>2
    <3>4. QED BY <1>5, <3>1, <3>2, <3>3
  <2>3. QED BY <1>3, <2>1, <2>2
<1>12. typeOf' \in [Variable -> Type \cup {None}] BY <1>2 DEF GridInv
<1>13. QED BY <1>4, <1>5, <1>7, <1>9, <1>10, <1>11, <1>12 DEF GridInv

\* AddUnnumbered adds a row at most, and keeps the others.
LEMMA AddRow ==
  ASSUME GridInv, NEW v \in Variable, NEW n \in 1 .. MaxElements, NEW t \in Type,
         AddUnnumbered(v, n, t)
  PROVE  /\ GridInv'
         /\ \A i \in DOMAIN grid : i \in DOMAIN grid' /\ grid'[i] = grid[i]
<1> DEFINE k == IF t = Octet THEN 1 ELSE n
           m == Missing(v, k)
           l == Len(grid)
<1>1. k \in 1 .. MaxElements BY PeekPokeAssumption
<1>2. /\ grid' = IF m = <<>> THEN grid ELSE Append(grid, Head(m))
      /\ typeOf' = [typeOf EXCEPT ![v] = t]
  BY DEF AddUnnumbered
<1> HIDE DEF k
<1>3. /\ m \in Seq(GridRow)
      /\ \A j \in 1 .. Len(m) : m[j].name = v /\ \A i \in DOMAIN grid : m[j] # grid[i]
  BY <1>1, MissingRows
<1>4. grid \in Seq(GridRow) /\ l \in Nat /\ DOMAIN grid = 1 .. l BY DEF GridInv
<1>5. t # None /\ typeOf'[v] = t /\ typeOf' \in [Variable -> Type \cup {None}]
  BY <1>2, PeekPokeAssumption DEF GridInv
<1>6. \A i \in DOMAIN grid : typeOf'[grid[i].name] # None
  <2> SUFFICES ASSUME NEW i \in DOMAIN grid PROVE typeOf'[grid[i].name] # None OBVIOUS
  <2>1. grid[i].name \in Variable /\ typeOf[grid[i].name] # None
    BY RowAddressNat DEF GridInv
  <2>2. QED BY <1>2, <1>5, <2>1 DEF GridInv
<1> HIDE DEF m
<1>7. CASE m = <<>> BY <1>2, <1>5, <1>6, <1>7 DEF GridInv
<1>8. CASE m # <<>>
  <2> DEFINE r == Head(m)
  <2>1. 1 \in 1 .. Len(m) /\ r = m[1] BY <1>3, <1>8, EmptySeq
  <2>2. r \in GridRow /\ r.name = v /\ \A i \in DOMAIN grid : r # grid[i]
    <3>1. m[1] \in GridRow BY <1>3, <2>1, ElementOfSeq
    <3>2. QED BY <1>3, <2>1, <3>1
  <2> HIDE DEF r
  <2>3. /\ grid' \in Seq(GridRow) /\ DOMAIN grid' = 1 .. l + 1 /\ grid'[l + 1] = r
        /\ \A i \in 1 .. l : grid'[i] = grid[i]
    <3>1. grid' = Append(grid, r) BY <1>2, <1>8 DEF r
    <3>2. QED BY <1>4, <2>2, <3>1, AppendProperties
  <2> HIDE DEF l
  <2>4. IsInjective(grid)'
    <3> SUFFICES ASSUME NEW i \in 1 .. l + 1, NEW j \in 1 .. l + 1, grid'[i] = grid'[j]
                 PROVE  i = j
      BY <2>3 DEF IsInjective
    <3>1. CASE i \in 1 .. l /\ j \in 1 .. l BY <1>4, <2>3, <3>1 DEF GridInv, IsInjective
    <3>2. CASE i = l + 1 \/ j = l + 1
      <4>1. \A h \in 1 .. l : grid'[h] # r BY <1>4, <2>2, <2>3
      <4>2. QED BY <1>4, <2>3, <3>2, <4>1
    <3>3. QED BY <1>4, <3>1, <3>2
  <2>5. \A i \in DOMAIN grid' : typeOf'[grid'[i].name] # None
    BY <1>4, <1>5, <1>6, <2>2, <2>3
  <2>6. QED BY <1>4, <1>5, <2>3, <2>4, <2>5 DEF GridInv
<1>9. QED BY <1>7, <1>8

----------------------------------------------------------------------------
(* The grid *)

LEMMA LoadingFacts ==
  ASSUME \E f \in File : loading \in Suffixes(f), loading # <<>>
  PROVE  /\ Head(loading) \in [name : Numbered, n : 1 .. MaxElements, type : Type]
         /\ \E f \in File : Tail(loading) \in Suffixes(f)
<1> DEFINE Line == [name : Numbered, n : 1 .. MaxElements, type : Type]
<1>1. PICK f \in File : loading \in Suffixes(f) OBVIOUS
<1>2. f \in Seq(Line) BY PeekPokeAssumption
<1>3. PICK i \in 1 .. Len(f) : loading = SubSeq(f, i, Len(f))
  BY <1>1 DEF Suffixes
<1> HIDE DEF Line
<1>4. Len(f) \in Nat /\ f[i] \in Line BY <1>2, LenProperties
<1>5. Head(loading) = f[i] /\ Tail(loading) = SubSeq(f, i + 1, Len(f))
  <2>1. i \in 1 .. Len(f) /\ Len(f) \in i .. Len(f) BY <1>4
  <2>2. QED BY <1>2, <1>3, <2>1, HeadTailOfSubSeq
<1>6. Tail(loading) \in Suffixes(f)
  <2>1. CASE i = Len(f)
    <3>1. i + 1 \in Int /\ Len(f) \in Int /\ Len(f) < i + 1 BY <1>4, <2>1
    <3>2. SubSeq(f, i + 1, Len(f)) = <<>> BY <3>1, SubSeqEmpty
    <3>3. QED BY <1>5, <3>2 DEF Suffixes
  <2>2. CASE i # Len(f)
    <3>1. i + 1 \in 1 .. Len(f) BY <1>4, <2>2
    <3>2. QED BY <1>5, <3>1 DEF Suffixes
  <2>3. QED BY <2>1, <2>2
<1>7. QED BY <1>4, <1>5, <1>6 DEF Line

\* What a step does to the grid.
LEMMA GridMoves ==
  ASSUME TypeOK, [Next]_vars
  PROVE  \/ UNCHANGED <<grid, typeOf, nameOf>> /\ (UNCHANGED monitored \/ Removed)
         \/ /\ gui \in {"ready", "load"}
            /\ \E v \in Numbered, n \in 1 .. MaxElements, t \in Type : AddVariable(v, n, t)
         \/ /\ gui = "ready"
            /\ \E v \in Variable, n \in 1 .. MaxElements, t \in Type : AddUnnumbered(v, n, t)
         \/ MoveRow \/ DeleteRow
<1>1. CASE AddToList
  <2>1. PICK v \in Variable, n \in 1 .. MaxElements, t \in Type :
          IF v \in Numbered THEN AddVariable(v, n, t) ELSE AddUnnumbered(v, n, t)
    BY <1>1 DEF AddToList
  <2>2. QED BY <1>1, <2>1 DEF AddToList
<1>2. CASE Load
  <2>1. CASE loading = <<>> BY <1>2, <2>1 DEF Load, gridVars
  <2>2. CASE loading # <<>>
    <3>1. Head(loading) \in [name : Numbered, n : 1 .. MaxElements, type : Type]
      BY <2>2, LoadingFacts DEF TypeOK
    <3>2. AddVariable(Head(loading).name, Head(loading).n, Head(loading).type)
      BY <1>2, <2>2 DEF Load
    <3>3. QED BY <1>2, <3>1, <3>2 DEF Load
  <2>3. QED BY <2>1, <2>2
<1>3. CASE Callback /\ ~AddToList
  BY <1>3 DEF Callback, Plot, Unplot, RemoveSelected, Open, Exit, Interrupt, gridVars
<1>4. CASE Main /\ ~Load
  BY <1>4 DEF Main, Start, Kill, Clear, Removed, RemoveAll, Loaded, Quit, Tell, Join,
              gridVars
<1>5. CASE Poll
  BY <1>5 DEF Poll, Check, Reset, OpenQueue, Retrieve, Show, Fetch, Test, Write,
              PollUnchanged, gridVars
<1>6. CASE PlotterExits \/ Target \/ UNCHANGED vars
  BY <1>6 DEF PlotterExits, Target, vars, gridVars
<1>7. QED BY <1>1, <1>2, <1>3, <1>4, <1>5, <1>6 DEF Next

\* A row that is moved.
LEMMA MoveGrid ==
  ASSUME GridInv, MoveRow
  PROVE  /\ GridInv'
         /\ \A k \in DOMAIN grid : \E l \in DOMAIN grid' : grid'[l] = grid[k]
<1>1. PICK i \in DOMAIN grid, j \in DOMAIN grid :
        grid' = InsertAt(RemoveAt(grid, i), j, grid[i])
  BY DEF MoveRow
<1>2. grid \in Seq(GridRow) /\ DOMAIN grid = 1 .. Len(grid) BY DEF GridInv
<1>3. i \in 1 .. Len(grid) /\ j \in 1 .. Len(grid) BY <1>2
<1>4. /\ grid' \in Seq(GridRow) /\ Len(grid') = Len(grid)
      /\ \A k \in 1 .. Len(grid) : \E l \in 1 .. Len(grid) : grid'[k] = grid[l]
      /\ \A l \in 1 .. Len(grid) : \E k \in 1 .. Len(grid) : grid'[k] = grid[l]
      /\ IsInjective(grid) => IsInjective(grid')
  <2> DEFINE t == InsertAt(RemoveAt(grid, i), j, grid[i])
  <2>1. grid \in Seq(GridRow) BY <1>2
  <2>2. /\ t \in Seq(GridRow) /\ Len(t) = Len(grid)
        /\ \A k \in 1 .. Len(grid) : \E l \in 1 .. Len(grid) : t[k] = grid[l]
        /\ \A l \in 1 .. Len(grid) : \E k \in 1 .. Len(grid) : t[k] = grid[l]
        /\ IsInjective(grid) => IsInjective(t)
    BY <1>3, <2>1, Moved
  <2>3. grid' = t BY <1>1
  <2> HIDE DEF t
  <2>4. QED BY <2>2, <2>3
<1>5. DOMAIN grid' = 1 .. Len(grid) BY <1>4
<1>6. typeOf' = typeOf BY DEF MoveRow
<1>7. ASSUME NEW k \in DOMAIN grid' PROVE typeOf'[grid'[k].name] # None
  <2>1. PICK l \in 1 .. Len(grid) : grid'[k] = grid[l] BY <1>4, <1>5
  <2>2. QED BY <1>2, <1>6, <2>1 DEF GridInv
<1>8. QED BY <1>2, <1>4, <1>5, <1>6, <1>7 DEF GridInv

\* A row that is deleted.
LEMMA DeleteGrid ==
  ASSUME GridInv, NEW at \in 1 .. Len(grid), grid' = RemoveAt(grid, at), typeOf' = typeOf
  PROVE  /\ GridInv'
         /\ Len(grid) \in Nat /\ DOMAIN grid' = 1 .. Len(grid) - 1
         /\ \A j \in 1 .. Len(grid) - 1 : grid'[j] = grid[IF j < at THEN j ELSE j + 1]
<1>1. grid \in Seq(GridRow) /\ Len(grid) \in Nat /\ DOMAIN grid = 1 .. Len(grid)
  BY DEF GridInv
<1>2. /\ grid' \in Seq(GridRow) /\ Len(grid') = Len(grid) - 1
      /\ \A j \in 1 .. Len(grid) - 1 : grid'[j] = grid[IF j < at THEN j ELSE j + 1]
  <2>1. grid \in Seq(GridRow) BY <1>1
  <2>2. QED BY <2>1, RemoveAtRows
<1>3. DOMAIN grid' = 1 .. Len(grid) - 1 BY <1>2
<1>4. \A j \in 1 .. Len(grid) - 1 : (IF j < at THEN j ELSE j + 1) \in 1 .. Len(grid)
  BY <1>1
<1>5. \A j, k \in 1 .. Len(grid) - 1 :
        (IF j < at THEN j ELSE j + 1) = (IF k < at THEN k ELSE k + 1) => j = k
  BY <1>1
<1>6. IsInjective(grid) /\ \A i \in DOMAIN grid : typeOf[grid[i].name] # None
  BY DEF GridInv
<1> DEFINE old(j) == IF j < at THEN j ELSE j + 1
<1>7. /\ \A j \in 1 .. Len(grid) - 1 : old(j) \in 1 .. Len(grid) /\ grid'[j] = grid[old(j)]
      /\ \A j, k \in 1 .. Len(grid) - 1 : old(j) = old(k) => j = k
  BY <1>2, <1>4, <1>5
<1> HIDE DEF old
<1>8. IsInjective(grid')
  BY <1>1, <1>3, <1>6, <1>7 DEF IsInjective
<1>9. \A i \in DOMAIN grid' : typeOf'[grid'[i].name] # None
  BY <1>1, <1>3, <1>6, <1>7
<1>10. QED BY <1>1, <1>2, <1>3, <1>8, <1>9 DEF GridInv

LEMMA GridStep ==
  ASSUME TypeOK, GridInv, JobInv, [Next]_vars
  PROVE  GridInv'
<1>1. CASE UNCHANGED <<grid, typeOf>> BY <1>1 DEF GridInv
<1>2. CASE \E v \in Numbered, n \in 1 .. MaxElements, t \in Type : AddVariable(v, n, t)
  BY <1>2, AddGrid, PeekPokeAssumption
<1>6. CASE \E v \in Variable, n \in 1 .. MaxElements, t \in Type : AddUnnumbered(v, n, t)
  BY <1>6, AddRow
<1>3. CASE MoveRow BY <1>3, MoveGrid
<1>4. CASE DeleteRow
  <2>1. typeOf' = typeOf BY <1>4 DEF DeleteRow
  <2>2. CASE grid' = grid BY <2>1, <2>2 DEF GridInv
  <2>3. CASE grid' # grid
    <3>1. grid' = RemoveAt(grid, job.at) /\ ~(job.at > Len(grid)) /\ gui = "delete"
      BY <1>4, <2>3 DEF DeleteRow
    <3>2. job.at \in Nat /\ job.at > 0 BY <3>1 DEF JobInv
    <3>3. Len(grid) \in Nat BY DEF GridInv
    <3>4. job.at \in 1 .. Len(grid) BY <3>1, <3>2, <3>3
    <3>5. QED BY <2>1, <3>1, <3>4, DeleteGrid
  <2>4. QED BY <2>2, <2>3
<1>5. QED BY <1>1, <1>2, <1>3, <1>4, <1>6, GridMoves

----------------------------------------------------------------------------
(* The callbacks that remove *)

JobType == [rows : Nat, at : Nat, offset : Nat, size : Nat, name : Variable \cup {None},
            kinds : Seq(Kind), back : {"ready", "removeAll"}]

LEMMA KindsFacts ==
  /\ Kinds \in Seq(Kind) /\ Len(Kinds) \in Nat /\ Kinds # <<>>
  /\ \A i \in DOMAIN Kinds : Kinds[i] \in Kind
  /\ DOMAIN Kinds = 1 .. Len(Kinds) /\ Len(Kinds) > 0
<1>1. Kinds \in Seq(Kind) /\ Kinds # <<>> BY PeekPokeAssumption DEF Kind
<1>2. QED BY <1>1, EmptySeq, LenProperties, ElementOfSeq

LEMMA NoJobFacts ==
  /\ NoJob \in JobType /\ NoJob.name = None /\ NoJob.rows = 0 /\ NoJob.kinds = <<>>
BY DEF NoJob, JobType

\* What BeginRemove starts with: element 0 of the variable, and its rows.
LEMMA RemoveStarts ==
  ASSUME GridInv, NEW v \in Variable, NEW back \in {"ready", "removeAll"},
         BeginRemove(v, back)
  PROVE  \/ gui' = "ready" /\ job' = NoJob
         \/ /\ gui' = "delete" /\ job' \in JobType
            /\ job'.name = v /\ job'.at > 0
            /\ intact' => intact /\ RowsOf(v) = job'.at .. job'.at + job'.rows - 1
<1>1. CASE FirstRow(v) = {} \/ v \notin Numbered BY <1>1 DEF BeginRemove
<1>2. CASE FirstRow(v) # {} /\ v \in Numbered
  <2> DEFINE i == CHOOSE i \in FirstRow(v) : TRUE
  <2>1. i \in FirstRow(v) BY <1>2
  <2> HIDE DEF i
  <2>2. i \in DOMAIN grid /\ grid[i].name = v BY <2>1 DEF FirstRow, RowsOf
  <2>3. Len(grid) \in Nat /\ DOMAIN grid = 1 .. Len(grid) BY DEF GridInv
  <2>4. i \in Nat /\ i > 0 BY <2>2, <2>3
  <2>5. Cardinality(RowsOf(v)) \in Nat
    <3>1. IsFiniteSet(1 .. Len(grid)) BY <2>3, FS_Interval
    <3>2. RowsOf(v) \subseteq 1 .. Len(grid) BY <2>3 DEF RowsOf
    <3>3. QED BY <3>1, <3>2, FS_Subset, FS_CardinalityType
  <2>6. Base[v] \in Nat /\ Size[typeOf[v]] \in Nat
    BY <1>2, <2>2, RowAddressNat, PeekPokeAssumption
  <2>7. /\ gui' = "delete"
        /\ job' = [rows |-> Cardinality(RowsOf(v)), at |-> i, offset |-> Base[v],
                   size |-> Size[typeOf[v]], name |-> v, kinds |-> <<>>,
                   back |-> back]
        /\ intact' = (intact /\ Together(v))
    BY <1>2 DEF BeginRemove, i
  <2>8. job' \in JobType BY <2>4, <2>5, <2>6, <2>7 DEF JobType
  <2>9. QED BY <2>1, <2>4, <2>7, <2>8 DEF Together
<1>3. QED BY <1>1, <1>2

\* What a step does to the callback.
LEMMA JobMoves ==
  ASSUME TypeOK, GridInv, [Next]_vars
  PROVE  \/ job' = job /\ gui' = gui /\ (gui = "clear" => UNCHANGED plotted)
         \/ /\ job' = job /\ gui \notin {"delete", "kill", "clear"}
            /\ gui' \notin {"delete", "kill", "clear"}
         \/ Unplot \/ Kill \/ Clear \/ DeleteRow \/ Removed
         \/ /\ gui \in {"ready", "removeAll"} /\ UNCHANGED <<grid, monitored>>
            /\ \E v \in Variable, back \in {"ready", "removeAll"} : BeginRemove(v, back)
<1>1. CASE RemoveSelected
  <2>1. PICK i \in DOMAIN grid : BeginRemove(grid[i].name, "ready")
    BY <1>1 DEF RemoveSelected
  <2>2. QED BY <1>1, <2>1, RowAddressNat DEF RemoveSelected, gridVars
<1>2. CASE RemoveAll
  <2>1. CASE grid = <<>> BY <1>2, <2>1 DEF RemoveAll, TypeOK
  <2>2. CASE grid # <<>>
    <3>1. 1 \in DOMAIN grid BY <2>2, EmptySeq DEF GridInv
    <3>2. QED BY <1>2, <2>2, <3>1, RowAddressNat DEF RemoveAll, gridVars
  <2>3. QED BY <2>1, <2>2
<1>3. CASE Callback /\ ~(Unplot \/ RemoveSelected)
  BY <1>3 DEF Callback, AddToList, MoveRow, Plot, Open, Exit, Interrupt, jobVars
<1>4. CASE Main /\ ~(Kill \/ Clear \/ DeleteRow \/ Removed \/ RemoveAll)
  BY <1>4 DEF Main, Start, Load, Loaded, Quit, Tell, Join, jobVars
<1>5. CASE Poll
  BY <1>5 DEF Poll, Check, Reset, OpenQueue, Retrieve, Show, Fetch, Test, Write,
              PollUnchanged, jobVars, plotVars
<1>6. CASE PlotterExits \/ Target \/ UNCHANGED vars
  BY <1>6 DEF PlotterExits, Target, vars, jobVars, plotVars
<1>7. QED BY <1>1, <1>2, <1>3, <1>4, <1>5, <1>6 DEF Next, Main, Callback

LEMMA JobStep ==
  ASSUME TypeOK, GridInv, JobInv, [Next]_vars
  PROVE  JobInv'
<1>1. job \in JobType BY DEF JobInv, JobType
<1>2. SUFFICES /\ job' \in JobType
               /\ gui' = "delete" => InRemoval'
               /\ InRemoval' => gui' = "delete" \/ (AtPlotters' /\ job'.rows > 0)
               /\ InRemoval' => job'.at > 0 /\ job'.name \in Variable
               /\ gui' = "clear" => /\ job'.offset \in Address
                                    /\ plotted'[job'.offset] # None
                                    /\ job'.kinds # <<>>
  BY DEF JobInv, JobType
<1>3. CASE job' = job /\ gui' = gui /\ (gui = "clear" => UNCHANGED plotted)
  BY <1>1, <1>3 DEF JobInv, InRemoval, AtPlotters
<1>4. CASE /\ job' = job /\ gui \notin {"delete", "kill", "clear"}
           /\ gui' \notin {"delete", "kill", "clear"}
  BY <1>1, <1>4 DEF JobInv, InRemoval, AtPlotters
<1>5. CASE Unplot
  <2>1. PICK i \in DOMAIN grid, k \in Kind :
          /\ ButtonOf(grid[i], k) = "unplot"
          /\ job' = [NoJob EXCEPT !.offset = RowAddress(grid[i]), !.kinds = <<k>>]
    BY <1>5 DEF Unplot
  <2>2. gui' = "kill" BY <1>5 DEF Unplot
  <2>3. RowAddress(grid[i]) \in Nat BY <2>1, RowAddressNat DEF ButtonOf
  <2> DEFINE offset == RowAddress(grid[i])
             kinds == <<k>>
  <2> HIDE DEF offset
  <2>4. kinds \in Seq(Kind) OBVIOUS
  <2> HIDE DEF kinds
  <2>5. job' = [NoJob EXCEPT !.offset = offset, !.kinds = kinds] BY <2>1 DEF offset, kinds
  <2>6. job' \in JobType /\ job'.name = None
    BY <2>3, <2>4, <2>5 DEF NoJob, JobType, offset
  <2>7. QED BY <2>2, <2>6 DEF InRemoval
<1>6. CASE Kill
  <2> DEFINE none == job.offset \notin Address \/ plotted[job.offset] = None
  <2>1. gui = "kill" BY <1>6 DEF Kill
  <2>2. CASE none \/ job.kinds = <<>>
    <3>1. /\ gui' = IF job.name = None THEN "ready" ELSE "delete"
          /\ job' = [job EXCEPT !.kinds = <<>>, !.rows = IF @ = 0 THEN 0 ELSE @ - 1,
                                !.offset = @ + job.size]
      BY <1>6, <2>2 DEF Kill
    <3> DEFINE rows == IF job.rows = 0 THEN 0 ELSE job.rows - 1
               offset == job.offset + job.size
    <3>2. rows \in Nat /\ offset \in Nat BY <1>1 DEF JobType
    <3>3. <<>> \in Seq(Kind) OBVIOUS
    <3>4. job' = [job EXCEPT !.kinds = <<>>, !.rows = rows, !.offset = offset] BY <3>1
    <3> HIDE DEF rows, offset
    <3>5. job' \in JobType /\ job'.name = job.name /\ job'.at = job.at
      BY <1>1, <3>2, <3>3, <3>4 DEF JobType
    <3>6. QED BY <2>1, <3>1, <3>5 DEF JobInv, InRemoval
  <2>3. CASE ~(none \/ job.kinds = <<>>)
    <3>1. /\ gui' = IF plotted[job.offset][Head(job.kinds)] = None THEN "kill" ELSE "clear"
          /\ job' = IF gui' = "kill" THEN [job EXCEPT !.kinds = Tail(@)] ELSE job
          /\ plotted' = plotted
      BY <1>6, <2>3 DEF Kill
    <3>2. Tail(job.kinds) \in Seq(Kind)
      BY <1>1, <2>3, HeadTailProperties DEF JobType
    <3>3. /\ job' \in JobType /\ job'.name = job.name /\ job'.at = job.at
          /\ job'.rows = job.rows /\ job'.offset = job.offset
          /\ gui' = "clear" => job' = job
      BY <1>1, <3>1, <3>2 DEF JobType
    <3>4. QED BY <2>1, <2>3, <3>1, <3>3 DEF JobInv, InRemoval, AtPlotters
  <2>4. QED BY <2>2, <2>3
<1>7. CASE Clear
  <2>1. gui = "clear" /\ gui' = "kill" /\ job' = [job EXCEPT !.kinds = Tail(@)]
    BY <1>7 DEF Clear
  <2>2. Tail(job.kinds) \in Seq(Kind)
    BY <1>1, <2>1, HeadTailProperties DEF JobType, JobInv
  <2>3. /\ job' \in JobType /\ job'.name = job.name /\ job'.at = job.at
        /\ job'.rows = job.rows
    BY <1>1, <2>1, <2>2 DEF JobType
  <2>4. QED BY <2>1, <2>3 DEF JobInv, InRemoval, AtPlotters
<1>8. CASE DeleteRow
  <2>1. gui = "delete" /\ job.rows > 0 BY <1>8 DEF DeleteRow
  <2>2. CASE gui' = "ready" /\ job' = NoJob BY <2>2, NoJobFacts DEF InRemoval
  <2>3. CASE gui' = "kill" /\ job' = [job EXCEPT !.kinds = Kinds]
    <3>1. /\ job' \in JobType /\ job'.name = job.name /\ job'.at = job.at
          /\ job'.rows = job.rows
      BY <1>1, <2>3, KindsFacts DEF JobType
    <3>2. QED BY <2>1, <2>3, <3>1 DEF JobInv, InRemoval, AtPlotters
  <2>4. QED BY <1>8, <2>2, <2>3 DEF DeleteRow
<1>9. CASE Removed
  <2>1. gui' = job.back /\ job' = NoJob BY <1>9 DEF Removed
  <2>2. job.back \in {"ready", "removeAll"} BY <1>1 DEF JobType
  <2>3. QED BY <2>1, <2>2, NoJobFacts DEF InRemoval
<1>10. CASE \E v \in Variable, back \in {"ready", "removeAll"} : BeginRemove(v, back)
  <2>1. PICK v \in Variable, back \in {"ready", "removeAll"} : BeginRemove(v, back)
    BY <1>10
  <2>2. CASE gui' = "ready" /\ job' = NoJob BY <2>2, NoJobFacts DEF InRemoval
  <2>3. CASE /\ gui' = "delete" /\ job' \in JobType
             /\ job'.name = v /\ job'.at > 0
    <3>1. v # None BY PeekPokeAssumption
    <3>2. QED BY <2>3, <3>1 DEF InRemoval
  <2>4. QED BY <2>1, <2>2, <2>3, RemoveStarts
<1>11. QED BY <1>3, <1>4, <1>5, <1>6, <1>7, <1>8, <1>9, <1>10, JobMoves

LEMMA IntactStays ==
  ASSUME TypeOK, intact', [Next]_vars
  PROVE  intact
<1>1. CASE AddToList \/ Load BY <1>1 DEF AddToList, Load, AddVariable, AddUnnumbered
<1>2. CASE RemoveSelected \/ RemoveAll
  BY <1>2 DEF RemoveSelected, RemoveAll, BeginRemove
<1>3. CASE Removed BY <1>3 DEF Removed
<1>4. CASE Callback /\ ~(AddToList \/ RemoveSelected)
  BY <1>4 DEF Callback, MoveRow, Plot, Unplot, Open, Exit, Interrupt
<1>5. CASE Main /\ ~(Load \/ RemoveAll \/ Removed)
  BY <1>5 DEF Main, Start, Kill, Clear, DeleteRow, Loaded, Quit, Tell, Join
<1>6. CASE Poll
  BY <1>6 DEF Poll, Check, Reset, OpenQueue, Retrieve, Show, Fetch, Test, Write,
              PollUnchanged
<1>7. CASE PlotterExits \/ Target \/ UNCHANGED vars
  BY <1>7 DEF PlotterExits, Target, vars
<1>8. QED BY <1>1, <1>2, <1>3, <1>4, <1>5, <1>6, <1>7 DEF Next

Removing == {i \in DOMAIN grid : grid[i].name = job.name}

\* The grid stays while a callback removes, but for the rows that are deleted.
LEMMA GridKept ==
  ASSUME TypeOK, [Next]_vars, gui \in {"delete", "kill", "clear"}, ~DeleteRow
  PROVE  grid' = grid
BY GridMoves DEF MoveRow

\* The block shrinks from its end as the row at its start is deleted.
LEMMA BlockShrinks ==
  ASSUME GridInv, JobInv, RowsInBlock, intact, DeleteRow
  PROVE  /\ job.at \in 1 .. Len(grid)
         /\ grid[job.at].name = job.name
         /\ GridInv'
         /\ \A i \in DOMAIN grid : grid[i].name # job.name =>
              \E j \in DOMAIN grid' : grid'[j] = grid[i]
         /\ RowsInBlock'
<1> DEFINE at == job.at
           n == job.rows
           In(i) == grid[i].name = job.name
<1>1. gui = "delete" /\ n > 0 /\ InRemoval BY DEF DeleteRow, JobInv
<1>2. at \in Nat /\ at > 0 /\ n \in Nat BY <1>1 DEF JobInv
<1>3. Len(grid) \in Nat /\ DOMAIN grid = 1 .. Len(grid) BY DEF GridInv
<1>4. Removing = at .. at + n - 1
  <2>1. Left = n BY <1>1, <1>2 DEF Left, AtPlotters
  <2>2. QED BY <1>1, <2>1 DEF RowsInBlock, Removing, Block
<1>5. \A i \in 1 .. Len(grid) : In(i) <=> i >= at /\ i <= at + n - 1
  BY <1>2, <1>3, <1>4 DEF Removing
<1>6. at \in 1 .. Len(grid) /\ at + n - 1 \in 1 .. Len(grid) /\ In(at)
  BY <1>1, <1>2, <1>3, <1>4 DEF Removing
<1>7. /\ grid' = RemoveAt(grid, at) /\ gui' = "kill"
      /\ job' = [job EXCEPT !.kinds = Kinds]
      /\ typeOf' = typeOf
  BY <1>3, <1>6 DEF DeleteRow
<1>8. job'.at = at /\ job'.rows = n /\ job'.name = job.name
  BY <1>7 DEF JobInv
<1> HIDE DEF at, n
<1>9. /\ GridInv' /\ DOMAIN grid' = 1 .. Len(grid) - 1
      /\ \A j \in 1 .. Len(grid) - 1 : grid'[j] = grid[IF j < at THEN j ELSE j + 1]
  BY <1>6, <1>7, DeleteGrid
<1>10. \A i \in DOMAIN grid : ~In(i) => \E j \in DOMAIN grid' : grid'[j] = grid[i]
  <2> SUFFICES ASSUME NEW i \in 1 .. Len(grid), ~In(i)
               PROVE  \E j \in DOMAIN grid' : grid'[j] = grid[i]
    BY <1>3
  <2>1. i # at BY <1>6
  <2> HIDE DEF In
  <2> DEFINE j == IF i < at THEN i ELSE i - 1
  <2>2. j \in 1 .. Len(grid) - 1 /\ (IF j < at THEN j ELSE j + 1) = i
    BY <1>2, <1>3, <1>6, <2>1
  <2> HIDE DEF j
  <2>3. grid'[j] = grid[i] BY <1>9, <2>2
  <2>4. QED BY <1>9, <2>2, <2>3
<1>11. {i \in DOMAIN grid' : grid'[i].name = job.name} = at .. at + (n - 1) - 1
  <2>1. ASSUME NEW i \in 1 .. Len(grid) - 1
        PROVE  grid'[i].name = job.name <=> i >= at /\ i <= at + (n - 1) - 1
    <3> DEFINE h == IF i < at THEN i ELSE i + 1
    <3>1. h \in 1 .. Len(grid) BY <1>2, <1>3
    <3>2. h >= at /\ h <= at + n - 1 <=> i >= at /\ i <= at + (n - 1) - 1
      BY <1>2, <1>3
    <3>3. grid'[i] = grid[h] BY <1>9
    <3> HIDE DEF h
    <3>4. QED BY <1>5, <3>1, <3>2, <3>3
  <2> HIDE DEF In
  <2>2. ASSUME NEW i \in at .. at + (n - 1) - 1 PROVE i \in 1 .. Len(grid) - 1
    BY <1>2, <1>3, <1>6
  <2>3. QED BY <1>2, <1>3, <1>9, <2>1, <2>2
<1>12. RowsInBlock'
  <2>1. Left' = n - 1 BY <1>2, <1>7, <1>8 DEF Left, AtPlotters
  <2>2. QED BY <1>7, <1>8, <1>11, <2>1 DEF RowsInBlock, Block
<1>13. QED BY <1>6, <1>9, <1>10, <1>12 DEF at

LEMMA BlockStep ==
  ASSUME TypeOK, GridInv, JobInv, RowsInBlock, JobInv', [Next]_vars
  PROVE  RowsInBlock'
<1> SUFFICES ASSUME InRemoval', intact' PROVE Removing' = Block'
  BY DEF RowsInBlock, Removing
<1>1. intact BY IntactStays
<1>2. CASE DeleteRow BY <1>1, <1>2, BlockShrinks DEF RowsInBlock, Removing
<1>3. CASE job' = job /\ gui' = gui /\ ~DeleteRow
  <2>1. InRemoval /\ gui \in {"delete", "kill", "clear"}
    BY <1>3 DEF InRemoval, JobInv, AtPlotters
  <2>2. grid' = grid BY <1>3, <2>1, GridKept
  <2>3. QED BY <1>1, <1>3, <2>1, <2>2 DEF RowsInBlock, Removing, Block, Left, AtPlotters
<1>4. CASE /\ job' = job /\ gui \notin {"delete", "kill", "clear"}
           /\ gui' \notin {"delete", "kill", "clear"}
  BY <1>4 DEF InRemoval, JobInv, AtPlotters
<1>5. CASE Unplot
  <2>1. job'.name = None BY <1>5 DEF Unplot, NoJob
  <2>2. QED BY <2>1 DEF InRemoval
<1>6. CASE Kill
  <2>1. gui = "kill" /\ grid' = grid BY <1>6 DEF Kill, gridVars
  <2>2. CASE gui' \in {"ready", "delete"}
    <3>1. /\ gui' = IF job.name = None THEN "ready" ELSE "delete"
          /\ job' = [job EXCEPT !.kinds = <<>>, !.rows = IF @ = 0 THEN 0 ELSE @ - 1,
                                !.offset = @ + job.size]
      BY <1>6, <2>2 DEF Kill
    <3>2. /\ job'.name = job.name /\ job'.at = job.at
          /\ job'.rows = IF job.rows = 0 THEN 0 ELSE job.rows - 1
          /\ job.rows \in Nat
      BY <3>1 DEF JobInv
    <3>3. job.rows > 0 /\ gui' = "delete" BY <2>1, <3>1, <3>2 DEF InRemoval, JobInv
    <3>4. Left' = Left BY <2>1, <3>2, <3>3 DEF Left, AtPlotters
    <3>5. QED BY <1>1, <2>1, <3>2, <3>4 DEF RowsInBlock, Removing, Block, InRemoval
  <2>3. CASE gui' \notin {"ready", "delete"}
    <3>1. /\ gui' \in {"kill", "clear"}
          /\ job' = [job EXCEPT !.kinds = Tail(@)] \/ job' = job
      BY <1>6, <2>3 DEF Kill
    <3>2. job'.name = job.name /\ job'.at = job.at /\ job'.rows = job.rows
      BY <3>1 DEF JobInv
    <3>3. Left' = Left BY <2>1, <3>1, <3>2 DEF Left, AtPlotters
    <3>4. QED BY <1>1, <2>1, <3>2, <3>3 DEF RowsInBlock, Removing, Block, InRemoval
  <2>4. QED BY <2>2, <2>3
<1>7. CASE Clear
  <2>1. /\ gui = "clear" /\ gui' = "kill" /\ grid' = grid
        /\ job' = [job EXCEPT !.kinds = Tail(@)]
    BY <1>7 DEF Clear, gridVars
  <2>2. job'.name = job.name /\ job'.at = job.at /\ job'.rows = job.rows
    BY <2>1 DEF JobInv
  <2>3. Left' = Left BY <2>1, <2>2 DEF Left, AtPlotters
  <2>4. QED BY <1>1, <2>1, <2>2, <2>3 DEF RowsInBlock, Removing, Block, InRemoval
<1>8. CASE Removed
  <2>1. job'.name = None BY <1>8 DEF Removed, NoJob
  <2>2. QED BY <2>1 DEF InRemoval
<1>9. CASE /\ gui \in {"ready", "removeAll"} /\ grid' = grid
           /\ \E v \in Variable, back \in {"ready", "removeAll"} : BeginRemove(v, back)
  <2>1. PICK v \in Variable, back \in {"ready", "removeAll"} : BeginRemove(v, back)
    BY <1>9
  <2>2. gui' # "ready" BY NoJobFacts DEF JobInv, AtPlotters
  <2>3. /\ gui' = "delete" /\ job' \in JobType /\ job'.name = v
        /\ RowsOf(v) = job'.at .. job'.at + job'.rows - 1
    BY <2>1, <2>2, RemoveStarts
  <2>4. Left' = job'.rows BY <2>3 DEF Left, AtPlotters, JobType
  <2>5. Removing' = RowsOf(v)
    BY <1>9, <2>3, RowAddressNat, PeekPokeAssumption DEF Removing, RowsOf
  <2>6. QED BY <2>3, <2>4, <2>5 DEF Block
<1>10. QED BY <1>2, <1>3, <1>4, <1>5, <1>6, <1>7, <1>8, <1>9, JobMoves

----------------------------------------------------------------------------
(* What the target monitors *)

\* The variable that is being removed stays until the target is told.
LEMMA NameKept ==
  ASSUME TypeOK, GridInv, JobInv, RowsInBlock, intact, [Next]_vars, InRemoval, ~Removed
  PROVE  job'.name = job.name
<1>1. gui \in {"delete", "kill", "clear"} BY DEF JobInv, AtPlotters
<1>2. CASE job' = job BY <1>2
<1>3. CASE Kill
  <2>1. \/ job' = job \/ job' = [job EXCEPT !.kinds = Tail(@)]
        \/ job' = [job EXCEPT !.kinds = <<>>, !.rows = IF @ = 0 THEN 0 ELSE @ - 1,
                              !.offset = @ + job.size]
    BY <1>3 DEF Kill
  <2>2. QED BY <2>1 DEF JobInv
<1>4. CASE Clear BY <1>4 DEF Clear, JobInv
<1>5. CASE DeleteRow
  <2>1. job.at \in 1 .. Len(grid) BY <1>5, BlockShrinks
  <2>2. Len(grid) \in Nat BY DEF GridInv
  <2>3. job' = [job EXCEPT !.kinds = Kinds] BY <1>5, <2>1, <2>2 DEF DeleteRow
  <2>4. QED BY <2>3 DEF JobInv
<1>6. QED BY <1>1, <1>2, <1>3, <1>4, <1>5, JobMoves DEF Unplot

LEMMA WatchedStep ==
  ASSUME TypeOK, GridInv, JobInv, RowsInBlock, Watched, [Next]_vars
  PROVE  Watched'
<1> DEFINE Shown(a)  == \E i \in DOMAIN grid : FirstRowAt(grid[i], a)
           Shown2(a) == \E i \in DOMAIN grid' : FirstRowAt(grid'[i], a)
<1> SUFFICES ASSUME intact', NEW a \in Address, monitored'[a] > 0
             PROVE  (InRemoval' /\ Base[job'.name] = a) \/ Shown2(a)
  BY DEF Watched
<1>1. intact BY IntactStays
<1>3. monitored[a] > 0 => (InRemoval /\ Base[job.name] = a) \/ Shown(a) BY <1>1 DEF Watched
<1>4. monitored \in [Address -> 0 .. MaxElements] BY DEF TypeOK
<1>5. CASE Removed
  <2>1. /\ monitored' = [monitored EXCEPT ![Base[job.name]] = 0]
        /\ grid' = grid
    BY <1>5 DEF Removed, gridVars
  <2>2. a # Base[job.name] /\ monitored[a] > 0 BY <1>4, <2>1
  <2>3. QED BY <1>3, <2>1, <2>2
<1>6. CASE ~Removed /\ monitored[a] > 0 /\ InRemoval /\ Base[job.name] = a
  BY <1>1, <1>6, NameKept DEF InRemoval
<1>7. CASE ~Removed /\ monitored[a] > 0 /\ ~(InRemoval /\ Base[job.name] = a)
  <2>1. PICK i \in DOMAIN grid : FirstRowAt(grid[i], a)
    BY <1>3, <1>7
  <2>2. \E j \in DOMAIN grid' : grid'[j] = grid[i]
    <3>1. CASE grid' = grid BY <3>1
    <3>2. CASE \E v \in Numbered, n \in 1 .. MaxElements, t \in Type : AddVariable(v, n, t)
      BY <3>2, AddGrid, PeekPokeAssumption
    <3>6. CASE \E v \in Variable, n \in 1 .. MaxElements, t \in Type : AddUnnumbered(v, n, t)
      BY <3>6, AddRow
    <3>3. CASE MoveRow BY <3>3, MoveGrid
    <3>4. CASE DeleteRow
      <4>1. InRemoval BY <3>4 DEF DeleteRow, JobInv
      <4>2. grid[i].name # job.name BY <1>7, <2>1, <4>1 DEF FirstRowAt
      <4>3. QED BY <1>1, <2>1, <3>4, <4>2, BlockShrinks
    <3>5. QED BY <3>1, <3>2, <3>3, <3>4, <3>6, GridMoves
  <2>3. QED BY <2>1, <2>2
<1>8. CASE ~Removed /\ ~(monitored[a] > 0)
  <2>1. monitored' # monitored BY <1>8
  <2>2. ~MoveRow /\ ~DeleteRow BY <2>1 DEF MoveRow, DeleteRow
  <2>3. PICK v \in Numbered, n \in 1 .. MaxElements, t \in Type : AddVariable(v, n, t)
    BY <1>8, <2>1, <2>2, GridMoves DEF AddUnnumbered
  <2>4. monitored' = [monitored EXCEPT ![Base[v]] = n] BY <2>1, <2>3 DEF AddVariable
  <2>5. a = Base[v] BY <1>4, <1>8, <2>4
  <2>6. PICK i \in DOMAIN grid' : grid'[i] = Row(v, 0) BY <2>3, AddGrid, PeekPokeAssumption
  <2>7. QED BY <2>5, <2>6 DEF Row, FirstRowAt
<1>9. QED BY <1>5, <1>6, <1>7, <1>8

LEMMA Removes ==
  ASSUME GridInv, JobInv, RowsInBlock, gui = "delete", intact
  PROVE  IF job.rows > 0
           THEN job.at <= Len(grid) /\ grid[job.at].name = job.name
           ELSE \A i \in DOMAIN grid : grid[i].name # job.name
<1>1. job.rows \in Nat /\ job.at \in Nat /\ InRemoval BY DEF JobInv
<1>2. Removing = job.at .. job.at + job.rows - 1
  BY <1>1 DEF RowsInBlock, Removing, Block, Left, AtPlotters
<1>3. CASE job.rows > 0
  <2>1. job.at \in Removing BY <1>1, <1>2, <1>3
  <2>2. DOMAIN grid = 1 .. Len(grid) BY DEF GridInv
  <2>3. QED BY <1>3, <2>1, <2>2 DEF Removing
<1>4. CASE ~(job.rows > 0)
  <2>1. Removing = {} BY <1>1, <1>2, <1>4
  <2>2. QED BY <1>4, <2>1 DEF Removing
<1>5. QED BY <1>3, <1>4

----------------------------------------------------------------------------
(* The plotters *)

\* What a step does to the plotters and to the poll thread.
LEMMA PlotMoves ==
  ASSUME TypeOK, JobInv, [Next]_vars
  PROVE  \/ /\ UNCHANGED <<plotted, alive, disturbed, raced, poll, todo, served, held>>
            /\ gui = "clear" => gui' = "clear" /\ job' = job
         \/ /\ \E v \in Numbered, n \in 1 .. MaxElements, t \in Type : AddVariable(v, n, t)
            /\ UNCHANGED <<poll, todo, served>> /\ gui # "clear"
         \/ Plot \/ Kill \/ Clear \/ PlotterExits \/ Poll \/ Start
<1>1. CASE AddToList
  <2>1. PICK v \in Variable, n \in 1 .. MaxElements, t \in Type :
          IF v \in Numbered THEN AddVariable(v, n, t) ELSE AddUnnumbered(v, n, t)
    BY <1>1 DEF AddToList
  <2>2. CASE v \in Numbered BY <1>1, <2>1, <2>2 DEF AddToList, pollVars
  <2>3. CASE v \notin Numbered
    BY <1>1, <2>1, <2>3 DEF AddToList, AddUnnumbered, pollVars, plotVars
  <2>4. QED BY <2>2, <2>3
<1>2. CASE Load
  <2>1. CASE loading = <<>> BY <1>2, <2>1 DEF Load, plotVars, pollVars
  <2>2. CASE loading # <<>>
    <3>1. Head(loading) \in [name : Numbered, n : 1 .. MaxElements, type : Type]
      BY <2>2, LoadingFacts DEF TypeOK
    <3>2. /\ AddVariable(Head(loading).name, Head(loading).n, Head(loading).type)
          /\ gui = "load"
      BY <1>2, <2>2 DEF Load
    <3>3. QED BY <1>2, <3>1, <3>2 DEF Load, pollVars
  <2>3. QED BY <2>1, <2>2
<1>3. CASE RemoveSelected
  BY <1>3 DEF RemoveSelected, BeginRemove, plotVars, pollVars
<1>4. CASE RemoveAll
  BY <1>4 DEF RemoveAll, BeginRemove, plotVars, pollVars, TypeOK
<1>5. CASE Removed BY <1>5 DEF Removed, plotVars, pollVars, JobInv
<1>6. CASE Callback /\ ~(AddToList \/ Plot \/ RemoveSelected)
  BY <1>6 DEF Callback, MoveRow, Unplot, Open, Exit, Interrupt, plotVars, pollVars
<1>7. CASE Main /\ ~(Kill \/ Clear \/ Load \/ RemoveAll \/ Removed \/ Start)
  BY <1>7 DEF Main, DeleteRow, Loaded, Quit, Tell, Join, plotVars, pollVars
<1>8. CASE Target \/ UNCHANGED vars
  BY <1>8 DEF Target, vars, plotVars, pollVars, jobVars
<1>9. QED BY <1>1, <1>2, <1>3, <1>4, <1>5, <1>6, <1>7, <1>8 DEF Next, Main, Callback

\* Types of what is on record.
LEMMA OfFacts ==
  ASSUME TypeOK
  PROVE  /\ \A a \in Address, k \in Kind : Of(a, k) \in Process \cup {None}
         /\ \A k \in Kind : HeldOf(k) \in Process \cup {None}
         /\ None \notin alive
         /\ None \notin [Kind -> Process \cup {None}]
<1>1. plotted \in [Address -> Plotters] /\ held \in Plotters /\ alive \subseteq Process
  BY DEF TypeOK
<1>2. None \notin Process /\ None \notin [Kind -> Process \cup {None}]
  BY PeekPokeAssumption DEF Kind
<1>3. \A a \in Address, k \in Kind : Of(a, k) \in Process \cup {None}
  <2> SUFFICES ASSUME NEW a \in Address, NEW k \in Kind PROVE Of(a, k) \in Process \cup {None}
    OBVIOUS
  <2>1. plotted[a] \in Plotters BY <1>1
  <2>2. QED BY <2>1 DEF Of, Plotters
<1>4. \A k \in Kind : HeldOf(k) \in Process \cup {None} BY <1>1 DEF HeldOf, Plotters
<1>5. QED BY <1>1, <1>2, <1>3, <1>4

\* The record stays.
LEMMA RecordsKept ==
  ASSUME Records, UNCHANGED <<plotted, held, alive, disturbed>>,
         gui = "clear" => gui' = "clear" /\ job' = job
  PROVE  Records'
<1>1. \A a, k : Of(a, k)' = Of(a, k) BY DEF Of
<1>2. \A k : HeldOf(k)' = HeldOf(k) BY DEF HeldOf
<1>3. QED BY <1>1, <1>2 DEF Records

\* The poll thread lets go of the PlottedVariable it has.
LEMMA RecordsServed ==
  ASSUME Records, UNCHANGED <<plotted, alive, disturbed, gui, job>>, held' \in {held, None}
  PROVE  Records'
<1>1. \A a, k : Of(a, k)' = Of(a, k) BY DEF Of
<1>2. \A k : HeldOf(k)' = HeldOf(k) \/ HeldOf(k)' = None BY DEF HeldOf
<1>3. QED BY <1>1, <1>2 DEF Records

\* Plotters are forgotten, and the poll thread may keep those it is at.
LEMMA RecordsAdd ==
  ASSUME TypeOK, Plots, NEW v \in Numbered, NEW n \in 1 .. MaxElements, NEW t \in Type,
         AddVariable(v, n, t), gui # "clear"
  PROVE  Records'
<1> DEFINE marks == Addresses(v, n, t)
           h == Head(todo)
           keeps == poll \in {"test", "write"} /\ held = None /\ h \in marks
<1>1. /\ plotted' = [a \in Address |-> IF a \in marks THEN NoPlotters ELSE plotted[a]]
      /\ held' = IF keeps THEN plotted[h] ELSE held
      /\ alive' = alive /\ disturbed' = disturbed
  BY DEF AddVariable
<1> HIDE DEF marks
<1>2. keeps => h \in Address /\ plotted[h] # None BY DEF Plots, Thread
<1>3. \A a \in Address, k \in Kind : Of(a, k)' = IF a \in marks THEN None ELSE Of(a, k)
  <2> SUFFICES ASSUME NEW a \in Address, NEW k \in Kind
               PROVE  Of(a, k)' = IF a \in marks THEN None ELSE Of(a, k)
    OBVIOUS
  <2>1. CASE a \in marks
    <3>1. plotted'[a] = NoPlotters BY <1>1, <2>1
    <3>2. QED BY <2>1, <3>1 DEF Of, NoPlotters
  <2>2. CASE a \notin marks
    <3>1. plotted'[a] = plotted[a] BY <1>1, <2>2
    <3>2. QED BY <2>2, <3>1 DEF Of
  <2>3. QED BY <2>1, <2>2
<1>4. \A k \in Kind : HeldOf(k)' = IF keeps THEN Of(h, k) ELSE HeldOf(k)
  BY <1>1, <1>2 DEF HeldOf, Of
<1>5. keeps => h \in Address /\ h \in marks BY <1>2
<1> HIDE DEF h, keeps
<1>6. Records BY DEF Plots
<1>7. \A a, b \in Address, k, l \in Kind :
        Of(a, k)' # None /\ Of(a, k)' = Of(b, l)' => a = b /\ k = l
  BY <1>3, <1>6 DEF Records
<1>8. ASSUME NEW a \in Address, NEW k \in Kind, NEW l \in Kind, HeldOf(k)' # None
      PROVE  HeldOf(k)' # Of(a, l)'
  <2>1. CASE a \in marks BY <1>3, <1>8, <2>1
  <2>2. CASE a \notin marks
    <3>1. CASE keeps BY <1>3, <1>4, <1>5, <1>6, <1>8, <2>2, <3>1 DEF Records
    <3>2. CASE ~keeps BY <1>3, <1>4, <1>6, <1>8, <2>2, <3>2 DEF Records
    <3>3. QED BY <3>1, <3>2
  <2>3. QED BY <2>1, <2>2
<1>9. ~disturbed' => \A a \in Address, k \in Kind : Of(a, k)' # None => Of(a, k)' \in alive'
  BY <1>1, <1>3, <1>6 DEF Records
<1>10. ~disturbed' => \A k \in Kind : HeldOf(k)' # None => HeldOf(k)' \in alive'
  BY <1>1, <1>4, <1>5, <1>6 DEF Records
<1>11. QED BY <1>7, <1>8, <1>9, <1>10 DEF Records

\* What Plot starts.
LEMMA PlotFacts ==
  ASSUME TypeOK, GridInv, Plot
  PROVE  /\ UNCHANGED <<gui, job, held, disturbed, raced, poll, todo, served>>
         /\ gui # "clear"
         /\ \E a \in Address, k \in Kind, p \in NewProcess :
              /\ plotted[a] # None /\ Of(a, k) = None
              /\ plotted' = [plotted EXCEPT ![a] = [plotted[a] EXCEPT ![k] = p]]
              /\ alive' = alive \cup {p}
<1>1. PICK i \in DOMAIN grid, k \in Kind :
        LET a == RowAddress(grid[i]) IN
        /\ ButtonOf(grid[i], k) = "plot"
        /\ a \in Address /\ plotted[a] # None
        /\ LET p == CHOOSE p \in NewProcess : TRUE IN
           /\ plotted' = [plotted EXCEPT ![a][k] = p]
           /\ alive' = alive \cup {p}
  BY DEF Plot
<1> DEFINE a == RowAddress(grid[i])
           p == CHOOSE p \in NewProcess : TRUE
<1>2. p \in NewProcess BY DEF Plot
<1>3. /\ a \in Address /\ plotted[a] # None
      /\ plotted' = [plotted EXCEPT ![a] = [plotted[a] EXCEPT ![k] = p]]
      /\ alive' = alive \cup {p}
      /\ ButtonOf(grid[i], k) = "plot"
  BY <1>1
<1>4. Of(a, k) = None BY <1>3 DEF Of, ButtonOf
<1> HIDE DEF a, p
<1>5. /\ UNCHANGED <<gui, job, held, disturbed, raced, poll, todo, served>>
      /\ gui # "clear"
  BY DEF Plot, pollVars, jobVars
<1>6. QED BY <1>2, <1>3, <1>4, <1>5

LEMMA PlotsPlot ==
  ASSUME TypeOK, GridInv, Plots, Plot
  PROVE  Plots'
<1>1. /\ UNCHANGED <<gui, job, held, disturbed, raced, poll, todo, served>>
      /\ gui # "clear"
  BY PlotFacts
<1>2. PICK a \in Address, k \in Kind, p \in NewProcess :
        /\ plotted[a] # None /\ Of(a, k) = None
        /\ plotted' = [plotted EXCEPT ![a] = [plotted[a] EXCEPT ![k] = p]]
        /\ alive' = alive \cup {p}
  BY PlotFacts
<1>3. plotted[a] \in [Kind -> Process \cup {None}]
  BY <1>2 DEF TypeOK, Plotters
<1>4. /\ plotted'[a] = [plotted[a] EXCEPT ![k] = p]
      /\ \A b \in Address : b # a => plotted'[b] = plotted[b]
  BY <1>2 DEF TypeOK
<1>5. p \in Process /\ p \notin alive /\ p \notin Registered BY DEF NewProcess
<1>6. p # None BY <1>5, PeekPokeAssumption
<1>7. plotted'[a] # None
  <2>1. plotted'[a] \in [Kind -> Process \cup {None}] BY <1>3, <1>4, <1>5
  <2>2. QED BY <2>1, OfFacts
<1>8. \A b \in Address, l \in Kind : Of(b, l)' = IF b = a /\ l = k THEN p ELSE Of(b, l)
  <2> SUFFICES ASSUME NEW b \in Address, NEW l \in Kind
               PROVE  Of(b, l)' = IF b = a /\ l = k THEN p ELSE Of(b, l)
    OBVIOUS
  <2>1. CASE b = a
    <3>1. plotted'[a][l] = IF l = k THEN p ELSE plotted[a][l] BY <1>3, <1>4
    <3>2. QED BY <1>2, <1>7, <2>1, <3>1 DEF Of
  <2>2. CASE b # a BY <1>4, <2>2 DEF Of
  <2>3. QED BY <2>1, <2>2
<1>9. \A l : HeldOf(l)' = HeldOf(l) BY <1>1 DEF HeldOf
<1>10. \A b \in Address, l \in Kind : Of(b, l) # p
  <2> SUFFICES ASSUME NEW b \in Address, NEW l \in Kind, Of(b, l) = p PROVE FALSE OBVIOUS
  <2>1. plotted[b] # None /\ plotted[b][l] = p BY <1>6 DEF Of
  <2>2. QED BY <1>5, <2>1 DEF Registered
<1>11. \A l \in Kind : HeldOf(l) # p
  <2> SUFFICES ASSUME NEW l \in Kind, HeldOf(l) = p PROVE FALSE OBVIOUS
  <2>1. held # None /\ held[l] = p BY <1>6 DEF HeldOf
  <2>2. held \in [Kind -> Process \cup {None}] BY <2>1 DEF TypeOK, Plotters
  <2>3. p \in Range(held) BY <2>1, <2>2 DEF Range
  <2>4. QED BY <1>5, <2>1, <2>3 DEF Registered
<1>12. Records'
  <2>1. Records BY DEF Plots
  <2>2. \A b, c \in Address, l, m \in Kind :
          Of(b, l)' # None /\ Of(b, l)' = Of(c, m)' => b = c /\ l = m
    BY <1>8, <1>10, <2>1 DEF Records
  <2>3. \A b \in Address, l, m \in Kind : HeldOf(l)' # None => HeldOf(l)' # Of(b, m)'
    BY <1>8, <1>9, <1>11, <2>1 DEF Records
  <2>4. ~disturbed' => \A b \in Address, l \in Kind : Of(b, l)' # None => Of(b, l)' \in alive'
    BY <1>1, <1>2, <1>8, <2>1 DEF Records
  <2>5. ~disturbed' => \A l \in Kind : HeldOf(l)' # None => HeldOf(l)' \in alive'
    BY <1>1, <1>2, <1>9, <2>1 DEF Records
  <2>6. QED BY <2>2, <2>3, <2>4, <2>5 DEF Records
<1>13. Thread'
  <2>1. poll \in {"test", "write"} /\ held = None =>
          Head(todo) \in Address /\ plotted[Head(todo)] # None
    BY DEF Plots, Thread
  <2>2. poll' \in {"test", "write"} /\ held' = None =>
          Head(todo') \in Address /\ plotted'[Head(todo')] # None
    BY <1>1, <1>4, <1>7, <2>1
  <2>3. ASSUME poll' = "write", ~raced' PROVE Plotter' # None
    <3>1. Plotter # None /\ Kinds[served] \in Kind
      BY <1>1, <2>3, KindsFacts DEF Plots, Thread, TypeOK
    <3>2. CASE held # None BY <1>1, <3>1, <3>2 DEF Plotter
    <3>3. CASE held = None
      <4> DEFINE h == Head(todo)
                 q == Kinds[served]
      <4>1. /\ h \in Address /\ plotted[h] # None /\ plotted'[h] # None
            /\ Plotter = plotted[h][q] /\ Plotter' = plotted'[h][q]
        BY <1>1, <2>1, <2>2, <2>3, <3>3 DEF Plotter
      <4>2. q \in Kind BY <3>1
      <4> HIDE DEF h, q
      <4>3. plotted'[h][q] = IF h = a /\ q = k THEN p ELSE plotted[h][q]
        BY <1>3, <1>4, <4>1, <4>2
      <4>4. QED BY <1>6, <3>1, <4>1, <4>3
    <3>4. QED BY <3>2, <3>3
  <2>4. QED BY <2>2, <2>3 DEF Thread
<1>14. QED BY <1>12, <1>13 DEF Plots

\* AddVariable replaces PlottedVariables: the poll thread keeps the one it is at.
LEMMA ThreadAdd ==
  ASSUME Thread, NEW v \in Numbered, NEW n \in 1 .. MaxElements, NEW t \in Type,
         AddVariable(v, n, t), UNCHANGED <<poll, todo, served>>
  PROVE  Thread'
<1> DEFINE marks == Addresses(v, n, t)
           h == Head(todo)
<1>1. /\ plotted' = [a \in Address |-> IF a \in marks THEN NoPlotters ELSE plotted[a]]
      /\ held' = IF /\ poll \in {"test", "write"} /\ held = None
                    /\ h \in marks
                   THEN plotted[h] ELSE held
      /\ raced' = raced
  BY DEF AddVariable
<1> HIDE DEF marks
<1>2. CASE poll \in {"test", "write"}
  <2>1. CASE held # None
    <3>1. held' = held /\ Plotter' = Plotter BY <1>1, <2>1 DEF Plotter
    <3>2. QED BY <1>1, <2>1, <3>1 DEF Thread
  <2>2. CASE held = None
    <3>1. h \in Address /\ plotted[h] # None BY <1>2, <2>2 DEF Thread
    <3>2. CASE h \in marks
      <4>1. held' = plotted[h] BY <1>1, <1>2, <2>2, <3>2
      <4>2. Plotter' = Plotter BY <2>2, <3>1, <4>1 DEF Plotter
      <4>3. QED BY <1>1, <3>1, <4>1, <4>2 DEF Thread
    <3>3. CASE h \notin marks
      <4>1. held' = None /\ plotted'[h] = plotted[h] BY <1>1, <2>2, <3>1, <3>3
      <4>2. Plotter' = Plotter BY <2>2, <4>1 DEF Plotter
      <4>3. QED BY <1>1, <3>1, <4>1, <4>2 DEF Thread
    <3>4. QED BY <3>2, <3>3
  <2>3. QED BY <2>1, <2>2
<1>3. CASE poll \notin {"test", "write"} BY <1>3 DEF Thread
<1>4. QED BY <1>2, <1>3

LEMMA PlotsPoll ==
  ASSUME TypeOK, Plots, Poll
  PROVE  Plots'
<1>1. UNCHANGED <<plotted, alive, disturbed, raced, gui, job>>
  BY DEF Poll, Check, Reset, OpenQueue, Retrieve, Show, Fetch, Test, Write,
         PollUnchanged, plotVars, jobVars
<1>2. CASE Served /\ poll \in {"test", "write"}
  <2>1. held' \in {held, None} /\ poll' # "write" BY <1>2 DEF Served
  <2>2. CASE poll' = "test"
    <3>1. UNCHANGED <<todo, held>> BY <1>2, <2>2 DEF Served
    <3>2. QED BY <1>1, <1>2, <2>1, <2>2, <3>1, RecordsServed DEF Plots, Thread
  <2>3. CASE poll' # "test" BY <1>1, <2>1, <2>3, RecordsServed DEF Plots, Thread
  <2>4. QED BY <2>2, <2>3
<1>3. CASE Check \/ Reset \/ OpenQueue \/ Retrieve \/ Show
  <2>1. held' = held /\ poll' \notin {"test", "write"}
    BY <1>3 DEF Check, Reset, OpenQueue, Retrieve, Show
  <2>2. QED BY <1>1, <2>1, RecordsServed DEF Plots, Thread
<1>4. CASE Fetch
  <2>1. held' = held /\ poll' # "write" BY <1>4 DEF Fetch
  <2>2. poll' = "test" => /\ todo' = todo
                          /\ Head(todo) \in Address /\ plotted[Head(todo)] # None
    BY <1>4 DEF Fetch
  <2>3. QED BY <1>1, <2>1, <2>2, RecordsServed DEF Plots, Thread
<1>5. CASE Test
  <2>1. CASE Plotter = None BY <1>2, <1>5, <2>1 DEF Test
  <2>2. CASE Plotter # None
    <3>1. poll = "test" /\ poll' = "write" /\ UNCHANGED <<served, held, todo>>
      BY <1>5, <2>2 DEF Test
    <3>2. Plotter' = Plotter BY <1>1, <3>1 DEF Plotter
    <3>3. QED BY <1>1, <2>2, <3>1, <3>2, RecordsServed DEF Plots, Thread
  <2>3. QED BY <2>1, <2>2
<1>6. CASE Write
  <2>1. CASE Plotter \in alive BY <1>2, <1>6, <2>1 DEF Write
  <2>2. CASE Plotter \notin alive
    <3>1. poll' = "crashed" /\ held' = held BY <1>6, <2>2 DEF Write
    <3>2. QED BY <1>1, <3>1, RecordsServed DEF Plots, Thread
  <2>3. QED BY <2>1, <2>2
<1>7. QED BY <1>3, <1>4, <1>5, <1>6 DEF Poll

\* The plotter that is killed, alone, stops running: it is on record once.
LEMMA PlotsKill ==
  ASSUME TypeOK, JobInv, Plots, Kill
  PROVE  Plots'
<1>1. /\ UNCHANGED <<plotted, disturbed, raced, poll, todo, served, held>> /\ gui = "kill"
  BY DEF Kill, pollVars
<1>2. Plotter' = Plotter BY <1>1 DEF Plotter
<1>3. Thread' BY <1>1, <1>2 DEF Plots, Thread
<1>4. Records BY DEF Plots
<1>5. CASE alive' = alive BY <1>1, <1>3, <1>4, <1>5, RecordsKept DEF Plots
<1>6. CASE alive' # alive
  <2> DEFINE a == job.offset
             k == Head(job.kinds)
             p == plotted[a][k]
  <2>1. /\ a \in Address /\ plotted[a] # None /\ job.kinds # <<>>
        /\ gui' = IF p = None THEN "kill" ELSE "clear"
        /\ job' = IF gui' = "kill" THEN [job EXCEPT !.kinds = Tail(@)] ELSE job
        /\ alive' = alive \ {p}
    BY <1>6 DEF Kill
  <2>2. k \in Kind BY <2>1, HeadTailProperties DEF JobInv
  <2>3. p # None
    <3>1. None \notin alive BY OfFacts
    <3>2. QED BY <1>6, <2>1, <3>1
  <2>4. gui' = "clear" /\ job' = job BY <2>1, <2>3
  <2>5. p = Of(a, k) BY <2>1 DEF Of
  <2> HIDE DEF a, k, p
  <2>6. job'.offset = a /\ Head(job'.kinds) = k BY <2>4 DEF a, k
  <2>7. \A b, l : Of(b, l)' = Of(b, l) BY <1>1 DEF Of
  <2>8. \A l : HeldOf(l)' = HeldOf(l) BY <1>1 DEF HeldOf
  <2>9. ASSUME ~disturbed', NEW b \in Address, NEW l \in Kind, Of(b, l)' # None,
               ~(gui' = "clear" /\ b = job'.offset /\ l = Head(job'.kinds))
        PROVE  Of(b, l)' \in alive'
    <3>1. Of(b, l) \in alive BY <1>1, <1>4, <2>7, <2>9 DEF Records
    <3>2. ~(b = a /\ l = k) BY <2>4, <2>6, <2>9
    <3>3. Of(b, l) # p BY <1>4, <2>1, <2>2, <2>3, <2>5, <3>2 DEF Records
    <3>4. QED BY <2>1, <2>7, <3>1, <3>3
  <2>10. ASSUME ~disturbed', NEW l \in Kind, HeldOf(l)' # None PROVE HeldOf(l)' \in alive'
    <3>1. HeldOf(l) \in alive BY <1>1, <1>4, <2>8, <2>10 DEF Records
    <3>2. HeldOf(l) # p BY <1>4, <2>1, <2>2, <2>5, <2>8, <2>10 DEF Records
    <3>3. QED BY <2>1, <2>8, <3>1, <3>2
  <2>11. Records' BY <1>4, <2>7, <2>8, <2>9, <2>10 DEF Records
  <2>12. QED BY <1>3, <2>11 DEF Plots
<1>7. QED BY <1>5, <1>6

\* The killed plotter is taken off the record.
LEMMA PlotsClear ==
  ASSUME TypeOK, JobInv, Plots, Clear
  PROVE  Plots'
<1> DEFINE a == job.offset
           k == Head(job.kinds)
<1>1. /\ gui = "clear" /\ gui' = "kill"
      /\ UNCHANGED <<alive, disturbed, poll, todo, served, held>>
      /\ plotted' = [plotted EXCEPT ![a] = [plotted[a] EXCEPT ![k] = None]]
      /\ raced' = (raced \/ (poll = "write" /\ AtIt))
  BY DEF Clear, pollVars
<1>2. a \in Address /\ plotted[a] # None /\ k \in Kind
  BY <1>1, HeadTailProperties DEF JobInv
<1>3. AtIt <=> held = None /\ Head(todo) = a /\ Kinds[served] = k BY DEF AtIt
<1>4. ~disturbed => \A b \in Address, l \in Kind :
        Of(b, l) # None /\ ~(b = a /\ l = k) => Of(b, l) \in alive
  BY <1>1 DEF Plots, Records
<1> HIDE DEF a, k
<1>5. plotted[a] \in [Kind -> Process \cup {None}] BY <1>2 DEF TypeOK, Plotters
<1>6. /\ plotted'[a] = [plotted[a] EXCEPT ![k] = None]
      /\ \A b \in Address : b # a => plotted'[b] = plotted[b]
  BY <1>1, <1>2 DEF TypeOK
<1>7. plotted'[a] # None
  <2>1. plotted'[a] \in [Kind -> Process \cup {None}] BY <1>5, <1>6
  <2>2. QED BY <2>1, OfFacts
<1>8. \A b \in Address, l \in Kind : Of(b, l)' = IF b = a /\ l = k THEN None ELSE Of(b, l)
  <2> SUFFICES ASSUME NEW b \in Address, NEW l \in Kind
               PROVE  Of(b, l)' = IF b = a /\ l = k THEN None ELSE Of(b, l)
    OBVIOUS
  <2>1. CASE b = a
    <3>1. plotted'[a][l] = IF l = k THEN None ELSE plotted[a][l] BY <1>5, <1>6
    <3>2. QED BY <1>2, <1>7, <2>1, <3>1 DEF Of
  <2>2. CASE b # a BY <1>6, <2>2 DEF Of
  <2>3. QED BY <2>1, <2>2
<1>9. \A l : HeldOf(l)' = HeldOf(l) BY <1>1 DEF HeldOf
<1>10. Records'
  <2>1. Records BY DEF Plots
  <2>2. \A b, c \in Address, l, m \in Kind :
          Of(b, l)' # None /\ Of(b, l)' = Of(c, m)' => b = c /\ l = m
    BY <1>8, <2>1 DEF Records
  <2>3. \A b \in Address, l, m \in Kind : HeldOf(l)' # None => HeldOf(l)' # Of(b, m)'
    BY <1>8, <1>9, <2>1 DEF Records
  <2>4. ~disturbed' => \A b \in Address, l \in Kind : Of(b, l)' # None => Of(b, l)' \in alive'
    BY <1>1, <1>4, <1>8
  <2>5. ~disturbed' => \A l \in Kind : HeldOf(l)' # None => HeldOf(l)' \in alive'
    BY <1>1, <1>9, <2>1 DEF Records
  <2>6. QED BY <2>2, <2>3, <2>4, <2>5 DEF Records
<1>11. Thread'
  <2>1. poll \in {"test", "write"} /\ held = None =>
          Head(todo) \in Address /\ plotted[Head(todo)] # None
    BY DEF Plots, Thread
  <2>2. poll' \in {"test", "write"} /\ held' = None =>
          Head(todo') \in Address /\ plotted'[Head(todo')] # None
    BY <1>1, <1>6, <1>7, <2>1
  <2>3. ASSUME poll' = "write", ~raced' PROVE Plotter' # None
    <3>1. ~AtIt /\ Plotter # None /\ Kinds[served] \in Kind
      BY <1>1, <2>3, KindsFacts DEF Plots, Thread, TypeOK
    <3>2. CASE held # None BY <1>1, <3>1, <3>2 DEF Plotter
    <3>3. CASE held = None
      <4> DEFINE h == Head(todo)
                 q == Kinds[served]
      <4>1. /\ h \in Address /\ plotted[h] # None /\ plotted'[h] # None
            /\ Plotter = plotted[h][q] /\ Plotter' = plotted'[h][q]
        BY <1>1, <2>1, <2>2, <2>3, <3>3 DEF Plotter
      <4>2. q \in Kind /\ ~(h = a /\ q = k) BY <1>3, <3>1, <3>3
      <4> HIDE DEF h, q
      <4>3. plotted'[h][q] = plotted[h][q] BY <1>5, <1>6, <4>1, <4>2
      <4>4. QED BY <3>1, <4>1, <4>3
    <3>4. QED BY <3>2, <3>3
  <2>4. QED BY <2>2, <2>3 DEF Thread
<1>12. QED BY <1>10, <1>11 DEF Plots

LEMMA PlotsStep ==
  ASSUME TypeOK, GridInv, JobInv, Plots, [Next]_vars
  PROVE  Plots'
<1>1. CASE /\ UNCHANGED <<plotted, alive, disturbed, raced, poll, todo, served, held>>
           /\ gui = "clear" => gui' = "clear" /\ job' = job
  <2>1. Records' BY <1>1, RecordsKept DEF Plots
  <2>2. Thread' BY <1>1 DEF Plots, Thread, Plotter
  <2>3. QED BY <2>1, <2>2 DEF Plots
<1>2. CASE Start
  <2>1. /\ gui # "clear" /\ poll' = "check"
        /\ UNCHANGED <<plotted, alive, disturbed, held>>
    BY <1>2 DEF Start, plotVars
  <2>2. QED BY <2>1, RecordsKept DEF Plots, Thread
<1>3. CASE PlotterExits
  <2>1. disturbed' /\ UNCHANGED <<plotted, raced, poll, todo, served, held>>
    BY <1>3 DEF PlotterExits, pollVars
  <2>2. \A a, k : Of(a, k)' = Of(a, k) BY <2>1 DEF Of
  <2>3. \A k : HeldOf(k)' = HeldOf(k) BY <2>1 DEF HeldOf
  <2>4. Records' BY <2>1, <2>2, <2>3 DEF Plots, Records
  <2>5. Thread' BY <2>1 DEF Plots, Thread, Plotter
  <2>6. QED BY <2>4, <2>5 DEF Plots
<1>4. CASE /\ \E v \in Numbered, n \in 1 .. MaxElements, t \in Type : AddVariable(v, n, t)
           /\ UNCHANGED <<poll, todo, served>> /\ gui # "clear"
  BY <1>4, RecordsAdd, ThreadAdd DEF Plots
<1>5. QED
  BY <1>1, <1>2, <1>3, <1>4, PlotMoves, PlotsPoll, PlotsPlot, PlotsKill, PlotsClear

----------------------------------------------------------------------------
(* The types *)

LEMMA NamesStep ==
  ASSUME TypeOK, [Next]_vars
  PROVE  nameOf' \in [Address -> Variable \cup {None}]
<1>1. nameOf \in [Address -> Variable \cup {None}] BY DEF TypeOK
<1>2. CASE \E v \in Numbered, n \in 1 .. MaxElements, t \in Type : AddVariable(v, n, t)
  <2>1. PICK v \in Numbered, n \in 1 .. MaxElements, t \in Type : AddVariable(v, n, t)
    BY <1>2
  <2> DEFINE rows == Missing(v, IF t = Octet THEN 1 ELSE n)
  <2>2. nameOf' = [a \in Address |->
                     IF \E i \in DOMAIN rows : a = Base[v] + Size[t] * rows[i].element
                       THEN v ELSE nameOf[a]]
    BY <2>1 DEF AddVariable
  <2> HIDE DEF rows
  <2>3. QED BY <1>1, <2>2, PeekPokeAssumption
<1>3. CASE nameOf' = nameOf BY <1>1, <1>3
<1>4. QED BY <1>2, <1>3, GridMoves DEF AddUnnumbered, MoveRow, DeleteRow

LEMMA MonitoredStep ==
  ASSUME TypeOK, JobInv, [Next]_vars
  PROVE  monitored' \in [Address -> 0 .. MaxElements]
<1>1. monitored \in [Address -> 0 .. MaxElements] /\ MaxElements \in Nat
  BY PeekPokeAssumption DEF TypeOK
<1>2. CASE \E v \in Numbered, n \in 1 .. MaxElements, t \in Type : AddVariable(v, n, t)
  <2>1. PICK v \in Numbered, n \in 1 .. MaxElements, t \in Type : AddVariable(v, n, t)
    BY <1>2
  <2>2. monitored' = [monitored EXCEPT ![Base[v]] = n] \/ monitored' = monitored
    BY <2>1 DEF AddVariable
  <2>3. n \in 0 .. MaxElements BY <1>1
  <2>4. QED BY <1>1, <2>2, <2>3
<1>3. CASE Removed
  <2>1. \/ monitored' = [monitored EXCEPT ![Base[job.name]] = 0]
        \/ monitored' = monitored
    BY <1>3 DEF Removed
  <2>2. 0 \in 0 .. MaxElements BY <1>1
  <2>3. QED BY <1>1, <2>1, <2>2
<1>4. CASE monitored' = monitored BY <1>1, <1>4
<1>5. QED BY <1>2, <1>3, <1>4, GridMoves DEF AddUnnumbered, MoveRow, DeleteRow

LEMMA PlottersStep ==
  ASSUME TypeOK, GridInv, JobInv, Plots, [Next]_vars
  PROVE  /\ plotted' \in [Address -> Plotters] /\ held' \in Plotters
         /\ alive' \subseteq Process /\ served' \in DOMAIN Kinds /\ {disturbed', raced'} \subseteq BOOLEAN
<1>1. /\ plotted \in [Address -> Plotters] /\ held \in Plotters
      /\ alive \subseteq Process /\ served \in DOMAIN Kinds /\ {disturbed, raced} \subseteq BOOLEAN
  BY DEF TypeOK
<1>2. CASE UNCHANGED <<plotted, alive, disturbed, raced, poll, todo, served, held>>
  BY <1>1, <1>2
<1>3. CASE /\ \E v \in Numbered, n \in 1 .. MaxElements, t \in Type : AddVariable(v, n, t)
           /\ UNCHANGED <<poll, todo, served>>
  <2>1. PICK v \in Numbered, n \in 1 .. MaxElements, t \in Type : AddVariable(v, n, t)
    BY <1>3
  <2> DEFINE marks == Addresses(v, n, t)
  <2>2. /\ plotted' = [a \in Address |-> IF a \in marks THEN NoPlotters ELSE plotted[a]]
        /\ held' = IF /\ poll \in {"test", "write"} /\ held = None
                      /\ Head(todo) \in marks
                     THEN plotted[Head(todo)] ELSE held
        /\ UNCHANGED <<alive, disturbed, raced>>
    BY <2>1 DEF AddVariable
  <2> HIDE DEF marks
  <2>3. NoPlotters \in Plotters BY DEF NoPlotters, Plotters
  <2>4. plotted' \in [Address -> Plotters] BY <1>1, <2>2, <2>3
  <2>5. held' \in Plotters BY <1>1, <2>2 DEF Plots, Thread
  <2>6. QED BY <1>1, <1>3, <2>2, <2>4, <2>5
<1>4. CASE Plot
  <2>1. PICK a \in Address, k \in Kind, p \in NewProcess :
          /\ plotted[a] # None /\ Of(a, k) = None
          /\ plotted' = [plotted EXCEPT ![a] = [plotted[a] EXCEPT ![k] = p]]
          /\ alive' = alive \cup {p}
    BY <1>4, PlotFacts
  <2>2. p \in Process BY DEF NewProcess
  <2>3. [plotted[a] EXCEPT ![k] = p] \in Plotters BY <1>1, <2>1, <2>2 DEF Plotters
  <2>4. plotted' \in [Address -> Plotters] BY <1>1, <2>1, <2>3
  <2>5. UNCHANGED <<held, disturbed, raced, served>> BY <1>4, PlotFacts
  <2>6. QED BY <1>1, <2>1, <2>2, <2>4, <2>5
<1>5. CASE Kill
  <2>1. UNCHANGED <<plotted, held, served, disturbed, raced>> BY <1>5 DEF Kill, pollVars
  <2>2. alive' \subseteq alive BY <1>5 DEF Kill
  <2>3. QED BY <1>1, <2>1, <2>2
<1>6. CASE Clear
  <2> DEFINE a == job.offset
             k == Head(job.kinds)
  <2>1. /\ gui = "clear" /\ UNCHANGED <<alive, disturbed, held, served>>
        /\ raced' \in BOOLEAN
        /\ plotted' = [plotted EXCEPT ![a] = [plotted[a] EXCEPT ![k] = None]]
    BY <1>6 DEF Clear, AtIt, pollVars
  <2>2. a \in Address /\ plotted[a] # None BY <2>1 DEF JobInv
  <2> HIDE DEF a, k
  <2>3. [plotted[a] EXCEPT ![k] = None] \in Plotters BY <1>1, <2>2 DEF Plotters
  <2>4. plotted' \in [Address -> Plotters] BY <1>1, <2>1, <2>2, <2>3
  <2>5. QED BY <1>1, <2>1, <2>4
<1>7. CASE PlotterExits
  <2>1. /\ alive' \subseteq alive /\ disturbed' = TRUE
        /\ UNCHANGED <<raced, plotted, held, served>>
    BY <1>7 DEF PlotterExits, pollVars
  <2>2. QED BY <1>1, <2>1
<1>8. CASE Start
  BY <1>1, <1>8 DEF Start, plotVars
<1>9. CASE Poll
  <2>1. UNCHANGED <<plotted, alive, disturbed, raced>>
    BY <1>9 DEF Poll, Check, Reset, OpenQueue, Retrieve, Show, Fetch, Test, Write,
                PollUnchanged, plotVars
  <2>2. CASE Served
    <3>1. served' \in DOMAIN Kinds
      <4>1. CASE served < Len(Kinds)
        <5>1. served' = served + 1 BY <2>2, <4>1 DEF Served
        <5>2. QED BY <1>1, <4>1, <5>1, KindsFacts
      <4>2. CASE ~(served < Len(Kinds))
        <5>1. served' = 1 BY <2>2, <4>2 DEF Served
        <5>2. QED BY <5>1, KindsFacts
      <4>3. QED BY <4>1, <4>2
    <3>2. held' \in Plotters BY <1>1, <2>2 DEF Served, Plotters
    <3>3. QED BY <1>1, <2>1, <3>1, <3>2
  <2>3. CASE UNCHANGED <<served, held>> BY <1>1, <2>1, <2>3
  <2>4. QED
    BY <1>9, <2>2, <2>3 DEF Poll, Check, Reset, OpenQueue, Retrieve, Show, Fetch, Test, Write
<1>10. QED BY <1>2, <1>3, <1>4, <1>5, <1>6, <1>7, <1>8, <1>9, PlotMoves

LEMMA QueueStep ==
  ASSUME TypeOK, queue \in Seq(Message), [Next]_vars
  PROVE  queue' \in Seq(Message) /\ Len(queue') <= MaxQueue
<1>1. queue \in Seq(Message) /\ Len(queue) \in Nat /\ Len(queue) <= MaxQueue
      /\ MaxQueue \in Nat
  BY LenProperties, PeekPokeAssumption DEF TypeOK
<1>2. CASE Target
  <2>1. Len(queue) < MaxQueue BY <1>2 DEF Target
  <2>2. PICK a \in Address :
          monitored[a] > 0 /\ queue' = Append(queue, [address |-> a, n |-> monitored[a]])
    BY <1>2 DEF Target
  <2> DEFINE m == [address |-> a, n |-> monitored[a]]
  <2>3. m \in Message
    <3>1. monitored[a] \in 0 .. MaxElements BY DEF TypeOK
    <3>2. monitored[a] \in 1 .. MaxElements BY <2>2, <3>1, PeekPokeAssumption
    <3>3. QED BY <3>2 DEF Message
  <2> HIDE DEF m
  <2>4. Append(queue, m) \in Seq(Message) /\ Len(Append(queue, m)) = Len(queue) + 1
    BY <1>1, <2>3, AppendProperties
  <2>5. QED BY <1>1, <2>1, <2>2, <2>4 DEF m
<1>3. CASE Retrieve
  <2>1. CASE queue' = queue BY <1>1, <2>1
  <2>2. CASE queue # <<>> /\ queue' = Tail(queue)
    <3>1. Tail(queue) \in Seq(Message) /\ Len(Tail(queue)) = Len(queue) - 1
      BY <1>1, <2>2, HeadTailProperties
    <3>2. QED BY <1>1, <2>2, <3>1
  <2>3. QED BY <1>3, <2>1, <2>2 DEF Retrieve
<1>4. CASE queue' = queue BY <1>1, <1>4
<1>5. CASE Callback
  BY <1>4, <1>5 DEF Callback, AddToList, MoveRow, Plot, Unplot, RemoveSelected, Open, Exit, Interrupt
<1>6. CASE Main
  BY <1>4, <1>6 DEF Main, Start, Kill, Clear, DeleteRow, Removed, RemoveAll, Load, Loaded,
                    Quit, Tell, Join
<1>7. CASE Poll /\ ~Retrieve
  BY <1>4, <1>7 DEF Poll, Check, Reset, OpenQueue, Show, Fetch, Test, Write
<1>8. CASE PlotterExits \/ UNCHANGED vars BY <1>4, <1>8 DEF PlotterExits, vars
<1>9. QED BY <1>2, <1>3, <1>5, <1>6, <1>7, <1>8 DEF Next

\* Where the callback and the main program are.
LEMMA GuiStep ==
  ASSUME TypeOK, JobInv, [Next]_vars
  PROVE  /\ gui' \in {"starting", "ready", "delete", "kill", "clear", "removeAll", "load",
                      "replot", "quit", "tell", "join", "exited"}
         /\ after' \in {"quit", "load"} /\ locked' \in BOOLEAN
         /\ bDie' \in {None, TRUE, FALSE} /\ intact' \in BOOLEAN
         /\ poll' \in {"new", "check", "reset", "open", "sleep", "poll", "show", "fetch",
                       "test", "write", "ended", "crashed"}
<1>1. CASE AddToList \/ Load
  <2>1. intact' \in BOOLEAN BY <1>1 DEF AddToList, Load, AddVariable, AddUnnumbered, TypeOK
  <2>2. UNCHANGED <<gui, after, locked, bDie, poll>> \/ gui' = "replot"
    BY <1>1 DEF AddToList, Load, pollVars, jobVars
  <2>3. UNCHANGED <<after, locked, bDie, poll>>
    BY <1>1 DEF AddToList, Load, pollVars, jobVars
  <2>4. QED BY <2>1, <2>2, <2>3 DEF TypeOK
<1>2. CASE RemoveSelected
  BY <1>2 DEF RemoveSelected, BeginRemove, pollVars, TypeOK
<1>3. CASE RemoveAll BY <1>3 DEF RemoveAll, BeginRemove, pollVars, TypeOK
<1>4. CASE Removed BY <1>4 DEF Removed, pollVars, TypeOK, JobInv
<1>5. CASE MoveRow \/ Plot \/ Unplot \/ Open \/ Exit \/ Interrupt
  BY <1>5 DEF MoveRow, Plot, Unplot, Open, Exit, Interrupt, pollVars, jobVars, TypeOK
<1>6. CASE Start \/ Kill \/ Clear \/ DeleteRow \/ Loaded \/ Quit \/ Tell \/ Join
  BY <1>6 DEF Start, Kill, Clear, DeleteRow, Loaded, Quit, Tell, Join, pollVars, jobVars,
              TypeOK
<1>7. CASE Poll
  <2>1. UNCHANGED <<gui, after, locked, intact>>
    BY <1>7 DEF Poll, Check, Reset, OpenQueue, Retrieve, Show, Fetch, Test, Write,
                PollUnchanged, jobVars
  <2>2. bDie' \in {None, TRUE, FALSE}
    BY <1>7 DEF Poll, Check, Reset, OpenQueue, Retrieve, Show, Fetch, Test, Write, TypeOK
  <2>3. CASE Served /\ poll' # "crashed" BY <2>1, <2>2, <2>3 DEF Served, TypeOK
  <2>4. CASE ~Served
    BY <1>7, <2>1, <2>2, <2>4 DEF Poll, Check, Reset, OpenQueue, Retrieve, Show, Fetch,
                Test, Write, TypeOK
  <2>5. QED BY <2>1, <2>2, <2>3, <2>4 DEF TypeOK
<1>8. CASE PlotterExits \/ Target \/ UNCHANGED vars
  <2>1. UNCHANGED <<gui, after, locked, bDie, intact, poll>>
    BY <1>8 DEF PlotterExits, Target, vars, pollVars, jobVars
  <2>2. QED BY <2>1 DEF TypeOK
<1>9. QED BY <1>1, <1>2, <1>3, <1>4, <1>5, <1>6, <1>7, <1>8 DEF Next, Main, Callback

LEMMA LoadingStep ==
  ASSUME TypeOK, [Next]_vars
  PROVE  (\E f \in File : loading' \in Suffixes(f)) /\ calls' \in 0 .. MaxCalls
<1>1. \E f \in File : loading \in Suffixes(f) BY DEF TypeOK
<1>2. calls' \in 0 .. MaxCalls
  <2>1. calls \in 0 .. MaxCalls /\ MaxCalls \in Nat BY PeekPokeAssumption DEF TypeOK
  <2>2. (calls < MaxCalls /\ calls' = calls + 1) \/ calls' = calls
    BY DEF Next, Callback, vars
  <2>3. QED BY <2>1, <2>2
<1>3. CASE Load
  <2>1. CASE loading = <<>> BY <1>1, <1>2, <1>3, <2>1 DEF Load
  <2>2. CASE loading # <<>> BY <1>1, <1>2, <1>3, <2>2, LoadingFacts DEF Load
  <2>3. QED BY <2>1, <2>2
<1>4. CASE Open
  <2>1. PICK f \in File : loading' = f BY <1>4 DEF Open
  <2>2. f \in Seq([name : Numbered, n : 1 .. MaxElements, type : Type])
    BY PeekPokeAssumption
  <2>3. f \in Suffixes(f)
    <3>1. CASE f = <<>> BY <3>1 DEF Suffixes
    <3>2. CASE f # <<>>
      <4>1. Len(f) \in Nat \ {0} BY <2>2, <3>2, EmptySeq
      <4>2. SubSeq(f, 1, Len(f)) = f BY <2>2, SubSeqFull
      <4>3. QED BY <4>1, <4>2 DEF Suffixes
    <3>3. QED BY <3>1, <3>2
  <2>4. QED BY <1>2, <2>1, <2>3
<1>5. CASE loading' = loading BY <1>1, <1>2, <1>5
<1>6. CASE Callback /\ ~Open
  BY <1>5, <1>6 DEF Callback, AddToList, MoveRow, Plot, Unplot, RemoveSelected, Exit,
                    Interrupt, jobVars
<1>7. CASE Main /\ ~Load
  BY <1>5, <1>7 DEF Main, Start, Kill, Clear, DeleteRow, Removed, RemoveAll, Loaded,
                    Quit, Tell, Join, jobVars
<1>8. CASE Poll
  BY <1>5, <1>8 DEF Poll, Check, Reset, OpenQueue, Retrieve, Show, Fetch, Test, Write,
                    PollUnchanged, jobVars
<1>9. CASE PlotterExits \/ Target \/ UNCHANGED vars
  BY <1>5, <1>9 DEF PlotterExits, Target, vars, jobVars
<1>10. QED BY <1>2, <1>3, <1>4, <1>6, <1>7, <1>8, <1>9 DEF Next

LEMMA TypeStep ==
  ASSUME TypeOK, GridInv, JobInv, Plots, queue \in Seq(Message), GridInv', [Next]_vars
  PROVE  TypeOK'
<1>1. /\ \A i \in DOMAIN grid' : grid'[i] \in [name : Variable, element : 0 .. MaxElements - 1]
      /\ IsInjective(grid)' /\ typeOf' \in [Variable -> Type \cup {None}]
  <2>1. grid' \in Seq(GridRow) BY DEF GridInv
  <2>2. \A i \in DOMAIN grid' : grid'[i] \in GridRow BY <2>1, ElementOfSeq, LenProperties
  <2>3. QED BY <2>2 DEF GridInv, GridRow
<1>2. {intact', disturbed', raced'} \subseteq BOOLEAN BY GuiStep, PlottersStep
<1>3. QED
  BY <1>1, <1>2, NamesStep, MonitoredStep, PlottersStep, QueueStep, GuiStep, LoadingStep
  DEF TypeOK

----------------------------------------------------------------------------
(* The theorems *)

LEMMA Initially == Init => IInv
<1> SUFFICES ASSUME Init PROVE IInv OBVIOUS
<1>1. grid = <<>> /\ grid \in Seq(GridRow) /\ DOMAIN grid = {} BY DEF Init
<1>2. GridInv BY <1>1 DEF Init, GridInv, IsInjective
<1>3. queue \in Seq(Message) /\ Len(queue) = 0 BY EmptySeq DEF Init
<1>4. JobInv BY NoJobFacts DEF Init, JobInv, JobType, InRemoval
<1>5. RowsInBlock BY NoJobFacts DEF Init, RowsInBlock, InRemoval
<1>6. Watched BY DEF Init, Watched
<1>7. Plots BY DEF Init, Plots, Records, Thread, Of, HeldOf
<1>8. TypeOK
  <2>1. monitored \in [Address -> 0 .. MaxElements] BY PeekPokeAssumption DEF Init
  <2>2. Len(queue) <= MaxQueue BY <1>3, PeekPokeAssumption
  <2>3. \E f \in File : loading \in Suffixes(f)
    BY PeekPokeAssumption DEF Init, Suffixes
  <2>4. calls \in 0 .. MaxCalls BY PeekPokeAssumption DEF Init
  <2>5. served \in DOMAIN Kinds BY KindsFacts DEF Init
  <2>6. {intact, disturbed, raced} \subseteq BOOLEAN BY DEF Init
  <2>7. IsInjective(grid) /\ typeOf \in [Variable -> Type \cup {None}]
    BY <1>2 DEF GridInv
  <2>8. /\ nameOf \in [Address -> Variable \cup {None}]
        /\ plotted \in [Address -> Plotters] /\ held \in Plotters
        /\ alive \subseteq Process
    BY DEF Init, Plotters
  <2>9. /\ gui \in {"starting", "ready", "delete", "kill", "clear", "removeAll", "load",
                    "replot", "quit", "tell", "join", "exited"}
        /\ after \in {"quit", "load"} /\ locked \in BOOLEAN
        /\ bDie \in {None, TRUE, FALSE}
        /\ poll \in {"new", "check", "reset", "open", "sleep", "poll", "show", "fetch",
                     "test", "write", "ended", "crashed"}
    BY DEF Init
  <2>10. QED
    BY <1>1, <2>1, <2>2, <2>3, <2>4, <2>5, <2>6, <2>7, <2>8, <2>9 DEF TypeOK
<1>9. QED BY <1>2, <1>3, <1>4, <1>5, <1>6, <1>7, <1>8 DEF IInv

\* The types hold, the rows of the variable that is being removed stand in one
\* block, what is monitored is shown, and a plotter on record is there once and runs
\* until it ends of itself or is about to be taken off the record, whatever the
\* callbacks of AddToMonitorList, on_RemoveMonitoring and on_Plot and the poll
\* thread do between them.
THEOREM Inductive == Spec => []IInv
<1>1. ASSUME IInv, [Next]_vars PROVE IInv'
  <2>1. /\ TypeOK /\ GridInv /\ queue \in Seq(Message) /\ JobInv /\ RowsInBlock
        /\ Watched /\ Plots
    BY <1>1 DEF IInv
  <2>2. GridInv' BY <1>1, <2>1, GridStep
  <2>3. JobInv' BY <1>1, <2>1, JobStep
  <2>4. RowsInBlock' BY <1>1, <2>1, <2>3, BlockStep
  <2>5. Watched' BY <1>1, <2>1, WatchedStep
  <2>6. Plots' BY <1>1, <2>1, PlotsStep
  <2>7. TypeOK' BY <1>1, <2>1, <2>2, TypeStep
  <2>8. queue' \in Seq(Message) BY <1>1, <2>1, QueueStep
  <2>9. QED BY <2>2, <2>3, <2>4, <2>5, <2>6, <2>7, <2>8 DEF IInv
<1>2. QED BY <1>1, Initially, PTL DEF Spec

\* Whatever the target monitors has its first row in the grid, but for what is
\* being removed, as long as telecommands arrive and removals find their rows
\* together: the user can remove it, and on_Exit does.
THEOREM MonitoredCanBeRemoved == Spec => []WatchedIsShown
<1>1. IInv => WatchedIsShown BY DEF IInv, Watched, FirstRowAt, InRemoval, WatchedIsShown
<1>2. QED BY <1>1, Inductive, PTL

\* The poll thread, which reads plottedVariables without the lock, dies of nothing
\* but a plotter that ended of itself, a row whose offset is no number and the two
\* windows of on_UnPlot and on_RemoveMonitoring: after the kill of the plotter it
\* is at, and when the FIFO is forgotten between its test and its write.
THEOREM PollThreadSurvives == Spec => PollSurvives
<1> DEFINE Excused == \/ disturbed \/ ~AllNumbered \/ raced
                      \/ gui = "clear" /\ AtIt
<1>1. ASSUME IInv, [Next]_vars, poll # "crashed", poll' = "crashed" PROVE Excused
  <2>1. TypeOK /\ JobInv /\ Plots BY <1>1 DEF IInv
  <2>2. CASE Poll
    <3>1. Show \/ Write
      BY <1>1, <2>2 DEF Poll, Check, Reset, OpenQueue, Retrieve, Show, Fetch, Test, Write, Served
    <3>2. CASE Show BY <1>1, <3>2 DEF Show, Unreadable, AllNumbered
    <3>3. CASE Write
      <4>1. poll = "write" /\ Plotter \notin alive BY <1>1, <3>3 DEF Write, Served
      <4>2. SUFFICES ASSUME ~disturbed, ~raced, ~(gui = "clear" /\ AtIt) PROVE FALSE
        OBVIOUS
      <4>3. Plotter # None /\ Kinds[served] \in Kind
        BY <2>1, <4>1, <4>2, KindsFacts DEF Plots, Thread, TypeOK
      <4>4. CASE held # None
        <5>1. Plotter = HeldOf(Kinds[served]) BY <4>4 DEF Plotter, HeldOf
        <5>2. QED BY <2>1, <4>1, <4>2, <4>3, <5>1 DEF Plots, Records
      <4>5. CASE held = None
        <5>1. Head(todo) \in Address /\ Plotter = Of(Head(todo), Kinds[served])
          BY <2>1, <4>1, <4>5 DEF Plotter, Of, Plots, Thread
        <5>2. ~(gui = "clear" /\ Head(todo) = job.offset /\ Kinds[served] = Head(job.kinds))
          BY <4>2, <4>5 DEF AtIt
        <5>3. QED BY <2>1, <4>1, <4>2, <4>3, <5>1, <5>2 DEF Plots, Records
      <4>6. QED BY <4>4, <4>5
    <3>4. QED BY <3>1, <3>2, <3>3
  <2>3. CASE ~Poll
    BY <1>1, <2>1, <2>3, PlotMoves, PlotFacts DEF Kill, Clear, PlotterExits, Start, pollVars, Plot
  <2>4. QED BY <2>2, <2>3
<1>2. IInv /\ [Next]_vars => [poll # "crashed" /\ poll' = "crashed" => Excused]_vars
  BY <1>1
<1> HIDE DEF Excused
<1>3. Spec => [][poll # "crashed" /\ poll' = "crashed" => Excused]_vars
  BY <1>2, Inductive, PTL DEF Spec
<1>4. QED BY <1>3 DEF Excused, PollSurvives

\* The deletions of on_RemoveMonitoring, all at the place of the first row, take
\* the rows of the variable, and all of them.
THEOREM DeletesItsRows == Spec => RemovesVariable
<1> DEFINE P == gui = "delete" /\ intact =>
                  IF job.rows > 0
                    THEN job.at <= Len(grid) /\ grid[job.at].name = job.name
                    ELSE \A i \in DOMAIN grid : grid[i].name # job.name
<1>1. IInv => P BY Removes DEF IInv
<1> HIDE DEF P
<1>2. Spec => []P BY <1>1, Inductive, PTL
<1>3. Spec => [][P]_vars BY <1>2, PTL
<1>4. QED BY <1>3 DEF P, RemovesVariable
=============================================================================
