--------------------------- MODULE Streams_proofs ---------------------------
(***************************************************************************)
(* Proofs about the rewriting token stream, for any number of tokens and   *)
(* instructions (TokenRewrite), and about the character stream and the     *)
(* lexer that reads it (Lexer).                                            *)
(***************************************************************************)
EXTENDS TokenRewrite, Lexer, SequenceTheorems, FiniteSetTheorems, WellFoundedInduction,
        TLAPS

----------------------------------------------------------------------------
(* Induction, over the numbers in a set, and what FoldLeft computes         *)

LEMMA Induct ==
  ASSUME NEW S, 0 \in S, \A n \in Nat : n \in S => n + 1 \in S
  PROVE  \A n \in Nat : n \in S
<1> DEFINE T == Nat \ S
<1> SUFFICES ASSUME T # {} PROVE FALSE
  OBVIOUS
<1>1. PICK x \in T : \A y \in T : ~(<<y, x>> \in OpToRel(<, Nat))
  <2>1. T \subseteq Nat OBVIOUS
  <2> HIDE DEF T
  <2>2. QED BY <2>1, WFMin, NatLessThanWellFounded
<1>2. x \in Nat /\ x # 0 /\ x \notin S OBVIOUS
<1>3. x - 1 \in Nat BY <1>2
<1>4. x - 1 < x BY <1>2
<1>5. <<x - 1, x>> \in OpToRel(<, Nat) BY <1>2, <1>3, <1>4 DEF OpToRel
<1>6. x - 1 \in S BY <1>1, <1>3, <1>5
<1>7. (x - 1) + 1 = x BY <1>2
<1>8. QED BY <1>2, <1>3, <1>6, <1>7

LEMMA Greatest ==
  ASSUME NEW n \in Nat, NEW s \in SUBSET (1 .. n), s # {}
  PROVE  Max(s) \in s /\ \A y \in s : y <= Max(s)
<1> DEFINE S == {k \in Nat : \A t \in SUBSET (1 .. k) :
                   t # {} => \E x \in t : \A y \in t : x >= y}
<1>1. 0 \in S
  <2>1. 1 .. 0 = {} OBVIOUS
  <2>2. QED BY <2>1
<1>2. ASSUME NEW k \in Nat, k \in S PROVE k + 1 \in S
  <2>1. ASSUME NEW t \in SUBSET (1 .. k + 1), t # {} PROVE \E x \in t : \A y \in t : x >= y
    <3>1. CASE k + 1 \in t BY <3>1
    <3>2. CASE k + 1 \notin t
      <4>1. \A y \in 1 .. k + 1 : y # k + 1 => y \in 1 .. k OBVIOUS
      <4>2. t \in SUBSET (1 .. k) BY <3>2, <4>1
      <4>3. QED BY <1>2, <2>1, <4>2
    <3>3. QED BY <3>1, <3>2
  <2>2. QED BY <2>1
<1> HIDE DEF S
<1>3. n \in S BY <1>1, <1>2, Induct
<1>4. \E x \in s : \A y \in s : x >= y BY <1>3 DEF S
<1>5. Max(s) \in s /\ \A y \in s : Max(s) >= y BY <1>4 DEF Max
<1>6. QED BY <1>5

\* The recursion of MapThenFoldSet over the first n numbers.
Iterates(n, v, F, f) ==
  \A s \in SUBSET (1 .. n) :
    f[s] = IF s = {} THEN v ELSE F[<<f[s \ {Max(s)}], Max(s)>>]

LEMMA Iteration ==
  ASSUME NEW n \in Nat, NEW V, NEW v \in V, NEW F \in [V \X (1 .. n) -> V]
  PROVE  \E f \in [SUBSET (1 .. n) -> V] : Iterates(n, v, F, f)
<1> DEFINE Right(f, s) == f[s] = IF s = {} THEN v ELSE F[<<f[s \ {Max(s)}], Max(s)>>]
           S == {k \in Nat : \E f \in [SUBSET (1 .. n) -> V] :
                   \A s \in SUBSET (1 .. n) : s \subseteq 1 .. k => Right(f, s)}
<1>1. 0 \in S
  <2>1. [s \in SUBSET (1 .. n) |-> v] \in [SUBSET (1 .. n) -> V] OBVIOUS
  <2>2. \A s \in SUBSET (1 .. n) : s \subseteq 1 .. 0 => s = {} OBVIOUS
  <2>3. QED BY <2>1, <2>2
<1>2. ASSUME NEW k \in Nat, k \in S PROVE k + 1 \in S
  <2>1. PICK f \in [SUBSET (1 .. n) -> V] :
          \A s \in SUBSET (1 .. n) : s \subseteq 1 .. k => Right(f, s)
    BY <1>2
  <2> DEFINE New(s) == k + 1 \in s /\ s \subseteq 1 .. k + 1
             g == [s \in SUBSET (1 .. n) |->
                     IF New(s) THEN F[<<f[s \ {k + 1}], k + 1>>] ELSE f[s]]
  <2>2. g \in [SUBSET (1 .. n) -> V]
    <3>1. ASSUME NEW s \in SUBSET (1 .. n), New(s)
          PROVE  F[<<f[s \ {k + 1}], k + 1>>] \in V
      <4>1. s \ {k + 1} \in SUBSET (1 .. n) /\ k + 1 \in 1 .. n BY <3>1
      <4>2. QED BY <4>1
    <3>2. QED BY <3>1
  <2>3. ASSUME NEW s \in SUBSET (1 .. n), s \subseteq 1 .. k + 1 PROVE Right(g, s)
    <3>1. CASE k + 1 \in s
      <4>1. s # {} /\ k + 1 \in 1 .. n BY <3>1
      <4>2. Max(s) \in s /\ \A y \in s : y <= Max(s) BY <4>1, Greatest
      <4>3. Max(s) \in 1 .. k + 1 /\ k + 1 <= Max(s) BY <2>3, <3>1, <4>2
      <4>4. Max(s) = k + 1 BY <4>3
      <4>5. s \ {k + 1} \in SUBSET (1 .. n) /\ ~New(s \ {k + 1}) OBVIOUS
      <4>6. g[s \ {k + 1}] = f[s \ {k + 1}] BY <4>5
      <4>7. g[s] = F[<<f[s \ {k + 1}], k + 1>>] BY <2>3, <3>1
      <4>8. QED BY <4>1, <4>4, <4>6, <4>7
    <3>2. CASE k + 1 \notin s
      <4>1. \A y \in 1 .. k + 1 : y # k + 1 => y \in 1 .. k OBVIOUS
      <4>2. s \subseteq 1 .. k /\ ~New(s) BY <2>3, <3>2, <4>1
      <4>3. s \ {Max(s)} \in SUBSET (1 .. n) /\ ~New(s \ {Max(s)}) BY <3>2
      <4>4. g[s] = f[s] /\ g[s \ {Max(s)}] = f[s \ {Max(s)}] BY <4>2, <4>3
      <4>5. Right(f, s) BY <2>1, <4>2
      <4>6. QED BY <4>4, <4>5
    <3>3. QED BY <3>1, <3>2
  <2> HIDE DEF g
  <2>4. \A s \in SUBSET (1 .. n) : s \subseteq 1 .. k + 1 => Right(g, s) BY <2>3
  <2> HIDE DEF Right
  <2>5. QED BY <2>2, <2>4
<1> HIDE DEF S
<1>3. n \in S BY <1>1, <1>2, Induct
<1>4. QED BY <1>3 DEF S, Iterates

\* The values of a fold, from the first number upwards.
Folds(n, V, v, F, g) ==
  g \in [0 .. n -> V] /\ g[0] = v /\ \A i \in 1 .. n : g[i] = F[<<g[i - 1], i>>]

FoldedBy(n, V, v, F, f) ==
  /\ F \in [V \X (1 .. n) -> V] /\ f[{}] = v
  /\ \A s \in SUBSET (1 .. n) : s # {} /\ f[s \ {Max(s)}] \in V =>
       f[s] = F[<<f[s \ {Max(s)}], Max(s)>>]

LEMMA Folded ==
  ASSUME NEW n \in Nat, NEW V, NEW v \in V, NEW F, NEW f, FoldedBy(n, V, v, F, f)
  PROVE  \E g : Folds(n, V, v, F, g) /\ g[n] = f[1 .. n]
<1> USE DEF FoldedBy
<1> DEFINE g == [i \in 0 .. n |-> f[1 .. i]]
<1>1. g[0] = v
  <2>1. 1 .. 0 = {} /\ 0 \in 0 .. n OBVIOUS
  <2>2. QED BY <2>1
<1>2. ASSUME NEW i \in 1 .. n, g[i - 1] \in V PROVE g[i] = F[<<g[i - 1], i>>]
  <2>1. /\ 1 .. i \in SUBSET (1 .. n) /\ 1 .. i # {} /\ i \in 1 .. i
        /\ i \in 0 .. n /\ i - 1 \in 0 .. n
    OBVIOUS
  <2>2. Max(1 .. i) \in 1 .. i /\ \A y \in 1 .. i : y <= Max(1 .. i) BY <2>1, Greatest
  <2>3. Max(1 .. i) = i
    <3>1. i <= Max(1 .. i) BY <2>1, <2>2
    <3>2. QED BY <2>2, <3>1
  <2>4. (1 .. i) \ {i} = 1 .. i - 1 OBVIOUS
  <2>5. g[i] = f[1 .. i] /\ g[i - 1] = f[1 .. i - 1] BY <2>1
  <2>6. f[1 .. i - 1] \in V BY <1>2, <2>5
  <2> HIDE DEF g
  <2>7. f[1 .. i] = F[<<f[1 .. i - 1], i>>] BY <2>1, <2>3, <2>4, <2>6
  <2>8. QED BY <2>5, <2>7
<1>3. g[n] = f[1 .. n] /\ g = [i \in 0 .. n |-> g[i]] OBVIOUS
<1> HIDE DEF g
<1>4. \A i \in 0 .. n : g[i] \in V
  <2> DEFINE S == {k \in Nat : k \in 0 .. n => g[k] \in V}
  <2>1. 0 \in S BY <1>1
  <2>2. ASSUME NEW k \in Nat, k \in S PROVE k + 1 \in S
    <3>1. SUFFICES ASSUME k + 1 \in 0 .. n PROVE g[k + 1] \in V
      OBVIOUS
    <3>2. k \in 0 .. n /\ k + 1 \in 1 .. n /\ (k + 1) - 1 = k BY <3>1
    <3>3. g[k] \in V BY <2>2, <3>2
    <3>4. g[k + 1] = F[<<g[k], k + 1>>] BY <1>2, <3>2, <3>3
    <3>5. QED BY <3>2, <3>3, <3>4
  <2> HIDE DEF S
  <2>3. \A k \in Nat : k \in S BY <2>1, <2>2, Induct
  <2>4. QED BY <2>3 DEF S
<1>5. \A i \in 1 .. n : i - 1 \in 0 .. n OBVIOUS
<1>6. \A i \in 1 .. n : g[i] = F[<<g[i - 1], i>>] BY <1>2, <1>4, <1>5
<1>7. Folds(n, V, v, F, g) BY <1>1, <1>3, <1>4, <1>6 DEF Folds
<1>8. QED BY <1>3, <1>7

AllReplaces(n, v) == FoldLeft(WalkReplace, v, [i \in 1 .. n |-> i])
AllInserts(n, v)  == FoldLeft(WalkInsert, v, [i \in 1 .. n |-> i])
AllExecuted(n, v, p, begin) ==
  FoldLeft(LAMBDA s, i : Execute(p, s, i), v, [k \in 1 .. n |-> begin + k - 1])

ClosedReplaces(n, V) == \A s \in V, i \in 1 .. n : WalkReplace(s, i) \in V
ReplacesWalked(n, V, v) ==
  \E g \in [0 .. n -> V] :
    /\ g[0] = v /\ \A i \in 1 .. n : g[i] = WalkReplace(g[i - 1], i)
    /\ AllReplaces(n, v) = g[n]

LEMMA ReplacesFolded ==
  ASSUME NEW n \in Nat, NEW V, NEW v \in V, ClosedReplaces(n, V)
  PROVE  ReplacesWalked(n, V, v)
<1> USE DEF ClosedReplaces, ReplacesWalked
<1> DEFINE F == [x \in V \X (1 .. n) |-> WalkReplace(x[1], x[2])]
           Is(f) == f = [s \in SUBSET (1 .. n) |->
                           IF s = {} THEN v
                           ELSE WalkReplace(f[s \ {Max(s)}], [i \in 1 .. n |-> i][Max(s)])]
           iter == CHOOSE f : Is(f)
<1>1. F \in [V \X (1 .. n) -> V] /\ \A s \in V, i \in 1 .. n : F[<<s, i>>] = WalkReplace(s, i)
  OBVIOUS
<1> HIDE DEF F
<1>2. PICK f \in [SUBSET (1 .. n) -> V] : Iterates(n, v, F, f) BY <1>1, Iteration
<1>3. \A s \in SUBSET (1 .. n) : s # {} => Max(s) \in 1 .. n /\ [i \in 1 .. n |-> i][Max(s)] = Max(s)
  <2>1. \A s \in SUBSET (1 .. n) : s # {} => Max(s) \in s BY Greatest
  <2>2. QED BY <2>1
<1>4. Is(f)
  <2>1. \A s \in SUBSET (1 .. n) : s # {} => f[s] = WalkReplace(f[s \ {Max(s)}], Max(s))
    <3>1. \A s \in SUBSET (1 .. n) : f[s \ {Max(s)}] \in V BY <1>2
    <3>2. QED BY <1>1, <1>2, <1>3, <3>1 DEF Iterates
  <2>2. f[{}] = v BY <1>2 DEF Iterates
  <2>3. f = [s \in SUBSET (1 .. n) |-> f[s]] BY <1>2
  <2>4. QED BY <1>3, <2>1, <2>2, <2>3
<1>5. Is(iter) BY <1>4
<1>6. AllReplaces(n, v) = iter[1 .. n]
  BY Zenon DEF AllReplaces, FoldLeft, MapThenFoldSet
<1> HIDE DEF iter
<1>7. FoldedBy(n, V, v, F, iter) BY <1>1, <1>3, <1>5 DEF FoldedBy
<1>8. PICK g : Folds(n, V, v, F, g) /\ g[n] = iter[1 .. n] BY <1>7, Folded
<1>9. \A i \in 1 .. n : g[i - 1] \in V /\ g[i] = WalkReplace(g[i - 1], i)
  <2>1. \A i \in 1 .. n : i - 1 \in 0 .. n OBVIOUS
  <2>2. QED BY <1>1, <1>8, <2>1 DEF Folds
<1>10. QED BY <1>6, <1>8, <1>9 DEF Folds

ClosedInserts(n, V) == \A s \in V, i \in 1 .. n : WalkInsert(s, i) \in V
InsertsWalked(n, V, v) ==
  \E g \in [0 .. n -> V] :
    /\ g[0] = v /\ \A i \in 1 .. n : g[i] = WalkInsert(g[i - 1], i)
    /\ AllInserts(n, v) = g[n]

LEMMA InsertsFolded ==
  ASSUME NEW n \in Nat, NEW V, NEW v \in V, ClosedInserts(n, V)
  PROVE  InsertsWalked(n, V, v)
<1> USE DEF ClosedInserts, InsertsWalked
<1> DEFINE F == [x \in V \X (1 .. n) |-> WalkInsert(x[1], x[2])]
           Is(f) == f = [s \in SUBSET (1 .. n) |->
                           IF s = {} THEN v
                           ELSE WalkInsert(f[s \ {Max(s)}], [i \in 1 .. n |-> i][Max(s)])]
           iter == CHOOSE f : Is(f)
<1>1. F \in [V \X (1 .. n) -> V] /\ \A s \in V, i \in 1 .. n : F[<<s, i>>] = WalkInsert(s, i)
  OBVIOUS
<1> HIDE DEF F
<1>2. PICK f \in [SUBSET (1 .. n) -> V] : Iterates(n, v, F, f) BY <1>1, Iteration
<1>3. \A s \in SUBSET (1 .. n) : s # {} => Max(s) \in 1 .. n /\ [i \in 1 .. n |-> i][Max(s)] = Max(s)
  <2>1. \A s \in SUBSET (1 .. n) : s # {} => Max(s) \in s BY Greatest
  <2>2. QED BY <2>1
<1>4. Is(f)
  <2>1. \A s \in SUBSET (1 .. n) : s # {} => f[s] = WalkInsert(f[s \ {Max(s)}], Max(s))
    <3>1. \A s \in SUBSET (1 .. n) : f[s \ {Max(s)}] \in V BY <1>2
    <3>2. QED BY <1>1, <1>2, <1>3, <3>1 DEF Iterates
  <2>2. f[{}] = v BY <1>2 DEF Iterates
  <2>3. f = [s \in SUBSET (1 .. n) |-> f[s]] BY <1>2
  <2>4. QED BY <1>3, <2>1, <2>2, <2>3
<1>5. Is(iter) BY <1>4
<1>6. AllInserts(n, v) = iter[1 .. n]
  BY Zenon DEF AllInserts, FoldLeft, MapThenFoldSet
<1> HIDE DEF iter
<1>7. FoldedBy(n, V, v, F, iter) BY <1>1, <1>3, <1>5 DEF FoldedBy
<1>8. PICK g : Folds(n, V, v, F, g) /\ g[n] = iter[1 .. n] BY <1>7, Folded
<1>9. \A i \in 1 .. n : g[i - 1] \in V /\ g[i] = WalkInsert(g[i - 1], i)
  <2>1. \A i \in 1 .. n : i - 1 \in 0 .. n OBVIOUS
  <2>2. QED BY <1>1, <1>8, <2>1 DEF Folds
<1>10. QED BY <1>6, <1>8, <1>9 DEF Folds

ClosedExecutions(n, V, p, begin) == \A s \in V, i \in 1 .. n : Execute(p, s, begin + i - 1) \in V
ExecutionsWalked(n, V, v, p, begin) ==
  \E g \in [0 .. n -> V] :
    /\ g[0] = v /\ \A i \in 1 .. n : g[i] = Execute(p, g[i - 1], begin + i - 1)
    /\ AllExecuted(n, v, p, begin) = g[n]

LEMMA ExecutionsFolded ==
  ASSUME NEW n \in Nat, NEW V, NEW v \in V, NEW p, NEW begin \in Nat, ClosedExecutions(n, V, p, begin)
  PROVE  ExecutionsWalked(n, V, v, p, begin)
<1> USE DEF ClosedExecutions, ExecutionsWalked
<1> DEFINE F == [x \in V \X (1 .. n) |-> Execute(p, x[1], begin + x[2] - 1)]
           Is(f) == f = [s \in SUBSET (1 .. n) |->
                           IF s = {} THEN v
                           ELSE Execute(p, f[s \ {Max(s)}], [k \in 1 .. n |-> begin + k - 1][Max(s)])]
           iter == CHOOSE f : Is(f)
<1>1. F \in [V \X (1 .. n) -> V] /\ \A s \in V, i \in 1 .. n : F[<<s, i>>] = Execute(p, s, begin + i - 1)
  OBVIOUS
<1> HIDE DEF F
<1>2. PICK f \in [SUBSET (1 .. n) -> V] : Iterates(n, v, F, f) BY <1>1, Iteration
<1>3. \A s \in SUBSET (1 .. n) : s # {} =>
        Max(s) \in 1 .. n /\ [k \in 1 .. n |-> begin + k - 1][Max(s)] = begin + Max(s) - 1
  <2>1. \A s \in SUBSET (1 .. n) : s # {} => Max(s) \in s BY Greatest
  <2>2. QED BY <2>1
<1>4. Is(f)
  <2>1. \A s \in SUBSET (1 .. n) : s # {} => f[s] = Execute(p, f[s \ {Max(s)}], begin + Max(s) - 1)
    <3>1. \A s \in SUBSET (1 .. n) : f[s \ {Max(s)}] \in V BY <1>2
    <3>2. QED BY <1>1, <1>2, <1>3, <3>1 DEF Iterates
  <2>2. f[{}] = v BY <1>2 DEF Iterates
  <2>3. f = [s \in SUBSET (1 .. n) |-> f[s]] BY <1>2
  <2>4. QED BY <1>3, <2>1, <2>2, <2>3
<1>5. Is(iter) BY <1>4
<1>6. AllExecuted(n, v, p, begin) = iter[1 .. n]
  BY Zenon DEF AllExecuted, FoldLeft, MapThenFoldSet
<1> HIDE DEF iter
<1>7. FoldedBy(n, V, v, F, iter) BY <1>1, <1>3, <1>5 DEF FoldedBy
<1>8. PICK g : Folds(n, V, v, F, g) /\ g[n] = iter[1 .. n] BY <1>7, Folded
<1>9. \A i \in 1 .. n : g[i - 1] \in V /\ g[i] = Execute(p, g[i - 1], begin + i - 1)
  <2>1. \A i \in 1 .. n : i - 1 \in 0 .. n OBVIOUS
  <2>2. QED BY <1>1, <1>8, <2>1 DEF Folds
<1>10. QED BY <1>6, <1>8, <1>9 DEF Folds

----------------------------------------------------------------------------
(* Operations and programs                                                  *)

\* What an instruction brings.
Bit == [op : 1 .. MaxOps]

\* What the instructions make of operations.
Good == {o \in Op : /\ o.first <= o.last
                    /\ o.kind = "insert" => o.last = o.first
                    /\ o.kind = "replace" => o.last \in Token}
Programs(n) == [1 .. n -> Good \cup {None}]
States(n) == [p : Programs(n), error : BOOLEAN]

Alike(o, r) == o.kind = r.kind /\ o.first = r.first /\ o.last = r.last

LEMMA GoodIs ==
  ASSUME NEW o \in Good
  PROVE  /\ o # None /\ o \in Op /\ o.kind \in {"insert", "replace"}
         /\ o.first \in Nat /\ o.last \in Nat /\ o.first <= o.last /\ o.last <= NTokens
         /\ o.kind = "insert" => o.last = o.first
         /\ o.kind = "replace" => o.last < NTokens
         /\ o.text \in Seq(Bit) /\ NTokens \in Nat
BY TokenRewriteAssumption DEF Good, Op, Bit, Token

LEMMA GoodWith ==
  ASSUME NEW o \in Good, NEW t \in Seq(Bit)
  PROVE  [o EXCEPT !.text = t] \in Good /\ Alike([o EXCEPT !.text = t], o)
         /\ [o EXCEPT !.text = t].text = t
<1> DEFINE S == Seq([op : 1 .. MaxOps])
<1>1. t \in S BY DEF Bit
<1> HIDE DEF S
<1>2. QED BY <1>1 DEF Good, Op, Alike, S

\* Operations are dropped and get other texts, nothing else.
Thinned(p, q) ==
  \A k \in DOMAIN p : q[k] # None => p[k] # None /\ Alike(q[k], p[k])

LEMMA ThinnedTwice ==
  ASSUME NEW n \in Nat, NEW p \in Programs(n), NEW q \in Programs(n), NEW r \in Programs(n),
         Thinned(p, q), Thinned(q, r)
  PROVE  Thinned(p, r)
BY DEF Thinned, Programs, Alike

LEMMA Dropped ==
  ASSUME NEW n \in Nat, NEW p \in Programs(n), NEW gone
  PROVE  /\ Drop(p, gone) \in Programs(n)
         /\ \A k \in 1 .. n : Drop(p, gone)[k] = IF k \in gone THEN None ELSE p[k]
BY DEF Drop, Programs

\* Each operation of that kind, of the first i, has nothing before it in its range.
Spaced(p, i, kind) ==
  \A a \in 1 .. i : IsKind(p[a], kind) =>
    \A j \in 1 .. a - 1 : p[j] # None => Lazy!Apart(p[a], p[j])

LEMMA ThinnedSpaced ==
  ASSUME NEW n \in Nat, NEW p \in Programs(n), NEW q \in Programs(n), Thinned(p, q),
         NEW i \in 0 .. n, NEW kind, Spaced(p, i, kind)
  PROVE  Spaced(q, i, kind)
<1> SUFFICES ASSUME NEW a \in 1 .. i, IsKind(q[a], kind), NEW j \in 1 .. a - 1, q[j] # None
             PROVE  Lazy!Apart(q[a], q[j])
  BY DEF Spaced
<1>1. a \in 1 .. n /\ j \in 1 .. n OBVIOUS
<1>2. /\ p[a] # None /\ p[j] # None /\ Alike(q[a], p[a]) /\ Alike(q[j], p[j])
      /\ IsKind(p[a], kind)
  BY <1>1 DEF Thinned, Programs, IsKind, Alike
<1>3. Lazy!Apart(p[a], p[j]) BY <1>2 DEF Spaced
<1>4. QED BY <1>2, <1>3 DEF Alike, Lazy!Apart

\* The replace at i of p, in a walk that has come to i without an error: r is
\* the program after it, e whether it failed.
Cuts(o, r) == IsKind(o, "replace") /\ IsKind(r, "replace") /\ ~Lazy!Apart(o, r) /\ ~Lazy!Covers(o, r)

ReplaceDone(n, p, i, r, e) ==
  /\ r[i] = p[i]
  /\ \A k \in 1 .. n : r[k] # p[k] =>
       r[k] = None /\ k < i /\ IsKind(p[i], "replace") /\ Lazy!Covers(p[i], p[k])
  /\ ~e /\ IsKind(p[i], "replace") =>
       \A j \in 1 .. i - 1 : r[j] # None => Lazy!Apart(p[i], r[j])
  /\ e => \E k \in 1 .. i - 1 : Cuts(p[i], p[k]) /\ r[k] = p[k]
  /\ ~e => \A k \in 1 .. i - 1 : ~Cuts(p[i], p[k])

LEMMA WalkReplaceDoes ==
  ASSUME NEW n \in Nat, NEW s \in States(n), NEW i \in 1 .. n
  PROVE  /\ WalkReplace(s, i) \in States(n)
         /\ s.error => WalkReplace(s, i) = s
         /\ ~s.error => ReplaceDone(n, s.p, i, WalkReplace(s, i).p, WalkReplace(s, i).error)
<1> DEFINE p == s.p
           o == p[i]
           r == WalkReplace(s, i)
           inserts == {j \in Prior(p, i, "insert") : o.first <= p[j].first /\ p[j].first <= o.last}
           covered == {j \in Prior(p, i, "replace") : o.first <= p[j].first /\ p[j].last <= o.last}
           cut == {j \in Prior(p, i, "replace") \ covered :
                     ~(p[j].last < o.first \/ p[j].first > o.last)}
           some == inserts \cup {j \in covered : j < Min(cut)}
<1>1. p \in Programs(n) /\ s.error \in BOOLEAN /\ s = [p |-> p, error |-> s.error] BY DEF States
<1>2. \A k \in 1 .. n : p[k] \in Good \cup {None} BY <1>1 DEF Programs
<1>3. \A k \in 1 .. n : p[k] # None =>
         /\ p[k].kind \in {"insert", "replace"}
         /\ p[k].first \in Nat /\ p[k].last \in Nat /\ p[k].first <= p[k].last
         /\ p[k].kind = "insert" => p[k].last = p[k].first
  BY <1>2, GoodIs
<1>4. CASE s.error \/ ~IsKind(o, "replace")
  <2>1. r = s BY <1>4 DEF WalkReplace
  <2>2. ~s.error => ~IsKind(o, "replace") BY <1>4
  <2>3. ~s.error => ReplaceDone(n, p, i, p, s.error) BY <2>2 DEF ReplaceDone, Cuts
  <2> HIDE DEF r, p, o
  <2>4. QED BY <2>1, <2>3 DEF r, p
<1>5. ASSUME ~s.error, IsKind(o, "replace") PROVE
        /\ cut = {} => r = [p |-> Drop(p, inserts \cup covered), error |-> FALSE]
        /\ cut # {} => r = [p |-> Drop(p, some), error |-> TRUE]
  BY <1>5 DEF WalkReplace
<1>6. ASSUME IsKind(o, "replace"), NEW k \in inserts \cup covered
      PROVE  k \in 1 .. i - 1 /\ k \in 1 .. n /\ Lazy!Covers(o, p[k])
  <2>1. k \in 1 .. i - 1 /\ k \in 1 .. n BY DEF Prior
  <2>2. CASE k \in covered BY <2>1, <2>2 DEF Lazy!Covers
  <2>3. CASE k \in inserts
    <3>1. p[k] # None /\ p[k].last = p[k].first BY <1>3, <2>1, <2>3 DEF Prior, IsKind
    <3>2. QED BY <2>1, <2>3, <3>1 DEF Lazy!Covers
  <2>4. QED BY <2>1, <2>2, <2>3
<1>7. some \subseteq inserts \cup covered OBVIOUS
<1>8. ASSUME IsKind(o, "replace"), NEW k \in 1 .. i - 1
      PROVE  /\ k \in cut <=> /\ IsKind(p[k], "replace") /\ ~Lazy!Apart(o, p[k])
                              /\ ~Lazy!Covers(o, p[k])
             /\ p[k] # None /\ k \notin inserts \cup covered \cup cut => Lazy!Apart(o, p[k])
  <2>1. k \in 1 .. n /\ o # None /\ o.first \in Nat /\ o.last \in Nat BY <1>3, <1>8 DEF IsKind
  <2>2. CASE p[k] = None BY <2>2 DEF Prior, IsKind
  <2>3. CASE p[k] # None /\ p[k].kind = "insert"
    <3>1. p[k].last = p[k].first /\ p[k].first \in Nat BY <1>3, <2>1, <2>3
    <3>2. k \notin cut /\ (k \in inserts <=> o.first <= p[k].first /\ p[k].first <= o.last)
      BY <2>3 DEF Prior, IsKind
    <3>3. QED BY <2>1, <2>3, <3>1, <3>2 DEF IsKind, Lazy!Apart
  <2>4. CASE p[k] # None /\ p[k].kind = "replace"
    <3>1. p[k].last \in Nat /\ p[k].first \in Nat BY <1>3, <2>1, <2>4
    <3>2. /\ k \in covered <=> Lazy!Covers(o, p[k])
          /\ k \in cut <=> ~Lazy!Covers(o, p[k]) /\ ~(p[k].last < o.first \/ p[k].first > o.last)
      BY <2>4 DEF Prior, IsKind, Lazy!Covers
    <3>3. Lazy!Apart(o, p[k]) <=> (p[k].last < o.first \/ p[k].first > o.last)
      BY <2>1, <3>1 DEF Lazy!Apart
    <3>4. QED BY <2>4, <3>2, <3>3 DEF IsKind
  <2>5. QED BY <1>3, <2>1, <2>2, <2>3, <2>4
<1>9. ASSUME IsKind(o, "replace"), NEW k \in 1 .. i - 1 PROVE k \in cut <=> Cuts(o, p[k])
  BY <1>8, <1>9 DEF Cuts
<1>10. i \notin inserts \cup covered BY DEF Prior
<1> HIDE DEF inserts, covered, cut, some, p, o, r
<1>11. CASE ~s.error /\ IsKind(o, "replace") /\ cut = {}
  <2> DEFINE gone == inserts \cup covered
  <2>1. /\ Drop(p, gone) \in Programs(n)
        /\ \A k \in 1 .. n : Drop(p, gone)[k] = IF k \in gone THEN None ELSE p[k]
    BY <1>1, Dropped
  <2>2. r.p = Drop(p, gone) /\ r.error = FALSE /\ r \in States(n)
    <3>1. r = [p |-> Drop(p, gone), error |-> FALSE] BY <1>5, <1>11
    <3>2. QED BY <2>1, <3>1 DEF States
  <2>3. \A k \in gone : k \in 1 .. i - 1 /\ k < i /\ Lazy!Covers(o, p[k]) BY <1>6, <1>11
  <2>4. \A k \in 1 .. i - 1 : k \in 1 .. n OBVIOUS
  <2>5. \A j \in 1 .. i - 1 : r.p[j] # None => Lazy!Apart(o, r.p[j])
    BY <1>8, <1>11, <2>1, <2>2, <2>4
  <2>6. r.p[i] = o BY <1>10, <2>1, <2>2 DEF o
  <2>7. \A k \in 1 .. n : r.p[k] # p[k] => r.p[k] = None /\ k < i /\ Lazy!Covers(o, p[k])
    BY <2>1, <2>2, <2>3
  <2>8. \A k \in 1 .. i - 1 : ~Cuts(o, p[k]) BY <1>11, <1>9
  <2>9. ReplaceDone(n, p, i, r.p, r.error)
    BY <1>11, <2>2, <2>5, <2>6, <2>7, <2>8 DEF o, ReplaceDone
  <2>10. QED BY <1>11, <2>2, <2>9 DEF p, r
<1>12. CASE ~s.error /\ IsKind(o, "replace") /\ cut # {}
  <2>1. /\ Drop(p, some) \in Programs(n)
        /\ \A k \in 1 .. n : Drop(p, some)[k] = IF k \in some THEN None ELSE p[k]
    BY <1>1, Dropped
  <2>2. r.p = Drop(p, some) /\ r.error = TRUE /\ r \in States(n)
    <3>1. r = [p |-> Drop(p, some), error |-> TRUE] BY <1>5, <1>12
    <3>2. QED BY <2>1, <3>1 DEF States
  <2>3. \A k \in some : k \in 1 .. i - 1 /\ k < i /\ Lazy!Covers(o, p[k]) BY <1>6, <1>7, <1>12
  <2>4. PICK k \in cut : TRUE BY <1>12
  <2>5. k \in 1 .. i - 1 /\ k \in 1 .. n BY <2>4 DEF cut, Prior
  <2>6. Cuts(o, p[k]) BY <1>12, <1>9, <2>4, <2>5
  <2>7. r.p[k] = p[k] BY <2>1, <2>2, <2>3, <2>5, <2>6 DEF Cuts
  <2>8. r.p[i] = o BY <1>7, <1>10, <2>1, <2>2 DEF o
  <2>9. \A m \in 1 .. n : r.p[m] # p[m] => r.p[m] = None /\ m < i /\ Lazy!Covers(o, p[m])
    BY <2>1, <2>2, <2>3
  <2>10. ReplaceDone(n, p, i, r.p, r.error)
    BY <1>12, <2>2, <2>5, <2>6, <2>7, <2>8, <2>9 DEF o, ReplaceDone
  <2>11. QED BY <1>12, <2>2, <2>10 DEF p, r
<1>13. QED BY <1>4, <1>11, <1>12 DEF p, o, r

\* The insert at i of p, in a walk that has come to i without an error: q is
\* the program after it, e whether it failed.
Twins(p, i) == {j \in Prior(p, i, "insert") : p[j].first = p[i].first}
Starts(p, i) == {j \in Prior(p, i, "replace") : p[j].first = p[i].first}
Hits(p, i) == {j \in Prior(p, i, "replace") : p[j].first < p[i].first /\ p[i].first <= p[j].last}

Joined(p, i, t) ==
  IF Twins(p, i) = {} THEN t = p[i].text ELSE \E j \in Twins(p, i) : t = p[i].text \o p[j].text

GivenAway(n, p, i, t, q, e) ==
  \E j \in Starts(p, i) :
    /\ q[j] = [p[j] EXCEPT !.text = t \o p[j].text] /\ q[i] = None /\ ~e
    /\ \A k \in (1 .. n) \ (Twins(p, i) \cup {i, j}) : q[k] = p[k]

KeptThere(n, p, i, t, q, e) ==
  /\ Starts(p, i) = {} /\ q[i] = [p[i] EXCEPT !.text = t] /\ (e <=> Hits(p, i) # {})
  /\ \A k \in (1 .. n) \ (Twins(p, i) \cup {i}) : q[k] = p[k]

InsertDone(n, p, i, q, e) ==
  IF ~IsKind(p[i], "insert") THEN q = p /\ ~e
  ELSE \E t \in Seq(Bit) :
         /\ Joined(p, i, t)
         /\ \A k \in Twins(p, i) : q[k] = None
         /\ GivenAway(n, p, i, t, q, e) \/ KeptThere(n, p, i, t, q, e)

LEMMA PriorIs ==
  ASSUME NEW n \in Nat, NEW p \in Programs(n), NEW i \in 1 .. n, NEW kind
  PROVE  \A j \in Prior(p, i, kind) :
           /\ j \in 1 .. n /\ j \in 1 .. i - 1 /\ j # i /\ j < i
           /\ p[j] \in Good /\ p[j] # None /\ p[j].kind = kind
BY DEF Prior, IsKind, Programs

LEMMA Spliced ==
  ASSUME NEW s, NEW t, s \in Seq(Bit), t \in Seq(Bit)
  PROVE  s \o t \in Seq(Bit)
OBVIOUS

LEMMA SetAt ==
  ASSUME NEW n \in Nat, NEW p \in Programs(n), NEW i \in 1 .. n, NEW o \in Good \cup {None}
  PROVE  /\ [p EXCEPT ![i] = o] \in Programs(n)
         /\ \A k \in 1 .. n : [p EXCEPT ![i] = o][k] = IF k = i THEN o ELSE p[k]
BY DEF Programs

LEMMA WalkInsertDoes ==
  ASSUME NEW n \in Nat, NEW s \in States(n), NEW i \in 1 .. n
  PROVE  /\ WalkInsert(s, i) \in States(n)
         /\ s.error => WalkInsert(s, i) = s
         /\ ~s.error => InsertDone(n, s.p, i, WalkInsert(s, i).p, WalkInsert(s, i).error)
<1> DEFINE p == s.p
           o == p[i]
           r == WalkInsert(s, i)
           same == Twins(p, i)
           text == o.text \o IF same = {} THEN <<>> ELSE p[CHOOSE j \in same : TRUE].text
           left == Starts(p, i)
           hit == Hits(p, i)
           q == [Drop(p, same) EXCEPT ![i].text = text]
           j == CHOOSE x \in left : TRUE
<1>1. p \in Programs(n) /\ s.error \in BOOLEAN /\ s = [p |-> p, error |-> s.error] BY DEF States
<1>2. CASE s.error \/ ~IsKind(o, "insert")
  <2>1. r = s BY <1>2 DEF WalkInsert
  <2>2. ~s.error => ~IsKind(o, "insert") BY <1>2
  <2>3. ~s.error => InsertDone(n, p, i, p, s.error) BY <2>2 DEF InsertDone
  <2> HIDE DEF r, p, o
  <2>4. QED BY <2>1, <2>3 DEF r, p
<1>3. ASSUME ~s.error, IsKind(o, "insert") PROVE
        /\ left # {} => r = [p |-> Drop([q EXCEPT ![j].text = text \o @], {i}), error |-> FALSE]
        /\ left = {} => r = [p |-> q, error |-> hit # {}]
  BY <1>3 DEF WalkInsert, Twins, Starts, Hits
<1>4. CASE ~s.error /\ IsKind(o, "insert")
  <2>1. o \in Good /\ o.text \in Seq(Bit)
    <3>1. o \in Good \cup {None} BY <1>1 DEF Programs
    <3>2. o \in Good BY <1>4, <3>1 DEF IsKind
    <3>3. QED BY <3>2, GoodIs
  <2>2. /\ \A k \in same : k \in 1 .. n /\ k # i /\ p[k] \in Good /\ p[k].kind = "insert"
        /\ \A k \in left : k \in 1 .. n /\ k # i /\ p[k] \in Good /\ p[k].kind = "replace"
    BY <1>1, PriorIs DEF Twins, Starts
  <2>3. text \in Seq(Bit) /\ Joined(p, i, text)
    <3>1. CASE same = {}
      <4>1. text = o.text
        <5>1. text = o.text \o <<>> BY <3>1
        <5>2. QED BY <2>1, <5>1, ConcatEmptySeq
      <4>2. QED BY <2>1, <3>1, <4>1 DEF Joined
    <3>2. CASE same # {}
      <4>1. PICK x \in same : x = CHOOSE y \in same : TRUE BY <3>2
      <4>2. text = o.text \o p[x].text BY <3>2, <4>1
      <4>3. p[x].text \in Seq(Bit) BY <2>2, GoodIs
      <4> HIDE DEF text
      <4>4. QED BY <2>1, <3>2, <4>2, <4>3, Spliced DEF Joined, o
    <3>3. QED BY <3>1, <3>2
  <2>4. /\ Drop(p, same) \in Programs(n)
        /\ \A k \in 1 .. n : Drop(p, same)[k] = IF k \in same THEN None ELSE p[k]
    BY <1>1, Dropped
  <2> DEFINE new == [o EXCEPT !.text = text]
  <2>5. new \in Good BY <2>1, <2>3, GoodWith
  <2>6. q = [Drop(p, same) EXCEPT ![i] = new]
    <3>1. Drop(p, same)[i] = o BY <2>2, <2>4
    <3>2. QED BY <2>4, <3>1 DEF Programs
  <2>7. /\ q \in Programs(n)
        /\ \A k \in 1 .. n : q[k] = IF k = i THEN new ELSE IF k \in same THEN None ELSE p[k]
    <3> HIDE DEF q, new, same
    <3>1. QED BY <2>4, <2>5, <2>6, SetAt
  <2>8. CASE left = {}
    <3>1. r = [p |-> q, error |-> hit # {}] BY <1>3, <1>4, <2>8
    <3> HIDE DEF q, r, p, hit, left, same, text
    <3>2. r \in States(n) /\ r.p = q /\ (r.error <=> hit # {}) BY <2>7, <3>1 DEF States
    <3>3. /\ q[i] = new /\ \A k \in same : q[k] = None
          /\ \A k \in (1 .. n) \ (same \cup {i}) : q[k] = p[k]
      BY <2>2, <2>7
    <3>4. KeptThere(n, p, i, text, q, r.error)
      BY <2>8, <3>2, <3>3 DEF KeptThere, left, hit, same, o
    <3>5. InsertDone(n, p, i, q, r.error)
      BY <1>4, <2>3, <3>3, <3>4 DEF InsertDone, same, o
    <3>6. QED BY <1>4, <3>2, <3>5 DEF p, r
  <2>9. CASE left # {}
    <3>1. r = [p |-> Drop([q EXCEPT ![j].text = text \o @], {i}), error |-> FALSE]
      BY <1>3, <1>4, <2>9
    <3>2. j \in left BY <2>9
    <3>3. j \in 1 .. n /\ j # i /\ p[j] \in Good /\ j \notin same
      <4>1. j \in 1 .. n /\ j # i /\ p[j] \in Good /\ p[j].kind = "replace" BY <2>2, <3>2
      <4>2. QED BY <2>2, <4>1
    <3> DEFINE t2 == text \o p[j].text
               more == [p[j] EXCEPT !.text = t2]
    <3>4. more \in Good
      <4>1. p[j].text \in Seq(Bit) BY <3>3, GoodIs
      <4> HIDE DEF text, j, p
      <4>2. t2 \in Seq(Bit) BY <2>3, <4>1, Spliced
      <4> HIDE DEF t2
      <4>3. QED BY <3>3, <4>2, GoodWith
    <3> DEFINE q2 == [q EXCEPT ![j] = more]
    <3>5. [q EXCEPT ![j].text = text \o @] = q2
      <4>1. q[j] = p[j] BY <2>7, <3>3
      <4> HIDE DEF q, j, text
      <4>2. QED BY <2>7, <4>1 DEF Programs
    <3> HIDE DEF q, j, text, more, r, p, left, same
    <3>6. /\ q2 \in Programs(n)
          /\ \A k \in 1 .. n : q2[k] = IF k = j THEN more ELSE q[k]
      BY <2>7, <3>3, <3>4, SetAt
    <3> HIDE DEF q2
    <3>7. /\ Drop(q2, {i}) \in Programs(n)
          /\ \A k \in 1 .. n : Drop(q2, {i})[k] = IF k \in {i} THEN None ELSE q2[k]
      BY <3>6, Dropped
    <3> DEFINE q3 == Drop(q2, {i})
    <3>8. r = [p |-> q3, error |-> FALSE] BY <3>1, <3>5
    <3> HIDE DEF q3
    <3>9. r \in States(n) /\ r.p = q3 /\ r.error = FALSE BY <3>7, <3>8 DEF States, q3
    <3>10. /\ q3[j] = more /\ q3[i] = None /\ \A k \in same : q3[k] = None
           /\ \A k \in (1 .. n) \ (same \cup {i, j}) : q3[k] = p[k]
      <4>1. \A k \in same : k \in 1 .. n /\ k # i /\ k # j BY <2>2, <3>3
      <4>2. \A k \in 1 .. n : q3[k] = IF k = i THEN None ELSE IF k = j THEN more
                                      ELSE IF k \in same THEN None ELSE p[k]
        <5>1. \A k \in 1 .. n : q3[k] = IF k = i THEN None ELSE q2[k] BY <3>7 DEF q3
        <5>2. QED BY <2>7, <3>6, <5>1
      <4>3. QED BY <3>3, <4>1, <4>2
    <3>11. GivenAway(n, p, i, text, q3, r.error)
      BY <3>2, <3>9, <3>10 DEF GivenAway, left, same, more
    <3>12. InsertDone(n, p, i, q3, r.error)
      BY <1>4, <2>3, <3>10, <3>11 DEF InsertDone, same, o
    <3>13. QED BY <1>4, <3>9, <3>12 DEF p, r
  <2>10. QED BY <2>8, <2>9
<1>5. QED BY <1>2, <1>4

----------------------------------------------------------------------------
(* The walks                                                                *)

LEMMA SpacedMore ==
  ASSUME NEW n \in Nat, NEW q \in Programs(n), NEW i \in 1 .. n, NEW kind,
         Spaced(q, i - 1, kind),
         IsKind(q[i], kind) => \A j \in 1 .. i - 1 : q[j] # None => Lazy!Apart(q[i], q[j])
  PROVE  Spaced(q, i, kind)
<1>1. \A a \in 1 .. i : a = i \/ a \in 1 .. i - 1 OBVIOUS
<1>2. QED BY <1>1 DEF Spaced

LEMMA ReplaceSpaces ==
  ASSUME NEW n \in Nat, NEW p \in Programs(n), NEW i \in 1 .. n, NEW r \in Programs(n), NEW e,
         ReplaceDone(n, p, i, r, e)
  PROVE  Thinned(p, r) /\ (~e /\ Spaced(p, i - 1, "replace") => Spaced(r, i, "replace"))
<1>1. Thinned(p, r)
  <2>1. \A k \in 1 .. n : r[k] # None => r[k] = p[k] BY DEF ReplaceDone
  <2>2. DOMAIN p = 1 .. n BY DEF Programs
  <2>3. QED BY <2>1, <2>2 DEF Thinned, Alike
<1>2. ASSUME ~e, Spaced(p, i - 1, "replace") PROVE Spaced(r, i, "replace")
  <2>1. i - 1 \in 0 .. n OBVIOUS
  <2>2. Spaced(r, i - 1, "replace") BY <1>1, <1>2, <2>1, ThinnedSpaced
  <2>3. r[i] = p[i] /\ (IsKind(p[i], "replace") =>
          \A j \in 1 .. i - 1 : r[j] # None => Lazy!Apart(p[i], r[j]))
    BY <1>2 DEF ReplaceDone
  <2>4. QED BY <2>2, <2>3, SpacedMore
<1>3. QED BY <1>1, <1>2

LEMMA InsertSpaces ==
  ASSUME NEW n \in Nat, NEW p \in Programs(n), NEW i \in 1 .. n, NEW q \in Programs(n), NEW e,
         InsertDone(n, p, i, q, e)
  PROVE  Thinned(p, q) /\ (~e /\ Spaced(p, i - 1, "insert") => Spaced(q, i, "insert"))
<1>1. i - 1 \in 0 .. n /\ DOMAIN p = 1 .. n BY DEF Programs
<1>2. CASE ~IsKind(p[i], "insert")
  <2>1. q = p /\ Thinned(p, q) BY <1>2 DEF InsertDone, Thinned, Alike
  <2>2. QED BY <1>2, <2>1, SpacedMore
<1>3. CASE IsKind(p[i], "insert")
  <2>1. PICK t \in Seq(Bit) :
          /\ \A k \in Twins(p, i) : q[k] = None
          /\ GivenAway(n, p, i, t, q, e) \/ KeptThere(n, p, i, t, q, e)
    BY <1>3 DEF InsertDone
  <2>2. p[i] \in Good /\ p[i] # None /\ p[i].kind = "insert"
    BY <1>3 DEF Programs, IsKind
  <2>3. CASE GivenAway(n, p, i, t, q, e)
    <3>1. PICK j \in Starts(p, i) :
            /\ q[j] = [p[j] EXCEPT !.text = t \o p[j].text] /\ q[i] = None
            /\ \A k \in (1 .. n) \ (Twins(p, i) \cup {i, j}) : q[k] = p[k]
      BY <2>3 DEF GivenAway
    <3>2. p[j] \in Good /\ p[j] # None BY PriorIs DEF Starts
    <3>3. t \o p[j].text \in Seq(Bit)
      <4>1. p[j].text \in Seq(Bit) BY <3>2, GoodIs
      <4>2. QED BY <4>1, Spliced
    <3>4. Alike(q[j], p[j]) BY <3>1, <3>2, <3>3, GoodWith
    <3>5. Thinned(p, q) BY <1>1, <2>1, <3>1, <3>2, <3>4 DEF Thinned, Alike
    <3>6. ~IsKind(q[i], "insert") BY <3>1 DEF IsKind
    <3>7. Spaced(p, i - 1, "insert") => Spaced(q, i - 1, "insert") BY <1>1, <3>5, ThinnedSpaced
    <3>8. QED BY <3>5, <3>6, <3>7, SpacedMore
  <2>4. CASE KeptThere(n, p, i, t, q, e)
    <3>1. /\ Starts(p, i) = {} /\ q[i] = [p[i] EXCEPT !.text = t] /\ (e <=> Hits(p, i) # {})
          /\ \A k \in (1 .. n) \ (Twins(p, i) \cup {i}) : q[k] = p[k]
      BY <2>4 DEF KeptThere
    <3>2. Alike(q[i], p[i]) /\ q[i] \in Good BY <2>2, <3>1, GoodWith
    <3>3. Thinned(p, q) BY <1>1, <2>1, <2>2, <3>1, <3>2 DEF Thinned, Alike
    <3>4. ASSUME ~e, NEW j \in 1 .. i - 1, q[j] # None PROVE Lazy!Apart(q[i], q[j])
      <4>1. j \in 1 .. n /\ j # i OBVIOUS
      <4>2. q[j] = p[j] /\ j \notin Twins(p, i) BY <2>1, <3>1, <3>4, <4>1
      <4>3. p[j] \in Good /\ p[j] # None BY <3>4, <4>1, <4>2 DEF Programs
      <4>4. /\ p[j].first \in Nat /\ p[j].last \in Nat /\ p[j].first <= p[j].last
            /\ p[i].first \in Nat /\ p[i].last = p[i].first
            /\ p[j].kind = "insert" => p[j].last = p[j].first
            /\ p[j].kind \in {"insert", "replace"}
        BY <2>2, <4>3, GoodIs
      <4>5. CASE p[j].kind = "insert"
        <5>1. p[j].first # p[i].first BY <3>4, <4>2, <4>3, <4>5 DEF Twins, Prior, IsKind
        <5>2. QED BY <3>2, <4>2, <4>4, <4>5, <5>1 DEF Lazy!Apart, Alike
      <4>6. CASE p[j].kind = "replace"
        <5>1. p[j].first # p[i].first BY <3>1, <3>4, <4>3, <4>6 DEF Starts, Prior, IsKind
        <5>2. ~(p[j].first < p[i].first /\ p[i].first <= p[j].last)
          BY <3>1, <3>4, <4>3, <4>6 DEF Hits, Prior, IsKind
        <5>3. QED BY <3>2, <4>2, <4>4, <5>1, <5>2 DEF Lazy!Apart, Alike
      <4>7. QED BY <4>4, <4>5, <4>6
    <3>5. Spaced(p, i - 1, "insert") => Spaced(q, i - 1, "insert") BY <1>1, <3>3, ThinnedSpaced
    <3>6. QED BY <3>3, <3>4, <3>5, SpacedMore
  <2>5. QED BY <2>1, <2>3, <2>4
<1>4. QED BY <1>2, <1>3

\* The states of the two walks over p.
Walks(n, p, g, h) ==
  /\ g \in [0 .. n -> States(n)] /\ h \in [0 .. n -> States(n)]
  /\ g[0] = [p |-> p, error |-> FALSE] /\ h[0] = g[n] /\ Reduce(p) = h[n]
  /\ \A i \in 1 .. n : g[i] = WalkReplace(g[i - 1], i) /\ h[i] = WalkInsert(h[i - 1], i)

LEMMA TwoWalks ==
  ASSUME NEW n \in Nat, NEW p \in Programs(n)
  PROVE  \E g, h : Walks(n, p, g, h)
<1> DEFINE V == States(n)
           v == [p |-> p, error |-> FALSE]
<1>1. v \in V BY DEF States
<1>2. \A s \in V, i \in 1 .. n : WalkReplace(s, i) \in V BY WalkReplaceDoes
<1>3. \A s \in V, i \in 1 .. n : WalkInsert(s, i) \in V BY WalkInsertDoes
<1>4. [i \in DOMAIN p |-> i] = [i \in 1 .. n |-> i] BY DEF Programs
<1> HIDE DEF v, V
<1>5. PICK g \in [0 .. n -> V] :
        /\ g[0] = v /\ \A i \in 1 .. n : g[i] = WalkReplace(g[i - 1], i)
        /\ AllReplaces(n, v) = g[n]
  <2>1. ClosedReplaces(n, V) BY <1>2 DEF ClosedReplaces
  <2>2. ReplacesWalked(n, V, v) BY <1>1, <2>1, ReplacesFolded
  <2>3. QED BY <2>2 DEF ReplacesWalked
<1>6. g[n] \in V BY <1>5
<1>7. PICK h \in [0 .. n -> V] :
        /\ h[0] = g[n] /\ \A i \in 1 .. n : h[i] = WalkInsert(h[i - 1], i)
        /\ AllInserts(n, g[n]) = h[n]
  <2>1. ClosedInserts(n, V) BY <1>3 DEF ClosedInserts
  <2>2. InsertsWalked(n, V, g[n]) BY <1>6, <2>1, InsertsFolded
  <2>3. QED BY <2>2 DEF InsertsWalked
<1>8. Reduce(p) = AllInserts(n, AllReplaces(n, v))
  BY <1>4, Zenon DEF Reduce, AllReplaces, AllInserts, v
<1>9. Reduce(p) = h[n] BY <1>5, <1>7, <1>8
<1>10. QED BY <1>5, <1>7, <1>9 DEF Walks, V, v

\* Neither walk recovers from an error.
LEMMA WalkStep ==
  ASSUME NEW n \in Nat, NEW p, NEW g, NEW h, Walks(n, p, g, h), NEW i \in 1 .. n
  PROVE  /\ g[i - 1] \in States(n) /\ h[i - 1] \in States(n)
         /\ g[i] \in States(n) /\ h[i] \in States(n)
         /\ g[i - 1].p \in Programs(n) /\ h[i - 1].p \in Programs(n)
         /\ g[i].p \in Programs(n) /\ h[i].p \in Programs(n)
         /\ g[i - 1].error => g[i] = g[i - 1]
         /\ h[i - 1].error => h[i] = h[i - 1]
         /\ ~g[i - 1].error => ReplaceDone(n, g[i - 1].p, i, g[i].p, g[i].error)
         /\ ~h[i - 1].error => InsertDone(n, h[i - 1].p, i, h[i].p, h[i].error)
<1>1. i - 1 \in 0 .. n /\ i \in 0 .. n OBVIOUS
<1>2. /\ g[i - 1] \in States(n) /\ h[i - 1] \in States(n)
      /\ g[i] \in States(n) /\ h[i] \in States(n)
      /\ g[i] = WalkReplace(g[i - 1], i) /\ h[i] = WalkInsert(h[i - 1], i)
  BY <1>1 DEF Walks
<1>3. \A s \in States(n) : s.p \in Programs(n) BY DEF States
<1>4. QED BY <1>2, <1>3, WalkReplaceDoes, WalkInsertDoes

LEMMA FirstWalkSpaces ==
  ASSUME NEW n \in Nat, NEW p, NEW g, NEW h, Walks(n, p, g, h)
  PROVE  ~g[n].error => Spaced(g[n].p, n, "replace")
<1> DEFINE S == {i \in Nat : i \in 0 .. n /\ ~g[i].error => Spaced(g[i].p, i, "replace")}
<1>1. 0 \in S BY DEF Spaced
<1>2. ASSUME NEW i \in Nat, i \in S PROVE i + 1 \in S
  <2> DEFINE j == i + 1
  <2>1. SUFFICES ASSUME j \in 0 .. n, ~g[j].error PROVE Spaced(g[j].p, j, "replace")
    OBVIOUS
  <2>2. i \in 0 .. n /\ j \in 1 .. n /\ j - 1 = i BY <2>1
  <2> HIDE DEF j
  <2>3. /\ g[i].p \in Programs(n) /\ g[j].p \in Programs(n)
        /\ g[i].error => g[j] = g[i]
        /\ ~g[i].error => ReplaceDone(n, g[i].p, j, g[j].p, g[j].error)
    BY <2>2, WalkStep
  <2>4. ~g[i].error BY <2>1, <2>3
  <2>5. Spaced(g[i].p, j - 1, "replace") BY <1>2, <2>2, <2>4
  <2>6. QED BY <2>1, <2>2, <2>3, <2>4, <2>5, ReplaceSpaces
<1> HIDE DEF S
<1>3. n \in S BY <1>1, <1>2, Induct
<1>4. QED BY <1>3 DEF S

LEMMA SecondWalkSpaces ==
  ASSUME NEW n \in Nat, NEW p, NEW g, NEW h, Walks(n, p, g, h)
  PROVE  \A i \in 0 .. n : ~h[i].error =>
           ~g[n].error /\ Spaced(h[i].p, n, "replace") /\ Spaced(h[i].p, i, "insert")
<1> DEFINE S == {i \in Nat : i \in 0 .. n /\ ~h[i].error =>
                   ~g[n].error /\ Spaced(h[i].p, n, "replace") /\ Spaced(h[i].p, i, "insert")}
<1>1. 0 \in S
  <2>1. h[0] = g[n] BY DEF Walks
  <2>2. QED BY <2>1, FirstWalkSpaces DEF Spaced
<1>2. ASSUME NEW i \in Nat, i \in S PROVE i + 1 \in S
  <2> DEFINE j == i + 1
  <2>1. SUFFICES ASSUME j \in 0 .. n, ~h[j].error
                 PROVE ~g[n].error /\ Spaced(h[j].p, n, "replace") /\ Spaced(h[j].p, j, "insert")
    OBVIOUS
  <2>2. i \in 0 .. n /\ j \in 1 .. n /\ j - 1 = i /\ n \in 0 .. n BY <2>1
  <2> HIDE DEF j
  <2>3. /\ h[i].p \in Programs(n) /\ h[j].p \in Programs(n)
        /\ h[i].error => h[j] = h[i]
        /\ ~h[i].error => InsertDone(n, h[i].p, j, h[j].p, h[j].error)
    BY <2>2, WalkStep
  <2>4. ~h[i].error BY <2>1, <2>3
  <2>5. ~g[n].error /\ Spaced(h[i].p, n, "replace") /\ Spaced(h[i].p, j - 1, "insert")
    BY <1>2, <2>2, <2>4
  <2>6. Thinned(h[i].p, h[j].p) /\ Spaced(h[j].p, j, "insert")
    BY <2>1, <2>2, <2>3, <2>4, <2>5, InsertSpaces
  <2>7. Spaced(h[j].p, n, "replace") BY <2>2, <2>3, <2>5, <2>6, ThinnedSpaced
  <2>8. QED BY <2>5, <2>6, <2>7
<1> HIDE DEF S
<1>3. \A i \in Nat : i \in S BY <1>1, <1>2, Induct
<1>4. QED BY <1>3 DEF S

\* In a reduced program any two operations are apart.
AllApart(n, p) ==
  \A a \in 1 .. n : \A j \in 1 .. a - 1 : p[a] # None /\ p[j] # None => Lazy!Apart(p[a], p[j])

LEMMA SpacedApart ==
  ASSUME NEW n \in Nat, NEW p \in Programs(n), Spaced(p, n, "replace"), Spaced(p, n, "insert")
  PROVE  AllApart(n, p)
<1> SUFFICES ASSUME NEW a \in 1 .. n, NEW j \in 1 .. a - 1, p[a] # None, p[j] # None
             PROVE  Lazy!Apart(p[a], p[j])
  BY DEF AllApart
<1>1. p[a].kind \in {"insert", "replace"}
  <2>1. p[a] \in Good BY DEF Programs
  <2>2. QED BY <2>1, GoodIs
<1>2. QED BY <1>1 DEF Spaced, IsKind

LEMMA ApartAlone ==
  ASSUME NEW n \in Nat, NEW p \in Programs(n), AllApart(n, p),
         NEW j \in 1 .. n, NEW k \in 1 .. n, p[j] # None, p[k] # None, p[j].first = p[k].first
  PROVE  j = k
<1>1. \A m \in 1 .. n : p[m] # None =>
        p[m].first \in Nat /\ p[m].last \in Nat /\ p[m].first <= p[m].last
  <2>1. \A m \in 1 .. n : p[m] # None => p[m] \in Good BY DEF Programs
  <2>2. QED BY <2>1, GoodIs
<1>2. ~Lazy!Apart(p[j], p[k]) /\ ~Lazy!Apart(p[k], p[j]) BY <1>1 DEF Lazy!Apart
<1>3. ~(j < k) /\ ~(k < j) BY <1>2 DEF AllApart
<1>4. QED BY <1>3

LEMMA Reduced ==
  ASSUME NEW n \in Nat, NEW p \in Programs(n)
  PROVE  /\ Reduce(p) \in States(n)
         /\ ~Reduce(p).error => AllApart(n, Reduce(p).p)
<1>1. PICK g, h : Walks(n, p, g, h) BY TwoWalks
<1>2. n \in 0 .. n OBVIOUS
<1>3. h[n] \in States(n) /\ Reduce(p) = h[n] BY <1>1, <1>2 DEF Walks
<1>4. h[n].p \in Programs(n) BY <1>3 DEF States
<1>5. ~h[n].error => Spaced(h[n].p, n, "replace") /\ Spaced(h[n].p, n, "insert")
  BY <1>1, <1>2, SecondWalkSpaces
<1>6. QED BY <1>3, <1>4, <1>5, SpacedApart

----------------------------------------------------------------------------
(* The loop over the tokens                                                 *)

Out == Bit \cup [token : Token]
LoopStates == [buf : Seq(Out), next : Nat]

LEMMA BitsAreOut == ASSUME NEW t \in Seq(Bit) PROVE t \in Seq(Out)
BY DEF Out

LEMMA PieceIsOut == ASSUME NEW i \in Token PROVE Piece(i) \in Seq(Out)
<1>1. [token |-> i] \in Out BY DEF Out
<1>2. QED BY <1>1 DEF Piece

LEMMA OutSpliced ==
  ASSUME NEW s, NEW t, s \in Seq(Out), t \in Seq(Out)
  PROVE  s \o t \in Seq(Out)
OBVIOUS

LEMMA OpAtIs ==
  ASSUME NEW n \in Nat, NEW p \in Programs(n), NEW i
  PROVE  \/ OpAt(p, i) = None /\ \A k \in 1 .. n : p[k] # None => p[k].first # i
         \/ \E k \in 1 .. n : p[k] \in Good /\ p[k] # None /\ p[k].first = i /\ OpAt(p, i) = p[k]
<1> DEFINE ops == {k \in DOMAIN p : p[k] # None /\ p[k].first = i}
<1>1. OpAt(p, i) = IF ops = {} THEN None ELSE p[CHOOSE k \in ops : TRUE] BY DEF OpAt
<1>2. DOMAIN p = 1 .. n /\ \A k \in 1 .. n : p[k] # None => p[k] \in Good BY DEF Programs
<1>3. CASE ops = {} BY <1>1, <1>2, <1>3
<1>4. CASE ops # {}
  <2>1. PICK k \in ops : k = CHOOSE j \in ops : TRUE BY <1>4
  <2>2. OpAt(p, i) = p[k] BY <1>1, <1>4, <2>1
  <2>3. k \in 1 .. n /\ p[k] # None /\ p[k].first = i BY <1>2
  <2>4. QED BY <1>2, <2>2, <2>3
<1>5. QED BY <1>3, <1>4

LEMMA ExecuteTypes ==
  ASSUME NEW n \in Nat, NEW p \in Programs(n), NEW s \in LoopStates, NEW i \in Token
  PROVE  Execute(p, s, i) \in LoopStates
<1> DEFINE op == OpAt(p, i)
           S == Seq(Out)
<1>1. i \in Nat /\ i + 1 \in Nat BY TokenRewriteAssumption DEF Token
<1>2. s.buf \in S /\ s.next \in Nat BY DEF LoopStates
<1>3. Piece(i) \in S /\ s.buf \o Piece(i) \in S BY <1>2, PieceIsOut, OutSpliced
<1>4. op # None => /\ op.last + 1 \in Nat /\ s.buf \o op.text \in S
                   /\ s.buf \o op.text \o Piece(i) \in S
  <2>1. SUFFICES ASSUME op # None PROVE /\ op.last + 1 \in Nat /\ s.buf \o op.text \in S
                                        /\ s.buf \o op.text \o Piece(i) \in S
    OBVIOUS
  <2>2. op \in Good BY <2>1, OpAtIs
  <2>3. op.last \in Nat /\ op.text \in S BY <2>2, GoodIs, BitsAreOut
  <2> HIDE DEF op
  <2>4. s.buf \o op.text \in S BY <1>2, <2>3, OutSpliced
  <2>5. s.buf \o op.text \o Piece(i) \in S BY <1>3, <2>4, OutSpliced
  <2>6. QED BY <2>3, <2>4, <2>5
<1>5. \/ Execute(p, s, i) = s
      \/ Execute(p, s, i) = [buf |-> s.buf \o Piece(i), next |-> i + 1]
      \/ op # None /\ Execute(p, s, i) = [buf |-> s.buf \o op.text \o Piece(i), next |-> i + 1]
      \/ op # None /\ Execute(p, s, i) = [buf |-> s.buf \o op.text, next |-> op.last + 1]
  BY DEF Execute
<1>6. LoopStates = [buf : S, next : Nat] BY DEF LoopStates
<1>7. \A b \in S, m \in Nat : [buf |-> b, next |-> m] \in LoopStates BY <1>6
<1> HIDE DEF S, op
<1>8. s.buf \o Piece(i) \in S BY <1>3
<1>9. QED BY <1>1, <1>4, <1>5, <1>7, <1>8

\* The states of the loop over the tokens of begin .. end.
Loops(p, begin, n, g) ==
  /\ g \in [0 .. n -> LoopStates] /\ g[0] = [buf |-> <<>>, next |-> begin]
  /\ \A i \in 1 .. n : g[i] = Execute(p, g[i - 1], begin + i - 1)

Behind(p, end) == IF end = NTokens - 1 /\ OpAt(p, NTokens) # None THEN OpAt(p, NTokens).text ELSE <<>>

LEMMA LoopsOver ==
  ASSUME NEW n \in Nat, NEW p \in Programs(n), NEW begin \in Token, NEW end \in begin .. NTokens - 1
  PROVE  \E g : /\ Loops(p, begin, end - begin + 1, g)
                /\ Execution(p, begin, end) = g[end - begin + 1].buf \o Behind(p, end)
<1> DEFINE m == end - begin + 1
           v == [buf |-> <<>>, next |-> begin]
<1>1. m \in Nat /\ begin \in Nat /\ \A i \in 1 .. m : begin + i - 1 \in Token
  BY TokenRewriteAssumption DEF Token
<1>2. v \in LoopStates BY <1>1 DEF LoopStates
<1>3. ClosedExecutions(m, LoopStates, p, begin) BY <1>1, ExecuteTypes DEF ClosedExecutions
<1>4. Execution(p, begin, end) = AllExecuted(m, v, p, begin).buf \o Behind(p, end)
  BY Zenon DEF Execution, AllExecuted, Behind
<1> HIDE DEF m, v
<1>5. ExecutionsWalked(m, LoopStates, v, p, begin) BY <1>1, <1>2, <1>3, ExecutionsFolded
<1>6. PICK g \in [0 .. m -> LoopStates] :
        /\ g[0] = v /\ \A i \in 1 .. m : g[i] = Execute(p, g[i - 1], begin + i - 1)
        /\ AllExecuted(m, v, p, begin) = g[m]
  BY <1>5 DEF ExecutionsWalked
<1>7. Loops(p, begin, m, g) BY <1>6 DEF Loops, v
<1>8. QED BY <1>4, <1>6, <1>7 DEF m

LEMMA ExecutionTypes ==
  ASSUME NEW n \in Nat, NEW p \in Programs(n), NEW begin \in Token, NEW end \in begin .. NTokens - 1
  PROVE  Execution(p, begin, end) \in Seq(Out)
<1>1. PICK g : /\ Loops(p, begin, end - begin + 1, g)
               /\ Execution(p, begin, end) = g[end - begin + 1].buf \o Behind(p, end)
  BY LoopsOver
<1>2. end - begin + 1 \in 0 .. end - begin + 1 BY TokenRewriteAssumption DEF Token
<1>3. g[end - begin + 1] \in LoopStates BY <1>1, <1>2 DEF Loops
<1>4. g[end - begin + 1].buf \in Seq(Out) BY <1>3 DEF LoopStates
<1>5. Behind(p, end) \in Seq(Out)
  <2>1. CASE OpAt(p, NTokens) = None
    <3>1. Behind(p, end) = <<>> BY <2>1 DEF Behind
    <3>2. QED BY <3>1
  <2>2. CASE OpAt(p, NTokens) # None
    <3>1. OpAt(p, NTokens).text \in Seq(Out) BY <2>2, OpAtIs, GoodIs, BitsAreOut
    <3>2. <<>> \in Seq(Out) OBVIOUS
    <3>3. QED BY <3>1, <3>2 DEF Behind
  <2>3. QED BY <2>1, <2>2
<1>6. QED BY <1>1, <1>4, <1>5, OutSpliced

----------------------------------------------------------------------------
(* Types, and one operation per index                                       *)

Slots == Good \cup {None}

LEMMA SeqIsProgram ==
  /\ \A p \in Seq(Slots) : Len(p) \in Nat /\ p \in Programs(Len(p)) /\ DOMAIN p = 1 .. Len(p)
  /\ \A n \in Nat : \A p \in Programs(n) : p \in Seq(Slots) /\ Len(p) = n
BY DEF Slots, Programs

\* TypeOK, with what the instructions make of operations.
Typed ==
  /\ program \in Seq(Slots) /\ asked \in Seq(Good)
  /\ given \in Nat /\ Len(program) <= given /\ given <= MaxOps
  /\ ~open => Len(asked) = Len(program)
  /\ output = Error \/ output \in Seq(Out)
  /\ rendered \in BOOLEAN /\ open \in BOOLEAN

LEMMA AddTyped ==
  ASSUME Typed, NEW op, given < MaxOps => op \in Good, Add(op)
  PROVE  Typed'
<1>1. op \in Good /\ op \in Slots BY DEF Add, Slots
<1>2. /\ program' = Append(program, op) /\ asked' \in {asked, Append(asked, op)}
      /\ ~open => asked' = Append(asked, op)
      /\ given' = given + 1 /\ given < MaxOps /\ output' = <<>> /\ UNCHANGED <<rendered, open>>
  BY DEF Add
<1> DEFINE P == Slots
           G == Good
<1>3. /\ program \in Seq(P) /\ asked \in Seq(G) /\ given \in Nat /\ Len(program) <= given
      /\ ~open => Len(asked) = Len(program)
  BY DEF Typed
<1>4. MaxOps \in Nat BY TokenRewriteAssumption
<1> HIDE DEF P, G
<1>5. program' \in Seq(P) /\ Len(program') = Len(program) + 1 /\ Len(program) \in Nat
  BY <1>1, <1>2, <1>3 DEF P
<1>6. Append(asked, op) \in Seq(G) /\ Len(Append(asked, op)) = Len(asked) + 1
  BY <1>1, <1>3 DEF G
<1>7. output' \in Seq(Out) BY <1>2
<1>8. given' \in Nat /\ Len(program') <= given' /\ given' <= MaxOps BY <1>2, <1>3, <1>4, <1>5
<1>9. asked' \in Seq(G) BY <1>2, <1>3, <1>6
<1>10. ~open' => Len(asked') = Len(program') BY <1>2, <1>3, <1>5, <1>6
<1>11. rendered' \in BOOLEAN /\ open' \in BOOLEAN BY <1>2 DEF Typed
<1>12. QED BY <1>5, <1>7, <1>8, <1>9, <1>10, <1>11 DEF Typed, P, G

\* Every instruction is a good operation.
LEMMA AddsGood ==
  ASSUME Typed, InsertBefore \/ Replace
  PROVE  \E op \in Good : Add(op)
<1>1. ASSUME given < MaxOps PROVE NewText \in Seq(Bit) /\ <<>> \in Seq(Bit)
  <2>1. given + 1 \in 1 .. MaxOps BY <1>1, TokenRewriteAssumption DEF Typed
  <2>2. [op |-> given + 1] \in Bit BY <2>1 DEF Bit
  <2>3. QED BY <2>2 DEF NewText
<1> DEFINE S == Seq([op : 1 .. MaxOps])
<1>2. S = Seq(Bit) BY DEF Bit
<1> HIDE DEF S
<1>3. CASE InsertBefore
  <2>1. PICK i \in 0 .. NTokens :
          Add([kind |-> "insert", first |-> i, last |-> i, text |-> NewText])
    BY <1>3 DEF InsertBefore
  <2>2. NewText \in S BY <1>1, <1>2, <2>1 DEF Add
  <2>3. [kind |-> "insert", first |-> i, last |-> i, text |-> NewText] \in Good
    BY <2>2, TokenRewriteAssumption DEF Good, Op, S
  <2>4. QED BY <2>1, <2>3
<1>4. CASE Replace
  <2>1. PICK i \in Token, j \in Token, text \in {NewText, <<>>} :
          i <= j /\ Add([kind |-> "replace", first |-> i, last |-> j, text |-> text])
    BY <1>4 DEF Replace
  <2>2. text \in S BY <1>1, <1>2, <2>1 DEF Add
  <2>3. [kind |-> "replace", first |-> i, last |-> j, text |-> text] \in Good
    BY <2>1, <2>2, TokenRewriteAssumption DEF Good, Op, S, Token
  <2>4. QED BY <2>1, <2>3
<1>5. QED BY <1>3, <1>4

LEMMA RollbackTyped ==
  ASSUME Typed, Rollback
  PROVE  Typed'
<1>1. PICK n \in 0 .. Len(program) - 1 :
        /\ program' = SubSeq(program, 1, n) /\ open' = (open \/ rendered)
        /\ asked' = IF open' THEN <<>> ELSE SubSeq(asked, 1, n)
        /\ output' = <<>> /\ UNCHANGED <<given, rendered>>
  BY DEF Rollback
<1> DEFINE P == Slots
           G == Good
<1>2. program \in Seq(P) /\ asked \in Seq(G) /\ (~open => Len(asked) = Len(program)) BY DEF Typed
<1> HIDE DEF P, G
<1>3. n \in Nat /\ n < Len(program) /\ Len(program) \in Nat BY <1>2
<1>4. program' \in Seq(P) /\ Len(program') = n BY <1>1, <1>2, <1>3
<1>5. ~open' => asked' \in Seq(G) /\ Len(asked') = n
  <2>1. SUFFICES ASSUME ~open' PROVE asked' \in Seq(G) /\ Len(asked') = n
    OBVIOUS
  <2>2. asked' = SubSeq(asked, 1, n) /\ Len(asked) = Len(program) BY <1>1, <1>2, <2>1
  <2>3. QED BY <1>2, <1>3, <2>2
<1>6. open' => asked' \in Seq(G) BY <1>1
<1>7. output' \in Seq(Out) BY <1>1
<1>8. given' \in Nat /\ Len(program') <= given' /\ given' <= MaxOps
  BY <1>1, <1>3, <1>4, TokenRewriteAssumption DEF Typed
<1>9. rendered' \in BOOLEAN /\ open' \in BOOLEAN BY <1>1 DEF Typed
<1>10. QED BY <1>4, <1>5, <1>6, <1>7, <1>8, <1>9 DEF Typed, P, G

LEMMA RenderTyped ==
  ASSUME Typed, Render
  PROVE  Typed'
<1>1. PICK begin \in Token : \E end \in begin .. NTokens - 1 :
        /\ program' = Reduce(program).p
        /\ output' = IF Reduce(program).error THEN Error ELSE Execution(Reduce(program).p, begin, end)
        /\ rendered' = (rendered \/ program # <<>>) /\ UNCHANGED <<given, asked, open>>
  BY DEF Render
<1>2. PICK end \in begin .. NTokens - 1 :
        /\ program' = Reduce(program).p
        /\ output' = IF Reduce(program).error THEN Error ELSE Execution(Reduce(program).p, begin, end)
        /\ rendered' = (rendered \/ program # <<>>) /\ UNCHANGED <<given, asked, open>>
  BY <1>1
<1>3. program \in Seq(Slots) BY DEF Typed
<1>4. Len(program) \in Nat /\ program \in Programs(Len(program)) BY <1>3, SeqIsProgram
<1>5. Reduce(program) \in States(Len(program)) BY <1>4, Reduced
<1>6. program' \in Programs(Len(program)) BY <1>2, <1>5 DEF States
<1>7. program' \in Seq(Slots) /\ Len(program') = Len(program) BY <1>4, <1>6, SeqIsProgram
<1>8. Execution(program', begin, end) \in Seq(Out) BY <1>4, <1>6, ExecutionTypes
<1>9. output' = Error \/ output' \in Seq(Out) BY <1>2, <1>8
<1>10. QED BY <1>2, <1>7, <1>9 DEF Typed

LEMMA InitTyped == Init => Typed
<1> SUFFICES ASSUME Init PROVE Typed
  OBVIOUS
<1>1. \A S : <<>> \in Seq(S) /\ Len(<<>>) = 0 OBVIOUS
<1>2. 0 <= MaxOps BY TokenRewriteAssumption
<1>3. /\ program = <<>> /\ given = 0 /\ output = <<>>
      /\ asked = <<>> /\ rendered = FALSE /\ open = FALSE
  BY DEF Init
<1>4. program \in Seq(Slots) /\ asked \in Seq(Good) /\ output \in Seq(Out)
  BY <1>1, <1>3
<1>5. Len(program) = 0 /\ Len(asked) = 0 BY <1>1, <1>3
<1>6. given = 0 /\ rendered \in BOOLEAN /\ open \in BOOLEAN BY <1>3
<1>7. QED BY <1>2, <1>4, <1>5, <1>6 DEF Typed

LEMMA StepTyped == Typed /\ [Next]_vars => Typed'
<1> SUFFICES ASSUME Typed, [Next]_vars PROVE Typed'
  OBVIOUS
<1>1. CASE InsertBefore \/ Replace BY <1>1, AddsGood, AddTyped
<1>2. CASE Rollback BY <1>2, RollbackTyped
<1>3. CASE Render BY <1>3, RenderTyped
<1>4. CASE UNCHANGED vars BY <1>4 DEF vars, Typed
<1>5. QED BY <1>1, <1>2, <1>3, <1>4 DEF Next

LEMMA TypedIsTypeOK == Typed => TypeOK
<1> SUFFICES ASSUME Typed PROVE TypeOK
  OBVIOUS
<1>1. \A k \in DOMAIN program : program[k] \in Op \cup {None}
  <2>1. program \in Seq(Slots) /\ \A o \in Slots : o \in Op \cup {None} BY DEF Typed, Slots, Good
  <2>2. QED BY <2>1
<1>2. \A k \in DOMAIN asked : asked[k] \in Op
  <2>1. asked \in Seq(Good) /\ \A o \in Good : o \in Op BY DEF Typed, Good
  <2>2. QED BY <2>1
<1>3. Out = [op : 1 .. MaxOps] \cup [token : Token] BY DEF Out, Bit
<1>4. QED BY <1>1, <1>2, <1>3 DEF Typed, TypeOK

LEMMA TypedIsOnePerIndex == Typed => OnePerIndex
<1> SUFFICES ASSUME Typed PROVE OnePerIndex
  OBVIOUS
<1> DEFINE n == Len(program)
           r == Reduce(program)
<1>1. program \in Seq(Slots) BY DEF Typed
<1>2. n \in Nat /\ program \in Programs(n) BY <1>1, SeqIsProgram
<1>3. r \in States(n) /\ (~r.error => AllApart(n, r.p)) BY <1>2, Reduced
<1> HIDE DEF n
<1>4. r.p \in Programs(n) BY <1>3 DEF States
<1>5. DOMAIN r.p = 1 .. n BY <1>4 DEF Programs
<1> HIDE DEF r
<1>6. ASSUME ~r.error, NEW j \in DOMAIN r.p, NEW k \in DOMAIN r.p,
             r.p[j] # None /\ r.p[k] # None /\ r.p[j].first = r.p[k].first
      PROVE  j = k
  BY <1>2, <1>3, <1>4, <1>5, <1>6, ApartAlone
<1>7. QED BY <1>6, TypedIsTypeOK DEF OnePerIndex, r

\* After any instructions, rollbacks and renderings, a reduction that does not
\* fail leaves toString at most one operation for each index.
THEOREM OneOperationPerIndex == Spec => []OnePerIndex
<1>1. Spec => []Typed
  <2>1. QED BY InitTyped, StepTyped, PTL DEF Spec
<1>2. QED BY <1>1, TypedIsOnePerIndex, PTL

----------------------------------------------------------------------------
(* What is left of the instructions in a program                            *)

\* The replace at c cuts the one at k, which nothing between them covers.
CutBy(is, k, c) ==
  /\ Cuts(is[c], is[k])
  /\ \A m \in k + 1 .. c - 1 : is[m].kind = "replace" => ~Lazy!Covers(is[m], is[k])

CutAsked(is) == \E c \in DOMAIN is : \E k \in 1 .. c - 1 : CutBy(is, k, c)

\* One of the first w replaces covers instruction k.
Killed(is, k, w) ==
  \E m \in k + 1 .. w : is[m].kind = "replace" /\ Lazy!Covers(is[m], is[k])

\* The text of the insert k is with another operation at its index.
Merged(is, p, k, w) ==
  /\ is[k].kind = "insert" /\ k <= w
  /\ \E m \in 1 .. w : /\ m # k /\ p[m] # None /\ is[m].first = is[k].first
                       /\ m > k \/ is[m].kind = "replace"

\* A walk over the replaces has come to w without an error.
Sound(n, is, p, w) ==
  /\ \A k \in 1 .. n : p[k] # None => ~Killed(is, k, w)
  /\ \A k \in 1 .. n : p[k] = None => Killed(is, k, w) \/ Merged(is, p, k, w)
  /\ \A c \in 1 .. w : \A k \in 1 .. c - 1 : ~CutBy(is, k, c)

\* Every walk over the replaces will end with an error behind i.
StuckBehind(n, is, p, i) ==
  \E c \in i + 1 .. n : \E k \in 1 .. c - 1 : CutBy(is, k, c) /\ p[k] # None /\ p[c] # None

Instructions(n) == [1 .. n -> Good]

LEMMA InstructionIs ==
  ASSUME NEW n \in Nat, NEW is \in Instructions(n), NEW k \in 1 .. n
  PROVE  /\ is[k] \in Good /\ is[k] # None /\ is[k].kind \in {"insert", "replace"}
         /\ is[k].first \in Nat /\ is[k].last \in Nat /\ is[k].first <= is[k].last
         /\ is[k].kind = "insert" => is[k].last = is[k].first
         /\ is[k].kind = "replace" => is[k].last < NTokens
         /\ is[k].text \in Seq(Bit) /\ NTokens \in Nat
<1>1. is[k] \in Good BY DEF Instructions
<1>2. QED BY <1>1, GoodIs

LEMMA InstructionsAreProgram ==
  ASSUME NEW n \in Nat, NEW is \in Instructions(n)
  PROVE  is \in Programs(n)
BY DEF Instructions, Programs

\* The operations of a thinned program stand for instructions.
LEMMA StandsFor ==
  ASSUME NEW n \in Nat, NEW is \in Instructions(n), NEW p \in Programs(n), Thinned(is, p),
         NEW k \in 1 .. n, p[k] # None
  PROVE  /\ Alike(p[k], is[k])
         /\ \A kind : IsKind(p[k], kind) <=> is[k].kind = kind
BY DEF Thinned, Instructions, Alike, IsKind

LEMMA CutsAlike ==
  ASSUME NEW n \in Nat, NEW is \in Instructions(n), NEW p \in Programs(n), Thinned(is, p),
         NEW k \in 1 .. n, NEW c \in 1 .. n, p[k] # None, p[c] # None
  PROVE  /\ Cuts(p[c], p[k]) <=> Cuts(is[c], is[k])
         /\ Lazy!Covers(p[c], p[k]) <=> Lazy!Covers(is[c], is[k])
         /\ Lazy!Apart(p[c], p[k]) <=> Lazy!Apart(is[c], is[k])
<1>1. Alike(p[k], is[k]) /\ Alike(p[c], is[c]) BY StandsFor
<1>2. is[k] # None /\ is[c] # None BY InstructionIs
<1>3. /\ Lazy!Covers(p[c], p[k]) <=> Lazy!Covers(is[c], is[k])
      /\ Lazy!Apart(p[c], p[k]) <=> Lazy!Apart(is[c], is[k])
  BY <1>1 DEF Alike, Lazy!Covers, Lazy!Apart
<1>4. IsKind(p[c], "replace") <=> IsKind(is[c], "replace") BY <1>1, <1>2 DEF Alike, IsKind
<1>5. IsKind(p[k], "replace") <=> IsKind(is[k], "replace") BY <1>1, <1>2 DEF Alike, IsKind
<1>6. QED BY <1>3, <1>4, <1>5 DEF Cuts

LEMMA ApartOrCovered ==
  ASSUME NEW n \in Nat, NEW is \in Instructions(n), NEW k \in 1 .. n, NEW c \in 1 .. n
  PROVE  /\ ~(Lazy!Apart(is[c], is[k]) /\ Lazy!Covers(is[c], is[k]))
         /\ is[c].kind = "replace" =>
              Lazy!Apart(is[c], is[k]) \/ Lazy!Covers(is[c], is[k]) \/ Cuts(is[c], is[k])
<1>1. /\ is[k].first \in Nat /\ is[k].last \in Nat /\ is[k].first <= is[k].last
      /\ is[c].first \in Nat /\ is[c].last \in Nat /\ is[c].first <= is[c].last
      /\ is[k].kind \in {"insert", "replace"}
      /\ is[k].kind = "insert" => is[k].last = is[k].first
      /\ is[k] # None /\ is[c] # None
  BY InstructionIs
<1>2. ~(Lazy!Apart(is[c], is[k]) /\ Lazy!Covers(is[c], is[k]))
  BY <1>1 DEF Lazy!Apart, Lazy!Covers
<1>3. CASE is[k].kind = "insert"
  <2>1. Lazy!Apart(is[c], is[k]) \/ Lazy!Covers(is[c], is[k])
    BY <1>1, <1>3 DEF Lazy!Apart, Lazy!Covers
  <2>2. QED BY <1>2, <2>1
<1>4. CASE is[k].kind = "replace" BY <1>1, <1>2, <1>4 DEF Cuts, IsKind
<1>5. QED BY <1>1, <1>3, <1>4

\* What is apart, of what the walk has passed.
LEMMA SoundApart ==
  ASSUME NEW n \in Nat, NEW is \in Instructions(n), NEW p \in Programs(n), Thinned(is, p),
         NEW w \in 0 .. n, Sound(n, is, p, w),
         NEW i \in 1 .. w, is[i].kind = "replace", NEW k \in 1 .. i - 1, p[k] # None
  PROVE  Lazy!Apart(is[i], is[k])
<1>1. k \in 1 .. n /\ i \in 1 .. n /\ i \in k + 1 .. w OBVIOUS
<1>2. ~Killed(is, k, w) BY <1>1 DEF Sound
<1>3. ~Lazy!Covers(is[i], is[k]) BY <1>1, <1>2 DEF Killed
<1>4. \A m \in k + 1 .. i - 1 : m \in k + 1 .. w OBVIOUS
<1>5. \A m \in k + 1 .. i - 1 : is[m].kind = "replace" => ~Lazy!Covers(is[m], is[k])
  BY <1>2, <1>4 DEF Killed
<1>6. ~CutBy(is, k, i) BY DEF Sound
<1>7. ~Cuts(is[i], is[k]) BY <1>5, <1>6 DEF CutBy
<1>8. QED BY <1>1, <1>3, <1>7, ApartOrCovered

----------------------------------------------------------------------------
(* The replaces                                                             *)

LEMMA StuckStep ==
  ASSUME NEW n \in Nat, NEW is \in Instructions(n), NEW p \in Programs(n), Thinned(is, p),
         NEW i \in 1 .. n, NEW r \in Programs(n), NEW e, ReplaceDone(n, p, i, r, e),
         StuckBehind(n, is, p, i - 1)
  PROVE  StuckBehind(n, is, r, 0) /\ (~e => StuckBehind(n, is, r, i))
<1>1. PICK c \in i .. n : \E k \in 1 .. c - 1 : CutBy(is, k, c) /\ p[k] # None /\ p[c] # None
  BY DEF StuckBehind
<1>2. PICK k \in 1 .. c - 1 : CutBy(is, k, c) /\ p[k] # None /\ p[c] # None BY <1>1
<1>3. k \in 1 .. n /\ c \in 1 .. n /\ k < c /\ i <= c OBVIOUS
<1>4. r[c] = p[c] BY <1>3 DEF ReplaceDone
<1>5. r[k] = p[k]
  <2>1. SUFFICES ASSUME r[k] # p[k] PROVE FALSE
    OBVIOUS
  <2>2. k < i /\ IsKind(p[i], "replace") /\ Lazy!Covers(p[i], p[k]) BY <1>3, <2>1 DEF ReplaceDone
  <2>3. p[i] # None BY <2>2 DEF IsKind
  <2>4. is[i].kind = "replace" /\ Lazy!Covers(is[i], is[k])
    BY <1>2, <1>3, <2>2, <2>3, CutsAlike, StandsFor
  <2>5. i = c \/ i \in k + 1 .. c - 1 BY <1>3, <2>2
  <2>6. QED BY <1>2, <2>4, <2>5 DEF CutBy, Cuts
<1>6. ASSUME ~e PROVE c # i
  <2>1. SUFFICES ASSUME c = i PROVE FALSE
    OBVIOUS
  <2>2. Cuts(p[i], p[k]) BY <1>2, <1>3, <2>1, CutsAlike DEF CutBy
  <2>3. QED BY <1>6, <2>1, <2>2 DEF ReplaceDone
<1>7. CutBy(is, k, c) /\ r[k] # None /\ r[c] # None BY <1>2, <1>4, <1>5
<1>8. c \in 0 + 1 .. n /\ (c # i => c \in i + 1 .. n) OBVIOUS
<1>9. QED BY <1>6, <1>7, <1>8 DEF StuckBehind

LEMMA PassedStep ==
  ASSUME NEW n \in Nat, NEW is \in Instructions(n), NEW p \in Programs(n), Thinned(is, p),
         NEW w \in 0 .. n, Sound(n, is, p, w),
         NEW i \in 1 .. w, NEW r \in Programs(n), NEW e, ReplaceDone(n, p, i, r, e)
  PROVE  r = p /\ ~e
<1>1. i \in 1 .. n OBVIOUS
<1>2. ASSUME IsKind(p[i], "replace"), NEW k \in 1 .. i - 1, p[k] # None
      PROVE  ~Lazy!Covers(p[i], p[k]) /\ ~Cuts(p[i], p[k])
  <2>1. k \in 1 .. n /\ p[i] # None BY <1>2 DEF IsKind
  <2>2. is[i].kind = "replace" BY <1>1, <1>2, <2>1, StandsFor
  <2>3. Lazy!Apart(is[i], is[k]) BY <1>2, <2>2, SoundApart
  <2>4. ~Lazy!Covers(is[i], is[k]) BY <1>1, <2>1, <2>3, ApartOrCovered
  <2>5. ~Cuts(is[i], is[k]) BY <2>3 DEF Cuts
  <2>6. QED BY <1>1, <1>2, <2>1, <2>4, <2>5, CutsAlike
<1>3. \A k \in 1 .. n : r[k] = p[k]
  <2>1. SUFFICES ASSUME NEW k \in 1 .. n, r[k] # p[k] PROVE FALSE
    OBVIOUS
  <2>2. /\ r[k] = None /\ k \in 1 .. i - 1 /\ IsKind(p[i], "replace")
        /\ Lazy!Covers(p[i], p[k])
    BY <2>1 DEF ReplaceDone
  <2>3. QED BY <1>2, <2>1, <2>2
<1>4. r = p BY <1>3 DEF Programs
<1>5. ~e
  <2>1. SUFFICES ASSUME e PROVE FALSE
    OBVIOUS
  <2>2. PICK k \in 1 .. i - 1 : Cuts(p[i], p[k]) BY <2>1 DEF ReplaceDone
  <2>3. IsKind(p[i], "replace") /\ p[k] # None BY <2>2 DEF Cuts, IsKind
  <2>4. QED BY <1>2, <2>2, <2>3
<1>6. QED BY <1>4, <1>5

LEMMA NextStep ==
  ASSUME NEW n \in Nat, NEW is \in Instructions(n), NEW p \in Programs(n), Thinned(is, p),
         NEW i \in 1 .. n, Sound(n, is, p, i - 1),
         NEW r \in Programs(n), NEW e, ReplaceDone(n, p, i, r, e)
  PROVE  /\ e => StuckBehind(n, is, r, 0)
         /\ ~e => Sound(n, is, r, i)
<1>1. p[i] # None
  <2>1. ~Killed(is, i, i - 1) BY DEF Killed
  <2>2. ~Merged(is, p, i, i - 1) BY DEF Merged
  <2>3. QED BY <2>1, <2>2 DEF Sound
<1>2. IsKind(p[i], "replace") <=> is[i].kind = "replace" BY <1>1, StandsFor
<1>3. \A k \in 1 .. n : r[k] # None => p[k] # None /\ r[k] = p[k] BY DEF ReplaceDone
<1>4. \A k \in 1 .. n : \A kk \in k + 1 .. i : kk = i \/ kk \in k + 1 .. i - 1 OBVIOUS
<1>5. ASSUME e PROVE StuckBehind(n, is, r, 0)
  <2>1. PICK k \in 1 .. i - 1 : Cuts(p[i], p[k]) /\ r[k] = p[k] BY <1>5 DEF ReplaceDone
  <2>2. k \in 1 .. n /\ p[k] # None /\ r[i] = p[i] BY <2>1 DEF Cuts, IsKind, ReplaceDone
  <2>3. Cuts(is[i], is[k]) BY <1>1, <2>1, <2>2, CutsAlike
  <2>4. ~Killed(is, k, i - 1) BY <2>2 DEF Sound
  <2>5. CutBy(is, k, i) BY <2>3, <2>4 DEF CutBy, Killed
  <2>6. i \in 0 + 1 .. n OBVIOUS
  <2>7. QED BY <1>1, <2>1, <2>2, <2>5, <2>6 DEF StuckBehind
<1>6. ASSUME ~e PROVE Sound(n, is, r, i)
  <2>1. ASSUME NEW k \in 1 .. n, r[k] # None PROVE ~Killed(is, k, i)
    <3>1. SUFFICES ASSUME Killed(is, k, i) PROVE FALSE
      OBVIOUS
    <3>2. PICK m \in k + 1 .. i : is[m].kind = "replace" /\ Lazy!Covers(is[m], is[k])
      BY <3>1 DEF Killed
    <3>3. ~Killed(is, k, i - 1) BY <1>3, <2>1 DEF Sound
    <3>4. m = i BY <1>4, <3>2, <3>3 DEF Killed
    <3>5. k \in 1 .. i - 1 /\ IsKind(p[i], "replace") BY <1>2, <3>2, <3>4
    <3>6. Lazy!Apart(p[i], p[k]) BY <1>3, <1>6, <2>1, <3>5 DEF ReplaceDone
    <3>7. Lazy!Apart(is[i], is[k]) BY <1>1, <1>3, <2>1, <3>6, CutsAlike
    <3>8. QED BY <3>2, <3>4, <3>7, ApartOrCovered
  <2>2. ASSUME NEW k \in 1 .. n, r[k] = None PROVE Killed(is, k, i) \/ Merged(is, r, k, i)
    <3>1. \A m \in 1 .. n : r[m] = None /\ p[m] # None =>
            m < i /\ is[i].kind = "replace" /\ Lazy!Covers(is[i], is[m])
      <4>1. SUFFICES ASSUME NEW m \in 1 .. n, r[m] = None, p[m] # None
                     PROVE m < i /\ is[i].kind = "replace" /\ Lazy!Covers(is[i], is[m])
        OBVIOUS
      <4>2. m < i /\ IsKind(p[i], "replace") /\ Lazy!Covers(p[i], p[m]) BY <4>1 DEF ReplaceDone
      <4>3. QED BY <1>1, <1>2, <4>1, <4>2, CutsAlike
    <3>2. CASE p[k] # None
      <4>1. i \in k + 1 .. i BY <2>2, <3>1, <3>2
      <4>2. QED BY <2>2, <3>1, <3>2, <4>1 DEF Killed
    <3>3. CASE p[k] = None /\ Killed(is, k, i - 1)
      <4>1. \A m \in k + 1 .. i - 1 : m \in k + 1 .. i OBVIOUS
      <4>2. QED BY <3>3, <4>1 DEF Killed
    <3>4. CASE p[k] = None /\ Merged(is, p, k, i - 1)
      <4>1. PICK m \in 1 .. i - 1 : /\ m # k /\ p[m] # None /\ is[m].first = is[k].first
                                    /\ m > k \/ is[m].kind = "replace"
        BY <3>4 DEF Merged
      <4>2. is[k].kind = "insert" /\ k <= i - 1 BY <3>4 DEF Merged
      <4>3. m \in 1 .. n /\ m \in 1 .. i /\ k <= i /\ i \in k + 1 .. i BY <4>2
      <4>4. CASE r[m] # None BY <4>1, <4>2, <4>3, <4>4 DEF Merged
      <4>5. CASE r[m] = None
        <5>1. is[i].kind = "replace" /\ Lazy!Covers(is[i], is[m]) BY <3>1, <4>1, <4>3, <4>5
        <5>2. /\ is[k].last = is[k].first /\ is[k].first \in Nat
              /\ is[m].first \in Nat /\ is[m].last \in Nat /\ is[m].first <= is[m].last
              /\ is[i].first \in Nat /\ is[i].last \in Nat
          BY <4>2, <4>3, InstructionIs
        <5>3. Lazy!Covers(is[i], is[k]) BY <4>1, <5>1, <5>2 DEF Lazy!Covers
        <5>4. QED BY <4>3, <5>1, <5>3 DEF Killed
      <4>6. QED BY <4>4, <4>5
    <3>5. QED BY <3>2, <3>3, <3>4 DEF Sound
  <2>3. ASSUME NEW c \in 1 .. i, NEW k \in 1 .. c - 1 PROVE ~CutBy(is, k, c)
    <3>1. CASE c # i
      <4>1. c \in 1 .. i - 1 BY <3>1
      <4>2. QED BY <4>1 DEF Sound
    <3>2. CASE c = i
      <4>1. SUFFICES ASSUME CutBy(is, k, i) PROVE FALSE
        BY <3>2
      <4>2. k \in 1 .. i - 1 /\ k \in 1 .. n BY <3>2
      <4>3. ~Killed(is, k, i - 1) BY <4>1 DEF CutBy, Killed
      <4>4. is[k].kind = "replace" BY <4>1 DEF CutBy, Cuts, IsKind
      <4>5. ~Merged(is, p, k, i - 1) BY <4>4 DEF Merged
      <4>6. p[k] # None BY <4>2, <4>3, <4>5 DEF Sound
      <4>7. Cuts(p[i], p[k]) BY <1>1, <4>1, <4>2, <4>6, CutsAlike DEF CutBy
      <4>8. QED BY <1>6, <4>2, <4>7 DEF ReplaceDone
    <3>3. QED BY <3>1, <3>2
  <2>4. QED BY <2>1, <2>2, <2>3 DEF Sound
<1>7. QED BY <1>5, <1>6

----------------------------------------------------------------------------
(* Texts, joined from the last to the first                                 *)

Adds(n, c, f) == f = [k \in 0 .. n |-> IF k = 0 THEN <<>> ELSE c[k] \o f[k - 1]]
Sums(n, c)    == CHOOSE f : Adds(n, c, f)
TextsOf(n)    == [1 .. n -> Seq(Out)]

Joins(n, c, f) == f[0] = <<>> /\ \A k \in 1 .. n : f[k] = c[k] \o f[k - 1]

LEMMA JoinsExist ==
  ASSUME NEW n \in Nat, NEW c \in TextsOf(n)
  PROVE  \E f \in [0 .. n -> Seq(Out)] : Joins(n, c, f)
<1> DEFINE T == Seq(Out)
           Upto(m) == \E f \in [0 .. n -> T] : Joins(m, c, f)
           S == {m \in Nat : m <= n => Upto(m)}
<1>1. c \in [1 .. n -> T] /\ <<>> \in T /\ \A s, t : s \in T /\ t \in T => s \o t \in T
  BY OutSpliced DEF TextsOf
<1> HIDE DEF T
<1>2. Upto(0)
  <2> DEFINE f == [k \in 0 .. n |-> <<>>]
  <2>1. f \in [0 .. n -> T] /\ f[0] = <<>> BY <1>1
  <2> HIDE DEF f
  <2>2. Joins(0, c, f) BY <2>1 DEF Joins
  <2>3. QED BY <2>1, <2>2
<1>3. ASSUME NEW m \in Nat, m + 1 <= n, Upto(m) PROVE Upto(m + 1)
  <2>1. m + 1 <= n BY <1>3
  <2>2. PICK f \in [0 .. n -> T] : f[0] = <<>> /\ \A k \in 1 .. m : f[k] = c[k] \o f[k - 1]
    BY <1>3 DEF Joins
  <2> DEFINE g == [k \in 0 .. n |-> IF k = m + 1 THEN c[k] \o f[m] ELSE f[k]]
  <2>3. m \in 0 .. n /\ m + 1 \in 1 .. n /\ m + 1 \in 0 .. n BY <2>1
  <2>4. c[m + 1] \o f[m] \in T BY <1>1, <2>2, <2>3
  <2>5. g \in [0 .. n -> T] BY <2>2, <2>4
  <2>6. g[m + 1] = c[m + 1] \o f[m] BY <2>3
  <2>7. \A k \in 0 .. m : g[k] = f[k] BY <2>3
  <2>8. \A k \in 1 .. m + 1 : g[k] = c[k] \o g[k - 1]
    <3>1. SUFFICES ASSUME NEW k \in 1 .. m + 1 PROVE g[k] = c[k] \o g[k - 1]
      OBVIOUS
    <3> HIDE DEF g
    <3>2. k - 1 \in 0 .. m /\ (k = m + 1 \/ k \in 1 .. m) OBVIOUS
    <3>3. g[k - 1] = f[k - 1] BY <2>7, <3>2
    <3>4. CASE k = m + 1
      <4>1. k - 1 = m BY <3>4
      <4>2. QED BY <2>6, <3>3, <3>4, <4>1
    <3>5. CASE k \in 1 .. m
      <4>1. g[k] = f[k] BY <2>7, <3>5
      <4>2. QED BY <2>2, <3>3, <3>5, <4>1
    <3>6. QED BY <3>2, <3>4, <3>5
  <2>9. g[0] = <<>> BY <2>2, <2>7
  <2> HIDE DEF g
  <2>10. Joins(m + 1, c, g) BY <2>8, <2>9 DEF Joins
  <2>11. QED BY <2>5, <2>10
<1> HIDE DEF Upto
<1>4. 0 \in S BY <1>2
<1>5. ASSUME NEW m \in Nat, m \in S PROVE m + 1 \in S BY <1>3, <1>5
<1> HIDE DEF S
<1>6. n \in S BY <1>4, <1>5, Induct
<1>7. Upto(n) BY <1>6 DEF S
<1>8. QED BY <1>7 DEF Upto, T

LEMMA Associates ==
  ASSUME NEW r, NEW s, NEW t, r \in Seq(Out), s \in Seq(Out), t \in Seq(Out)
  PROVE  r \o (s \o t) = (r \o s) \o t
BY ConcatAssociative

JoinedBy(n, c, f) == c \in TextsOf(n) /\ f \in [0 .. n -> Seq(Out)] /\ Joins(n, c, f)

\* Two sums that come together at a stay so up to b, the one before a text t.
Together(a, b, t, c, d, f, g) ==
  /\ a <= b /\ t \in Seq(Out) /\ f[a] = g[a] \o t
  /\ \A k \in 1 .. b : k > a => c[k] = d[k]

LEMMA JoinsFurther ==
  ASSUME NEW n \in Nat, NEW m \in Nat, NEW c, NEW d, NEW f, NEW g,
         JoinedBy(n, c, f), JoinedBy(m, d, g),
         NEW a \in Nat, NEW b \in Nat, b <= n, b <= m, NEW t, Together(a, b, t, c, d, f, g)
  PROVE  f[b] = g[b] \o t
<1> USE DEF Together
<1> DEFINE S == {k \in Nat : a + k <= b => f[a + k] = g[a + k] \o t}
<1>1. 0 \in S
  <2>1. a + 0 = a OBVIOUS
  <2>2. QED BY <2>1
<1>2. ASSUME NEW k \in Nat, k \in S PROVE k + 1 \in S
  <2>1. SUFFICES ASSUME a + k + 1 <= b PROVE f[a + (k + 1)] = g[a + (k + 1)] \o t
    OBVIOUS
  <2> DEFINE x == a + (k + 1)
             y == a + k
  <2>2. /\ x \in 1 .. n /\ x \in 1 .. m /\ x - 1 = y /\ x \in 1 .. b /\ x > a
        /\ y \in 0 .. n /\ y \in 0 .. m
    BY <2>1
  <2>3. f[y] = g[y] \o t BY <1>2, <2>1
  <2> HIDE DEF x, y
  <2>4. f[x] = c[x] \o f[y] /\ g[x] = d[x] \o g[y] /\ c[x] = d[x] BY <2>2 DEF Joins, JoinedBy
  <2>5. c[x] \in Seq(Out) /\ g[y] \in Seq(Out) BY <2>2 DEF TextsOf, JoinedBy
  <2> DEFINE cx == c[x]
             gy == g[y]
  <2>6. cx \in Seq(Out) /\ gy \in Seq(Out) /\ t \in Seq(Out) BY <2>5
  <2> HIDE DEF cx, gy
  <2>7. cx \o (gy \o t) = (cx \o gy) \o t BY ONLY <2>6, Associates
  <2>8. c[x] \o (g[y] \o t) = (c[x] \o g[y]) \o t BY <2>7 DEF cx, gy
  <2>9. QED BY <2>3, <2>4, <2>8 DEF x
<1> HIDE DEF S
<1>3. \A k \in Nat : k \in S BY <1>1, <1>2, Induct
<1> DEFINE x == b - a
<1>4. x \in Nat /\ a + x = b OBVIOUS
<1> HIDE DEF x
<1>5. a + x <= b BY <1>4
<1>6. QED BY <1>3, <1>4, <1>5 DEF S

Nothing(a, b, c) == a <= b /\ \A k \in 1 .. b : k > a => c[k] = <<>>

LEMMA JoinsNothing ==
  ASSUME NEW n \in Nat, NEW c, NEW f, JoinedBy(n, c, f),
         NEW a \in Nat, NEW b \in Nat, b <= n, Nothing(a, b, c)
  PROVE  f[b] = f[a]
<1> USE DEF JoinedBy, Nothing
<1> DEFINE S == {k \in Nat : a + k <= b => f[a + k] = f[a]}
<1>1. 0 \in S OBVIOUS
<1>2. ASSUME NEW k \in Nat, k \in S PROVE k + 1 \in S
  <2>1. SUFFICES ASSUME a + k + 1 <= b PROVE f[a + (k + 1)] = f[a]
    OBVIOUS
  <2> DEFINE x == a + (k + 1)
             y == a + k
  <2>2. x \in 1 .. n /\ x - 1 = y /\ x \in 1 .. b /\ x > a /\ y \in 0 .. n BY <2>1
  <2>3. f[y] = f[a] BY <1>2, <2>1
  <2> HIDE DEF x, y
  <2>4. f[x] = <<>> \o f[y] BY <2>2 DEF Joins
  <2>5. f[y] \in Seq(Out) BY <2>2
  <2>6. f[x] = f[y] BY <2>4, <2>5
  <2>7. QED BY <2>3, <2>6 DEF x
<1> HIDE DEF S
<1>3. \A k \in Nat : k \in S BY <1>1, <1>2, Induct
<1> DEFINE x == b - a
<1>4. x \in Nat /\ a + x = b OBVIOUS
<1> HIDE DEF x
<1>5. a + x <= b BY <1>4
<1>6. QED BY <1>3, <1>4, <1>5 DEF S

LEMMA SumsAre ==
  ASSUME NEW n \in Nat, NEW c \in TextsOf(n)
  PROVE  Sums(n, c) \in [0 .. n -> Seq(Out)] /\ Joins(n, c, Sums(n, c))
<1>1. PICK f \in [0 .. n -> Seq(Out)] : Joins(n, c, f) BY JoinsExist
<1>2. Adds(n, c, f)
  <2>1. \A k \in 0 .. n : f[k] = IF k = 0 THEN <<>> ELSE c[k] \o f[k - 1]
    <3>1. \A k \in 0 .. n : k = 0 \/ k \in 1 .. n OBVIOUS
    <3>2. QED BY <1>1, <3>1 DEF Joins
  <2>2. f = [k \in 0 .. n |-> f[k]] BY <1>1
  <2> DEFINE h == [k \in 0 .. n |-> IF k = 0 THEN <<>> ELSE c[k] \o f[k - 1]]
  <2>3. \A k \in 0 .. n : h[k] = f[k] BY <2>1
  <2>4. h = [k \in 0 .. n |-> h[k]] OBVIOUS
  <2> HIDE DEF h
  <2>5. f = h BY <2>2, <2>3, <2>4
  <2>6. QED BY <2>5 DEF h, Adds
<1> DEFINE g == Sums(n, c)
<1>3. Adds(n, c, g) BY <1>2, Zenon DEF Sums
<1> HIDE DEF g
<1>4. Joins(n, c, g) /\ g = [k \in 0 .. n |-> g[k]] BY <1>3 DEF Adds, Joins
<1>5. \A k \in 0 .. n : g[k] \in Seq(Out)
  <2> DEFINE S == {k \in Nat : k <= n => g[k] \in Seq(Out)}
  <2>1. 0 \in S BY <1>4 DEF Joins
  <2>2. ASSUME NEW k \in Nat, k \in S PROVE k + 1 \in S
    <3>1. SUFFICES ASSUME k + 1 <= n PROVE g[k + 1] \in Seq(Out)
      OBVIOUS
    <3>2. k + 1 \in 1 .. n /\ (k + 1) - 1 = k BY <3>1
    <3>3. g[k + 1] = c[k + 1] \o g[k] BY <1>4, <3>2 DEF Joins
    <3>4. c[k + 1] \in Seq(Out) /\ g[k] \in Seq(Out) BY <2>2, <3>1, <3>2 DEF TextsOf
    <3>5. QED BY <3>3, <3>4, OutSpliced
  <2> HIDE DEF S
  <2>3. \A k \in Nat : k \in S BY <2>1, <2>2, Induct
  <2>4. QED BY <2>3 DEF S
<1>6. QED BY <1>4, <1>5 DEF g

\* Whatever joins the same texts comes to the same.
LEMMA JoinsAreSums ==
  ASSUME NEW n \in Nat, NEW c \in TextsOf(n), NEW f \in [0 .. n -> Seq(Out)], Joins(n, c, f)
  PROVE  f[n] = Sums(n, c)[n]
<1> DEFINE g == Sums(n, c)
           t == <<>>
<1>1. g \in [0 .. n -> Seq(Out)] /\ Joins(n, c, g) BY SumsAre
<1> HIDE DEF g
<1>2. \A s \in Seq(Out) : s \o t = s OBVIOUS
<1>3. t \in Seq(Out) OBVIOUS
<1>4. f[0] = t /\ g[0] = t BY <1>1 DEF Joins
<1>5. f[0] = g[0] \o t BY <1>2, <1>3, <1>4
<1>6. JoinedBy(n, c, f) /\ JoinedBy(n, c, g) BY <1>1 DEF JoinedBy
<1>7. 0 \in Nat /\ 0 <= n /\ n <= n /\ \A k \in 1 .. n : k > 0 => c[k] = c[k] OBVIOUS
<1> HIDE DEF t
<1>8. Together(0, n, t, c, c, f, g) BY <1>3, <1>5, <1>7 DEF Together
<1>9. f[n] = g[n] \o t BY <1>6, <1>7, <1>8, JoinsFurther
<1>10. QED BY <1>1, <1>2, <1>9 DEF g

----------------------------------------------------------------------------
(* What the instructions say, with other texts                              *)

Texts(p) == [k \in DOMAIN p |-> IF p[k] = None THEN <<>> ELSE p[k].text]

Inserted(is, t, q) ==
  [k \in DOMAIN is |->
     IF is[k].kind = "insert" /\ is[k].first = q /\ Lazy!Live(is, k) THEN t[k] ELSE <<>>]

Chosen(is, q) == {k \in DOMAIN is : is[k].kind = "replace" /\ is[k].first = q /\ Lazy!Live(is, k)}

Standing(is, t, q) ==
  IF Chosen(is, q) # {} THEN t[CHOOSE k \in Chosen(is, q) : TRUE]
  ELSE IF q \in Token THEN <<[token |-> q]>> ELSE <<>>

Reads(n, is, t, q) == Sums(n, Inserted(is, t, q))[n] \o Standing(is, t, q)

\* The program says of every token what the instructions say.
Means(n, is, p) ==
  \A q \in 0 .. NTokens : Reads(n, is, Texts(p), q) = Reads(n, is, Texts(is), q)

LEMMA TextsAre ==
  ASSUME NEW n \in Nat, NEW p \in Programs(n)
  PROVE  /\ Texts(p) \in TextsOf(n)
         /\ \A k \in 1 .. n : Texts(p)[k] = IF p[k] = None THEN <<>> ELSE p[k].text
<1>1. DOMAIN p = 1 .. n /\ \A k \in 1 .. n : p[k] # None => p[k] \in Good BY DEF Programs
<1>2. \A k \in 1 .. n : p[k] # None => p[k].text \in Seq(Out) BY <1>1, GoodIs, BitsAreOut
<1>3. <<>> \in Seq(Out) OBVIOUS
<1> DEFINE T == Seq(Out)
<1> HIDE DEF T
<1>4. \A k \in 1 .. n : (IF p[k] = None THEN <<>> ELSE p[k].text) \in T BY <1>2, <1>3 DEF T
<1>5. Texts(p) = [k \in 1 .. n |-> IF p[k] = None THEN <<>> ELSE p[k].text] BY <1>1 DEF Texts
<1>6. QED BY <1>4, <1>5 DEF TextsOf, T

LEMMA LiveIs ==
  ASSUME NEW n \in Nat, NEW is \in Instructions(n), NEW k \in 1 .. n
  PROVE  Lazy!Live(is, k) <=> ~Killed(is, k, n)
<1>1. DOMAIN is = 1 .. n BY DEF Instructions
<1>2. \A m \in 1 .. n : k < m <=> m \in k + 1 .. n OBVIOUS
<1>3. \A m \in k + 1 .. n : m \in 1 .. n OBVIOUS
<1>4. QED BY <1>1, <1>2, <1>3 DEF Lazy!Live, Killed

LEMMA InsertedIs ==
  ASSUME NEW n \in Nat, NEW is \in Instructions(n), NEW t \in TextsOf(n), NEW q
  PROVE  /\ Inserted(is, t, q) \in TextsOf(n)
         /\ \A k \in 1 .. n : Inserted(is, t, q)[k] =
              IF is[k].kind = "insert" /\ is[k].first = q /\ Lazy!Live(is, k) THEN t[k] ELSE <<>>
<1>1. DOMAIN is = 1 .. n BY DEF Instructions
<1>2. <<>> \in Seq(Out) OBVIOUS
<1> DEFINE T == Seq(Out)
<1>3. t \in [1 .. n -> T] /\ <<>> \in T BY <1>2 DEF TextsOf
<1> HIDE DEF T
<1>4. QED BY <1>1, <1>3 DEF Inserted, TextsOf, T

LEMMA PieceOrNothing ==
  ASSUME NEW q
  PROVE  (IF q \in Token THEN <<[token |-> q]>> ELSE <<>>) \in Seq(Out)
<1>1. <<>> \in Seq(Out) OBVIOUS
<1>2. q \in Token => <<[token |-> q]>> \in Seq(Out) BY PieceIsOut DEF Piece
<1>3. QED BY <1>1, <1>2

LEMMA StandingIs ==
  ASSUME NEW n \in Nat, NEW is \in Instructions(n), NEW t \in TextsOf(n), NEW q
  PROVE  Standing(is, t, q) \in Seq(Out)
<1>1. DOMAIN is = 1 .. n BY DEF Instructions
<1>2. CASE Chosen(is, q) = {} BY <1>2, PieceOrNothing DEF Standing
<1>3. CASE Chosen(is, q) # {}
  <2>1. PICK k \in Chosen(is, q) : k = CHOOSE j \in Chosen(is, q) : TRUE BY <1>3
  <2>2. k \in 1 .. n /\ Standing(is, t, q) = t[k] BY <1>1, <1>3, <2>1 DEF Standing, Chosen
  <2>3. QED BY <2>2 DEF TextsOf
<1>4. QED BY <1>2, <1>3

LEMMA AtReads ==
  ASSUME NEW n \in Nat, NEW is \in Instructions(n), Len(is) = n, NEW q
  PROVE  Lazy!At(is, q) = Reads(n, is, Texts(is), q)
<1> DEFINE here    == {k \in DOMAIN is : is[k].first = q /\ Lazy!Live(is, k)}
           replace == {k \in here : is[k].kind = "replace"}
           Is(f)   == f = [k \in 0 .. Len(is) |->
                             IF k = 0 THEN <<>>
                             ELSE (IF k \in here \ replace THEN is[k].text ELSE <<>>) \o f[k - 1]]
           inserted == CHOOSE f : Is(f)
           t == Texts(is)
           c == Inserted(is, t, q)
           g == Sums(n, c)
<1>1. DOMAIN is = 1 .. n BY DEF Instructions
<1>2. t \in TextsOf(n) /\ \A k \in 1 .. n : t[k] = is[k].text
  <2>1. is \in Programs(n) /\ \A k \in 1 .. n : is[k] # None BY InstructionsAreProgram, InstructionIs
  <2>2. QED BY <2>1, TextsAre
<1>3. replace = Chosen(is, q) BY DEF Chosen
<1>4. Lazy!At(is, q) = inserted[Len(is)]
                         \o IF replace # {} THEN is[CHOOSE k \in replace : TRUE].text
                            ELSE IF q \in Token THEN <<[token |-> q]>> ELSE <<>>
  BY Zenon DEF Lazy!At, Lazy!Token, Token
<1>5. (IF replace # {} THEN is[CHOOSE k \in replace : TRUE].text
       ELSE IF q \in Token THEN <<[token |-> q]>> ELSE <<>>) = Standing(is, t, q)
  <2>1. CASE replace = {} BY <1>3, <2>1 DEF Standing
  <2>2. CASE replace # {}
    <3>1. PICK k \in replace : k = CHOOSE j \in replace : TRUE BY <2>2
    <3>2. k \in 1 .. n BY <1>1, <3>1
    <3> HIDE DEF replace, t
    <3>3. QED BY <1>2, <1>3, <2>2, <3>1, <3>2 DEF Standing
  <2>3. QED BY <2>1, <2>2
<1>6. /\ c \in TextsOf(n)
      /\ \A k \in 1 .. n : c[k] = IF k \in here \ replace THEN is[k].text ELSE <<>>
  <2>1. c \in TextsOf(n) /\ \A k \in 1 .. n : c[k] =
          IF is[k].kind = "insert" /\ is[k].first = q /\ Lazy!Live(is, k) THEN t[k] ELSE <<>>
    BY <1>2, InsertedIs
  <2>2. \A k \in 1 .. n : k \in here \ replace <=>
          is[k].kind = "insert" /\ is[k].first = q /\ Lazy!Live(is, k)
    BY <1>1, InstructionIs
  <2> HIDE DEF here, replace, c, t
  <2>3. QED BY <1>2, <2>1, <2>2
<1> HIDE DEF c
<1>7. g \in [0 .. n -> Seq(Out)] /\ Joins(n, c, g) BY <1>6, SumsAre
<1> HIDE DEF g
<1>8. Is(g)
  <2>1. \A k \in 0 .. n : k = 0 \/ k \in 1 .. n OBVIOUS
  <2> HIDE DEF here, replace
  <2>2. \A k \in 0 .. n : g[k] = IF k = 0 THEN <<>>
          ELSE (IF k \in here \ replace THEN is[k].text ELSE <<>>) \o g[k - 1]
    BY <1>6, <1>7, <2>1 DEF Joins
  <2>3. g = [k \in 0 .. n |-> g[k]] BY <1>7
  <2>4. QED BY <2>2, <2>3
<1>9. Is(inserted) BY <1>8, Zenon
<1> HIDE DEF here, replace, inserted
<1>10. inserted[0] = <<>> /\ \A k \in 1 .. n : inserted[k] = c[k] \o inserted[k - 1]
  <2>1. \A k \in 1 .. n : k # 0 /\ k \in 0 .. n OBVIOUS
  <2>2. inserted = [k \in 0 .. n |->
                      IF k = 0 THEN <<>>
                      ELSE (IF k \in here \ replace THEN is[k].text ELSE <<>>) \o inserted[k - 1]]
    BY <1>9
  <2>3. \A k \in 0 .. n : inserted[k] =
          IF k = 0 THEN <<>>
          ELSE (IF k \in here \ replace THEN is[k].text ELSE <<>>) \o inserted[k - 1]
    BY <2>2
  <2>4. 0 \in 0 .. n OBVIOUS
  <2>5. QED BY <1>6, <2>1, <2>3, <2>4
<1>11. \A k \in Nat : k <= n => inserted[k] = g[k]
  <2> DEFINE S == {k \in Nat : k <= n => inserted[k] = g[k]}
  <2>1. 0 \in S BY <1>7, <1>10 DEF Joins
  <2>2. ASSUME NEW k \in Nat, k \in S PROVE k + 1 \in S
    <3>1. SUFFICES ASSUME k + 1 <= n PROVE inserted[k + 1] = g[k + 1]
      OBVIOUS
    <3>2. k + 1 \in 1 .. n /\ (k + 1) - 1 = k /\ k <= n BY <3>1
    <3>3. inserted[k + 1] = c[k + 1] \o inserted[k] BY <1>10, <3>2
    <3>4. g[k + 1] = c[k + 1] \o g[k] BY <1>7, <3>2 DEF Joins
    <3>5. QED BY <2>2, <3>2, <3>3, <3>4
  <2> HIDE DEF S
  <2>3. \A k \in Nat : k \in S BY <2>1, <2>2, Induct
  <2>4. QED BY <2>3 DEF S
<1>12. inserted[n] = g[n] BY <1>11
<1>13. QED BY <1>4, <1>5, <1>12 DEF Reads, g, c

\* Dropping what is killed changes nothing.
LEMMA MeansReplaced ==
  ASSUME NEW n \in Nat, NEW is \in Instructions(n), NEW p \in Programs(n), NEW r \in Programs(n),
         \A k \in 1 .. n : r[k] # p[k] => ~Lazy!Live(is, k),
         Means(n, is, p)
  PROVE  Means(n, is, r)
<1> SUFFICES ASSUME NEW q \in 0 .. NTokens
             PROVE  Reads(n, is, Texts(r), q) = Reads(n, is, Texts(p), q)
  BY DEF Means
<1> DEFINE t == Texts(p)
           u == Texts(r)
<1>1. /\ t \in TextsOf(n) /\ u \in TextsOf(n) /\ DOMAIN is = 1 .. n
      /\ \A k \in 1 .. n : Lazy!Live(is, k) => u[k] = t[k]
  BY TextsAre DEF Instructions
<1> HIDE DEF t, u
<1>2. \A k \in 1 .. n : Inserted(is, u, q)[k] = Inserted(is, t, q)[k] BY <1>1, InsertedIs
<1>3. Inserted(is, u, q) \in TextsOf(n) /\ Inserted(is, t, q) \in TextsOf(n) BY <1>1, InsertedIs
<1>4. Inserted(is, u, q) = Inserted(is, t, q) BY <1>2, <1>3 DEF TextsOf
<1>5. Standing(is, u, q) = Standing(is, t, q)
  <2>1. CASE Chosen(is, q) = {} BY <2>1 DEF Standing
  <2>2. CASE Chosen(is, q) # {}
    <3>1. PICK k \in Chosen(is, q) : k = CHOOSE j \in Chosen(is, q) : TRUE BY <2>2
    <3>2. k \in 1 .. n /\ Lazy!Live(is, k) BY <1>1, <3>1 DEF Chosen
    <3>3. QED BY <1>1, <2>2, <3>1, <3>2 DEF Standing
  <2>3. QED BY <2>1, <2>2
<1>6. QED BY <1>4, <1>5 DEF Reads, t, u

----------------------------------------------------------------------------
(* One instruction more                                                     *)

Extends(n, s, l) == \A k \in 1 .. n : l[k] = s[k]

Within(op, q) == op.kind = "replace" /\ op.first <= q /\ q <= op.last

LEMMA LiveMore ==
  ASSUME NEW n \in Nat, NEW is \in Instructions(n), NEW js \in Instructions(n + 1), Extends(n, is, js)
  PROVE  /\ \A k \in 1 .. n : Lazy!Live(js, k) <=>
              Lazy!Live(is, k) /\ ~(js[n + 1].kind = "replace" /\ Lazy!Covers(js[n + 1], js[k]))
         /\ Lazy!Live(js, n + 1)
<1>1. DOMAIN is = 1 .. n /\ DOMAIN js = 1 .. n + 1 BY DEF Instructions
<1>2. \A j \in 1 .. n + 1 : j \in 1 .. n \/ j = n + 1 OBVIOUS
<1>3. \A j \in 1 .. n : j \in 1 .. n + 1 /\ j < n + 1 /\ ~(n + 1 < j) OBVIOUS
<1>4. n + 1 \in 1 .. n + 1 /\ ~(n + 1 < n + 1) OBVIOUS
<1>5. Lazy!Live(js, n + 1) BY <1>1, <1>2, <1>3, <1>4 DEF Lazy!Live
<1>6. ASSUME NEW k \in 1 .. n
      PROVE  Lazy!Live(js, k) <=>
               Lazy!Live(is, k) /\ ~(js[n + 1].kind = "replace" /\ Lazy!Covers(js[n + 1], js[k]))
  <2> DEFINE Kills(m) == js[m].kind = "replace" /\ k < m /\ Lazy!Covers(js[m], js[k])
  <2>1. Lazy!Live(js, k) <=> \A m \in 1 .. n + 1 : ~Kills(m) BY <1>1 DEF Lazy!Live
  <2>2. Lazy!Live(is, k) <=> \A m \in 1 .. n : ~Kills(m) BY <1>1 DEF Lazy!Live, Extends
  <2>3. Kills(n + 1) <=> js[n + 1].kind = "replace" /\ Lazy!Covers(js[n + 1], js[k]) BY <1>3
  <2> HIDE DEF Kills
  <2>4. (\A m \in 1 .. n + 1 : ~Kills(m)) <=> (\A m \in 1 .. n : ~Kills(m)) /\ ~Kills(n + 1)
    BY <1>2, <1>3, <1>4
  <2>5. QED BY <2>1, <2>2, <2>3, <2>4
<1>7. QED BY <1>5, <1>6

\* A replace silences what was at its tokens, and an insert comes first.
LEMMA ReadsMore ==
  ASSUME NEW n \in Nat, NEW is \in Instructions(n), NEW js \in Instructions(n + 1), Extends(n, is, js),
         ~CutAsked(js), NEW q \in 0 .. NTokens,
         NEW t \in TextsOf(n), NEW u \in TextsOf(n + 1), Extends(n, t, u)
  PROVE  Reads(n + 1, js, u, q) =
           IF Within(js[n + 1], q) THEN IF js[n + 1].first = q THEN u[n + 1] ELSE <<[token |-> q]>>
           ELSE (IF js[n + 1].kind = "insert" /\ js[n + 1].first = q THEN u[n + 1] ELSE <<>>)
                  \o Reads(n, is, t, q)
<1> DEFINE l == n + 1
           op == js[l]
           c == Inserted(is, t, q)
           d == Inserted(js, u, q)
           f == Sums(n, c)
           g == Sums(l, d)
<1>1. /\ DOMAIN is = 1 .. n /\ DOMAIN js = 1 .. l /\ l \in Nat /\ l \in 1 .. l /\ n = l - 1
      /\ \A k \in 1 .. n : k \in 1 .. l /\ js[k] = is[k] /\ u[k] = t[k]
      /\ \A k \in 1 .. l : k = l \/ k \in 1 .. n
  BY DEF Instructions, Extends
<1>2. /\ \A k \in 1 .. n : Lazy!Live(js, k) <=>
           Lazy!Live(is, k) /\ ~(op.kind = "replace" /\ Lazy!Covers(op, js[k]))
      /\ Lazy!Live(js, l)
  BY LiveMore
<1>3. /\ op.kind \in {"insert", "replace"} /\ op.first \in Nat /\ op.last \in Nat /\ op.first <= op.last
      /\ op.kind = "replace" => op.last < NTokens
  BY <1>1, InstructionIs
<1>4. \A k \in 1 .. n : /\ js[k].first \in Nat /\ js[k].last \in Nat /\ js[k].first <= js[k].last
                        /\ js[k].kind = "insert" => js[k].last = js[k].first
  BY <1>1, InstructionIs
<1>5. /\ c \in TextsOf(n)
      /\ \A k \in 1 .. n : c[k] =
           IF is[k].kind = "insert" /\ is[k].first = q /\ Lazy!Live(is, k) THEN t[k] ELSE <<>>
  BY InsertedIs
<1> HIDE DEF l
<1>6. /\ d \in TextsOf(l) /\ u \in TextsOf(l)
      /\ \A k \in 1 .. l : d[k] =
           IF js[k].kind = "insert" /\ js[k].first = q /\ Lazy!Live(js, k) THEN u[k] ELSE <<>>
  <2>1. js \in Instructions(l) /\ u \in TextsOf(l) BY DEF l
  <2>2. QED BY <1>1, <2>1, InsertedIs
<1> HIDE DEF c, d
<1>7. f \in [0 .. n -> Seq(Out)] /\ Joins(n, c, f) BY <1>5, SumsAre
<1>8. g \in [0 .. l -> Seq(Out)] /\ Joins(l, d, g) BY <1>1, <1>6, SumsAre
<1>9. Reads(n, is, t, q) = f[n] \o Standing(is, t, q) BY DEF Reads, f, c
<1>10. Reads(l, js, u, q) = g[l] \o Standing(js, u, q) BY DEF Reads, g, d
<1> HIDE DEF f, g
<1>11. js \in Instructions(l) BY DEF l
<1>12. Standing(is, t, q) \in Seq(Out) /\ Standing(js, u, q) \in Seq(Out)
  <2>1. Standing(is, t, q) \in Seq(Out) BY StandingIs
  <2>2. Standing(js, u, q) \in Seq(Out) BY <1>1, <1>6, <1>11, StandingIs
  <2>3. QED BY <2>1, <2>2
<1>13. f[n] \in Seq(Out) /\ g[n] \in Seq(Out) /\ g[l] \in Seq(Out)
  <2>1. n \in 0 .. n /\ n \in 0 .. l /\ l \in 0 .. l BY <1>1
  <2>2. QED BY <1>7, <1>8, <2>1
<1>14. CASE Within(op, q)
  <2>1. op.kind = "replace" /\ op.first <= q /\ q <= op.last BY <1>14 DEF Within
  <2>2. \A k \in 1 .. l : d[k] = <<>>
    <3>1. SUFFICES ASSUME NEW k \in 1 .. n, js[k].kind = "insert", js[k].first = q PROVE ~Lazy!Live(js, k)
      BY <1>1, <1>6, <2>1
    <3>2. Lazy!Covers(op, js[k]) BY <1>4, <2>1, <3>1 DEF Lazy!Covers
    <3>3. QED BY <1>2, <2>1, <3>2
  <2>3. g[l] = <<>>
    <3>1. JoinedBy(l, d, g) BY <1>6, <1>8 DEF JoinedBy
    <3>2. Nothing(0, l, d) BY <2>2, <1>1 DEF Nothing
    <3>3. 0 \in Nat /\ l \in Nat /\ l <= l BY <1>1
    <3>4. g[l] = g[0] BY ONLY <3>1, <3>2, <3>3, JoinsNothing
    <3>5. QED BY <1>8, <3>4 DEF Joins
  <2>4. ASSUME NEW k \in Chosen(js, q) PROVE k = l
    <3>1. SUFFICES ASSUME k \in 1 .. n PROVE FALSE
      BY <1>1 DEF Chosen
    <3>2. k \in 1 .. l /\ js[k].kind = "replace" /\ js[k].first = q /\ Lazy!Live(js, k)
      BY <1>1, <3>1 DEF Chosen
    <3>3. ~Lazy!Covers(op, js[k]) BY <1>2, <2>1, <3>1, <3>2
    <3>4. ~Lazy!Apart(op, js[k]) BY <1>3, <1>4, <2>1, <3>1, <3>2 DEF Lazy!Apart
    <3>5. Cuts(op, js[k]) BY <1>1, <1>11, <2>1, <3>2, <3>3, <3>4, ApartOrCovered
    <3>6. ~Killed(js, k, l) BY <1>1, <1>11, <3>2, LiveIs
    <3>7. \A m \in k + 1 .. l - 1 : m \in k + 1 .. l BY <1>1
    <3>8. CutBy(js, k, l) BY <3>5, <3>6, <3>7 DEF CutBy, Killed
    <3>9. k \in 1 .. l - 1 /\ l \in DOMAIN js BY <1>1, <3>1
    <3>10. QED BY <3>8, <3>9 DEF CutAsked
  <2>5. Reads(l, js, u, q) = Standing(js, u, q) BY <1>10, <1>12, <2>3
  <2>6. CASE op.first = q
    <3>1. l \in Chosen(js, q) BY <1>1, <1>2, <2>1, <2>6 DEF Chosen
    <3>2. (CHOOSE k \in Chosen(js, q) : TRUE) = l BY <2>4, <3>1
    <3>3. Standing(js, u, q) = u[l] BY <3>1, <3>2 DEF Standing
    <3>4. QED BY <1>14, <2>5, <2>6, <3>3 DEF l
  <2>7. CASE op.first # q
    <3>1. l \notin Chosen(js, q) BY <2>7 DEF Chosen
    <3>2. Chosen(js, q) = {} BY <2>4, <3>1
    <3>3. q \in Token BY <1>3, <2>1, TokenRewriteAssumption DEF Token
    <3>4. Standing(js, u, q) = <<[token |-> q]>> BY <3>2, <3>3 DEF Standing
    <3>5. QED BY <1>14, <2>5, <2>7, <3>4 DEF l
  <2>8. QED BY <2>6, <2>7
<1>15. CASE ~Within(op, q)
  <2>1. ASSUME NEW k \in 1 .. n, js[k].first = q PROVE Lazy!Live(js, k) <=> Lazy!Live(is, k)
    <3>1. op.kind = "replace" => ~Lazy!Covers(op, js[k])
      BY <1>3, <1>4, <1>15, <2>1 DEF Within, Lazy!Covers
    <3>2. QED BY <1>2, <3>1
  <2>2. \A k \in 1 .. n : d[k] = c[k] BY <1>1, <1>5, <1>6, <2>1
  <2>3. g[n] = f[n]
    <3> DEFINE e == <<>>
    <3>1. JoinedBy(n, c, f) /\ JoinedBy(l, d, g) BY <1>5, <1>6, <1>7, <1>8 DEF JoinedBy
    <3>2. e \in Seq(Out) /\ \A s \in Seq(Out) : s \o e = s OBVIOUS
    <3>3. f[0] = e /\ g[0] = e BY <1>7, <1>8 DEF Joins
    <3> HIDE DEF e
    <3>4. 0 <= n /\ n <= n /\ n <= l /\ 0 \in Nat BY <1>1
    <3>5. g[0] = f[0] \o e BY <3>2, <3>3
    <3>6. \A k \in 1 .. n : k > 0 => d[k] = c[k] BY <2>2
    <3>7. Together(0, n, e, d, c, g, f) BY <3>2, <3>4, <3>5, <3>6 DEF Together
    <3>8. g[n] = f[n] \o e BY <1>1, <3>1, <3>4, <3>7, JoinsFurther
    <3>9. QED BY <1>13, <3>2, <3>8
  <2>4. g[l] = d[l] \o f[n] BY <1>1, <1>8, <2>3 DEF Joins
  <2>5. d[l] = IF op.kind = "insert" /\ op.first = q THEN u[l] ELSE <<>> BY <1>1, <1>2, <1>6
  <2>6. l \notin Chosen(js, q) BY <1>3, <1>15 DEF Chosen, Within
  <2>7. \A k : k \in Chosen(js, q) <=> k \in Chosen(is, q)
    BY <1>1, <2>1, <2>6 DEF Chosen
  <2>8. Chosen(js, q) = Chosen(is, q) BY <2>7
  <2>9. Standing(js, u, q) = Standing(is, t, q)
    <3>1. CASE Chosen(is, q) = {} BY <2>8, <3>1 DEF Standing
    <3>2. CASE Chosen(is, q) # {}
      <4>1. PICK k \in Chosen(is, q) : k = CHOOSE j \in Chosen(is, q) : TRUE BY <3>2
      <4>2. k \in 1 .. n BY <1>1, <4>1 DEF Chosen
      <4>3. QED BY <1>1, <2>8, <3>2, <4>1, <4>2 DEF Standing
    <3>3. QED BY <3>1, <3>2
  <2> DEFINE x == d[l]
             y == f[n]
             z == Standing(is, t, q)
  <2>10. x \in Seq(Out) /\ y \in Seq(Out) /\ z \in Seq(Out) BY <1>1, <1>6, <1>12, <1>13 DEF TextsOf
  <2>11. Reads(l, js, u, q) = (x \o y) \o z /\ Reads(n, is, t, q) = y \o z
    BY <1>9, <1>10, <2>4, <2>9
  <2> HIDE DEF x, y, z
  <2>12. x \o (y \o z) = (x \o y) \o z BY ONLY <2>10, Associates
  <2>13. Reads(l, js, u, q) = x \o Reads(n, is, t, q) BY <2>11, <2>12
  <2>14. QED BY <1>15, <2>5, <2>13 DEF x, l
<1>16. QED BY <1>14, <1>15

LEMMA CutAskedMore ==
  ASSUME NEW n \in Nat, NEW is \in Instructions(n), NEW js \in Instructions(n + 1), Extends(n, is, js),
         CutAsked(is)
  PROVE  CutAsked(js)
<1>1. DOMAIN is = 1 .. n /\ DOMAIN js = 1 .. n + 1 BY DEF Instructions
<1>2. PICK c \in 1 .. n : \E k \in 1 .. c - 1 : CutBy(is, k, c) BY <1>1 DEF CutAsked
<1>3. PICK k \in 1 .. c - 1 : CutBy(is, k, c) BY <1>2
<1>4. k \in 1 .. n /\ c \in 1 .. n + 1 /\ \A m \in k + 1 .. c - 1 : m \in 1 .. n OBVIOUS
<1>5. CutBy(js, k, c) BY <1>3, <1>4 DEF CutBy, Extends
<1>6. QED BY <1>1, <1>4, <1>5 DEF CutAsked

LEMMA MeansMore ==
  ASSUME NEW n \in Nat, NEW is \in Instructions(n), NEW js \in Instructions(n + 1), Extends(n, is, js),
         NEW p \in Programs(n), NEW r \in Programs(n + 1), Extends(n, p, r), r[n + 1] = js[n + 1],
         Means(n, is, p), ~CutAsked(js)
  PROVE  Means(n + 1, js, r)
<1> DEFINE l == n + 1
<1> SUFFICES ASSUME NEW q \in 0 .. NTokens PROVE Reads(l, js, Texts(r), q) = Reads(l, js, Texts(js), q)
  BY DEF Means
<1>1. /\ l \in Nat /\ l \in 1 .. l /\ \A k \in 1 .. n : k \in 1 .. l
      /\ js \in Instructions(l) /\ r \in Programs(l) /\ r[l] = js[l]
  OBVIOUS
<1>2. is \in Programs(n) /\ js \in Programs(l) BY InstructionsAreProgram, <1>1
<1> HIDE DEF l
<1>3. /\ Texts(is) \in TextsOf(n) /\ Texts(p) \in TextsOf(n)
      /\ \A k \in 1 .. n : /\ Texts(is)[k] = IF is[k] = None THEN <<>> ELSE is[k].text
                           /\ Texts(p)[k] = IF p[k] = None THEN <<>> ELSE p[k].text
  BY <1>2, TextsAre
<1>4. /\ Texts(js) \in TextsOf(l) /\ Texts(r) \in TextsOf(l)
      /\ \A k \in 1 .. l : /\ Texts(js)[k] = IF js[k] = None THEN <<>> ELSE js[k].text
                           /\ Texts(r)[k] = IF r[k] = None THEN <<>> ELSE r[k].text
  BY <1>1, <1>2, TextsAre
<1>5. Extends(n, Texts(is), Texts(js)) /\ Extends(n, Texts(p), Texts(r))
  <2>1. \A k \in 1 .. n : js[k] = is[k] /\ r[k] = p[k] BY DEF Extends
  <2>2. \A k \in 1 .. n : Texts(js)[k] = Texts(is)[k] BY <1>1, <1>3, <1>4, <2>1
  <2>3. \A k \in 1 .. n : Texts(r)[k] = Texts(p)[k] BY <1>1, <1>3, <1>4, <2>1
  <2>4. QED BY <2>2, <2>3 DEF Extends
<1>6. Texts(r)[l] = Texts(js)[l] BY <1>1, <1>4
<1> DEFINE New(t, old) ==
             IF Within(js[l], q) THEN IF js[l].first = q THEN t[l] ELSE <<[token |-> q]>>
             ELSE (IF js[l].kind = "insert" /\ js[l].first = q THEN t[l] ELSE <<>>) \o old
<1>7. Reads(l, js, Texts(r), q) = New(Texts(r), Reads(n, is, Texts(p), q))
  BY <1>3, <1>4, <1>5, ReadsMore DEF l
<1>8. Reads(l, js, Texts(js), q) = New(Texts(js), Reads(n, is, Texts(is), q))
  BY <1>3, <1>4, <1>5, ReadsMore DEF l
<1>9. Reads(n, is, Texts(p), q) = Reads(n, is, Texts(is), q) BY DEF Means
<1>10. QED BY <1>6, <1>7, <1>8, <1>9

LEMMA KilledMore ==
  ASSUME NEW n \in Nat, NEW is \in Instructions(n), NEW js \in Instructions(n + 1), Extends(n, is, js)
  PROVE  /\ \A w \in 0 .. n : \A k \in 1 .. n : Killed(js, k, w) <=> Killed(is, k, w)
         /\ \A c \in 1 .. n : \A k \in 1 .. c - 1 : CutBy(js, k, c) <=> CutBy(is, k, c)
<1>1. ASSUME NEW w \in 0 .. n, NEW k \in 1 .. n PROVE Killed(js, k, w) <=> Killed(is, k, w)
  <2>1. \A m \in k + 1 .. w : m \in 1 .. n OBVIOUS
  <2>2. QED BY <2>1 DEF Killed, Extends
<1>2. ASSUME NEW c \in 1 .. n, NEW k \in 1 .. c - 1 PROVE CutBy(js, k, c) <=> CutBy(is, k, c)
  <2>1. k \in 1 .. n /\ \A m \in k + 1 .. c - 1 : m \in 1 .. n OBVIOUS
  <2>2. QED BY <2>1 DEF CutBy, Extends
<1>3. QED BY <1>1, <1>2

LEMMA StuckMore ==
  ASSUME NEW n \in Nat, NEW is \in Instructions(n), NEW js \in Instructions(n + 1), Extends(n, is, js),
         NEW p \in Programs(n), NEW r \in Programs(n + 1), Extends(n, p, r),
         StuckBehind(n, is, p, 0)
  PROVE  StuckBehind(n + 1, js, r, 0)
<1>1. PICK c \in 1 .. n : \E k \in 1 .. c - 1 : CutBy(is, k, c) /\ p[k] # None /\ p[c] # None
  BY DEF StuckBehind
<1>2. PICK k \in 1 .. c - 1 : CutBy(is, k, c) /\ p[k] # None /\ p[c] # None BY <1>1
<1>3. k \in 1 .. n /\ c \in 0 + 1 .. n + 1 OBVIOUS
<1>4. CutBy(js, k, c) BY <1>2, KilledMore
<1>5. r[k] = p[k] /\ r[c] = p[c] BY <1>3 DEF Extends
<1>6. QED BY <1>2, <1>3, <1>4, <1>5 DEF StuckBehind

LEMMA SoundMore ==
  ASSUME NEW n \in Nat, NEW is \in Instructions(n), NEW js \in Instructions(n + 1), Extends(n, is, js),
         NEW p \in Programs(n), NEW r \in Programs(n + 1), Extends(n, p, r), r[n + 1] # None,
         NEW w \in 0 .. n, Sound(n, is, p, w)
  PROVE  Sound(n + 1, js, r, w)
<1>1. \A k \in 1 .. n + 1 : k \in 1 .. n \/ k = n + 1 OBVIOUS
<1>2. \A k \in 1 .. n : r[k] = p[k] /\ js[k] = is[k] BY DEF Extends
<1>3. \A k \in 1 .. n : Killed(js, k, w) <=> Killed(is, k, w) BY KilledMore
<1>4. ~Killed(js, n + 1, w) BY DEF Killed
<1>5. ASSUME NEW k \in 1 .. n, Merged(is, p, k, w) PROVE Merged(js, r, k, w)
  <2>1. \A m \in 1 .. w : m \in 1 .. n OBVIOUS
  <2>2. QED BY <1>2, <1>5, <2>1 DEF Merged
<1>6. ASSUME NEW c \in 1 .. w, NEW k \in 1 .. c - 1 PROVE ~CutBy(js, k, c)
  <2>1. c \in 1 .. n OBVIOUS
  <2>2. QED BY <2>1, KilledMore DEF Sound
<1>7. \A k \in 1 .. n + 1 : r[k] # None => ~Killed(js, k, w) BY <1>1, <1>2, <1>3, <1>4 DEF Sound
<1>8. \A k \in 1 .. n + 1 : r[k] = None => Killed(js, k, w) \/ Merged(js, r, k, w)
  BY <1>1, <1>2, <1>3, <1>5 DEF Sound
<1>9. QED BY <1>6, <1>7, <1>8 DEF Sound

\* What a program still says when instructions are given, and reductions tried.
Follows(n, is, p) ==
  /\ Thinned(is, p)
  /\ \/ StuckBehind(n, is, p, 0)
     \/ \E w \in 0 .. n : Sound(n, is, p, w) /\ (CutAsked(is) \/ Means(n, is, p))

LEMMA FollowsItself ==
  ASSUME NEW n \in Nat, NEW is \in Instructions(n)
  PROVE  Follows(n, is, is)
<1>1. Thinned(is, is) BY DEF Thinned, Alike
<1>2. Means(n, is, is) BY DEF Means
<1>3. \A k \in 1 .. n : is[k] # None BY InstructionIs
<1>4. \A k \in 1 .. n : ~Killed(is, k, 0) BY DEF Killed
<1>5. 0 \in 0 .. n /\ 1 .. 0 = {} OBVIOUS
<1>6. Sound(n, is, is, 0) BY <1>3, <1>4, <1>5 DEF Sound
<1>7. QED BY <1>1, <1>2, <1>5, <1>6 DEF Follows

LEMMA FollowsMore ==
  ASSUME NEW n \in Nat, NEW is \in Instructions(n), NEW js \in Instructions(n + 1), Extends(n, is, js),
         NEW p \in Programs(n), NEW r \in Programs(n + 1), Extends(n, p, r), r[n + 1] = js[n + 1],
         Follows(n, is, p)
  PROVE  Follows(n + 1, js, r)
<1>1. n + 1 \in Nat /\ n + 1 \in 1 .. n + 1 /\ \A k \in 1 .. n + 1 : k \in 1 .. n \/ k = n + 1
  OBVIOUS
<1>2. r[n + 1] # None BY <1>1, InstructionIs
<1>3. Thinned(js, r)
  <2>1. \A k \in 1 .. n : p[k] # None => is[k] # None /\ Alike(p[k], is[k])
    BY DEF Follows, Thinned, Instructions
  <2>2. \A k \in 1 .. n : r[k] # None => js[k] # None /\ Alike(r[k], js[k])
    BY <2>1 DEF Extends
  <2>3. DOMAIN js = 1 .. n + 1 BY DEF Instructions
  <2>4. QED BY <1>1, <1>2, <2>2, <2>3 DEF Thinned, Alike
<1>4. CASE StuckBehind(n, is, p, 0) BY <1>3, <1>4, StuckMore DEF Follows
<1>5. CASE ~StuckBehind(n, is, p, 0)
  <2>1. PICK w \in 0 .. n : Sound(n, is, p, w) /\ (CutAsked(is) \/ Means(n, is, p))
    BY <1>5 DEF Follows
  <2>2. w \in 0 .. n + 1 OBVIOUS
  <2>3. Sound(n + 1, js, r, w) BY <1>2, <2>1, SoundMore
  <2>4. CutAsked(js) \/ Means(n + 1, js, r) BY <2>1, CutAskedMore, MeansMore
  <2>5. QED BY <1>3, <2>2, <2>3, <2>4 DEF Follows
<1>6. QED BY <1>4, <1>5

----------------------------------------------------------------------------
(* The inserts                                                              *)

\* What an insert takes away stays with another operation at its index.
LEMMA Heirs ==
  ASSUME NEW n \in Nat, NEW is \in Instructions(n), NEW p \in Programs(n), Thinned(is, p),
         NEW i \in 1 .. n, NEW q \in Programs(n), NEW e, InsertDone(n, p, i, q, e),
         NEW m \in 1 .. n, p[m] # None, q[m] = None
  PROVE  /\ is[m].kind = "insert"
         /\ \E h \in 1 .. n : /\ h # m /\ q[h] # None /\ is[h].first = is[m].first
                              /\ h > m \/ is[h].kind = "replace"
<1>1. IsKind(p[i], "insert") BY DEF InsertDone
<1>2. p[i] # None /\ is[i].kind = "insert" /\ p[i].first = is[i].first
  <2>1. p[i] # None BY <1>1 DEF IsKind
  <2>2. QED BY <1>1, <2>1, StandsFor DEF Alike
<1>3. ASSUME NEW k \in Twins(p, i)
      PROVE  k \in 1 .. n /\ k < i /\ is[k].kind = "insert" /\ is[k].first = is[i].first
  <2>1. /\ k \in 1 .. n /\ k < i /\ p[k] # None /\ p[k].kind = "insert" /\ p[k].first = p[i].first
    BY PriorIs DEF Twins
  <2>2. Alike(p[k], is[k]) BY <2>1, StandsFor
  <2>3. QED BY <1>2, <2>1, <2>2 DEF Alike
<1>4. ASSUME NEW k \in Starts(p, i)
      PROVE  /\ k \in 1 .. n /\ p[k] \in Good
             /\ is[k].kind = "replace" /\ is[k].first = is[i].first
  <2>1. /\ k \in 1 .. n /\ p[k] # None /\ p[k] \in Good /\ p[k].kind = "replace"
        /\ p[k].first = p[i].first
    BY PriorIs DEF Starts
  <2>2. Alike(p[k], is[k]) BY <2>1, StandsFor
  <2>3. QED BY <1>2, <2>1, <2>2 DEF Alike
<1>5. PICK t \in Seq(Bit) : GivenAway(n, p, i, t, q, e) \/ KeptThere(n, p, i, t, q, e)
  BY <1>1 DEF InsertDone
<1>6. CASE GivenAway(n, p, i, t, q, e)
  <2>1. PICK j \in Starts(p, i) :
          /\ q[j] = [p[j] EXCEPT !.text = t \o p[j].text] /\ q[i] = None
          /\ \A k \in (1 .. n) \ (Twins(p, i) \cup {i, j}) : q[k] = p[k]
    BY <1>6 DEF GivenAway
  <2>2. /\ j \in 1 .. n /\ p[j] \in Good
        /\ is[j].kind = "replace" /\ is[j].first = is[i].first
    BY <1>4
  <2>3. q[j] # None
    <3> DEFINE u == t \o p[j].text
    <3>1. p[j].text \in Seq(Bit) BY <2>2, GoodIs
    <3>2. u \in Seq(Bit) BY <3>1, Spliced
    <3>3. q[j] = [p[j] EXCEPT !.text = u] BY <2>1
    <3> HIDE DEF u
    <3>4. [p[j] EXCEPT !.text = u] \in Good BY <2>2, <3>2, GoodWith
    <3>5. QED BY <3>3, <3>4, GoodIs
  <2>4. m \in Twins(p, i) \/ m = i BY <2>1, <2>3
  <2>5. is[m].kind = "insert" /\ is[m].first = is[i].first BY <1>2, <1>3, <2>4
  <2>6. j # m BY <2>2, <2>5
  <2>7. QED BY <2>2, <2>3, <2>5, <2>6
<1>7. CASE KeptThere(n, p, i, t, q, e)
  <2>1. /\ q[i] = [p[i] EXCEPT !.text = t]
        /\ \A k \in (1 .. n) \ (Twins(p, i) \cup {i}) : q[k] = p[k]
    BY <1>7 DEF KeptThere
  <2>2. q[i] # None
    <3>1. p[i] \in Good BY <1>2 DEF Programs
    <3>2. q[i] \in Good BY <2>1, <3>1, GoodWith
    <3>3. QED BY <3>2, GoodIs
  <2>3. m \in Twins(p, i) BY <2>1, <2>2
  <2>4. m < i /\ is[m].kind = "insert" /\ is[m].first = is[i].first BY <1>3, <2>3
  <2>5. i # m /\ i > m BY <2>4
  <2>6. QED BY <2>2, <2>4, <2>5
<1>8. QED BY <1>5, <1>6, <1>7

LEMMA SoundInserted ==
  ASSUME NEW n \in Nat, NEW is \in Instructions(n), NEW p \in Programs(n), Thinned(is, p),
         NEW i \in 1 .. n, NEW q \in Programs(n), NEW e, InsertDone(n, p, i, q, e),
         Sound(n, is, p, n)
  PROVE  Sound(n, is, q, n)
<1>1. \A k \in 1 .. n : q[k] # None => p[k] # None
  <2>1. Thinned(p, q) BY InsertSpaces
  <2>2. QED BY <2>1 DEF Thinned, Programs
<1>2. \A k \in 1 .. n : q[k] # None => ~Killed(is, k, n) BY <1>1 DEF Sound
<1>3. ASSUME NEW k \in 1 .. n, q[k] = None PROVE Killed(is, k, n) \/ Merged(is, q, k, n)
  <2>1. CASE p[k] # None
    <3>1. is[k].kind = "insert" /\ k <= n BY <1>3, <2>1, Heirs
    <3>2. \E h \in 1 .. n : /\ h # k /\ q[h] # None /\ is[h].first = is[k].first
                            /\ h > k \/ is[h].kind = "replace"
      BY <1>3, <2>1, Heirs
    <3>3. QED BY <3>1, <3>2 DEF Merged
  <2>2. CASE p[k] = None /\ Killed(is, k, n) BY <2>2
  <2>3. CASE p[k] = None /\ Merged(is, p, k, n)
    <3>1. is[k].kind = "insert" /\ k <= n BY <2>3 DEF Merged
    <3>2. PICK m \in 1 .. n : /\ m # k /\ p[m] # None /\ is[m].first = is[k].first
                              /\ m > k \/ is[m].kind = "replace"
      BY <2>3 DEF Merged
    <3>3. CASE q[m] # None BY <3>1, <3>2, <3>3 DEF Merged
    <3>4. CASE q[m] = None
      <4>1. is[m].kind = "insert" BY <3>2, <3>4, Heirs
      <4>2. PICK h \in 1 .. n : /\ h # m /\ q[h] # None /\ is[h].first = is[m].first
                                /\ h > m \/ is[h].kind = "replace"
        BY <3>2, <3>4, Heirs
      <4>3. m > k BY <3>2, <4>1
      <4>4. h # k /\ (h > k \/ is[h].kind = "replace") BY <3>1, <4>2, <4>3
      <4>5. QED BY <3>1, <3>2, <4>2, <4>4 DEF Merged
    <3>5. QED BY <3>3, <3>4
  <2>4. QED BY <2>1, <2>2, <2>3 DEF Sound
<1>4. \A c \in 1 .. n : \A k \in 1 .. c - 1 : ~CutBy(is, k, c) BY DEF Sound
<1>5. QED BY <1>2, <1>3, <1>4 DEF Sound

\* The texts of the inserts that a program has at x.
Shows(n, p, x, c) ==
  /\ c \in TextsOf(n)
  /\ \A k \in 1 .. n : c[k] = IF IsKind(p[k], "insert") /\ p[k].first = x THEN p[k].text ELSE <<>>

LEMMA InsertedShows ==
  ASSUME NEW n \in Nat, NEW is \in Instructions(n), NEW p \in Programs(n), Thinned(is, p),
         Sound(n, is, p, n), NEW x
  PROVE  Shows(n, p, x, Inserted(is, Texts(p), x))
<1>1. Texts(p) \in TextsOf(n) /\ \A k \in 1 .. n : Texts(p)[k] = IF p[k] = None THEN <<>> ELSE p[k].text
  BY TextsAre
<1> DEFINE t == Texts(p)
           c == Inserted(is, t, x)
<1>2. /\ c \in TextsOf(n)
      /\ \A k \in 1 .. n : c[k] =
           IF is[k].kind = "insert" /\ is[k].first = x /\ Lazy!Live(is, k) THEN t[k] ELSE <<>>
  BY <1>1, InsertedIs
<1> HIDE DEF c, t
<1>3. ASSUME NEW k \in 1 .. n
      PROVE  c[k] = IF IsKind(p[k], "insert") /\ p[k].first = x THEN p[k].text ELSE <<>>
  <2>1. CASE p[k] = None BY <1>1, <1>2, <2>1 DEF IsKind, t
  <2>2. CASE p[k] # None
    <3>1. Alike(p[k], is[k]) BY <2>2, StandsFor
    <3>2. Lazy!Live(is, k) BY <2>2, LiveIs DEF Sound
    <3>3. QED BY <1>1, <1>2, <2>2, <3>1, <3>2 DEF Alike, IsKind, t
  <2>3. QED BY <2>1, <2>2
<1>4. QED BY <1>2, <1>3 DEF Shows, c, t

\* The live replace at x, of which there is at most one.
LEMMA ChosenIs ==
  ASSUME NEW n \in Nat, NEW is \in Instructions(n), NEW p \in Programs(n), Thinned(is, p),
         Sound(n, is, p, n), NEW x
  PROVE  /\ \A k : k \in Chosen(is, x) <=> k \in 1 .. n /\ IsKind(p[k], "replace") /\ p[k].first = x
         /\ \A j, k \in Chosen(is, x) : j = k
<1>1. DOMAIN is = 1 .. n BY DEF Instructions
<1>2. ASSUME NEW k \in 1 .. n
      PROVE  k \in Chosen(is, x) <=> IsKind(p[k], "replace") /\ p[k].first = x
  <2>1. CASE p[k] = None
    <3>1. ~Merged(is, p, k, n) \/ is[k].kind = "insert" BY DEF Merged
    <3>2. is[k].kind = "replace" => ~Lazy!Live(is, k) BY <2>1, <3>1, LiveIs DEF Sound
    <3>3. QED BY <2>1, <3>2 DEF Chosen, IsKind
  <2>2. CASE p[k] # None
    <3>1. Alike(p[k], is[k]) BY <2>2, StandsFor
    <3>2. Lazy!Live(is, k) BY <2>2, LiveIs DEF Sound
    <3>3. QED BY <1>1, <2>2, <3>1, <3>2 DEF Chosen, Alike, IsKind
  <2>3. QED BY <2>1, <2>2
<1>3. \A k : k \in Chosen(is, x) => k \in 1 .. n BY <1>1 DEF Chosen
<1>4. ASSUME NEW j \in Chosen(is, x), NEW k \in Chosen(is, x), j < k PROVE FALSE
  <2>1. j \in 1 .. n /\ k \in 1 .. n /\ j \in 1 .. k - 1 /\ n \in 0 .. n BY <1>3, <1>4
  <2>2. is[k].kind = "replace" /\ is[k].first = x /\ is[j].first = x BY DEF Chosen
  <2>3. p[j] # None BY <1>2, <2>1 DEF IsKind
  <2>4. Lazy!Apart(is[k], is[j]) BY <2>1, <2>2, <2>3, SoundApart
  <2>5. /\ is[k].first \in Nat /\ is[k].last \in Nat /\ is[k].first <= is[k].last
        /\ is[j].first \in Nat /\ is[j].last \in Nat /\ is[j].first <= is[j].last
    BY <2>1, InstructionIs
  <2>6. QED BY <2>2, <2>4, <2>5 DEF Lazy!Apart
<1>5. \A j, k \in Chosen(is, x) : j = k
  <2>1. SUFFICES ASSUME NEW j \in Chosen(is, x), NEW k \in Chosen(is, x) PROVE j = k
    OBVIOUS
  <2>2. j \in 1 .. n /\ k \in 1 .. n /\ ~(j < k) /\ ~(k < j) BY <1>3, <1>4
  <2>3. QED BY <2>2
<1>6. QED BY <1>2, <1>3, <1>5

LEMMA OneTwin ==
  ASSUME NEW n \in Nat, NEW p \in Programs(n), NEW i \in 1 .. n, Spaced(p, i - 1, "insert")
  PROVE  \A a, b \in Twins(p, i) : a = b
<1>1. \A a \in Twins(p, i) : /\ a \in 1 .. n /\ a \in 1 .. i - 1 /\ p[a] \in Good /\ p[a] # None
                             /\ IsKind(p[a], "insert") /\ p[a].first = p[i].first
  BY PriorIs DEF Twins, IsKind
<1>2. ASSUME NEW a \in Twins(p, i), NEW b \in Twins(p, i), a < b PROVE FALSE
  <2>1. a \in 1 .. b - 1 /\ a \in 1 .. n /\ b \in 1 .. i - 1 BY <1>1, <1>2
  <2>2. Lazy!Apart(p[b], p[a]) BY <1>1, <2>1 DEF Spaced
  <2>3. /\ p[a].first \in Nat /\ p[a].last \in Nat /\ p[a].first <= p[a].last
        /\ p[b].first \in Nat /\ p[b].last \in Nat /\ p[b].first <= p[b].last
    BY <1>1, GoodIs
  <2>4. p[a].first = p[b].first BY <1>1
  <2>5. QED BY <2>2, <2>3, <2>4 DEF Lazy!Apart
<1>3. SUFFICES ASSUME NEW a \in Twins(p, i), NEW b \in Twins(p, i) PROVE a = b
  OBVIOUS
<1>4. a \in 1 .. n /\ b \in 1 .. n /\ ~(a < b) /\ ~(b < a) BY <1>1, <1>2
<1>5. QED BY <1>4

LEMMA JoinsLast ==
  ASSUME NEW n \in Nat, NEW c, NEW f, JoinedBy(n, c, f), NEW k \in 1 .. n, Nothing(0, k - 1, c)
  PROVE  f[k] = c[k]
<1>1. k - 1 \in Nat /\ k - 1 <= n /\ 0 \in Nat OBVIOUS
<1>2. f[k - 1] = f[0] BY <1>1, JoinsNothing
<1>3. f[0] = <<>> /\ f[k] = c[k] \o f[k - 1] BY DEF JoinedBy, Joins
<1>4. c[k] \in Seq(Out) BY DEF JoinedBy, TextsOf
<1> DEFINE ck == c[k]
<1>5. ck \in Seq(Out) BY <1>4
<1> HIDE DEF ck
<1>6. ck \o <<>> = ck BY <1>5
<1>7. QED BY <1>2, <1>3, <1>6 DEF ck

\* Up to an insert that takes the text of another, there is what it takes.
LEMMA FrontText ==
  ASSUME NEW n \in Nat, NEW p \in Programs(n), NEW i \in 1 .. n, IsKind(p[i], "insert"),
         Spaced(p, i - 1, "insert"), NEW c, Shows(n, p, p[i].first, c),
         NEW f, JoinedBy(n, c, f), NEW t, Joined(p, i, t)
  PROVE  f[i] = t
<1>1. c[i] = p[i].text BY DEF Shows
<1>2. ASSUME NEW k \in 1 .. i - 1, k \notin Twins(p, i) PROVE c[k] = <<>>
  <2>1. k \in 1 .. n OBVIOUS
  <2>2. ~(IsKind(p[k], "insert") /\ p[k].first = p[i].first) BY <1>2 DEF Twins, Prior
  <2>3. QED BY <2>1, <2>2 DEF Shows
<1>3. CASE Twins(p, i) = {}
  <2>1. t = p[i].text BY <1>3 DEF Joined
  <2>2. Nothing(0, i - 1, c) BY <1>2, <1>3 DEF Nothing
  <2>3. QED BY <1>1, <2>1, <2>2, JoinsLast
<1>4. CASE Twins(p, i) # {}
  <2>1. PICK j \in Twins(p, i) : t = p[i].text \o p[j].text BY <1>4 DEF Joined
  <2>2. /\ j \in 1 .. n /\ j \in 1 .. i - 1 /\ IsKind(p[j], "insert")
        /\ p[j].first = p[i].first
    BY PriorIs DEF Twins, IsKind
  <2>3. \A k \in 1 .. i - 1 : k # j => c[k] = <<>> BY <1>2, OneTwin
  <2>4. c[j] = p[j].text BY <2>2 DEF Shows
  <2>5. Nothing(0, j - 1, c) /\ Nothing(j, i - 1, c)
    <3>1. \A k \in 1 .. j - 1 : k \in 1 .. i - 1 /\ k # j BY <2>2
    <3>2. 0 <= j - 1 /\ j <= i - 1 BY <2>2
    <3>3. \A k \in 1 .. i - 1 : k > j => k # j BY <2>2
    <3>4. QED BY <2>3, <3>1, <3>2, <3>3 DEF Nothing
  <2>6. f[j] = p[j].text BY <2>2, <2>4, <2>5, JoinsLast
  <2>7. i - 1 \in Nat /\ i - 1 <= n /\ j \in Nat BY <2>2
  <2>8. f[i - 1] = f[j] BY <2>5, <2>7, JoinsNothing
  <2>9. f[i] = c[i] \o f[i - 1] BY DEF JoinedBy, Joins
  <2>10. QED BY <1>1, <2>1, <2>6, <2>8, <2>9
<1>5. QED BY <1>3, <1>4

\* An insert changes nothing at other indices.
LEMMA InsertElsewhere ==
  ASSUME NEW n \in Nat, NEW p \in Programs(n), NEW i \in 1 .. n, NEW q \in Programs(n), NEW e,
         InsertDone(n, p, i, q, e), NEW k \in 1 .. n, q[k] # p[k]
  PROVE  /\ p[k] # None /\ p[k].first = p[i].first
         /\ q[k] # None => q[k].first = p[i].first
         /\ IsKind(p[k], "replace") => k \in Starts(p, i)
<1>1. IsKind(p[i], "insert") BY DEF InsertDone
<1>2. p[i] # None /\ p[i].kind = "insert" BY <1>1 DEF IsKind
<1>3. PICK t \in Seq(Bit) : GivenAway(n, p, i, t, q, e) \/ KeptThere(n, p, i, t, q, e)
  BY <1>1 DEF InsertDone
<1>4. k \in Twins(p, i) \cup Starts(p, i) \cup {i} BY <1>3 DEF GivenAway, KeptThere
<1>5. p[k] # None /\ p[k].first = p[i].first BY <1>2, <1>4, PriorIs DEF Twins, Starts
<1>6. IsKind(p[k], "replace") => k \in Starts(p, i)
  BY <1>2, <1>4, PriorIs DEF Twins, IsKind
<1>7. q[k] # None => Alike(q[k], p[k])
  <2>1. Thinned(p, q) BY InsertSpaces
  <2>2. QED BY <2>1 DEF Thinned, Programs
<1>8. QED BY <1>5, <1>6, <1>7 DEF Alike

LEMMA StandingLikewise ==
  ASSUME NEW n \in Nat, NEW is \in Instructions(n), NEW t \in TextsOf(n), NEW u \in TextsOf(n),
         NEW x, \A k \in Chosen(is, x) : t[k] = u[k]
  PROVE  Standing(is, t, x) = Standing(is, u, x)
<1>1. CASE Chosen(is, x) = {} BY <1>1 DEF Standing
<1>2. CASE Chosen(is, x) # {}
  <2>1. PICK k \in Chosen(is, x) : k = CHOOSE j \in Chosen(is, x) : TRUE BY <1>2
  <2>2. QED BY <1>2, <2>1 DEF Standing
<1>3. QED BY <1>1, <1>2

LEMMA StandingOne ==
  ASSUME NEW is, NEW t, NEW x, NEW j \in Chosen(is, x), \A k \in Chosen(is, x) : k = j
  PROVE  Standing(is, t, x) = t[j]
<1>1. (CHOOSE k \in Chosen(is, x) : TRUE) = j OBVIOUS
<1>2. QED BY <1>1 DEF Standing

LEMMA ReadsElsewhere ==
  ASSUME NEW n \in Nat, NEW is \in Instructions(n), NEW p \in Programs(n), Thinned(is, p),
         NEW i \in 1 .. n, NEW q \in Programs(n), NEW e, InsertDone(n, p, i, q, e),
         Thinned(is, q), Sound(n, is, p, n), Sound(n, is, q, n),
         NEW x, IsKind(p[i], "insert") => x # p[i].first
  PROVE  Reads(n, is, Texts(q), x) = Reads(n, is, Texts(p), x)
<1> DEFINE t == Texts(p)
           u == Texts(q)
           c == Inserted(is, t, x)
           d == Inserted(is, u, x)
<1>1. /\ t \in TextsOf(n) /\ u \in TextsOf(n)
      /\ \A k \in 1 .. n : /\ t[k] = IF p[k] = None THEN <<>> ELSE p[k].text
                           /\ u[k] = IF q[k] = None THEN <<>> ELSE q[k].text
  BY TextsAre
<1>2. Shows(n, p, x, c) /\ Shows(n, q, x, d) BY InsertedShows
<1>3. \A k \in Chosen(is, x) : k \in 1 .. n /\ p[k].first = x BY ChosenIs
<1> HIDE DEF c, d, t, u
<1>4. \A k \in 1 .. n : q[k] # p[k] =>
        /\ p[k].first # x
        /\ q[k] # None => q[k].first # x
  BY InsertElsewhere DEF InsertDone
<1>5. ASSUME NEW k \in 1 .. n PROVE d[k] = c[k]
  <2>1. CASE q[k] = p[k] BY <1>2, <2>1 DEF Shows
  <2>2. CASE q[k] # p[k]
    <3>1. p[k].first # x /\ (q[k] # None => q[k].first # x) BY <1>4, <2>2
    <3>2. c[k] = <<>> /\ d[k] = <<>> BY <1>2, <3>1 DEF Shows, IsKind
    <3>3. QED BY <3>2
  <2>3. QED BY <2>1, <2>2
<1>6. c = d BY <1>2, <1>5 DEF Shows, TextsOf
<1>7. \A k \in Chosen(is, x) : u[k] = t[k]
  <2>1. \A k \in Chosen(is, x) : q[k] = p[k] BY <1>3, <1>4
  <2>2. QED BY <1>1, <1>3, <2>1
<1>8. Standing(is, u, x) = Standing(is, t, x) BY <1>1, <1>7, StandingLikewise
<1>9. QED BY <1>6, <1>8 DEF Reads, c, d, t, u

\* An insert that stays has the text of its twin, and its own first.
LEMMA ReadsKept ==
  ASSUME NEW n \in Nat, NEW is \in Instructions(n), NEW p \in Programs(n), Thinned(is, p),
         NEW i \in 1 .. n, IsKind(p[i], "insert"), Spaced(p, i - 1, "insert"),
         NEW q \in Programs(n), NEW e, NEW t \in Seq(Bit), Joined(p, i, t),
         KeptThere(n, p, i, t, q, e), \A k \in Twins(p, i) : q[k] = None,
         Thinned(is, q), Sound(n, is, p, n), Sound(n, is, q, n)
  PROVE  Reads(n, is, Texts(q), p[i].first) = Reads(n, is, Texts(p), p[i].first)
<1> DEFINE x == p[i].first
           v == Texts(p)
           u == Texts(q)
           c == Inserted(is, v, x)
           d == Inserted(is, u, x)
           f == Sums(n, c)
           g == Sums(n, d)
<1>1. /\ v \in TextsOf(n) /\ u \in TextsOf(n)
      /\ \A k \in 1 .. n : /\ v[k] = IF p[k] = None THEN <<>> ELSE p[k].text
                           /\ u[k] = IF q[k] = None THEN <<>> ELSE q[k].text
  BY TextsAre
<1>2. Shows(n, p, x, c) /\ Shows(n, q, x, d) BY InsertedShows
<1>3. /\ Starts(p, i) = {} /\ q[i] = [p[i] EXCEPT !.text = t]
      /\ \A k \in (1 .. n) \ (Twins(p, i) \cup {i}) : q[k] = p[k]
  BY DEF KeptThere
<1>4. p[i] \in Good BY DEF IsKind, Programs
<1>5. q[i] \in Good /\ Alike(q[i], p[i]) /\ q[i].text = t BY <1>3, <1>4, GoodWith
<1>6. IsKind(q[i], "insert") /\ q[i].first = x BY <1>5, GoodIs DEF Alike, IsKind
<1>7. ASSUME NEW k \in Twins(p, i) PROVE k \in 1 .. n /\ k < i
  BY PriorIs DEF Twins
<1> HIDE DEF c, d, u, v
<1>8. c \in TextsOf(n) /\ d \in TextsOf(n) BY <1>2 DEF Shows
<1>9. JoinedBy(n, c, f) /\ JoinedBy(n, d, g) BY <1>8, SumsAre DEF JoinedBy
<1> HIDE DEF f, g
<1>10. f[i] = t BY <1>2, <1>9, FrontText
<1>11. g[i] = t
  <2>1. ASSUME NEW k \in 1 .. i - 1 PROVE d[k] = <<>>
    <3>1. k \in 1 .. n /\ k # i OBVIOUS
    <3>2. CASE k \in Twins(p, i) BY <1>2, <3>1, <3>2 DEF Shows, IsKind
    <3>3. CASE k \notin Twins(p, i)
      <4>1. q[k] = p[k] BY <1>3, <3>1, <3>3
      <4>2. ~(IsKind(p[k], "insert") /\ p[k].first = x) BY <3>3 DEF Twins, Prior
      <4>3. QED BY <1>2, <3>1, <4>1, <4>2 DEF Shows
    <3>4. QED BY <3>2, <3>3
  <2>2. Nothing(0, i - 1, d) BY <2>1 DEF Nothing
  <2>3. g[i] = d[i] BY <1>9, <2>2, JoinsLast
  <2>4. d[i] = t BY <1>2, <1>5, <1>6 DEF Shows
  <2>5. QED BY <2>3, <2>4
<1>12. ASSUME NEW k \in 1 .. n, k > i PROVE c[k] = d[k]
  <2>1. q[k] = p[k] BY <1>3, <1>7, <1>12
  <2>2. QED BY <1>2, <2>1 DEF Shows
<1>13. f[n] = g[n]
  <2> DEFINE nothing == <<>>
  <2>1. nothing \in Seq(Out) /\ \A s \in Seq(Out) : s \o nothing = s OBVIOUS
  <2>2. g[i] \in Seq(Out) /\ g[n] \in Seq(Out)
    <3>1. i \in 0 .. n /\ n \in 0 .. n OBVIOUS
    <3>2. QED BY <1>9, <3>1 DEF JoinedBy
  <2> HIDE DEF nothing
  <2>3. f[i] = g[i] \o nothing BY <1>10, <1>11, <2>1, <2>2
  <2>4. i \in Nat /\ i <= n /\ n <= n OBVIOUS
  <2>5. Together(i, n, nothing, c, d, f, g) BY <1>12, <2>1, <2>3, <2>4 DEF Together
  <2>6. f[n] = g[n] \o nothing BY <1>9, <2>4, <2>5, JoinsFurther
  <2>7. QED BY <2>1, <2>2, <2>6
<1>14. \A k \in Chosen(is, x) : v[k] = u[k]
  <2>1. \A k \in Chosen(is, x) : k \in 1 .. n /\ IsKind(p[k], "replace") BY ChosenIs
  <2>2. \A k \in Twins(p, i) \cup {i} : ~IsKind(p[k], "replace")
    BY PriorIs DEF Twins, IsKind
  <2>3. \A k \in Chosen(is, x) : q[k] = p[k] BY <1>3, <2>1, <2>2
  <2>4. QED BY <1>1, <2>1, <2>3
<1>15. Standing(is, v, x) = Standing(is, u, x) BY <1>1, <1>14, StandingLikewise
<1>16. QED BY <1>13, <1>15 DEF Reads, f, g, c, d, u, v

\* A replace that is given the text of an insert has it before its own.
LEMMA ReadsGiven ==
  ASSUME NEW n \in Nat, NEW is \in Instructions(n), NEW p \in Programs(n), Thinned(is, p),
         NEW i \in 1 .. n, IsKind(p[i], "insert"), Spaced(p, i - 1, "insert"),
         NEW q \in Programs(n), NEW e, NEW t \in Seq(Bit), Joined(p, i, t),
         GivenAway(n, p, i, t, q, e), \A k \in Twins(p, i) : q[k] = None,
         Thinned(is, q), Sound(n, is, p, n), Sound(n, is, q, n)
  PROVE  Reads(n, is, Texts(q), p[i].first) = Reads(n, is, Texts(p), p[i].first)
<1> DEFINE x == p[i].first
           v == Texts(p)
           u == Texts(q)
           c == Inserted(is, v, x)
           d == Inserted(is, u, x)
           f == Sums(n, c)
           g == Sums(n, d)
<1>1. /\ v \in TextsOf(n) /\ u \in TextsOf(n)
      /\ \A k \in 1 .. n : /\ v[k] = IF p[k] = None THEN <<>> ELSE p[k].text
                           /\ u[k] = IF q[k] = None THEN <<>> ELSE q[k].text
  BY TextsAre
<1>2. Shows(n, p, x, c) /\ Shows(n, q, x, d) BY InsertedShows
<1>3. PICK j \in Starts(p, i) :
        /\ q[j] = [p[j] EXCEPT !.text = t \o p[j].text] /\ q[i] = None
        /\ \A k \in (1 .. n) \ (Twins(p, i) \cup {i, j}) : q[k] = p[k]
  BY DEF GivenAway
<1>4. /\ j \in 1 .. n /\ j < i /\ p[j] \in Good /\ p[j] # None /\ p[j].kind = "replace"
      /\ p[j].first = x
  BY PriorIs DEF Starts
<1>5. p[j].text \in Seq(Bit) /\ p[j].text \in Seq(Out) /\ t \in Seq(Out)
  BY <1>4, GoodIs, BitsAreOut
<1>6. q[j] # None /\ q[j].kind = "replace" /\ q[j].text = t \o p[j].text
  <2> DEFINE w == t \o p[j].text
  <2>1. w \in Seq(Bit) BY <1>5, Spliced
  <2>2. q[j] = [p[j] EXCEPT !.text = w] BY <1>3
  <2> HIDE DEF w
  <2>3. /\ [p[j] EXCEPT !.text = w] \in Good /\ Alike([p[j] EXCEPT !.text = w], p[j])
        /\ [p[j] EXCEPT !.text = w].text = w
    BY <1>4, <2>1, GoodWith
  <2>4. QED BY <1>4, <2>2, <2>3, GoodIs DEF Alike, w
<1>7. ASSUME NEW k \in Twins(p, i) PROVE k \in 1 .. n /\ k < i
  BY PriorIs DEF Twins
<1> HIDE DEF c, d, u, v
<1>8. c \in TextsOf(n) /\ d \in TextsOf(n) BY <1>2 DEF Shows
<1>9. JoinedBy(n, c, f) /\ JoinedBy(n, d, g) BY <1>8, SumsAre DEF JoinedBy
<1> HIDE DEF f, g
<1>10. f[i] = t BY <1>2, <1>9, FrontText
<1>11. g[i] = <<>>
  <2>1. ASSUME NEW k \in 1 .. i PROVE d[k] = <<>>
    <3>1. k \in 1 .. n OBVIOUS
    <3>2. CASE k \in Twins(p, i) \cup {i} BY <1>2, <1>3, <3>1, <3>2 DEF Shows, IsKind
    <3>3. CASE k = j BY <1>2, <1>6, <3>1, <3>3 DEF Shows, IsKind
    <3>4. CASE k \notin Twins(p, i) \cup {i, j}
      <4>1. q[k] = p[k] BY <1>3, <3>1, <3>4
      <4>2. k \in 1 .. i - 1 BY <3>4
      <4>3. ~(IsKind(p[k], "insert") /\ p[k].first = x) BY <3>4, <4>2 DEF Twins, Prior
      <4>4. QED BY <1>2, <3>1, <4>1, <4>3 DEF Shows
    <3>5. QED BY <3>2, <3>3, <3>4
  <2>2. 0 <= i /\ i \in Nat /\ i <= n /\ 0 \in Nat OBVIOUS
  <2>3. Nothing(0, i, d) BY <2>1, <2>2 DEF Nothing
  <2>4. g[i] = g[0] BY <1>9, <2>2, <2>3, JoinsNothing
  <2>5. QED BY <1>9, <2>4 DEF JoinedBy, Joins
<1>12. ASSUME NEW k \in 1 .. n, k > i PROVE c[k] = d[k]
  <2>1. q[k] = p[k] BY <1>3, <1>4, <1>7, <1>12
  <2>2. QED BY <1>2, <2>1 DEF Shows
<1>13. f[n] = g[n] \o t
  <2>1. f[i] = g[i] \o t
    <3>1. \A s \in Seq(Out) : <<>> \o s = s OBVIOUS
    <3>2. QED BY <1>5, <1>10, <1>11, <3>1
  <2>2. i \in Nat /\ i <= n /\ n <= n OBVIOUS
  <2>3. Together(i, n, t, c, d, f, g) BY <1>5, <1>12, <2>1, <2>2 DEF Together
  <2>4. QED BY <1>9, <2>2, <2>3, JoinsFurther
<1>14. j \in Chosen(is, x) /\ \A k \in Chosen(is, x) : k = j BY <1>4, ChosenIs DEF IsKind
<1>15. /\ Standing(is, v, x) = p[j].text
       /\ Standing(is, u, x) = t \o p[j].text
  <2>1. Standing(is, v, x) = v[j] /\ Standing(is, u, x) = u[j] BY <1>14, StandingOne
  <2>2. QED BY <1>1, <1>4, <1>6, <2>1
<1> DEFINE a == g[n]
           b == p[j].text
<1>16. a \in Seq(Out) /\ b \in Seq(Out)
  <2>1. n \in 0 .. n OBVIOUS
  <2>2. QED BY <1>5, <1>9, <2>1 DEF JoinedBy
<1>17. /\ Reads(n, is, v, x) = (a \o t) \o b /\ Reads(n, is, u, x) = a \o (t \o b)
  BY <1>13, <1>15 DEF Reads, f, g, c, d
<1> HIDE DEF a, b, x
<1>18. a \o (t \o b) = (a \o t) \o b BY <1>5, <1>16, Associates
<1>19. QED BY <1>17, <1>18 DEF u, v, x

LEMMA MeansInserted ==
  ASSUME NEW n \in Nat, NEW is \in Instructions(n), NEW p \in Programs(n), Thinned(is, p),
         NEW i \in 1 .. n, Spaced(p, i - 1, "insert"),
         NEW q \in Programs(n), NEW e, InsertDone(n, p, i, q, e),
         Thinned(is, q), Sound(n, is, p, n), Sound(n, is, q, n), Means(n, is, p)
  PROVE  Means(n, is, q)
<1> SUFFICES ASSUME NEW x \in 0 .. NTokens
             PROVE  Reads(n, is, Texts(q), x) = Reads(n, is, Texts(p), x)
  BY DEF Means
<1>1. CASE IsKind(p[i], "insert") => x # p[i].first BY <1>1, ReadsElsewhere
<1>2. CASE IsKind(p[i], "insert") /\ x = p[i].first
  <2>1. PICK t \in Seq(Bit) :
          /\ Joined(p, i, t)
          /\ \A k \in Twins(p, i) : q[k] = None
          /\ GivenAway(n, p, i, t, q, e) \/ KeptThere(n, p, i, t, q, e)
    BY <1>2 DEF InsertDone
  <2>2. CASE GivenAway(n, p, i, t, q, e) BY <1>2, <2>1, <2>2, ReadsGiven
  <2>3. CASE KeptThere(n, p, i, t, q, e) BY <1>2, <2>1, <2>3, ReadsKept
  <2>4. QED BY <2>1, <2>2, <2>3
<1>3. QED BY <1>1, <1>2

----------------------------------------------------------------------------
(* The reduction fails where the instructions are invalid, and else says    *)
(* the same                                                                 *)

LEMMA ThinnedOn ==
  ASSUME NEW n \in Nat, NEW is \in Instructions(n), NEW p \in Programs(n), NEW q \in Programs(n),
         Thinned(is, p), Thinned(p, q)
  PROVE  Thinned(is, q)
BY InstructionsAreProgram, ThinnedTwice

LEMMA MeansStep ==
  ASSUME NEW n \in Nat, NEW is \in Instructions(n), NEW p \in Programs(n), Thinned(is, p),
         NEW i \in 1 .. n, NEW r \in Programs(n), NEW e, ReplaceDone(n, p, i, r, e), Means(n, is, p)
  PROVE  Means(n, is, r)
<1>1. ASSUME NEW k \in 1 .. n, r[k] # p[k] PROVE ~Lazy!Live(is, k)
  <2>1. r[k] = None /\ k < i /\ IsKind(p[i], "replace") /\ Lazy!Covers(p[i], p[k])
    BY <1>1 DEF ReplaceDone
  <2>2. p[i] # None /\ p[k] # None BY <1>1, <2>1 DEF IsKind
  <2>3. is[i].kind = "replace" /\ Lazy!Covers(is[i], is[k])
    <3>1. is[i].kind = "replace" BY <2>1, <2>2, StandsFor
    <3>2. Lazy!Covers(is[i], is[k]) BY <2>1, <2>2, CutsAlike
    <3>3. QED BY <3>1, <3>2
  <2>4. i \in k + 1 .. n BY <2>1
  <2>5. Killed(is, k, n) BY <2>3, <2>4 DEF Killed
  <2>6. QED BY <2>5, LiveIs
<1>2. QED BY <1>1, MeansReplaced

LEMMA FirstWalkStuck ==
  ASSUME NEW n \in Nat, NEW is \in Instructions(n), NEW p \in Programs(n), Thinned(is, p),
         NEW g, NEW h, Walks(n, p, g, h), StuckBehind(n, is, p, 0)
  PROVE  g[n].error /\ Thinned(is, g[n].p) /\ StuckBehind(n, is, g[n].p, 0)
<1> DEFINE S == {i \in Nat : i \in 0 .. n =>
                   /\ Thinned(is, g[i].p) /\ StuckBehind(n, is, g[i].p, 0)
                   /\ ~g[i].error => StuckBehind(n, is, g[i].p, i)}
<1>1. 0 \in S
  <2>1. g[0].p = p BY DEF Walks
  <2>2. QED BY <2>1
<1>2. ASSUME NEW i \in Nat, i \in S PROVE i + 1 \in S
  <2> DEFINE j == i + 1
  <2>1. SUFFICES ASSUME j \in 0 .. n
                 PROVE  /\ Thinned(is, g[j].p) /\ StuckBehind(n, is, g[j].p, 0)
                        /\ ~g[j].error => StuckBehind(n, is, g[j].p, j)
    OBVIOUS
  <2>2. i \in 0 .. n /\ j \in 1 .. n /\ j - 1 = i BY <2>1
  <2>3. /\ Thinned(is, g[i].p) /\ StuckBehind(n, is, g[i].p, 0)
        /\ ~g[i].error => StuckBehind(n, is, g[i].p, i)
    BY <1>2, <2>2
  <2> HIDE DEF j, S
  <2>4. /\ g[i].p \in Programs(n) /\ g[j].p \in Programs(n)
        /\ g[i].error => g[j] = g[i]
        /\ ~g[i].error => ReplaceDone(n, g[i].p, j, g[j].p, g[j].error)
    BY <2>2, WalkStep
  <2>5. CASE g[i].error BY <2>3, <2>4, <2>5
  <2>6. CASE ~g[i].error
    <3>1. StuckBehind(n, is, g[i].p, j - 1) BY <2>2, <2>3, <2>6
    <3>2. Thinned(g[i].p, g[j].p) BY <2>2, <2>4, <2>6, ReplaceSpaces
    <3>3. Thinned(is, g[j].p) BY <2>3, <2>4, <3>2, ThinnedOn
    <3>4. QED BY <2>2, <2>3, <2>4, <2>6, <3>1, <3>3, StuckStep
  <2>7. QED BY <2>5, <2>6
<1> HIDE DEF S
<1>3. n \in S BY <1>1, <1>2, Induct
<1>4. /\ Thinned(is, g[n].p) /\ StuckBehind(n, is, g[n].p, 0)
      /\ ~g[n].error => StuckBehind(n, is, g[n].p, n)
  BY <1>3 DEF S
<1>5. ~StuckBehind(n, is, g[n].p, n)
  <2>1. n + 1 .. n = {} OBVIOUS
  <2>2. QED BY <2>1 DEF StuckBehind
<1>6. QED BY <1>4, <1>5

LEMMA FirstWalkSound ==
  ASSUME NEW n \in Nat, NEW is \in Instructions(n), NEW p \in Programs(n), Thinned(is, p),
         NEW w \in 0 .. n, Sound(n, is, p, w), NEW g, NEW h, Walks(n, p, g, h)
  PROVE  /\ Thinned(is, g[n].p)
         /\ g[n].error => StuckBehind(n, is, g[n].p, 0)
         /\ ~g[n].error => Sound(n, is, g[n].p, n)
         /\ Means(n, is, p) => Means(n, is, g[n].p)
<1> DEFINE Far(i) == IF i <= w THEN w ELSE i
           Good1(i) == /\ Thinned(is, g[i].p)
                       /\ g[i].error => StuckBehind(n, is, g[i].p, 0)
                       /\ ~g[i].error => Sound(n, is, g[i].p, Far(i))
                       /\ Means(n, is, p) => Means(n, is, g[i].p)
           S == {i \in Nat : i \in 0 .. n => Good1(i)}
<1>1. 0 \in S
  <2>1. g[0].p = p /\ g[0].error = FALSE BY DEF Walks
  <2>2. Far(0) = w OBVIOUS
  <2>3. QED BY <2>1, <2>2
<1>2. ASSUME NEW i \in Nat, i \in S PROVE i + 1 \in S
  <2> DEFINE j == i + 1
  <2>1. SUFFICES ASSUME j \in 0 .. n PROVE Good1(j)
    OBVIOUS
  <2>2. i \in 0 .. n /\ j \in 1 .. n /\ j - 1 = i BY <2>1
  <2>3. Good1(i) BY <1>2, <2>2
  <2>4. CASE g[i].error
    <3>1. g[j] = g[i] BY <2>2, <2>4, WalkStep
    <3>2. QED BY <2>3, <2>4, <3>1
  <2>5. CASE ~g[i].error
    <3> DEFINE o == g[i].p
               r == g[j].p
               e == g[j].error
    <3>1. o \in Programs(n) /\ r \in Programs(n) /\ ReplaceDone(n, o, j, r, e)
      BY <2>2, <2>5, WalkStep
    <3>2. Thinned(is, o) /\ Sound(n, is, o, Far(i)) /\ (Means(n, is, p) => Means(n, is, o))
      BY <2>3, <2>5
    <3> HIDE DEF o, r, e, j
    <3>3. Thinned(o, r) BY <2>2, <3>1, ReplaceSpaces
    <3>4. Thinned(is, r) BY <3>1, <3>2, <3>3, ThinnedOn
    <3>5. Means(n, is, p) => Means(n, is, r) BY <2>2, <3>1, <3>2, MeansStep
    <3>6. (e => StuckBehind(n, is, r, 0)) /\ (~e => Sound(n, is, r, Far(j)))
      <4>1. CASE j <= w
        <5>1. Far(i) = w /\ Far(j) = w /\ j \in 1 .. w BY <2>2, <4>1
        <5>2. Sound(n, is, o, w) BY <3>2, <5>1
        <5>3. r = o /\ ~e BY <3>1, <3>2, <5>1, <5>2, PassedStep
        <5>4. QED BY <5>1, <5>2, <5>3
      <4>2. CASE ~(j <= w)
        <5>1. Far(i) = j - 1 /\ Far(j) = j BY <2>2, <4>2
        <5>2. Sound(n, is, o, j - 1) BY <3>2, <5>1
        <5>3. QED BY <2>2, <3>1, <3>2, <5>1, <5>2, NextStep
      <4>3. QED BY <4>1, <4>2
    <3>7. QED BY <3>4, <3>5, <3>6 DEF o, r, e, j
  <2>6. QED BY <2>4, <2>5
<1> HIDE DEF S
<1>3. n \in S BY <1>1, <1>2, Induct
<1>4. Good1(n) BY <1>3 DEF S
<1>5. Far(n) = n OBVIOUS
<1>6. QED BY <1>4, <1>5

LEMMA CutIsInvalid ==
  ASSUME NEW n \in Nat, NEW is \in Instructions(n), CutAsked(is)
  PROVE  Lazy!Invalid(is)
<1>1. DOMAIN is = 1 .. n BY DEF Instructions
<1>2. PICK c \in 1 .. n : \E k \in 1 .. c - 1 : CutBy(is, k, c) BY <1>1 DEF CutAsked
<1>3. PICK k \in 1 .. c - 1 : CutBy(is, k, c) BY <1>2
<1>4. k \in 1 .. n /\ k < c OBVIOUS
<1>5. /\ is[c].kind = "replace" /\ is[k].kind = "replace"
      /\ ~Lazy!Apart(is[c], is[k]) /\ ~Lazy!Covers(is[c], is[k])
      /\ \A m \in k + 1 .. c - 1 : is[m].kind = "replace" => ~Lazy!Covers(is[m], is[k])
  BY <1>3 DEF CutBy, Cuts, IsKind
<1>6. ~Lazy!Apart(is[k], is[c]) BY <1>5 DEF Lazy!Apart
<1>7. QED BY <1>1, <1>4, <1>5, <1>6 DEF Lazy!Invalid

\* An insert that the walk finds inside a replace is invalid.
LEMMA HitIsInvalid ==
  ASSUME NEW n \in Nat, NEW is \in Instructions(n), NEW p \in Programs(n), Thinned(is, p),
         Sound(n, is, p, n), NEW i \in 1 .. n, NEW q \in Programs(n), NEW e,
         InsertDone(n, p, i, q, e), e
  PROVE  Lazy!Invalid(is)
<1>1. DOMAIN is = 1 .. n BY DEF Instructions
<1>2. IsKind(p[i], "insert") /\ Hits(p, i) # {} BY DEF InsertDone, GivenAway, KeptThere
<1>3. PICK k \in Hits(p, i) : TRUE BY <1>2
<1>4. /\ k \in 1 .. n /\ k < i /\ p[k] # None /\ p[k].kind = "replace"
      /\ p[k].first < p[i].first /\ p[i].first <= p[k].last
  BY PriorIs DEF Hits
<1>5. p[i] # None /\ p[i].kind = "insert" BY <1>2 DEF IsKind
<1>6. Alike(p[k], is[k]) /\ Alike(p[i], is[i]) BY <1>4, <1>5, StandsFor
<1>7. Lazy!Live(is, k) /\ Lazy!Live(is, i) BY <1>4, <1>5, LiveIs DEF Sound
<1>8. /\ is[k].kind = "replace" /\ is[i].kind = "insert"
      /\ is[k].first < is[i].first /\ is[i].first <= is[k].last
  BY <1>4, <1>5, <1>6 DEF Alike
<1>9. /\ is[k].first \in Nat /\ is[k].last \in Nat /\ is[i].first \in Nat /\ is[i].last = is[i].first
  BY <1>4, <1>8, InstructionIs
<1>10. ~Lazy!Apart(is[k], is[i]) /\ is[i].first # is[k].first BY <1>8, <1>9 DEF Lazy!Apart
<1>11. QED BY <1>1, <1>4, <1>7, <1>8, <1>10 DEF Lazy!Invalid

\* What was reduced without an error was not invalid.
LEMMA ApartIsValid ==
  ASSUME NEW n \in Nat, NEW is \in Instructions(n), NEW p \in Programs(n), Thinned(is, p),
         Sound(n, is, p, n), AllApart(n, p)
  PROVE  ~Lazy!Invalid(is)
<1>1. DOMAIN is = 1 .. n BY DEF Instructions
<1>2. ASSUME NEW a \in 1 .. n, NEW b \in 1 .. n, a # b, p[a] # None, p[b] # None
      PROVE  Lazy!Apart(is[a], is[b])
  <2>1. a \in 1 .. b - 1 \/ b \in 1 .. a - 1 BY <1>2
  <2>2. Lazy!Apart(p[a], p[b]) \/ Lazy!Apart(p[b], p[a]) BY <1>2, <2>1 DEF AllApart
  <2>3. Lazy!Apart(is[a], is[b]) \/ Lazy!Apart(is[b], is[a]) BY <1>2, <2>2, CutsAlike
  <2>4. QED BY <2>3 DEF Lazy!Apart
<1>3. SUFFICES ASSUME NEW j \in 1 .. n, NEW k \in 1 .. n,
                      k < j, is[k].kind = "replace", ~Lazy!Apart(is[k], is[j]),
                      \/ /\ is[j].kind = "replace" /\ ~Lazy!Covers(is[j], is[k])
                         /\ \A m \in k + 1 .. j - 1 :
                              is[m].kind = "replace" => ~Lazy!Covers(is[m], is[k])
                      \/ /\ is[j].kind = "insert" /\ is[j].first # is[k].first
                         /\ Lazy!Live(is, j) /\ Lazy!Live(is, k)
               PROVE  FALSE
  BY <1>1 DEF Lazy!Invalid
<1>4. /\ is[j] # None /\ is[k] # None
      /\ is[k].first \in Nat /\ is[k].last \in Nat /\ is[k].first <= is[k].last
      /\ is[j].first \in Nat /\ is[j].last \in Nat /\ is[j].first <= is[j].last
      /\ is[j].kind = "insert" => is[j].last = is[j].first
  BY InstructionIs
<1>5. CASE /\ is[j].kind = "replace" /\ ~Lazy!Covers(is[j], is[k])
           /\ \A m \in k + 1 .. j - 1 : is[m].kind = "replace" => ~Lazy!Covers(is[m], is[k])
  <2>1. ~Lazy!Apart(is[j], is[k]) BY <1>3 DEF Lazy!Apart
  <2>2. CutBy(is, k, j) BY <1>3, <1>4, <1>5, <2>1 DEF CutBy, Cuts, IsKind
  <2>3. k \in 1 .. j - 1 BY <1>3
  <2>4. QED BY <2>2, <2>3 DEF Sound
<1>6. CASE /\ is[j].kind = "insert" /\ is[j].first # is[k].first
           /\ Lazy!Live(is, j) /\ Lazy!Live(is, k)
  <2>1. ~Killed(is, k, n) /\ ~Killed(is, j, n) BY <1>6, LiveIs
  <2>2. p[k] # None
    <3>1. ~Merged(is, p, k, n) BY <1>3 DEF Merged
    <3>2. QED BY <2>1, <3>1 DEF Sound
  <2>3. CASE p[j] # None
    <3>1. k # j BY <1>3
    <3>2. QED BY <1>2, <1>3, <2>2, <2>3, <3>1
  <2>4. CASE p[j] = None
    <3>1. Merged(is, p, j, n) BY <2>1, <2>4 DEF Sound
    <3>2. PICK m \in 1 .. n : p[m] # None /\ is[m].first = is[j].first BY <3>1 DEF Merged
    <3>3. m # k BY <1>6, <3>2
    <3>4. Lazy!Apart(is[k], is[m]) BY <1>2, <2>2, <3>2, <3>3
    <3>5. is[m].first \in Nat /\ is[m].last \in Nat /\ is[m].first <= is[m].last BY InstructionIs
    <3>6. is[k].first <= is[j].first /\ is[j].first <= is[k].last
      BY <1>3, <1>4, <1>6 DEF Lazy!Apart
    <3>7. QED BY <1>4, <3>2, <3>4, <3>5, <3>6 DEF Lazy!Apart
  <2>5. QED BY <2>3, <2>4
<1>7. QED BY <1>3, <1>5, <1>6

LEMMA SecondWalk ==
  ASSUME NEW n \in Nat, NEW is \in Instructions(n), NEW p, NEW g, NEW h, Walks(n, p, g, h),
         ~g[n].error, Thinned(is, g[n].p), Sound(n, is, g[n].p, n)
  PROVE  /\ Thinned(is, h[n].p) /\ Sound(n, is, h[n].p, n)
         /\ h[n].error => Lazy!Invalid(is)
         /\ Means(n, is, g[n].p) => Means(n, is, h[n].p)
<1> DEFINE Good2(i) == /\ Thinned(is, h[i].p) /\ Sound(n, is, h[i].p, n)
                       /\ h[i].error => Lazy!Invalid(is)
                       /\ Means(n, is, g[n].p) => Means(n, is, h[i].p)
           S == {i \in Nat : i \in 0 .. n => Good2(i)}
<1>1. 0 \in S
  <2>1. h[0] = g[n] BY DEF Walks
  <2>2. QED BY <2>1
<1>2. ASSUME NEW i \in Nat, i \in S PROVE i + 1 \in S
  <2> DEFINE j == i + 1
  <2>1. SUFFICES ASSUME j \in 0 .. n PROVE Good2(j)
    OBVIOUS
  <2>2. i \in 0 .. n /\ j \in 1 .. n /\ j - 1 = i BY <2>1
  <2>3. Good2(i) BY <1>2, <2>2
  <2>4. CASE h[i].error
    <3>1. h[j] = h[i] BY <2>2, <2>4, WalkStep
    <3>2. QED BY <2>3, <2>4, <3>1
  <2>5. CASE ~h[i].error
    <3> DEFINE o == h[i].p
               q == h[j].p
               e == h[j].error
               m == Means(n, is, g[n].p)
    <3>1. o \in Programs(n) /\ q \in Programs(n) /\ InsertDone(n, o, j, q, e)
      BY <2>2, <2>5, WalkStep
    <3>2. Thinned(is, o) /\ Sound(n, is, o, n) /\ (m => Means(n, is, o)) BY <2>3
    <3>3. Spaced(o, i, "insert") BY <2>2, <2>5, SecondWalkSpaces
    <3>4. Spaced(o, j - 1, "insert") BY <2>2, <3>3
    <3> HIDE DEF o, q, e, j, m
    <3>5. Thinned(o, q) BY <2>2, <3>1, InsertSpaces
    <3>6. Thinned(is, q) BY <3>1, <3>2, <3>5, ThinnedOn
    <3>7. Sound(n, is, q, n) BY <2>2, <3>1, <3>2, SoundInserted
    <3>8. e => Lazy!Invalid(is) BY <2>2, <3>1, <3>2, HitIsInvalid
    <3>9. m => Means(n, is, q) BY <2>2, <3>1, <3>2, <3>4, <3>6, <3>7, MeansInserted
    <3>10. QED BY <3>6, <3>7, <3>8, <3>9 DEF q, e, j, m
  <2>6. QED BY <2>4, <2>5
<1> HIDE DEF S
<1>3. n \in S BY <1>1, <1>2, Induct
<1>4. QED BY <1>3 DEF S

\* A reduction fails just when the instructions are invalid; if it does not,
\* each token has at most one operation, and they say what the instructions say.
LEMMA Reduces ==
  ASSUME NEW n \in Nat, NEW is \in Instructions(n), NEW p \in Programs(n), Follows(n, is, p)
  PROVE  /\ Reduce(p).p \in Programs(n) /\ Reduce(p).error \in BOOLEAN
         /\ Follows(n, is, Reduce(p).p)
         /\ Reduce(p).error <=> Lazy!Invalid(is)
         /\ ~Reduce(p).error =>
              /\ Thinned(is, Reduce(p).p) /\ AllApart(n, Reduce(p).p)
              /\ Sound(n, is, Reduce(p).p, n) /\ Means(n, is, Reduce(p).p)
<1>1. PICK g, h : Walks(n, p, g, h) BY TwoWalks
<1> DEFINE r == Reduce(p)
<1>2. n \in 0 .. n OBVIOUS
<1>3. r = h[n] /\ h[0] = g[n] BY <1>1 DEF Walks
<1>4. r \in States(n) /\ (~r.error => AllApart(n, r.p)) BY Reduced
<1>5. r.p \in Programs(n) /\ r.error \in BOOLEAN BY <1>4 DEF States
<1>6. ASSUME g[n].error PROVE r = g[n]
  <2> DEFINE S == {i \in Nat : i \in 0 .. n => h[i] = g[n]}
  <2>1. 0 \in S BY <1>3
  <2>2. ASSUME NEW i \in Nat, i \in S PROVE i + 1 \in S
    <3>1. SUFFICES ASSUME i + 1 \in 0 .. n PROVE h[i + 1] = g[n]
      OBVIOUS
    <3> DEFINE j == i + 1
    <3>2. i \in 0 .. n /\ j \in 1 .. n /\ j - 1 = i BY <3>1
    <3>3. h[i] = g[n] BY <2>2, <3>2
    <3> HIDE DEF j
    <3>4. h[j] = h[i] BY <1>1, <1>6, <3>2, <3>3, WalkStep
    <3>5. QED BY <3>3, <3>4 DEF j
  <2> HIDE DEF S
  <2>3. n \in S BY <2>1, <2>2, Induct
  <2>4. QED BY <1>2, <1>3, <2>3 DEF S
<1> HIDE DEF r
<1>7. Thinned(is, p) BY DEF Follows
<1>8. ASSUME r.error, Thinned(is, r.p), StuckBehind(n, is, r.p, 0)
      PROVE  /\ Follows(n, is, r.p) /\ (r.error <=> Lazy!Invalid(is))
  <2>1. PICK c \in 1 .. n : \E k \in 1 .. c - 1 : CutBy(is, k, c) BY <1>8 DEF StuckBehind
  <2>2. CutAsked(is) BY <2>1 DEF CutAsked, Instructions
  <2>3. Lazy!Invalid(is) BY <2>2, CutIsInvalid
  <2>4. QED BY <1>8, <2>3 DEF Follows
<1>9. CASE StuckBehind(n, is, p, 0)
  <2>1. g[n].error /\ Thinned(is, g[n].p) /\ StuckBehind(n, is, g[n].p, 0)
    BY <1>1, <1>7, <1>9, FirstWalkStuck
  <2>2. QED BY <1>5, <1>6, <1>8, <2>1 DEF r
<1>10. CASE ~StuckBehind(n, is, p, 0)
  <2>1. PICK w \in 0 .. n : Sound(n, is, p, w) /\ (CutAsked(is) \/ Means(n, is, p))
    BY <1>10 DEF Follows
  <2>2. /\ Thinned(is, g[n].p)
        /\ g[n].error => StuckBehind(n, is, g[n].p, 0)
        /\ ~g[n].error => Sound(n, is, g[n].p, n)
        /\ Means(n, is, p) => Means(n, is, g[n].p)
    BY <1>1, <1>7, <2>1, FirstWalkSound
  <2>3. CASE g[n].error BY <1>5, <1>6, <1>8, <2>2, <2>3 DEF r
  <2>4. CASE ~g[n].error
    <3>1. /\ Thinned(is, r.p) /\ Sound(n, is, r.p, n)
          /\ r.error => Lazy!Invalid(is)
          /\ Means(n, is, g[n].p) => Means(n, is, r.p)
      BY <1>1, <1>3, <2>2, <2>4, SecondWalk
    <3>2. ~CutAsked(is)
      <4>1. DOMAIN is = 1 .. n BY DEF Instructions
      <4>2. QED BY <3>1, <4>1 DEF Sound, CutAsked
    <3>3. Means(n, is, r.p) BY <2>1, <2>2, <3>1, <3>2
    <3>4. Follows(n, is, r.p) BY <1>2, <3>1, <3>3 DEF Follows
    <3>5. ~r.error => ~Lazy!Invalid(is) BY <1>4, <1>5, <3>1, ApartIsValid
    <3>6. QED BY <1>4, <1>5, <3>1, <3>3, <3>4, <3>5 DEF r
  <2>5. QED BY <2>3, <2>4
<1>11. QED BY <1>9, <1>10

----------------------------------------------------------------------------
(* What the loop over the tokens adds                                       *)

PieceAt(x) == IF x \in Token THEN Piece(x) ELSE <<>>

\* What a reduced program puts at x.
Puts(p, x) ==
  LET op == OpAt(p, x) IN
  IF op = None THEN PieceAt(x)
  ELSE IF op.kind = "insert" THEN op.text \o PieceAt(x) ELSE op.text

LEMMA JoinsOne ==
  ASSUME NEW n \in Nat, NEW c, NEW f, JoinedBy(n, c, f), NEW k \in 1 .. n,
         \A m \in 1 .. n : m # k => c[m] = <<>>
  PROVE  f[n] = c[k]
<1>1. Nothing(0, k - 1, c) /\ Nothing(k, n, c)
  <2>1. 0 <= k - 1 /\ k <= n /\ \A m \in 1 .. k - 1 : m \in 1 .. n /\ m # k OBVIOUS
  <2>2. QED BY <2>1 DEF Nothing
<1>2. f[k] = c[k] BY <1>1, JoinsLast
<1>3. k \in Nat /\ n <= n OBVIOUS
<1>4. f[n] = f[k] BY <1>1, <1>3, JoinsNothing
<1>5. QED BY <1>2, <1>4

LEMMA JoinsNone ==
  ASSUME NEW n \in Nat, NEW c, NEW f, JoinedBy(n, c, f), \A m \in 1 .. n : c[m] = <<>>
  PROVE  f[n] = <<>>
<1>1. 0 \in Nat /\ 0 <= n /\ n <= n OBVIOUS
<1>2. Nothing(0, n, c) BY <1>1 DEF Nothing
<1>3. f[n] = f[0] BY <1>1, <1>2, JoinsNothing
<1>4. QED BY <1>3 DEF JoinedBy, Joins

\* A program that a reduction leaves, without an error, of the instructions.
Settled(n, is, p) ==
  Thinned(is, p) /\ AllApart(n, p) /\ Sound(n, is, p, n) /\ Means(n, is, p)

LEMMA AtPuts ==
  ASSUME NEW n \in Nat, NEW is \in Instructions(n), Len(is) = n, NEW p \in Programs(n),
         Settled(n, is, p), NEW x \in 0 .. NTokens
  PROVE  Lazy!At(is, x) = Puts(p, x) /\ Puts(p, x) \in Seq(Out)
<1> USE DEF Settled
<1> DEFINE u == Texts(p)
           d == Inserted(is, u, x)
           g == Sums(n, d)
           op == OpAt(p, x)
           piece == PieceAt(x)
<1>1. Lazy!At(is, x) = Reads(n, is, u, x) BY AtReads DEF Means
<1>2. u \in TextsOf(n) /\ \A k \in 1 .. n : u[k] = IF p[k] = None THEN <<>> ELSE p[k].text
  BY TextsAre
<1>3. Shows(n, p, x, d) BY InsertedShows
<1>4. /\ \A k : k \in Chosen(is, x) <=> k \in 1 .. n /\ IsKind(p[k], "replace") /\ p[k].first = x
      /\ \A j, k \in Chosen(is, x) : j = k
  BY ChosenIs
<1>5. Reads(n, is, u, x) = g[n] \o Standing(is, u, x) BY DEF Reads
<1>6. piece \in Seq(Out) /\ \A s \in Seq(Out) : <<>> \o s = s /\ s \o <<>> = s
  BY PieceOrNothing DEF PieceAt, Piece
<1>7. Chosen(is, x) = {} => Standing(is, u, x) = piece
  BY DEF Standing, PieceAt, Piece
<1> HIDE DEF u, d, piece
<1>8. JoinedBy(n, d, g) BY <1>3, SumsAre DEF JoinedBy, Shows
<1> HIDE DEF g
<1>9. CASE op = None
  <2>1. \A k \in 1 .. n : p[k] # None => p[k].first # x BY <1>9, OpAtIs
  <2>2. \A k \in 1 .. n : d[k] = <<>> BY <1>3, <2>1 DEF Shows, IsKind
  <2>3. g[n] = <<>> BY <1>8, <2>2, JoinsNone
  <2>4. Chosen(is, x) = {} BY <1>4, <2>1 DEF IsKind
  <2>5. Puts(p, x) = piece BY <1>9 DEF Puts, piece
  <2>6. QED BY <1>1, <1>5, <1>6, <1>7, <2>3, <2>4, <2>5
<1>10. CASE op # None
  <2>1. PICK k \in 1 .. n : p[k] \in Good /\ p[k] # None /\ p[k].first = x /\ op = p[k]
    BY <1>10, OpAtIs
  <2>2. \A m \in 1 .. n : p[m] # None /\ p[m].first = x => m = k BY <2>1, ApartAlone
  <2>3. p[k].text \in Seq(Out) /\ p[k].kind \in {"insert", "replace"} BY <2>1, GoodIs, BitsAreOut
  <2>4. CASE p[k].kind = "insert"
    <3>1. d[k] = p[k].text BY <1>3, <2>1, <2>4 DEF Shows, IsKind
    <3>2. \A m \in 1 .. n : m # k => d[m] = <<>> BY <1>3, <2>2 DEF Shows, IsKind
    <3>3. g[n] = p[k].text BY <1>8, <3>1, <3>2, JoinsOne
    <3>4. Chosen(is, x) = {} BY <1>4, <2>2, <2>4 DEF IsKind
    <3>5. Puts(p, x) = p[k].text \o piece BY <1>10, <2>1, <2>4 DEF Puts, piece
    <3>6. p[k].text \o piece \in Seq(Out) BY <1>6, <2>3, OutSpliced
    <3>7. QED BY <1>1, <1>5, <1>7, <3>3, <3>4, <3>5, <3>6
  <2>5. CASE p[k].kind = "replace"
    <3>1. \A m \in 1 .. n : d[m] = <<>> BY <1>3, <2>2, <2>5 DEF Shows, IsKind
    <3>2. g[n] = <<>> BY <1>8, <3>1, JoinsNone
    <3>3. k \in Chosen(is, x) BY <1>4, <2>1, <2>5 DEF IsKind
    <3>4. Standing(is, u, x) = u[k] BY <1>4, <3>3, StandingOne
    <3>5. u[k] = p[k].text BY <1>2, <2>1
    <3>6. Puts(p, x) = p[k].text BY <1>10, <2>1, <2>5 DEF Puts
    <3>7. QED BY <1>1, <1>5, <1>6, <2>3, <3>2, <3>4, <3>5, <3>6
  <2>6. QED BY <2>3, <2>4, <2>5
<1>11. QED BY <1>9, <1>10

\* Token z is gone with a replace that starts at one of begin .. y.
Skips(n, p, begin, y, z) ==
  \E k \in 1 .. n : /\ IsKind(p[k], "replace")
                    /\ begin <= p[k].first /\ p[k].first <= y
                    /\ p[k].first < z /\ z <= p[k].last

LEMMA GoneIs ==
  ASSUME NEW n \in Nat, NEW is \in Instructions(n), NEW p \in Programs(n),
         Thinned(is, p), Sound(n, is, p, n), NEW x \in Nat, NEW begin \in Nat
  PROVE  Lazy!Gone(is, x, begin) <=> Skips(n, p, begin, x - 1, x)
<1>1. DOMAIN is = 1 .. n BY DEF Instructions
<1>2. ASSUME NEW k \in 1 .. n
      PROVE  is[k].kind = "replace" /\ Lazy!Live(is, k) <=> IsKind(p[k], "replace")
  <2>1. k \in Chosen(is, is[k].first) <=> IsKind(p[k], "replace") /\ p[k].first = is[k].first
    BY ChosenIs
  <2>2. k \in Chosen(is, is[k].first) <=> is[k].kind = "replace" /\ Lazy!Live(is, k)
    BY <1>1 DEF Chosen
  <2>3. IsKind(p[k], "replace") => p[k].first = is[k].first
    BY StandsFor DEF IsKind, Alike
  <2>4. QED BY <2>1, <2>2, <2>3
<1>3. \A k \in 1 .. n : IsKind(p[k], "replace") =>
        p[k].first = is[k].first /\ p[k].last = is[k].last
  BY StandsFor DEF IsKind, Alike
<1>4. \A k \in 1 .. n : is[k].first \in Nat BY InstructionIs
<1>5. \A k \in 1 .. n : is[k].first <= x - 1 <=> is[k].first < x BY <1>4
<1>6. QED BY <1>1, <1>2, <1>3, <1>5 DEF Lazy!Gone, Skips

\* The loop has handled the tokens up to y.
Handled(n, p, begin, y, s) ==
  /\ y < s.next
  /\ \A z \in Nat : y < z => (z < s.next <=> Skips(n, p, begin, y, z))

Turns(n, p, begin, x, s, r) ==
  /\ Handled(n, p, begin, x, r)
  /\ r.buf = s.buf \o IF Skips(n, p, begin, x - 1, x) THEN <<>> ELSE Puts(p, x)

LEMMA TurnDoes ==
  ASSUME NEW n \in Nat, NEW p \in Programs(n), AllApart(n, p), NEW begin \in Nat,
         NEW x \in Token, begin <= x, NEW s \in LoopStates, Handled(n, p, begin, x - 1, s)
  PROVE  Turns(n, p, begin, x, s, Execute(p, s, x))
<1> USE DEF Turns
<1> DEFINE r == Execute(p, s, x)
           op == OpAt(p, x)
           skipped == Skips(n, p, begin, x - 1, x)
<1>1. x \in Nat /\ s.next \in Nat /\ s.buf \in Seq(Out)
  BY TokenRewriteAssumption DEF Token, LoopStates
<1>2. x - 1 < s.next /\ \A z \in Nat : x - 1 < z => (z < s.next <=> Skips(n, p, begin, x - 1, z))
  BY DEF Handled
<1>3. x < s.next <=> skipped BY <1>1, <1>2
<1>4. ASSUME NEW k \in 1 .. n, p[k] # None
      PROVE  p[k].first \in Nat /\ p[k].last \in Nat /\ p[k].first <= p[k].last
  <2>1. p[k] \in Good BY <1>4 DEF Programs
  <2>2. QED BY <2>1, GoodIs
<1>5. ASSUME NEW a \in 1 .. n, NEW b \in 1 .. n, a # b, p[a] # None, p[b] # None
      PROVE  Lazy!Apart(p[a], p[b])
  <2>1. a \in 1 .. b - 1 \/ b \in 1 .. a - 1 BY <1>5
  <2>2. Lazy!Apart(p[a], p[b]) \/ Lazy!Apart(p[b], p[a]) BY <1>5, <2>1 DEF AllApart
  <2>3. QED BY <2>2 DEF Lazy!Apart
<1>6. \A k \in 1 .. n : IsKind(p[k], "replace") => p[k] # None /\ p[k].kind = "replace"
  BY DEF IsKind
\* Between x - 1 and x only what starts at x is new.
<1>7. ASSUME NEW z \in Nat, x < z
      PROVE  Skips(n, p, begin, x, z) <=>
               \/ Skips(n, p, begin, x - 1, z)
               \/ \E k \in 1 .. n : IsKind(p[k], "replace") /\ p[k].first = x /\ z <= p[k].last
  <2>1. \A k \in 1 .. n : IsKind(p[k], "replace") =>
          /\ p[k].first <= x <=> p[k].first <= x - 1 \/ p[k].first = x
          /\ p[k].first = x => begin <= p[k].first /\ p[k].first <= x /\ p[k].first < z
    BY <1>1, <1>4, <1>6, <1>7
  <2>2. QED BY <2>1 DEF Skips
<1>8. ASSUME NEW z \in Nat, x < z, Skips(n, p, begin, x - 1, z) PROVE skipped
  <2>1. PICK k \in 1 .. n : /\ IsKind(p[k], "replace")
                            /\ begin <= p[k].first /\ p[k].first <= x - 1
                            /\ p[k].first < z /\ z <= p[k].last
    BY <1>8 DEF Skips
  <2>2. p[k].first < x /\ x <= p[k].last BY <1>1, <1>4, <1>6, <1>8, <2>1
  <2>3. QED BY <2>1, <2>2 DEF Skips
<1> HIDE DEF skipped
<1>9. CASE x < s.next
  <2>1. r = s BY <1>9 DEF Execute
  <2>2. PICK k \in 1 .. n : IsKind(p[k], "replace") /\ p[k].first < x /\ x <= p[k].last
    BY <1>3, <1>9 DEF skipped, Skips
  <2>3. ASSUME NEW m \in 1 .. n, p[m] # None, p[m].first = x PROVE FALSE
    <3>1. m # k BY <1>1, <1>4, <1>6, <2>2, <2>3
    <3>2. Lazy!Apart(p[k], p[m]) BY <1>5, <1>6, <2>2, <2>3, <3>1
    <3>3. QED BY <1>4, <1>6, <2>2, <2>3, <3>2 DEF Lazy!Apart
  <2>4. \A z \in Nat : x < z => (z < s.next <=> Skips(n, p, begin, x, z))
    <3>1. SUFFICES ASSUME NEW z \in Nat, x < z PROVE z < s.next <=> Skips(n, p, begin, x, z)
      OBVIOUS
    <3>2. x - 1 < z BY <1>1, <3>1
    <3>3. Skips(n, p, begin, x, z) <=> Skips(n, p, begin, x - 1, z) BY <1>6, <1>7, <2>3, <3>1
    <3>4. QED BY <1>2, <3>2, <3>3
  <2>5. s.buf \o <<>> = s.buf BY <1>1
  <2>6. QED BY <1>3, <1>9, <2>1, <2>4, <2>5 DEF Handled, skipped
<1>10. CASE ~(x < s.next)
  <2>1. ~skipped BY <1>3, <1>10
  <2>2. \A z \in Nat : x < z => ~Skips(n, p, begin, x - 1, z) BY <1>8, <2>1
  <2>3. CASE op = None
    <3>1. r = [buf |-> s.buf \o Piece(x), next |-> x + 1] BY <1>10, <2>3 DEF Execute
    <3>2. \A k \in 1 .. n : p[k] # None => p[k].first # x BY <2>3, OpAtIs
    <3>3. \A z \in Nat : x < z => ~Skips(n, p, begin, x, z) BY <1>6, <1>7, <2>2, <3>2
    <3>4. \A z \in Nat : x < z => ~(z < x + 1) BY <1>1
    <3>5. Handled(n, p, begin, x, r) BY <1>1, <3>1, <3>3, <3>4 DEF Handled
    <3>6. Puts(p, x) = Piece(x) BY <2>3 DEF Puts, PieceAt
    <3>7. QED BY <2>1, <3>1, <3>5, <3>6 DEF skipped
  <2>4. CASE op # None
    <3>1. PICK k \in 1 .. n : p[k] \in Good /\ p[k] # None /\ p[k].first = x /\ op = p[k]
      BY <2>4, OpAtIs
    <3>2. \A m \in 1 .. n : p[m] # None /\ p[m].first = x => m = k BY <3>1, ApartAlone
    <3>3. /\ p[k].kind \in {"insert", "replace"} /\ p[k].text \in Seq(Out)
          /\ p[k].last \in Nat /\ x <= p[k].last
      BY <3>1, GoodIs, BitsAreOut
    <3>4. CASE p[k].kind = "insert"
      <4>1. r = [buf |-> s.buf \o op.text \o Piece(x), next |-> x + 1]
        BY <1>10, <2>4, <3>1, <3>4 DEF Execute
      <4>2. \A m \in 1 .. n : IsKind(p[m], "replace") => p[m].first # x
        BY <1>6, <3>2, <3>4
      <4>3. \A z \in Nat : x < z => ~Skips(n, p, begin, x, z) BY <1>7, <2>2, <4>2
      <4>4. \A z \in Nat : x < z => ~(z < x + 1) BY <1>1
      <4>5. Handled(n, p, begin, x, r) BY <1>1, <4>1, <4>3, <4>4 DEF Handled
      <4>6. Puts(p, x) = op.text \o Piece(x) BY <2>4, <3>1, <3>4 DEF Puts, PieceAt
      <4> DEFINE a == s.buf
                 b == op.text
                 c == Piece(x)
      <4>7. a \in Seq(Out) /\ b \in Seq(Out) /\ c \in Seq(Out) BY <1>1, <3>1, <3>3, PieceIsOut
      <4> HIDE DEF a, b, c, r, op
      <4>8. r.buf = (a \o b) \o c BY <4>1 DEF a, b, c
      <4>9. a \o (b \o c) = (a \o b) \o c BY ONLY <4>7, Associates
      <4>10. QED BY <2>1, <4>5, <4>6, <4>8, <4>9 DEF a, b, c, r, op, skipped
    <3>5. CASE p[k].kind = "replace"
      <4>1. r = [buf |-> s.buf \o op.text, next |-> op.last + 1]
        BY <1>10, <2>4, <3>1, <3>5 DEF Execute
      <4>2. ASSUME NEW z \in Nat, x < z PROVE Skips(n, p, begin, x, z) <=> z <= p[k].last
        <5>1. IsKind(p[k], "replace") BY <3>1, <3>5 DEF IsKind
        <5>2. \A m \in 1 .. n : IsKind(p[m], "replace") /\ p[m].first = x => m = k BY <1>6, <3>2
        <5>3. ~Skips(n, p, begin, x - 1, z) BY <2>2, <4>2
        <5>4. QED BY <1>7, <3>1, <4>2, <5>1, <5>2, <5>3
      <4>3. \A z \in Nat : z <= p[k].last <=> z < p[k].last + 1 BY <3>3
      <4>4. x < p[k].last + 1 BY <1>1, <3>3
      <4>5. Handled(n, p, begin, x, r) BY <3>1, <4>1, <4>2, <4>3, <4>4 DEF Handled
      <4>6. Puts(p, x) = op.text BY <2>4, <3>1, <3>5 DEF Puts
      <4> HIDE DEF r, op
      <4>7. r.buf = s.buf \o op.text BY <4>1
      <4>8. QED BY <2>1, <4>5, <4>6, <4>7 DEF r, skipped
    <3>6. QED BY <3>3, <3>4, <3>5
  <2>5. QED BY <2>3, <2>4
<1>11. QED BY <1>9, <1>10

Turned(n, p, begin, m, g) ==
  \A i \in 1 .. m :
    g[i].buf = g[i - 1].buf \o
      IF Skips(n, p, begin, begin + i - 2, begin + i - 1) THEN <<>> ELSE Puts(p, begin + i - 1)

LEMMA LoopHandles ==
  ASSUME NEW n \in Nat, NEW p \in Programs(n), AllApart(n, p), NEW begin \in Token,
         NEW m \in Nat, begin + m <= NTokens, NEW g, Loops(p, begin, m, g)
  PROVE  Turned(n, p, begin, m, g)
<1> USE DEF Turned
<1> DEFINE S == {i \in Nat : i <= m => Handled(n, p, begin, begin + i - 1, g[i])}
<1>1. begin \in Nat BY TokenRewriteAssumption DEF Token
<1>2. \A i \in 0 .. m : g[i] \in LoopStates BY DEF Loops
<1>3. 0 \in S
  <2>1. g[0].next = begin BY DEF Loops
  <2>2. \A z \in Nat : ~Skips(n, p, begin, begin - 1, z)
    <3>1. \A k \in 1 .. n : IsKind(p[k], "replace") => p[k].first \in Nat
      <4>1. \A k \in 1 .. n : IsKind(p[k], "replace") => p[k] \in Good BY DEF IsKind, Programs
      <4>2. QED BY <4>1, GoodIs
    <3>2. QED BY <1>1, <3>1 DEF Skips
  <2>3. \A z \in Nat : begin - 1 < z => ~(z < begin) BY <1>1
  <2>4. begin + 0 - 1 = begin - 1 /\ begin - 1 < begin BY <1>1
  <2>5. QED BY <2>1, <2>2, <2>3, <2>4 DEF Handled
<1>4. ASSUME NEW i \in 1 .. m, Handled(n, p, begin, begin + i - 2, g[i - 1])
      PROVE  /\ Handled(n, p, begin, begin + i - 1, g[i])
             /\ g[i].buf = g[i - 1].buf \o
                  IF Skips(n, p, begin, begin + i - 2, begin + i - 1) THEN <<>>
                  ELSE Puts(p, begin + i - 1)
  <2> DEFINE x == begin + i - 1
  <2>1. x \in Token /\ begin <= x /\ x - 1 = begin + i - 2
    BY <1>1, TokenRewriteAssumption DEF Token
  <2>2. g[i - 1] \in LoopStates /\ g[i] = Execute(p, g[i - 1], x)
    <3>1. i - 1 \in 0 .. m OBVIOUS
    <3>2. QED BY <1>2, <3>1 DEF Loops
  <2> DEFINE s == g[i - 1]
  <2>3. s \in LoopStates /\ Handled(n, p, begin, x - 1, s) BY <1>4, <2>1, <2>2
  <2> HIDE DEF x, s
  <2>4. Turns(n, p, begin, x, s, Execute(p, s, x)) BY <1>1, <2>1, <2>3, TurnDoes
  <2>5. QED BY <2>1, <2>2, <2>4 DEF s, x, Turns
<1>5. ASSUME NEW i \in Nat, i \in S PROVE i + 1 \in S
  <2>1. SUFFICES ASSUME i + 1 <= m PROVE Handled(n, p, begin, begin + (i + 1) - 1, g[i + 1])
    OBVIOUS
  <2> DEFINE j == i + 1
  <2>2. /\ j \in 1 .. m /\ j - 1 = i /\ i <= m
        /\ begin + i - 1 = begin + j - 2
    BY <1>1, <2>1
  <2>3. Handled(n, p, begin, begin + i - 1, g[i]) BY <1>5, <2>2
  <2> HIDE DEF j
  <2>4. Handled(n, p, begin, begin + j - 2, g[j - 1]) BY <2>2, <2>3
  <2>5. Handled(n, p, begin, begin + j - 1, g[j]) BY <1>4, <2>2, <2>4
  <2>6. QED BY <2>5 DEF j
<1> HIDE DEF S
<1>6. \A i \in Nat : i \in S BY <1>3, <1>5, Induct
<1>7. SUFFICES ASSUME NEW i \in 1 .. m
               PROVE  g[i].buf = g[i - 1].buf \o
                        IF Skips(n, p, begin, begin + i - 2, begin + i - 1) THEN <<>>
                        ELSE Puts(p, begin + i - 1)
  OBVIOUS
<1>8. i - 1 \in Nat /\ i - 1 <= m /\ begin + (i - 1) - 1 = begin + i - 2 BY <1>1
<1>9. Handled(n, p, begin, begin + (i - 1) - 1, g[i - 1]) BY <1>6, <1>8 DEF S
<1>10. QED BY <1>4, <1>8, <1>9

Adding(is, begin, x) == IF Lazy!Gone(is, x, begin) THEN <<>> ELSE Lazy!At(is, x)

AddsUp(is, begin, tail, f) ==
  /\ f \in [begin - 1 .. tail -> Seq(Out)] /\ f[begin - 1] = <<>>
  /\ \A x \in begin .. tail : f[x] = f[x - 1] \o Adding(is, begin, x)

LastOf(end) == IF end = NTokens - 1 THEN NTokens ELSE end

\* The text is read from the function that adds these up.
LEMMA TextIs ==
  ASSUME NEW is, ~Lazy!Invalid(is), NEW begin \in Nat, NEW end \in Nat, begin <= end,
         NEW tail, tail = LastOf(end), NEW f, AddsUp(is, begin, tail, f)
  PROVE  Lazy!Text(is, begin, end) = f[tail]
<1> USE DEF AddsUp, LastOf
<1> DEFINE Is(h) == h = [p \in begin - 1 .. tail |->
                           IF p < begin THEN <<>>
                           ELSE h[p - 1] \o IF Lazy!Gone(is, p, begin) THEN <<>>
                                            ELSE Lazy!At(is, p)]
           text == CHOOSE h : Is(h)
<1>1. Lazy!Text(is, begin, end) = text[tail] BY Zenon DEF Lazy!Text
<1>2. begin <= tail /\ tail \in Nat BY TokenRewriteAssumption
<1>3. \A x \in begin - 1 .. tail :
        f[x] = IF x < begin THEN <<>> ELSE f[x - 1] \o Adding(is, begin, x)
  <2>1. \A x \in begin - 1 .. tail : IF x < begin THEN x = begin - 1 ELSE x \in begin .. tail
    BY <1>2
  <2>2. QED BY <2>1
<1>4. Is(f)
  <2> DEFINE h == [x \in begin - 1 .. tail |->
                     IF x < begin THEN <<>> ELSE f[x - 1] \o Adding(is, begin, x)]
  <2>1. f = [x \in begin - 1 .. tail |-> f[x]] OBVIOUS
  <2>2. \A x \in begin - 1 .. tail : h[x] = f[x] BY <1>3
  <2>3. h = [x \in begin - 1 .. tail |-> h[x]] OBVIOUS
  <2> HIDE DEF h
  <2>4. f = h BY <2>1, <2>2, <2>3
  <2>5. QED BY <2>4 DEF h, Adding
<1>5. Is(text) BY <1>4, Zenon
<1>6. \A x \in begin - 1 .. tail :
        text[x] = IF x < begin THEN <<>> ELSE text[x - 1] \o Adding(is, begin, x)
  <2> HIDE DEF text
  <2>1. QED BY <1>5 DEF Adding
<1> DEFINE S == {i \in Nat : begin - 1 + i <= tail => text[begin - 1 + i] = f[begin - 1 + i]}
<1> HIDE DEF text
<1>7. 0 \in S
  <2>1. begin - 1 + 0 = begin - 1 /\ begin - 1 < begin /\ begin - 1 \in begin - 1 .. tail BY <1>2
  <2>2. QED BY <1>3, <1>6, <2>1
<1>8. ASSUME NEW i \in Nat, i \in S PROVE i + 1 \in S
  <2> DEFINE x == begin - 1 + (i + 1)
             y == begin - 1 + i
  <2>1. SUFFICES ASSUME x <= tail PROVE text[x] = f[x]
    OBVIOUS
  <2>2. x \in begin - 1 .. tail /\ ~(x < begin) /\ x - 1 = y /\ y <= tail BY <1>2, <2>1
  <2>3. text[y] = f[y] BY <1>8, <2>2
  <2> HIDE DEF x, y
  <2>4. QED BY <1>3, <1>6, <2>2, <2>3
<1> HIDE DEF S
<1>9. \A i \in Nat : i \in S BY <1>7, <1>8, Induct
<1> DEFINE i == tail - (begin - 1)
<1>10. i \in Nat /\ begin - 1 + i = tail BY <1>2
<1> HIDE DEF i
<1>11. begin - 1 + i <= tail BY <1>2, <1>10
<1>12. text[tail] = f[tail] BY <1>9, <1>10, <1>11 DEF S
<1>13. QED BY <1>1, <1>12

LEMMA ExecutionIsText ==
  ASSUME NEW n \in Nat, NEW is \in Instructions(n), Len(is) = n, NEW p \in Programs(n),
         Settled(n, is, p), ~Lazy!Invalid(is),
         NEW begin \in Token, NEW end \in begin .. NTokens - 1
  PROVE  Execution(p, begin, end) = Lazy!Text(is, begin, end)
<1> DEFINE m == end - begin + 1
           tail == LastOf(end)
           T == Seq(Out)
<1>1. /\ NTokens \in Nat /\ begin \in Nat /\ end \in Nat /\ begin <= end /\ end < NTokens
      /\ m \in Nat /\ m \in 0 .. m /\ begin + m = end + 1 /\ begin + m <= NTokens
      /\ tail \in Nat /\ end <= tail /\ tail <= end + 1 /\ tail <= NTokens
      /\ tail = end => end # NTokens - 1
      /\ tail # end => end = NTokens - 1 /\ tail = NTokens /\ tail = end + 1
  <2>1. NTokens \in Nat /\ begin \in Nat /\ end \in Nat /\ begin <= end /\ end < NTokens
    BY TokenRewriteAssumption DEF Token
  <2>2. m \in Nat /\ m \in 0 .. m /\ begin + m = end + 1 /\ begin + m <= NTokens BY <2>1
  <2>3. CASE end = NTokens - 1
    <3>1. tail = NTokens BY <2>3 DEF LastOf
    <3> HIDE DEF tail, m
    <3>2. QED BY <2>1, <2>2, <2>3, <3>1
  <2>4. CASE end # NTokens - 1
    <3>1. tail = end BY <2>4 DEF LastOf
    <3> HIDE DEF tail, m
    <3>2. QED BY <2>1, <2>2, <2>4, <3>1
  <2>5. QED BY <2>3, <2>4
<1>2. PICK g : Loops(p, begin, m, g) /\ Execution(p, begin, end) = g[m].buf \o Behind(p, end)
  BY LoopsOver
<1>3. AllApart(n, p) /\ Thinned(is, p) /\ Sound(n, is, p, n) BY DEF Settled
<1>4. \A x \in 0 .. NTokens : Lazy!At(is, x) = Puts(p, x) /\ Puts(p, x) \in T BY AtPuts
<1>5. \A x \in Nat : Lazy!Gone(is, x, begin) <=> Skips(n, p, begin, x - 1, x)
  BY <1>1, <1>3, GoneIs
<1> HIDE DEF m, tail
<1>6. \A i \in 0 .. m : g[i] \in LoopStates /\ g[i].buf \in T
  BY <1>2 DEF Loops, LoopStates
<1>7. Turned(n, p, begin, m, g)
  BY <1>1, <1>2, <1>3, LoopHandles
\* Behind the last token only inserts can be.
<1>8. /\ Behind(p, end) \in T
      /\ tail = end => Behind(p, end) = <<>>
      /\ tail # end => Behind(p, end) = Adding(is, begin, NTokens)
  <2>1. CASE tail = end
    <3>1. end # NTokens - 1 BY <1>1, <2>1
    <3>2. Behind(p, end) = <<>> BY <3>1 DEF Behind
    <3>3. <<>> \in T OBVIOUS
    <3>4. QED BY <2>1, <3>2, <3>3
  <2>2. CASE tail # end
    <3> DEFINE op == OpAt(p, NTokens)
    <3>1. end = NTokens - 1 /\ NTokens \in 0 .. NTokens /\ NTokens \notin Token
      BY <1>1, <2>2 DEF Token
    <3>2. ~Lazy!Gone(is, NTokens, begin)
      <4>1. \A k \in 1 .. n : IsKind(p[k], "replace") => p[k] \in Good /\ p[k].kind = "replace"
        BY DEF IsKind, Programs
      <4>2. \A k \in 1 .. n : IsKind(p[k], "replace") => p[k].last \in Nat /\ p[k].last < NTokens
        BY <4>1, GoodIs
      <4>3. ~Skips(n, p, begin, NTokens - 1, NTokens) BY <1>1, <4>2 DEF Skips
      <4>4. QED BY <1>1, <1>5, <4>3
    <3>3. Adding(is, begin, NTokens) = Puts(p, NTokens) /\ Puts(p, NTokens) \in T
      BY <1>4, <3>1, <3>2 DEF Adding
    <3>4. PieceAt(NTokens) = <<>> BY <3>1 DEF PieceAt
    <3>5. Behind(p, end) = Puts(p, NTokens)
      <4>1. CASE op = None BY <3>4, <4>1 DEF Behind, Puts
      <4>2. CASE op # None
        <5>1. PICK k \in 1 .. n : p[k] \in Good /\ p[k].first = NTokens /\ op = p[k]
          BY <4>2, OpAtIs
        <5>2. /\ p[k].text \in Seq(Bit) /\ p[k].kind \in {"insert", "replace"}
              /\ p[k].last \in Nat /\ p[k].first <= p[k].last
              /\ p[k].kind = "replace" => p[k].last < NTokens
          BY <5>1, GoodIs
        <5>3. p[k].kind = "insert"
          <6>1. NTokens <= p[k].last BY <5>1, <5>2
          <6>2. ~(p[k].last < NTokens) BY <1>1, <5>2, <6>1
          <6>3. QED BY <5>2, <6>2
        <5>4. Behind(p, end) = op.text BY <3>1, <4>2 DEF Behind
        <5>5. Puts(p, NTokens) = op.text \o <<>> BY <3>4, <4>2, <5>1, <5>3 DEF Puts
        <5> DEFINE t == p[k].text
        <5>6. t \in Seq(Bit) /\ op.text = t BY <5>1, <5>2
        <5> HIDE DEF t, op
        <5>7. t \o <<>> = t BY <5>6
        <5>8. QED BY <5>4, <5>5, <5>6, <5>7 DEF op
      <4>3. QED BY <4>1, <4>2
    <3>6. QED BY <2>2, <3>3, <3>5
  <2>3. QED BY <2>1, <2>2
<1> DEFINE f == [x \in begin - 1 .. tail |->
                   IF x <= end THEN g[x - (begin - 1)].buf ELSE g[m].buf \o Behind(p, end)]
<1>9. \A x \in begin - 1 .. end : x - (begin - 1) \in 0 .. m BY <1>1 DEF m
<1>10. g[m].buf \o Behind(p, end) \in T BY <1>1, <1>6, <1>8, OutSpliced
<1>11. f \in [begin - 1 .. tail -> T] BY <1>1, <1>6, <1>9, <1>10
<1>12. f[begin - 1] = <<>>
  <2>1. begin - 1 \in begin - 1 .. tail /\ begin - 1 <= end /\ (begin - 1) - (begin - 1) = 0
    BY <1>1
  <2>2. g[0].buf = <<>> BY <1>2 DEF Loops
  <2>3. QED BY <2>1, <2>2
<1>13. ASSUME NEW x \in begin .. tail PROVE f[x] = f[x - 1] \o Adding(is, begin, x)
  <2>1. x \in begin - 1 .. tail /\ x - 1 \in begin - 1 .. tail /\ x - 1 <= end /\ x \in Nat
    BY <1>1
  <2>2. CASE x <= end
    <3> DEFINE i == x - (begin - 1)
    <3>1. /\ i \in 1 .. m /\ i - 1 = (x - 1) - (begin - 1) /\ begin + i - 1 = x
          /\ begin + i - 2 = x - 1 /\ x \in 0 .. NTokens
      BY <1>1, <2>2 DEF m
    <3>2. f[x] = g[i].buf /\ f[x - 1] = g[i - 1].buf BY <2>1, <2>2, <3>1
    <3> HIDE DEF i, f
    <3>3. g[i].buf = g[i - 1].buf \o IF Skips(n, p, begin, x - 1, x) THEN <<>> ELSE Puts(p, x)
      BY <1>7, <3>1 DEF Turned
    <3>4. Adding(is, begin, x) = IF Skips(n, p, begin, x - 1, x) THEN <<>> ELSE Puts(p, x)
      BY <1>4, <1>5, <2>1, <3>1 DEF Adding
    <3>5. QED BY <3>2, <3>3, <3>4
  <2>3. CASE ~(x <= end)
    <3>1. tail # end /\ x = NTokens /\ x = end + 1 BY <1>1, <2>3
    <3>2. f[x] = g[m].buf \o Behind(p, end) BY <2>1, <2>3
    <3>3. (x - 1) - (begin - 1) = m BY <1>1, <3>1 DEF m
    <3>4. f[x - 1] = g[m].buf BY <2>1, <3>3
    <3> HIDE DEF f
    <3>5. QED BY <1>8, <3>1, <3>2, <3>4
  <2>4. QED BY <2>2, <2>3
<1>14. f[tail] = g[m].buf \o Behind(p, end)
  <2>1. tail \in begin - 1 .. tail BY <1>1
  <2>2. CASE tail = end
    <3>1. tail - (begin - 1) = m BY <1>1, <2>2 DEF m
    <3>2. f[tail] = g[m].buf BY <2>1, <2>2, <3>1
    <3> HIDE DEF f
    <3>3. g[m].buf \in Seq(Out) BY <1>1, <1>6
    <3> DEFINE s == g[m].buf
    <3>4. s \in Seq(Out) BY <3>3
    <3> HIDE DEF s
    <3>5. s \o <<>> = s BY <3>4
    <3>6. QED BY <1>8, <2>2, <3>2, <3>5 DEF s
  <2>3. CASE tail # end
    <3>1. ~(tail <= end) BY <1>1, <2>3
    <3>2. QED BY <2>1, <3>1
  <2>4. QED BY <2>2, <2>3
<1> HIDE DEF f, T
<1>15. tail = LastOf(end) BY DEF tail
<1>16. AddsUp(is, begin, tail, f) BY <1>11, <1>12, <1>13 DEF AddsUp, T
<1>17. Lazy!Text(is, begin, end) = f[tail] BY <1>1, <1>15, <1>16, TextIs
<1>18. QED BY <1>2, <1>14, <1>17

----------------------------------------------------------------------------
(* Each step is one of the promise                                          *)

\* The program follows the instructions; before a rendering it is they.
Keeps ==
  ~open => /\ Follows(Len(asked), asked, program)
           /\ ~rendered => program = asked

LEMMA SeqIsInstructions ==
  \A is \in Seq(Good) : Len(is) \in Nat /\ is \in Instructions(Len(is))
BY DEF Instructions

LEMMA TypedSplits ==
  ASSUME Typed, ~open
  PROVE  \E n \in Nat : /\ Len(asked) = n /\ asked \in Instructions(n) /\ asked \in Seq(Good)
                        /\ Len(program) = n /\ program \in Programs(n) /\ program \in Seq(Slots)
<1>1. asked \in Seq(Good) /\ program \in Seq(Slots) /\ Len(asked) = Len(program) BY DEF Typed
<1>2. QED BY <1>1, SeqIsInstructions, SeqIsProgram

LEMMA InitKeeps == Init => Keeps /\ Lazy!Init
<1> SUFFICES ASSUME Init PROVE Keeps /\ Lazy!Init
  OBVIOUS
<1>1. asked = <<>> /\ program = <<>> /\ <<>> \in Seq(Good) BY DEF Init
<1>2. Len(asked) \in Nat /\ asked \in Instructions(Len(asked)) BY <1>1, SeqIsInstructions
<1>3. Follows(Len(asked), asked, asked) BY <1>2, FollowsItself
<1>4. Keeps BY <1>1, <1>3 DEF Keeps
<1>5. Lazy!Init BY DEF Init, Lazy!Init
<1>6. QED BY <1>4, <1>5

LEMMA AddKeeps ==
  ASSUME Typed, Keeps, NEW op \in Good, Add(op), ~open
  PROVE  Keeps' /\ Lazy!Ask
<1>1. PICK n \in Nat : /\ Len(asked) = n /\ asked \in Instructions(n) /\ asked \in Seq(Good)
                       /\ Len(program) = n /\ program \in Programs(n) /\ program \in Seq(Slots)
  BY TypedSplits
<1>2. /\ program' = Append(program, op) /\ asked' = Append(asked, op) /\ output' = <<>>
      /\ open' = open /\ rendered' = rendered
  BY DEF Add
<1> DEFINE G == Good
           P == Slots
           js == Append(asked, op)
           r == Append(program, op)
<1>3. op \in G /\ op \in P /\ asked \in Seq(G) /\ program \in Seq(P) BY <1>1 DEF Slots
<1> HIDE DEF G, P
<1>4. /\ js \in Seq(G) /\ r \in Seq(P) /\ Len(js) = n + 1 /\ Len(r) = n + 1
      /\ js[n + 1] = op /\ r[n + 1] = op
      /\ \A k \in 1 .. n : js[k] = asked[k] /\ r[k] = program[k]
  BY <1>1, <1>3
<1>5. Lazy!IsPrefix(asked, js)
  <2>1. SubSeq(asked, 1, n) = SubSeq(js, 1, n) BY <1>1, <1>3
  <2>2. QED BY <1>1, <1>4, <2>1 DEF Lazy!IsPrefix
<1> HIDE DEF js, r
<1>6. js \in Instructions(n + 1) BY <1>4, SeqIsInstructions DEF G
<1>7. r \in Programs(n + 1) BY <1>4, SeqIsProgram DEF P
<1>8. Extends(n, asked, js) /\ Extends(n, program, r) BY <1>4 DEF Extends
<1>9. Follows(n, asked, program) BY <1>1 DEF Keeps
<1>10. Follows(n + 1, js, r) BY <1>1, <1>4, <1>6, <1>7, <1>8, <1>9, FollowsMore
<1>11. ~rendered' => program' = asked' BY <1>2 DEF Keeps
<1>12. Keeps' BY <1>2, <1>4, <1>10, <1>11 DEF Keeps, js, r
<1>13. Lazy!Ask
  <2>1. asked' = js BY <1>2 DEF js
  <2>2. Len(asked') = Len(asked) + 1 BY <1>1, <1>4, <2>1
  <2>3. Lazy!IsPrefix(asked, asked') BY <1>5, <2>1
  <2>4. QED BY <1>2, <2>2, <2>3 DEF Lazy!Ask
<1>14. QED BY <1>12, <1>13

LEMMA RollbackKeeps ==
  ASSUME Typed, Keeps, Rollback, ~open
  PROVE  Keeps' /\ Lazy!Rollback
<1>1. PICK n \in Nat : /\ Len(asked) = n /\ asked \in Instructions(n) /\ asked \in Seq(Good)
                       /\ Len(program) = n /\ program \in Programs(n) /\ program \in Seq(Slots)
  BY TypedSplits
<1>2. PICK m \in 0 .. n - 1 :
        /\ program' = SubSeq(program, 1, m) /\ open' = (open \/ rendered)
        /\ asked' = IF open' THEN <<>> ELSE SubSeq(asked, 1, m)
        /\ output' = <<>> /\ UNCHANGED <<given, rendered>>
  BY <1>1 DEF Rollback
<1>3. CASE rendered BY <1>2, <1>3 DEF Keeps, Lazy!Rollback
<1>4. CASE ~rendered
  <2>1. program' = SubSeq(asked, 1, m) /\ asked' = SubSeq(asked, 1, m) /\ open' = open
    BY <1>2, <1>4 DEF Keeps, Typed
  <2> DEFINE G == Good
  <2>2. asked \in Seq(G) BY <1>1
  <2> HIDE DEF G
  <2>3. asked' \in Seq(G) /\ Len(asked') = m /\ m \in Nat /\ m < n BY <1>1, <2>1, <2>2
  <2>4. Lazy!IsPrefix(asked', asked)
    <3>1. SubSeq(asked', 1, m) = SubSeq(asked, 1, m) BY <1>1, <2>1, <2>2, <2>3
    <3>2. QED BY <1>1, <2>3, <3>1 DEF Lazy!IsPrefix
  <2>5. asked' # asked BY <1>1, <2>3
  <2>6. asked' \in Instructions(Len(asked')) /\ Len(asked') \in Nat
    BY <2>3, SeqIsInstructions DEF G
  <2>7. Follows(Len(asked'), asked', asked') BY <2>6, FollowsItself
  <2>8. Keeps' BY <2>1, <2>7 DEF Keeps
  <2>9. Lazy!Rollback BY <1>2, <1>4, <2>1, <2>4, <2>5 DEF Lazy!Rollback
  <2>10. QED BY <2>8, <2>9
<1>5. QED BY <1>3, <1>4

LEMMA RenderKeeps ==
  ASSUME Typed, Keeps, Render, ~open
  PROVE  Keeps' /\ Lazy!Render
<1>1. PICK n \in Nat : /\ Len(asked) = n /\ asked \in Instructions(n) /\ asked \in Seq(Good)
                       /\ Len(program) = n /\ program \in Programs(n) /\ program \in Seq(Slots)
  BY TypedSplits
<1> DEFINE r == Reduce(program)
<1>2. PICK begin \in Token : \E end \in begin .. NTokens - 1 :
        /\ program' = r.p
        /\ output' = IF r.error THEN Error ELSE Execution(r.p, begin, end)
        /\ rendered' = (rendered \/ program # <<>>) /\ UNCHANGED <<given, asked, open>>
  BY DEF Render
<1>3. PICK end \in begin .. NTokens - 1 :
        /\ program' = r.p
        /\ output' = IF r.error THEN Error ELSE Execution(r.p, begin, end)
        /\ rendered' = (rendered \/ program # <<>>) /\ UNCHANGED <<given, asked, open>>
  BY <1>2
<1>4. Follows(n, asked, program) BY <1>1 DEF Keeps
<1>5. /\ r.p \in Programs(n) /\ r.error \in BOOLEAN
      /\ Follows(n, asked, r.p)
      /\ r.error <=> Lazy!Invalid(asked)
      /\ ~r.error => Settled(n, asked, r.p)
  BY <1>1, <1>4, Reduces DEF Settled
<1> HIDE DEF r
<1>6. output' = Lazy!Text(asked, begin, end)
  <2>1. CASE r.error BY <1>3, <1>5, <2>1 DEF Lazy!Text
  <2>2. CASE ~r.error
    <3>1. Execution(r.p, begin, end) = Lazy!Text(asked, begin, end)
      BY <1>1, <1>5, <2>2, ExecutionIsText
    <3>2. QED BY <1>3, <2>2, <3>1
  <2>3. QED BY <2>1, <2>2
<1>7. program # <<>> <=> asked # <<>>
  <2>1. program = <<>> <=> n = 0
    <3> DEFINE P == Slots
    <3>1. program \in Seq(P) /\ Len(program) = n BY <1>1
    <3> HIDE DEF P
    <3>2. QED BY <3>1
  <2>2. asked = <<>> <=> n = 0
    <3> DEFINE G == Good
    <3>1. asked \in Seq(G) /\ Len(asked) = n BY <1>1
    <3> HIDE DEF G
    <3>2. QED BY <3>1
  <2>3. QED BY <2>1, <2>2
<1>8. rendered' = (rendered \/ asked # <<>>) BY <1>3, <1>7
<1>9. begin \in Lazy!Token /\ end \in begin .. NTokens - 1 BY DEF Token, Lazy!Token
<1>10. Lazy!Render BY <1>3, <1>6, <1>8, <1>9 DEF Lazy!Render
<1>11. ~rendered' => program' = asked'
  <2>1. SUFFICES ASSUME ~rendered' PROVE program' = asked'
    OBVIOUS
  <2>2. asked = <<>> /\ asked' = asked /\ n = 0 BY <1>1, <1>3, <1>8, <2>1
  <2>3. r.p \in Seq(Slots) /\ Len(r.p) = 0 BY <1>5, <2>2, SeqIsProgram
  <2> DEFINE P == Slots
  <2>4. r.p \in Seq(P) /\ Len(r.p) = 0 BY <2>3
  <2> HIDE DEF P
  <2>5. r.p = <<>> BY <2>4
  <2>6. QED BY <1>3, <2>2, <2>5
<1>12. Keeps' BY <1>1, <1>3, <1>5, <1>11 DEF Keeps
<1>13. QED BY <1>10, <1>12

LEMMA StepKeeps ==
  Typed /\ Keeps /\ [Next]_vars =>
    Keeps' /\ [open \/ Lazy!Ask \/ Lazy!Rollback \/ Lazy!Render]_(Lazy!abstract)
<1> SUFFICES ASSUME Typed, Keeps, [Next]_vars
             PROVE  Keeps' /\ [open \/ Lazy!Ask \/ Lazy!Rollback \/ Lazy!Render]_(Lazy!abstract)
  OBVIOUS
<1>1. CASE UNCHANGED vars BY <1>1 DEF vars, Keeps, Lazy!abstract
<1>2. CASE open /\ Next
  <2>1. open' BY <1>2 DEF Next, InsertBefore, Replace, Add, Rollback, Render
  <2>2. QED BY <1>2, <2>1 DEF Keeps
<1>3. CASE ~open /\ Next
  <2>1. CASE InsertBefore \/ Replace
    <3>1. PICK op \in Good : Add(op) BY <2>1, AddsGood
    <3>2. QED BY <1>3, <3>1, AddKeeps
  <2>2. CASE Rollback BY <1>3, <2>2, RollbackKeeps
  <2>3. CASE Render BY <1>3, <2>3, RenderKeeps
  <2>4. QED BY <1>3, <2>1, <2>2, <2>3 DEF Next
<1>4. QED BY <1>1, <1>2, <1>3

\* Whatever renderings have reduced the program, with an error or without, in
\* between: what toString returns is what the instructions say.
THEOREM RendersAsAsked == Spec => RendersLazily
<1>1. Spec => [](Typed /\ Keeps)
  <2>1. Init => Typed /\ Keeps BY InitTyped, InitKeeps
  <2>2. Typed /\ Keeps /\ [Next]_vars => (Typed /\ Keeps)' BY StepTyped, StepKeeps
  <2>3. QED BY <2>1, <2>2, PTL DEF Spec
<1>2. Init => Lazy!Init BY InitKeeps
<1>3. Typed /\ Keeps /\ [Next]_vars =>
        [open \/ Lazy!Ask \/ Lazy!Rollback \/ Lazy!Render]_(Lazy!abstract)
  BY StepKeeps
<1>4. QED BY <1>1, <1>2, <1>3, PTL DEF Spec, RendersLazily, Lazy!Spec

----------------------------------------------------------------------------
(* The lexer, for inputs of any length, marks nested to any depth and any   *)
(* number of resets                                                         *)

Before == resets * MaxLength

\* A place in the first n characters; at most b lines and columns were counted
\* before the last reset.
Fits(s, n, b) == s.p <= n /\ s.line <= b + s.p + 1 /\ s.col <= b + s.p

Places ==
  /\ Fits(input, Len(data), Before)
  /\ \A i \in 1 .. markDepth : Fits(markers[i], Len(data), Before)

\* The open marks lie between the beginning of the token and the stream, each
\* behind the one it is nested in: no rewind is a seek ahead.
Nested ==
  pc = "rule" =>
    /\ start.p <= input.p
    /\ \A i \in 1 .. markDepth : start.p <= markers[i].p /\ markers[i].p <= input.p
    /\ \A i, j \in 1 .. markDepth : i <= j => markers[i].p <= markers[j].p

\* The tokens ts and what was spent are the first n characters, each once.
Tiling(ts, sp, n) ==
  /\ \A i, j \in DOMAIN ts : i < j => ts[i].to < ts[j].from
  /\ \A i \in DOMAIN ts :
       ts[i].from <= ts[i].to /\ \A x \in ts[i].from .. ts[i].to : x \notin sp
  /\ \A x : (x \in sp \/ \E i \in DOMAIN ts : x \in ts[i].from .. ts[i].to) <=> x \in 0 .. n - 1

Tiled == Tiling(tokens, spent, IF pc = "rule" THEN start.p ELSE input.p)

\* Line and column of s are those of its index in d.
Breaks(d, p) == {i \in 1 .. p : d[i] = Newline}
HasMax(S)    == \E m \in S : \A x \in S : m >= x

Right(d, s) ==
  /\ HasMax(Breaks(d, s.p) \cup {0})
  /\ s = [p |-> s.p, line |-> 1 + Cardinality(Breaks(d, s.p)),
          col |-> s.p - Max(Breaks(d, s.p) \cup {0})]

BeginningOf(t) == [p |-> t.from, line |-> t.line, col |-> t.col]

Located ==
  resets = 0 => /\ Right(data, input)
                /\ pc = "rule" => Right(data, start)
                /\ \A i \in 1 .. markDepth : Right(data, markers[i])
                /\ \A i \in DOMAIN tokens : Right(data, BeginningOf(tokens[i]))

LexInv == LexTypeOK /\ Places /\ Nested /\ Tiled /\ Located

----------------------------------------------------------------------------
(* Lines and columns *)

LEMMA Finite ==
  ASSUME NEW d, NEW p \in Nat
  PROVE  IsFiniteSet(Breaks(d, p)) /\ Cardinality(Breaks(d, p)) \in Nat
<1>1. 1 \in Int /\ p \in Int OBVIOUS
<1>2. IsFiniteSet(1 .. p) BY <1>1, FS_Interval
<1>3. Breaks(d, p) \subseteq 1 .. p BY DEF Breaks
<1>4. IsFiniteSet(Breaks(d, p)) BY <1>2, <1>3, FS_Subset
<1>5. QED BY <1>4, FS_CardinalityType

LEMMA GreatestIs ==
  ASSUME NEW S, S \subseteq Int, NEW m \in S, \A x \in S : m >= x
  PROVE  Max(S) = m
<1>1. \A x \in S : (\A y \in S : x >= y) => x = m OBVIOUS
<1>2. (CHOOSE x \in S : \A y \in S : x >= y) = m BY <1>1
<1>3. QED BY <1>2 DEF Max

LEMMA RightAtBeginning == ASSUME NEW d PROVE Right(d, Beginning)
<1>1. Breaks(d, 0) = {} BY DEF Breaks
<1>2. Cardinality({}) = 0 BY FS_EmptySet
<1>3. HasMax({} \cup {0}) BY DEF HasMax
<1>4. Max({} \cup {0}) = 0
  <2>1. {} \cup {0} \subseteq Int /\ 0 \in {} \cup {0} /\ \A x \in {} \cup {0} : 0 >= x OBVIOUS
  <2>2. QED BY <2>1, GreatestIs
<1>5. QED BY <1>1, <1>2, <1>3, <1>4 DEF Right, Beginning

\* Where the stream is right, it is right behind the next character.
LEMMA RightAfter ==
  ASSUME NEW d \in Seq(Char), NEW s, s.p \in Nat, s.p < Len(d), Right(d, s)
  PROVE  Right(d, IF d[s.p + 1] = Newline
                    THEN [p |-> s.p + 1, line |-> s.line + 1, col |-> 0]
                    ELSE [p |-> s.p + 1, line |-> s.line, col |-> s.col + 1])
<1> DEFINE p == s.p
           q == s.p + 1
           B == Breaks(d, p)
           C == Breaks(d, q)
           c == Cardinality(B)
           m == Max(B \cup {0})
<1>1. /\ p \in Nat /\ q \in Nat /\ q = p + 1
      /\ B \subseteq 1 .. p /\ C \subseteq 1 .. q
  BY DEF Breaks
<1>2. /\ HasMax(B \cup {0})
      /\ s = [p |-> p, line |-> 1 + c, col |-> p - m]
  BY DEF Right
<1>3. IsFiniteSet(B) /\ c \in Nat BY <1>1, Finite
<1>4. m \in B \cup {0} /\ \A x \in B \cup {0} : m >= x
  <2>1. PICK k \in B \cup {0} : \A x \in B \cup {0} : k >= x BY <1>2 DEF HasMax
  <2>2. B \cup {0} \subseteq Int BY <1>1
  <2>3. m = k BY <2>1, <2>2, GreatestIs
  <2>4. QED BY <2>1, <2>3
<1>5. m \in Int BY <1>1, <1>4
<1>6. CASE d[q] = Newline
  <2>1. C = B \cup {q} BY <1>1, <1>6 DEF Breaks
  <2>2. q \notin B BY <1>1
  <2>3. Cardinality(C) = c + 1 BY <1>3, <2>1, <2>2, FS_AddElement
  <2>4. /\ C \cup {0} \subseteq Int /\ q \in C \cup {0} /\ \A x \in C \cup {0} : q >= x
    BY <1>1, <2>1
  <2>5. Max(C \cup {0}) = q /\ HasMax(C \cup {0}) BY <2>4, GreatestIs DEF HasMax
  <2> DEFINE t == [p |-> q, line |-> s.line + 1, col |-> 0]
  <2>6. t = [p |-> q, line |-> 1 + (c + 1), col |-> q - q] BY <1>1, <1>2, <1>3
  <2>7. Right(d, t) BY <2>3, <2>5, <2>6 DEF Right
  <2>8. QED BY <1>6, <2>7
<1>7. CASE d[q] # Newline
  <2>1. C = B BY <1>1, <1>7 DEF Breaks
  <2> DEFINE t == [p |-> s.p + 1, line |-> s.line, col |-> s.col + 1]
  <2>2. t = [p |-> q, line |-> 1 + c, col |-> (p - m) + 1] BY <1>2
  <2>3. (p - m) + 1 = q - m BY <1>1, <1>5
  <2>4. t = [p |-> q, line |-> 1 + Cardinality(C), col |-> q - Max(C \cup {0})]
    BY <2>1, <2>2, <2>3
  <2>5. HasMax(C \cup {0}) BY <1>2, <2>1
  <2>6. Right(d, t) BY <2>4, <2>5 DEF Right
  <2>7. QED BY <1>7, <2>6
<1>8. QED BY <1>6, <1>7

----------------------------------------------------------------------------
(* Tokens and what is spent *)

LEMMA TokenAdded ==
  ASSUME NEW S, NEW ts \in Seq(S), NEW sp, NEW n \in Nat, NEW m \in Nat, n < m,
         \A i \in DOMAIN ts : ts[i].from \in Int /\ ts[i].to \in Int,
         Tiling(ts, sp, n),
         NEW t \in S, t.from = n, t.to = m - 1
  PROVE  Tiling(Append(ts, t), sp, m)
<1> DEFINE u == Append(ts, t)
           k == Len(ts)
<1>1. /\ u \in Seq(S) /\ Len(u) = k + 1 /\ u[k + 1] = t
      /\ \A i \in 1 .. k : u[i] = ts[i]
  BY AppendProperties
<1>2. k \in Nat /\ DOMAIN ts = 1 .. k /\ DOMAIN u = 1 .. k + 1 BY <1>1, LenProperties
<1> HIDE DEF u, k
<1>3. /\ \A i, j \in 1 .. k : i < j => ts[i].to < ts[j].from
      /\ \A i \in 1 .. k :
           ts[i].from <= ts[i].to /\ \A x \in ts[i].from .. ts[i].to : x \notin sp
      /\ \A x : (x \in sp \/ \E i \in 1 .. k : x \in ts[i].from .. ts[i].to) <=> x \in 0 .. n - 1
  BY <1>2 DEF Tiling
<1>4. ASSUME NEW i \in 1 .. k PROVE ts[i].to < n
  <2>1. ts[i].to \in ts[i].from .. ts[i].to BY <1>2, <1>3
  <2>2. ts[i].to \in 0 .. n - 1 BY <1>3, <2>1
  <2>3. QED BY <2>2
<1>5. \A i \in 1 .. k + 1 : i \in 1 .. k \/ i = k + 1 BY <1>2
<1>6. ASSUME NEW i \in 1 .. k + 1, NEW j \in 1 .. k + 1, i < j PROVE u[i].to < u[j].from
  <2>1. i \in 1 .. k BY <1>2, <1>6
  <2>2. CASE j \in 1 .. k BY <1>1, <1>3, <1>6, <2>1, <2>2
  <2>3. CASE j = k + 1 BY <1>1, <1>4, <2>1, <2>3
  <2>4. QED BY <1>5, <2>2, <2>3
<1>7. \A x \in n .. m - 1 : x \notin sp
  <2>1. \A x \in sp : x \in 0 .. n - 1 BY <1>3
  <2>2. \A x \in n .. m - 1 : x \notin 0 .. n - 1 OBVIOUS
  <2>3. QED BY <2>1, <2>2
<1>8. ASSUME NEW i \in 1 .. k + 1
      PROVE  u[i].from <= u[i].to /\ \A x \in u[i].from .. u[i].to : x \notin sp
  <2>1. CASE i \in 1 .. k BY <1>1, <1>3, <2>1
  <2>2. CASE i = k + 1
    <3>1. u[i] = t /\ n <= m - 1 BY <1>1, <2>2
    <3>2. QED BY <1>7, <3>1
  <2>3. QED BY <1>5, <2>1, <2>2
<1>9. ASSUME NEW x
      PROVE  (x \in sp \/ \E i \in 1 .. k + 1 : x \in u[i].from .. u[i].to) <=> x \in 0 .. m - 1
  <2>1. x \in 0 .. m - 1 <=> x \in 0 .. n - 1 \/ x \in n .. m - 1 OBVIOUS
  <2>2. (\E i \in 1 .. k + 1 : x \in u[i].from .. u[i].to) <=>
          (\E i \in 1 .. k : x \in ts[i].from .. ts[i].to) \/ x \in n .. m - 1
    <3>1. \A i \in 1 .. k : i \in 1 .. k + 1 /\ u[i] = ts[i] BY <1>1, <1>2
    <3>2. k + 1 \in 1 .. k + 1 /\ u[k + 1].from = n /\ u[k + 1].to = m - 1 BY <1>1, <1>2
    <3>3. QED BY <1>5, <3>1, <3>2
  <2>3. QED BY <1>3, <2>1, <2>2
<1>10. QED BY <1>2, <1>6, <1>8, <1>9 DEF Tiling, u

LEMMA SpentAdded ==
  ASSUME NEW ts, NEW sp, NEW n \in Nat, NEW m \in Nat, n <= m, Tiling(ts, sp, n),
         \A i \in DOMAIN ts : ts[i].from \in Int /\ ts[i].to \in Int
  PROVE  Tiling(ts, sp \cup (n .. m - 1), m)
<1>1. \A x : x \in 0 .. m - 1 <=> x \in 0 .. n - 1 \/ x \in n .. m - 1 OBVIOUS
<1>2. \A x : ~(x \in 0 .. n - 1 /\ x \in n .. m - 1) OBVIOUS
<1>3. QED BY <1>1, <1>2 DEF Tiling

----------------------------------------------------------------------------
(* The stream *)

LEMMA Bounds ==
  ASSUME LexTypeOK
  PROVE  /\ Before \in Nat /\ MaxLength \in Nat /\ MaxDepth \in Nat /\ MaxResets \in Nat
         /\ resets \in Nat /\ (resets = 0 => Before = 0)
         /\ (resets + 1) * MaxLength = Before + MaxLength
         /\ Before + MaxLength <= (MaxResets + 1) * MaxLength
<1>1. /\ MaxLength \in Nat /\ MaxDepth \in Nat /\ MaxResets \in Nat
      /\ resets \in Nat /\ resets <= MaxResets
  BY LexerAssumption DEF LexTypeOK
<1>2. \A m, r, k \in Nat : r <= k => /\ r * m \in Nat /\ (r + 1) * m = r * m + m
                                     /\ r * m <= k * m
                                     /\ 0 * m = 0
  <2> TAKE m, r, k \in Nat
  <2>1. r * m \in Nat /\ (r + 1) * m = r * m + m /\ 0 * m = 0 BY Z3T(30)
  <2>2. r <= k => r * m <= k * m BY Z3T(30)
  <2>3. QED BY <2>1, <2>2
<1>3. resets * MaxLength <= MaxResets * MaxLength BY <1>1, <1>2
<1>4. (MaxResets + 1) * MaxLength = MaxResets * MaxLength + MaxLength BY <1>1, <1>2
<1>5. /\ resets * MaxLength \in Nat /\ MaxResets * MaxLength \in Nat
      /\ (resets + 1) * MaxLength = resets * MaxLength + MaxLength
      /\ 0 * MaxLength = 0
  BY <1>1, <1>2
<1>6. QED BY <1>1, <1>3, <1>4, <1>5 DEF Before

LEMMA PlaceFields ==
  ASSUME LexTypeOK, NEW s \in Place
  PROVE  /\ s.p \in Nat /\ s.p <= MaxLength /\ s.line \in Int /\ s.col \in Int
         /\ s = [p |-> s.p, line |-> s.line, col |-> s.col]
BY Bounds DEF Place

LEMMA FitsIsPlace ==
  ASSUME LexTypeOK, NEW p \in Nat, NEW line \in Nat, line >= 1, NEW col \in Nat,
         Fits([p |-> p, line |-> line, col |-> col], Len(data), Before)
  PROVE  [p |-> p, line |-> line, col |-> col] \in Place
<1>1. /\ p <= Len(data) /\ line <= Before + p + 1 /\ col <= Before + p BY DEF Fits
<1>2. Len(data) \in Nat /\ Len(data) <= MaxLength BY LenProperties DEF LexTypeOK
<1>3. p <= MaxLength /\ line <= (MaxResets + 1) * MaxLength + 1
      /\ col <= (MaxResets + 1) * MaxLength
  <2> DEFINE a == (MaxResets + 1) * MaxLength
             b == Before
  <2>1. b \in Nat /\ MaxLength \in Nat /\ b + MaxLength <= a /\ MaxResets \in Nat BY Bounds
  <2>2. a \in Int BY <2>1
  <2> HIDE DEF a, b
  <2>3. p <= MaxLength /\ line <= a + 1 /\ col <= a BY <1>1, <1>2, <2>1, <2>2 DEF b
  <2>4. QED BY <2>3 DEF a
<1>4. (MaxResets + 1) * MaxLength \in Int /\ MaxLength \in Int BY Bounds
<1>5. QED BY <1>3, <1>4 DEF Place

LEMMA Consumed ==
  ASSUME LexTypeOK, Places
  PROVE  /\ Consume(input) \in Place
         /\ Fits(Consume(input), Len(data), Before)
         /\ Consume(input).p \in Nat /\ input.p <= Consume(input).p
         /\ ~AtEnd(input) => Consume(input).p = input.p + 1
         /\ Right(data, input) => Right(data, Consume(input))
<1> DEFINE s == input
           b == Before
           nl == [p |-> s.p + 1, line |-> s.line + 1, col |-> 0]
           ch == [p |-> s.p + 1, line |-> s.line, col |-> s.col + 1]
<1>1. /\ data \in Seq(Char) /\ Len(data) \in Nat
      /\ s \in Place /\ Fits(s, Len(data), Before) /\ b \in Nat
  BY Bounds, LenProperties DEF LexTypeOK, Places
<1>2. /\ s.p \in Nat /\ s.line \in Nat /\ s.line >= 1 /\ s.col \in Nat
      /\ s.p <= Len(data) /\ s.line <= b + s.p + 1 /\ s.col <= b + s.p
  BY <1>1, Bounds DEF Place, Fits
<1>3. CASE AtEnd(s)
  <2>1. Consume(s) = s BY <1>3 DEF Consume
  <2>2. QED BY <1>1, <1>2, <1>3, <2>1
<1>4. CASE ~AtEnd(s)
  <2>1. s.p < Len(data) /\ s.p + 1 \in Nat /\ s.p + 1 <= Len(data) BY <1>1, <1>2, <1>4 DEF AtEnd
  <2>2. Consume(s) = IF data[s.p + 1] = Newline THEN nl ELSE ch BY <1>4 DEF Consume
  <2>3. Fits(nl, Len(data), Before) /\ Fits(ch, Len(data), Before)
    <3>1. /\ s.line + 1 <= b + (s.p + 1) + 1 /\ 0 <= b + (s.p + 1)
          /\ s.line <= b + (s.p + 1) + 1 /\ s.col + 1 <= b + (s.p + 1)
      BY <1>1, <1>2
    <3>2. QED BY <2>1, <3>1 DEF Fits
  <2>4. nl \in Place /\ ch \in Place
    <3>1. s.line + 1 \in Nat /\ s.line + 1 >= 1 /\ s.col + 1 \in Nat BY <1>2
    <3>2. QED BY <1>2, <2>1, <2>3, <3>1, FitsIsPlace
  <2>5. Right(data, s) => Right(data, IF data[s.p + 1] = Newline THEN nl ELSE ch)
    BY <1>1, <1>2, <2>1, RightAfter
  <2>6. nl.p = s.p + 1 /\ ch.p = s.p + 1 /\ s.p <= s.p + 1 BY <1>2
  <2> HIDE DEF nl, ch
  <2>7. Consume(s) = nl \/ Consume(s) = ch BY <2>2
  <2>8. /\ Consume(s) \in Place /\ Fits(Consume(s), Len(data), Before)
        /\ Consume(s).p = s.p + 1
    BY <2>3, <2>4, <2>6, <2>7
  <2>9. QED BY <2>1, <2>2, <2>5, <2>6, <2>8
<1>5. QED BY <1>3, <1>4

LEMMA Marked ==
  ASSUME LexTypeOK, Mark
  PROVE  /\ markers' \in Seq(Place) /\ Len(markers') <= MaxDepth
         /\ markDepth \in Nat /\ markDepth' = markDepth + 1
         /\ markDepth' \in 1 .. Len(markers')
         /\ markers'[markDepth + 1] = input
         /\ \A i \in 1 .. markDepth : markers'[i] = markers[i]
<1> DEFINE k == markDepth
           n == Len(markers)
<1>1. /\ markers \in Seq(Place) /\ n \in Nat /\ n <= MaxDepth /\ k \in Nat /\ k <= n
      /\ input \in Place
  BY LenProperties DEF LexTypeOK
<1>2. /\ k < MaxDepth /\ markDepth' = k + 1
      /\ markers' = IF k < n THEN [markers EXCEPT ![k + 1] = input] ELSE Append(markers, input)
  BY DEF Mark
<1>3. CASE k < n
  <2>1. k + 1 \in 1 .. n /\ \A i \in 1 .. k : i \in 1 .. n /\ i # k + 1 BY <1>1, <1>3
  <2>2. markers' = [markers EXCEPT ![k + 1] = input] BY <1>2, <1>3
  <2>3. markers' \in Seq(Place) /\ Len(markers') = n
        /\ \A i \in 1 .. n : markers'[i] = IF i = k + 1 THEN input ELSE markers[i]
    <3>1. DOMAIN markers = 1 .. n /\ \A i \in 1 .. n : markers[i] \in Place
      BY <1>1, LenProperties, ElementOfSeq
    <3>2. markers' \in [1 .. n -> Place] BY <1>1, <2>1, <2>2, <3>1
    <3>3. \A i \in 1 .. n : markers'[i] = IF i = k + 1 THEN input ELSE markers[i]
      BY <2>1, <2>2, <3>1
    <3>4. markers' \in Seq(Place) BY <1>1, <3>2, SeqDef
    <3>5. Len(markers') = n BY <1>1, <3>2, <3>4, LenProperties
    <3>6. QED BY <3>3, <3>4, <3>5
  <2>4. QED BY <1>1, <1>2, <2>1, <2>3
<1>4. CASE ~(k < n)
  <2>1. k = n BY <1>1, <1>4
  <2>2. markers' = Append(markers, input) BY <1>2, <1>4
  <2>3. /\ markers' \in Seq(Place) /\ Len(markers') = n + 1 /\ markers'[n + 1] = input
        /\ \A i \in 1 .. n : markers'[i] = markers[i]
    BY <1>1, <2>2, AppendProperties
  <2>4. MaxDepth \in Nat BY Bounds
  <2>5. QED BY <1>1, <1>2, <2>1, <2>3, <2>4
<1>5. QED BY <1>3, <1>4

\* A rewind takes the stream back to where it was marked.
LEMMA Rewound ==
  ASSUME LexTypeOK, Nested, Rewind
  PROVE  /\ markDepth \in 1 .. Len(markers) /\ markDepth' = markDepth - 1
         /\ markDepth \in Nat
         /\ input' = markers[markDepth] /\ input' \in Place
<1>1. /\ markDepth \in 1 .. Len(markers) /\ markDepth \in Nat /\ pc = "rule"
      /\ markers \in Seq(Place)
  BY LenProperties DEF Rewind, LexTypeOK
<1> DEFINE m == markers[markDepth]
<1>2. m \in Place BY <1>1, ElementOfSeq
<1>3. m.p <= input.p
  <2>1. markDepth \in 1 .. markDepth BY <1>1
  <2>2. QED BY <1>1, <2>1 DEF Nested
<1>4. Seek(input, m.p) = [input EXCEPT !.p = m.p] BY <1>3 DEF Seek
<1>5. input \in Place BY DEF LexTypeOK
<1>6. [input EXCEPT !.p = m.p].p = m.p BY <1>5 DEF Place
<1>7. input' = [p |-> m.p, line |-> m.line, col |-> m.col] BY <1>4, <1>6 DEF Rewind
<1>8. m = [p |-> m.p, line |-> m.line, col |-> m.col] BY <1>2, PlaceFields
<1>9. QED BY <1>1, <1>2, <1>7, <1>8 DEF Rewind

LEMMA SentBack ==
  ASSUME LexTypeOK, Places, Reset
  PROVE  /\ resets' = resets + 1 /\ resets' \in 0 .. MaxResets /\ resets' # 0
         /\ input' \in Place /\ input'.p = 0
         /\ Fits(input', Len(data), Before')
<1>1. /\ input \in Place /\ Fits(input, Len(data), Before)
      /\ resets \in Nat /\ MaxResets \in Nat /\ Before \in Nat /\ MaxLength \in Nat
      /\ Len(data) \in Nat /\ Len(data) <= MaxLength
  BY Bounds, LenProperties DEF LexTypeOK, Places
<1>2. resets' = resets + 1 /\ resets' \in 0 .. MaxResets /\ resets' # 0 BY <1>1 DEF Reset
<1>3. /\ input.p \in Nat /\ input.p <= MaxLength /\ input.line \in Int /\ input.col \in Int
      /\ input = [p |-> input.p, line |-> input.line, col |-> input.col]
  BY <1>1, PlaceFields
<1>4. input' = [input EXCEPT !.p = 0] BY <1>3 DEF Reset, Seek
<1>5. input' \in Place /\ input'.p = 0 /\ input'.line = input.line /\ input'.col = input.col
  <2>1. 0 \in 0 .. MaxLength BY <1>1
  <2>2. QED BY <1>1, <1>4, <2>1 DEF Place
<1>6. Before' = Before + MaxLength BY <1>2, Bounds DEF Before
<1>7. /\ input.line <= Before + input.p + 1 /\ input.col <= Before + input.p
      /\ input.p <= Len(data)
  BY <1>1 DEF Fits
<1>8. input'.line <= Before' + 0 + 1 /\ input'.col <= Before' + 0
  <2> DEFINE b == Before
  <2>1. b \in Nat /\ input.line <= b + input.p + 1 /\ input.col <= b + input.p BY <1>1, <1>7
  <2> HIDE DEF b
  <2>2. input.line <= (b + MaxLength) + 0 + 1 /\ input.col <= (b + MaxLength) + 0
    BY <1>1, <1>3, <2>1
  <2>3. QED BY <1>5, <1>6, <2>2 DEF b
<1>9. Fits(input', Len(data), Before') BY <1>1, <1>5, <1>8 DEF Fits
<1>10. QED BY <1>2, <1>5, <1>9

----------------------------------------------------------------------------
(* The steps *)

\* Of the actions only four move the stream, and all but four leave the marks.
LEMMA StreamMoves ==
  ASSUME [LexNext]_lexVars
  PROVE  /\ data' = data
         /\ \/ input' = input
            \/ pc = "rule" /\ (Match \/ Fail) /\ input' = Consume(input)
               /\ UNCHANGED <<markers, markDepth, resets>>
            \/ Rewind \/ Reset
         /\ UNCHANGED <<markers, markDepth>> \/ Mark \/ Rewind
         /\ UNCHANGED resets \/ Reset
BY DEF LexNext, Call, Lex, NextToken, Rule, Mark, Rewind, Match, Emit, Skip, Fail, EarlyExit,
       Reset, lexVars, streamVars

LEMMA InputStep ==
  ASSUME LexTypeOK, Places, Nested, [LexNext]_lexVars
  PROVE  input' \in Place /\ resets' \in 0 .. MaxResets
<1>1. input \in Place /\ resets \in 0 .. MaxResets BY DEF LexTypeOK
<1>2. CASE Reset BY <1>2, SentBack
<1>3. CASE ~Reset
  <2>1. resets' = resets BY <1>3, StreamMoves
  <2>2. input' \in Place BY <1>1, <1>3, StreamMoves, Consumed, Rewound
  <2>3. QED BY <1>1, <2>1, <2>2
<1>4. QED BY <1>2, <1>3

LEMMA MarkersStep ==
  ASSUME LexTypeOK, Places, Nested, [LexNext]_lexVars
  PROVE  /\ markers' \in Seq(Place) /\ Len(markers') <= MaxDepth
         /\ markDepth' \in 0 .. Len(markers')
<1>1. /\ markers \in Seq(Place) /\ Len(markers) <= MaxDepth
      /\ markDepth \in 0 .. Len(markers) /\ Len(markers) \in Nat
  BY LenProperties DEF LexTypeOK
<1>2. CASE UNCHANGED <<markers, markDepth>> BY <1>1, <1>2
<1>3. CASE Mark
  <2>1. /\ markers' \in Seq(Place) /\ Len(markers') <= MaxDepth
        /\ markDepth' \in 1 .. Len(markers')
    BY <1>3, Marked
  <2>2. Len(markers') \in Nat BY <2>1, LenProperties
  <2>3. QED BY <2>1, <2>2
<1>4. CASE Rewind
  <2>1. markers' = markers BY <1>4 DEF Rewind
  <2>2. markDepth' = markDepth - 1 /\ markDepth \in 1 .. Len(markers) BY <1>4, Rewound
  <2>3. QED BY <1>1, <2>1, <2>2
<1>5. QED BY <1>2, <1>3, <1>4, StreamMoves

\* Where a rule ends the stream is behind where it began.
LEMMA RuleEnds ==
  ASSUME LexTypeOK, Places, Nested, pc = "rule"
  PROVE  /\ start.p \in Nat /\ input.p \in Nat /\ start.p <= input.p
         /\ input.p <= Len(data) /\ Len(data) <= MaxLength /\ Len(data) \in Nat
         /\ Consume(input).p \in Nat /\ start.p <= Consume(input).p
         /\ Consume(input).p <= Len(data)
<1>1. start \in Place /\ input \in Place BY DEF LexTypeOK
<1>2. start.p \in Nat /\ input.p \in Nat BY <1>1, PlaceFields
<1>3. start.p <= input.p /\ input.p <= Len(data) /\ Len(data) <= MaxLength /\ Len(data) \in Nat
  BY LenProperties DEF Nested, Places, Fits, LexTypeOK
<1>4. /\ Consume(input).p \in Nat /\ input.p <= Consume(input).p
      /\ Consume(input).p <= Len(data)
  BY Consumed DEF Fits
<1>5. QED BY <1>2, <1>3, <1>4

LEMMA Emitted ==
  ASSUME LexTypeOK, Places, Nested, Emit
  PROVE  [from |-> start.p, to |-> input.p - 1, line |-> start.line, col |-> start.col] \in LexToken
<1>1. /\ start.p \in Nat /\ input.p \in Nat /\ start.p < input.p
      /\ input.p <= MaxLength /\ MaxLength \in Nat
  <2>1. /\ start.p \in Nat /\ input.p \in Nat /\ Len(data) \in Nat
        /\ input.p <= Len(data) /\ Len(data) <= MaxLength
    BY RuleEnds DEF Emit
  <2>2. MaxLength \in Nat BY Bounds
  <2>3. QED BY <2>1, <2>2 DEF Emit
<1>2. start.p \in 0 .. MaxLength /\ input.p - 1 \in 0 .. MaxLength - 1 BY <1>1
<1>3. start \in Place BY DEF LexTypeOK
<1>4. QED BY <1>2, <1>3 DEF Place, LexToken

LEMMA TypeStep ==
  ASSUME LexTypeOK, Places, Nested, [LexNext]_lexVars
  PROVE  LexTypeOK'
<1>1. data' \in Seq(Char) /\ Len(data') <= MaxLength BY StreamMoves DEF LexTypeOK
<1>2. input' \in Place /\ resets' \in 0 .. MaxResets BY InputStep
<1>3. /\ markers' \in Seq(Place) /\ Len(markers') <= MaxDepth
      /\ markDepth' \in 0 .. Len(markers')
  BY MarkersStep
<1>4. start' \in Place /\ decided' \in BOOLEAN
  <2>1. start' = start \/ start' = input
    BY DEF LexNext, Call, Lex, NextToken, Rule, Mark, Rewind, Match, Emit, Skip, Fail, EarlyExit,
           Reset, lexVars
  <2>2. decided' = decided \/ decided' \in BOOLEAN
    <3>1. CASE Lex
      BY <3>1 DEF Lex, NextToken, Rule, Mark, Rewind, Match, Emit, Skip, Fail, EarlyExit
    <3>2. CASE ~Lex
      BY <3>2 DEF LexNext, Call, Reset, lexVars
    <3>3. QED BY <3>1, <3>2
  <2>3. decided' \in BOOLEAN BY <2>2 DEF LexTypeOK
  <2>4. QED BY <2>1, <2>3 DEF LexTypeOK
<1>5. /\ pc' \in {"idle", "loop", "rule", "end"}
      /\ pc' # "rule" => markDepth' = 0
  <2>1. pc \in {"idle", "loop", "rule", "end"} /\ (pc # "rule" => markDepth = 0)
    BY DEF LexTypeOK
  <2>2. CASE Mark \/ Rewind \/ Match BY <2>1, <2>2 DEF Mark, Rewind, Match
  <2>3. CASE Emit \/ Skip \/ Fail \/ EarlyExit
    BY <2>1, <2>3 DEF Emit, Skip, Fail, EarlyExit, streamVars
  <2>4. CASE Call \/ NextToken \/ Reset
    BY <2>1, <2>4 DEF Call, NextToken, Reset, streamVars
  <2>5. CASE UNCHANGED lexVars BY <2>1, <2>5 DEF lexVars, streamVars
  <2>6. QED BY <2>2, <2>3, <2>4, <2>5 DEF LexNext, Lex, Rule
<1>6. tokens' \in Seq(LexToken)
  <2>1. tokens \in Seq(LexToken) BY DEF LexTypeOK
  <2>2. CASE Emit
    <3> DEFINE t == [from |-> start.p, to |-> input.p - 1,
                     line |-> start.line, col |-> start.col]
    <3>1. t \in LexToken BY <2>2, Emitted
    <3>2. tokens' = Append(tokens, t) BY <2>2 DEF Emit
    <3> HIDE DEF t
    <3>3. QED BY <2>1, <3>1, <3>2, AppendProperties
  <2>3. CASE Reset
    <3>1. <<>> \in Seq(LexToken) OBVIOUS
    <3>2. QED BY <2>3, <3>1 DEF Reset
  <2>4. CASE ~Emit /\ ~Reset
    <3>1. tokens' = tokens
      BY <2>4 DEF LexNext, Call, Lex, NextToken, Rule, Mark, Rewind, Match, Skip, Fail, EarlyExit,
                  lexVars
    <3>2. QED BY <2>1, <3>1
  <2>5. QED BY <2>2, <2>3, <2>4
<1>7. spent' \subseteq 0 .. MaxLength - 1
  <2>1. spent \subseteq 0 .. MaxLength - 1 /\ MaxLength \in Nat BY Bounds DEF LexTypeOK
  <2>2. CASE Skip \/ Fail \/ EarlyExit
    <3>1. PICK q \in {input.p, Consume(input).p} : spent' = spent \cup (start.p .. q - 1)
      BY <2>2 DEF Skip, Fail, EarlyExit, Spend
    <3>2. pc = "rule" BY <2>2 DEF Skip, Fail, EarlyExit
    <3>3. start.p \in Nat /\ q \in Nat /\ q <= MaxLength
      BY <2>1, <3>2, RuleEnds
    <3>4. start.p .. q - 1 \subseteq 0 .. MaxLength - 1 BY <2>1, <3>3
    <3>5. QED BY <2>1, <3>1, <3>4
  <2>3. CASE Reset BY <2>3 DEF Reset
  <2>4. CASE ~Skip /\ ~Fail /\ ~EarlyExit /\ ~Reset
    <3>1. spent' = spent
      BY <2>4 DEF LexNext, Call, Lex, NextToken, Rule, Mark, Rewind, Match, Emit, lexVars
    <3>2. QED BY <2>1, <3>1
  <2>5. QED BY <2>2, <2>3, <2>4
<1>8. QED BY <1>1, <1>2, <1>3, <1>4, <1>5, <1>6, <1>7 DEF LexTypeOK

LEMMA PlacesStep ==
  ASSUME LexTypeOK, Places, Nested, [LexNext]_lexVars
  PROVE  Places'
<1>1. /\ Fits(input, Len(data), Before)
      /\ \A i \in 1 .. markDepth : Fits(markers[i], Len(data), Before)
      /\ data' = data
  BY StreamMoves DEF Places
<1>2. CASE Reset
  <2>1. markDepth' = 0
    <3>1. markDepth = 0 BY <1>2 DEF Reset, LexTypeOK
    <3>2. QED BY <1>2, <3>1 DEF Reset
  <2>2. Fits(input', Len(data), Before') BY <1>2, SentBack
  <2>3. 1 .. markDepth' = {} BY <2>1
  <2>4. QED BY <1>1, <2>2, <2>3 DEF Places
<1>3. CASE ~Reset
  <2>1. Before' = Before BY <1>3, StreamMoves DEF Before
  <2>2. CASE Rewind
    <3>1. /\ markDepth \in Nat /\ markDepth \in 1 .. Len(markers) /\ markDepth' = markDepth - 1
          /\ input' = markers[markDepth] /\ markers' = markers
      BY <2>2, Rewound DEF Rewind
    <3>2. markDepth \in 1 .. markDepth /\ 1 .. markDepth' \subseteq 1 .. markDepth BY <3>1
    <3>3. QED BY <1>1, <2>1, <3>1, <3>2 DEF Places
  <2>3. CASE ~Rewind
    <3>1. Fits(input', Len(data), Before) BY <1>1, <1>3, <2>3, StreamMoves, Consumed
    <3>2. ASSUME NEW i \in 1 .. markDepth' PROVE Fits(markers'[i], Len(data), Before)
      <4>1. CASE UNCHANGED <<markers, markDepth>> BY <1>1, <4>1
      <4>2. CASE Mark
        <5>1. /\ markDepth \in Nat /\ markDepth' = markDepth + 1
              /\ markers'[markDepth + 1] = input
              /\ \A j \in 1 .. markDepth : markers'[j] = markers[j]
          BY <4>2, Marked
        <5>2. i \in 1 .. markDepth \/ i = markDepth + 1 BY <5>1
        <5>3. QED BY <1>1, <5>1, <5>2
      <4>3. QED BY <2>3, <4>1, <4>2, StreamMoves
    <3>3. QED BY <1>1, <2>1, <3>1, <3>2 DEF Places
  <2>4. QED BY <2>2, <2>3
<1>4. QED BY <1>2, <1>3

LEMMA NestedStep ==
  ASSUME LexTypeOK, Places, Nested, [LexNext]_lexVars
  PROVE  Nested'
<1> SUFFICES ASSUME pc' = "rule"
             PROVE  /\ start'.p <= input'.p
                    /\ \A i \in 1 .. markDepth' :
                         start'.p <= markers'[i].p /\ markers'[i].p <= input'.p
                    /\ \A i, j \in 1 .. markDepth' :
                         i <= j => markers'[i].p <= markers'[j].p
  BY DEF Nested
<1>1. input \in Place /\ start \in Place BY DEF LexTypeOK
<1>2. input.p \in Nat /\ start.p \in Nat BY <1>1, PlaceFields
<1>3. ASSUME NEW i \in 1 .. markDepth PROVE markers[i].p \in Nat
  <2>1. markers \in Seq(Place) /\ i \in 1 .. Len(markers) BY LenProperties DEF LexTypeOK
  <2>2. markers[i] \in Place BY <2>1, ElementOfSeq
  <2>3. QED BY <2>2, PlaceFields
<1>4. CASE NextToken
  <2>1. start' = input /\ input' = input /\ markDepth' = 0
    BY <1>4 DEF NextToken, streamVars, LexTypeOK
  <2>2. 1 .. markDepth' = {} BY <2>1
  <2>3. QED BY <1>2, <2>1, <2>2
<1>5. CASE UNCHANGED <<pc, start, input, markers, markDepth>> BY <1>5 DEF Nested
<1>6. CASE Match
  <2>1. /\ input' = Consume(input) /\ UNCHANGED <<start, markers, markDepth>> /\ pc = "rule"
    BY <1>6 DEF Match
  <2>2. Consume(input).p \in Nat /\ input.p <= Consume(input).p BY Consumed
  <2>3. /\ start.p <= input.p
        /\ \A i \in 1 .. markDepth : start.p <= markers[i].p /\ markers[i].p <= input.p
        /\ \A i, j \in 1 .. markDepth : i <= j => markers[i].p <= markers[j].p
    BY <2>1 DEF Nested
  <2>4. QED BY <1>2, <1>3, <2>1, <2>2, <2>3
<1>7. CASE Mark
  <2>1. /\ markDepth \in Nat /\ markDepth' = markDepth + 1
        /\ markers'[markDepth + 1] = input
        /\ \A j \in 1 .. markDepth : markers'[j] = markers[j]
    BY <1>7, Marked
  <2>2. UNCHANGED <<input, start>> /\ pc = "rule" BY <1>7 DEF Mark
  <2>3. \A i \in 1 .. markDepth' : i \in 1 .. markDepth \/ i = markDepth + 1 BY <2>1
  <2>4. /\ start.p <= input.p
        /\ \A i \in 1 .. markDepth : start.p <= markers[i].p /\ markers[i].p <= input.p
        /\ \A i, j \in 1 .. markDepth : i <= j => markers[i].p <= markers[j].p
    BY <2>2 DEF Nested
  <2>5. ASSUME NEW i \in 1 .. markDepth', NEW j \in 1 .. markDepth', i <= j
        PROVE  markers'[i].p <= markers'[j].p
    <3>1. CASE j = markDepth + 1 BY <1>2, <2>1, <2>3, <2>4, <3>1
    <3>2. CASE j \in 1 .. markDepth
      <4>1. i \in 1 .. markDepth BY <2>1, <2>5, <3>2
      <4>2. QED BY <2>1, <2>4, <2>5, <3>2, <4>1
    <3>3. QED BY <2>3, <3>1, <3>2
  <2>6. QED BY <1>2, <2>1, <2>2, <2>3, <2>4, <2>5
<1>8. CASE Rewind
  <2>1. /\ markDepth \in Nat /\ markDepth \in 1 .. Len(markers) /\ markDepth' = markDepth - 1
        /\ input' = markers[markDepth] /\ markers' = markers /\ start' = start /\ pc = "rule"
    BY <1>8, Rewound DEF Rewind
  <2>2. markDepth \in 1 .. markDepth /\ 1 .. markDepth' \subseteq 1 .. markDepth
        /\ \A i \in 1 .. markDepth' : i <= markDepth
    BY <2>1
  <2>3. QED BY <2>1, <2>2 DEF Nested
<1>9. QED
  BY <1>4, <1>5, <1>6, <1>7, <1>8
     DEF LexNext, Call, Lex, Rule, Emit, Skip, Fail, EarlyExit, Reset, lexVars, streamVars

LEMMA TiledStep ==
  ASSUME LexTypeOK, Places, Nested, Tiled, [LexNext]_lexVars
  PROVE  Tiled'
<1>1. \A i \in DOMAIN tokens : tokens[i].from \in Int /\ tokens[i].to \in Int
  <2>1. tokens \in Seq(LexToken) /\ MaxLength \in Nat BY Bounds DEF LexTypeOK
  <2>2. \A i \in DOMAIN tokens : tokens[i] \in LexToken BY <2>1, ElementOfSeq, LenProperties
  <2>3. QED BY <2>1, <2>2 DEF LexToken
<1>2. CASE Call \/ Mark \/ Rewind \/ Match \/ NextToken \/ UNCHANGED lexVars
  <2>1. UNCHANGED <<tokens, spent>>
    BY <1>2 DEF Call, Mark, Rewind, Match, NextToken, lexVars
  <2>2. (IF pc' = "rule" THEN start'.p ELSE input'.p)
          = (IF pc = "rule" THEN start.p ELSE input.p)
    BY <1>2 DEF Call, Mark, Rewind, Match, NextToken, lexVars, streamVars
  <2>3. QED BY <2>1, <2>2 DEF Tiled
<1>3. CASE Emit
  <2> DEFINE t == [from |-> start.p, to |-> input.p - 1,
                   line |-> start.line, col |-> start.col]
  <2>1. pc = "rule" /\ pc' = "idle" /\ tokens' = Append(tokens, t)
        /\ input' = input /\ spent' = spent /\ input.p > start.p
    BY <1>3 DEF Emit, streamVars
  <2>2. tokens \in Seq(LexToken) /\ t \in LexToken BY <1>3, Emitted DEF LexTypeOK
  <2>3. start.p \in Nat /\ input.p \in Nat /\ start.p < input.p BY <2>1, RuleEnds
  <2>4. Tiling(tokens, spent, start.p) BY <2>1 DEF Tiled
  <2>5. t.from = start.p /\ t.to = input.p - 1 OBVIOUS
  <2> HIDE DEF t
  <2>6. Tiling(Append(tokens, t), spent, input.p)
    BY <1>1, <2>2, <2>3, <2>4, <2>5, TokenAdded
  <2>7. QED BY <2>1, <2>6 DEF Tiled
<1>4. CASE Skip \/ Fail \/ EarlyExit
  <2>1. pc = "rule" /\ pc' = "loop" /\ tokens' = tokens
    BY <1>4 DEF Skip, Fail, EarlyExit
  <2>2. spent' = spent \cup (start.p .. input'.p - 1)
        /\ input' \in {input, Consume(input)}
    BY <1>4 DEF Skip, Fail, EarlyExit, Spend, streamVars
  <2>3. start.p \in Nat /\ input'.p \in Nat /\ start.p <= input'.p BY <2>1, <2>2, RuleEnds
  <2>4. Tiling(tokens, spent, start.p) BY <2>1 DEF Tiled
  <2> DEFINE n == start.p
             m == input'.p
  <2>5. Tiling(tokens, spent \cup (n .. m - 1), m)
    <3> HIDE DEF n, m
    <3>1. QED BY <1>1, <2>3, <2>4, SpentAdded DEF n, m
  <2>6. QED BY <2>1, <2>2, <2>5 DEF Tiled
<1>5. CASE Reset
  <2>1. tokens' = <<>> /\ spent' = {} /\ input'.p = 0 /\ pc' = "idle"
    BY <1>5, SentBack DEF Reset
  <2>2. Tiling(<<>>, {}, 0) BY DEF Tiling
  <2>3. QED BY <2>1, <2>2 DEF Tiled
<1>6. QED BY <1>2, <1>3, <1>4, <1>5 DEF LexNext, Lex, Rule

LEMMA LocatedStep ==
  ASSUME LexTypeOK, Places, Nested, Located, [LexNext]_lexVars
  PROVE  Located'
<1> SUFFICES ASSUME resets' = 0
             PROVE  /\ Right(data', input')
                    /\ pc' = "rule" => Right(data', start')
                    /\ \A i \in 1 .. markDepth' : Right(data', markers'[i])
                    /\ \A i \in DOMAIN tokens' : Right(data', BeginningOf(tokens'[i]))
  BY DEF Located
<1>1. ~Reset BY SentBack
<1>2. resets' = resets /\ data' = data BY <1>1, StreamMoves
<1>3. /\ Right(data, input)
      /\ pc = "rule" => Right(data, start)
      /\ \A i \in 1 .. markDepth : Right(data, markers[i])
      /\ \A i \in DOMAIN tokens : Right(data, BeginningOf(tokens[i]))
  BY <1>2 DEF Located
<1>4. /\ Right(data, input')
      /\ \A i \in 1 .. markDepth' : Right(data, markers'[i])
  <2>1. CASE Rewind
    <3>1. /\ markDepth \in Nat /\ markDepth \in 1 .. Len(markers) /\ markDepth' = markDepth - 1
          /\ input' = markers[markDepth] /\ markers' = markers
      BY <2>1, Rewound DEF Rewind
    <3>2. markDepth \in 1 .. markDepth /\ 1 .. markDepth' \subseteq 1 .. markDepth BY <3>1
    <3>3. QED BY <1>3, <3>1, <3>2
  <2>2. CASE ~Rewind
    <3>1. Right(data, input') BY <1>1, <1>3, <2>2, StreamMoves, Consumed
    <3>2. ASSUME NEW i \in 1 .. markDepth' PROVE Right(data, markers'[i])
      <4>1. CASE UNCHANGED <<markers, markDepth>> BY <1>3, <4>1
      <4>2. CASE Mark
        <5>1. /\ markDepth \in Nat /\ markDepth' = markDepth + 1
              /\ markers'[markDepth + 1] = input
              /\ \A j \in 1 .. markDepth : markers'[j] = markers[j]
          BY <4>2, Marked
        <5>2. i \in 1 .. markDepth \/ i = markDepth + 1 BY <5>1
        <5>3. QED BY <1>3, <5>1, <5>2
      <4>3. QED BY <2>2, <4>1, <4>2, StreamMoves
    <3>3. QED BY <3>1, <3>2
  <2>3. QED BY <2>1, <2>2
<1>5. pc' = "rule" => Right(data, start')
  <2>1. pc' = "rule" => (pc = "rule" /\ start' = start) \/ start' = input
    BY DEF LexNext, Call, Lex, NextToken, Rule, Mark, Rewind, Match, Emit, Skip, Fail, EarlyExit,
           Reset, lexVars
  <2>2. QED BY <1>3, <2>1
<1>6. ASSUME NEW i \in DOMAIN tokens' PROVE Right(data, BeginningOf(tokens'[i]))
  <2>1. CASE tokens' = tokens BY <1>3, <2>1
  <2>2. CASE Emit
    <3> DEFINE t == [from |-> start.p, to |-> input.p - 1,
                     line |-> start.line, col |-> start.col]
    <3>1. tokens' = Append(tokens, t) /\ pc = "rule" BY <2>2 DEF Emit
    <3>2. tokens \in Seq(LexToken) /\ t \in LexToken BY <2>2, Emitted DEF LexTypeOK
    <3>3. start \in Place BY DEF LexTypeOK
    <3>4. BeginningOf(t) = start BY <3>3, PlaceFields DEF BeginningOf
    <3> HIDE DEF t
    <3>5. /\ tokens' \in Seq(LexToken) /\ Len(tokens') = Len(tokens) + 1
          /\ tokens'[Len(tokens) + 1] = t
          /\ \A j \in 1 .. Len(tokens) : tokens'[j] = tokens[j]
      BY <3>1, <3>2, AppendProperties
    <3>6. /\ Len(tokens) \in Nat /\ DOMAIN tokens = 1 .. Len(tokens)
          /\ DOMAIN tokens' = 1 .. Len(tokens) + 1
      BY <3>2, <3>5, LenProperties
    <3>7. i \in 1 .. Len(tokens) \/ i = Len(tokens) + 1 BY <3>6
    <3>8. QED BY <1>3, <3>1, <3>4, <3>5, <3>6, <3>7
  <2>3. QED
    BY <1>1, <2>1, <2>2
       DEF LexNext, Call, Lex, NextToken, Rule, Mark, Rewind, Match, Skip, Fail, EarlyExit, lexVars
<1>7. QED BY <1>2, <1>4, <1>5, <1>6

----------------------------------------------------------------------------
(* The theorems *)

LEMMA Initially == LexInit => LexInv
<1> SUFFICES ASSUME LexInit PROVE LexInv
  OBVIOUS
<1>1. PICK n \in 0 .. MaxLength : data \in [1 .. n -> Char] BY DEF LexInit
<1>2. MaxLength \in Nat /\ MaxDepth \in Nat /\ MaxResets \in Nat BY LexerAssumption
<1>3. n \in Nat /\ n <= MaxLength BY <1>2
<1>4. data \in Seq(Char) BY <1>1, <1>3, SeqDef
<1>5. Len(data) = n BY <1>1, <1>3, <1>4, LenProperties
<1>6. /\ input = Beginning /\ start = Beginning /\ markers = <<>> /\ markDepth = 0
      /\ pc = "idle" /\ decided = FALSE /\ tokens = <<>> /\ spent = {} /\ resets = 0
  BY DEF LexInit
<1>7. LexTypeOK
  <2>1. \A m, r \in Nat : r * m \in Nat
    <3> TAKE m, r \in Nat
    <3>1. QED BY Z3T(30)
  <2>2. (MaxResets + 1) * MaxLength \in Nat BY <1>2, <2>1
  <2> DEFINE a == (MaxResets + 1) * MaxLength
  <2>3. Beginning \in Place
    <3>1. 0 \in 0 .. MaxLength /\ 1 \in 1 .. a + 1 /\ 0 \in 0 .. a BY <1>2, <2>2
    <3>2. QED BY <3>1 DEF Beginning, Place
  <2>4. <<>> \in Seq(Place) /\ <<>> \in Seq(LexToken) /\ Len(<<>>) = 0 OBVIOUS
  <2>5. 0 \in 0 .. MaxResets /\ 0 \in 0 .. 0 /\ 0 <= MaxDepth BY <1>2
  <2>6. decided \in BOOLEAN BY <1>6
  <2>7. /\ pc \in {"idle", "loop", "rule", "end"} /\ markDepth = 0
        /\ spent \subseteq 0 .. MaxLength - 1 /\ resets \in 0 .. MaxResets
    BY <1>6, <2>5
  <2>8. markers \in Seq(Place) /\ tokens \in Seq(LexToken) /\ Len(markers) = 0
    BY <1>6, <2>4
  <2>9. data \in Seq(Char) /\ Len(data) <= MaxLength BY <1>3, <1>4, <1>5
  <2>10. input \in Place /\ start \in Place BY <1>6, <2>3
  <2>11. Len(markers) <= MaxDepth /\ markDepth \in 0 .. Len(markers) BY <2>5, <2>7, <2>8
  <2>12. QED BY <2>6, <2>7, <2>8, <2>9, <2>10, <2>11 DEF LexTypeOK
<1>8. Places
  <2>1. Before \in Nat /\ Before = 0 BY <1>6, <1>7, Bounds
  <2>2. Fits(Beginning, Len(data), Before) BY <1>3, <1>5, <2>1 DEF Fits, Beginning
  <2>3. QED BY <1>6, <2>2 DEF Places
<1>9. Nested BY <1>6 DEF Nested
<1>10. Tiled
  <2>1. Tiling(<<>>, {}, 0) BY DEF Tiling
  <2>2. QED BY <1>6, <2>1 DEF Tiled, Beginning
<1>11. Located BY <1>6, RightAtBeginning DEF Located
<1>12. QED BY <1>7, <1>8, <1>9, <1>10, <1>11 DEF LexInv

\* In every reachable state the open marks are nested behind the beginning of the
\* token, and the characters before that, or before the stream between two rules,
\* are in one token each or spent.
THEOREM LexInductive == LexSpec => []LexInv
<1>1. LexInv /\ [LexNext]_lexVars => LexInv'
  BY TypeStep, PlacesStep, NestedStep, TiledStep, LocatedStep DEF LexInv
<1>2. QED BY <1>1, Initially, PTL DEF LexSpec

\* The tokens of nextToken and the text that was skipped or thrown away tile the
\* input, and each token has the line and the column it begins at, whatever rules
\* and predicates looked ahead at.
THEOREM InputIsTiled == LexSpec => []TokensTile
<1>1. LexInv => TokensTile
  <2> SUFFICES ASSUME LexInv PROVE TokensTile
    OBVIOUS
  <2> DEFINE range(i) == tokens[i].from .. tokens[i].to
  <2>1. LexTypeOK BY DEF LexInv
  <2>2. ASSUME pc \in {"idle", "loop", "end"}
        PROVE  /\ \A i, j \in DOMAIN tokens : i < j => tokens[i].to < tokens[j].from
               /\ \A i \in DOMAIN tokens : range(i) # {} /\ range(i) \cap spent = {}
               /\ (UNION {range(i) : i \in DOMAIN tokens}) \cup spent = 0 .. input.p - 1
    <3>1. Tiling(tokens, spent, input.p) BY <2>2 DEF LexInv, Tiled
    <3>2. \A i \in DOMAIN tokens : tokens[i].from \in Int /\ tokens[i].to \in Int
      <4>1. tokens \in Seq(LexToken) /\ MaxLength \in Nat BY <2>1, Bounds DEF LexTypeOK
      <4>2. \A i \in DOMAIN tokens : tokens[i] \in LexToken BY <4>1, ElementOfSeq, LenProperties
      <4>3. QED BY <4>1, <4>2 DEF LexToken
    <3>3. \A i \in DOMAIN tokens : range(i) # {} /\ range(i) \cap spent = {}
      <4>1. \A i \in DOMAIN tokens : tokens[i].from \in range(i) BY <3>1, <3>2 DEF Tiling
      <4>2. QED BY <3>1, <4>1 DEF Tiling
    <3>4. (UNION {range(i) : i \in DOMAIN tokens}) \cup spent = 0 .. input.p - 1
      <4>1. \A x : (x \in spent \/ \E i \in DOMAIN tokens : x \in range(i))
                     <=> x \in 0 .. input.p - 1
        BY <3>1 DEF Tiling
      <4> DEFINE U == UNION {range(i) : i \in DOMAIN tokens}
                 N == 0 .. input.p - 1
      <4>2. \A x : x \in U <=> \E i \in DOMAIN tokens : x \in range(i)
        OBVIOUS
      <4>3. \A x : x \in N <=> x \in 0 .. input.p - 1 OBVIOUS
      <4> HIDE DEF U, N, range
      <4>4. \A x : x \in U \cup spent <=> x \in N BY <4>1, <4>2, <4>3
      <4>5. U \cup spent = N BY <4>4
      <4>6. QED BY <4>5 DEF U, N, range
    <3>5. QED BY <3>1, <3>3, <3>4 DEF Tiling
  <2>3. ASSUME NEW s, Right(data, s) PROVE s = PlaceOf(s.p)
    BY <2>3 DEF Right, PlaceOf, Breaks
  <2>4. ASSUME resets = 0
        PROVE  /\ input = PlaceOf(input.p)
               /\ \A i \in 1 .. markDepth : markers[i] = PlaceOf(markers[i].p)
               /\ \A i \in DOMAIN tokens : LET t == tokens[i] IN
                    [p |-> t.from, line |-> t.line, col |-> t.col] = PlaceOf(t.from)
    <3>1. /\ Right(data, input)
          /\ \A i \in 1 .. markDepth : Right(data, markers[i])
          /\ \A i \in DOMAIN tokens : Right(data, BeginningOf(tokens[i]))
      BY <2>4 DEF LexInv, Located
    <3>2. \A i \in DOMAIN tokens :
            BeginningOf(tokens[i]) = PlaceOf(BeginningOf(tokens[i]).p)
      BY <2>3, <3>1
    <3>3. QED BY <2>3, <3>1, <3>2 DEF BeginningOf
  <2>5. QED BY <2>1, <2>2, <2>4 DEF TokensTile
<1>2. QED BY <1>1, LexInductive, PTL
=============================================================================
