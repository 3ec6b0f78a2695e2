-------------------------- MODULE TreeRewrite_proofs --------------------------
(***************************************************************************)
(* Proofs about TreeRewrite, for any number of trees, nodes and elements   *)
(* of the stream.                                                          *)
(***************************************************************************)
EXTENDS TreeRewrite, SequenceTheorems, FiniteSetTheorems, WellFoundedInduction, TLAPS

----------------------------------------------------------------------------
(* Induction, over the numbers in a set, and what is defined by recursion   *)

LEMMA Induct ==
  ASSUME NEW S, 0 \in S, \A n \in Nat : n \in S => n + 1 \in S
  PROVE  \A n \in Nat : n \in S
<1> DEFINE T == Nat \ S
<1> SUFFICES ASSUME T # {} PROVE FALSE
  OBVIOUS
<1>1. PICK x \in T : \A y \in T : ~(<<y, x>> \in OpToRel(<, Nat))
  <2>1. T \subseteq Nat OBVIOUS
  <2> HIDE DEF T
  <2>2. QED BY <2>1, WFMin, NatLessThanWellFounded
<1>2. x \in Nat /\ x # 0 /\ x \notin S OBVIOUS
<1>3. x - 1 \in Nat BY <1>2
<1>4. x - 1 < x BY <1>2
<1>5. <<x - 1, x>> \in OpToRel(<, Nat) BY <1>2, <1>3, <1>4 DEF OpToRel
<1>6. x - 1 \in S BY <1>1, <1>3, <1>5
<1>7. (x - 1) + 1 = x BY <1>2
<1>8. QED BY <1>2, <1>3, <1>6, <1>7

LEMMA Earlier == \A r, j \in Nat : r < j + 1 /\ r # j => r < j
OBVIOUS

\* A function whose value at n is computed, by F, from its values at the nodes
\* under n is well defined.
Descends(N, under, rank, b) ==
  /\ under \in [N -> SUBSET N] /\ b \in Nat /\ rank \in [N -> 0 .. b]
  /\ \A n \in N : \A m \in under[n] : rank[m] < rank[n]

LooksUnder(N, under, V, F) ==
  /\ V # {} /\ F \in [N \X [N -> V] -> V]
  /\ \A n \in N : \A f, g \in [N -> V] :
       (\A m \in under[n] : f[m] = g[m]) => F[<<n, f>>] = F[<<n, g>>]

LEMMA Recursion ==
  ASSUME NEW N, NEW under, NEW rank, NEW b, Descends(N, under, rank, b),
         NEW V, NEW F, LooksUnder(N, under, V, F)
  PROVE  \E g \in [N -> V] : \A n \in N : g[n] = F[<<n, g>>]
<1> USE DEF Descends, LooksUnder
<1> PICK v : v \in V OBVIOUS
<1> DEFINE Upto(k) == \E g \in [N -> V] : \A n \in N : rank[n] < k => g[n] = F[<<n, g>>]
           S == {k \in Nat : Upto(k)}
<1>1. 0 \in S
  <2>1. [n \in N |-> v] \in [N -> V] OBVIOUS
  <2>2. \A n \in N : ~(rank[n] < 0) OBVIOUS
  <2>3. Upto(0) BY <2>1, <2>2
  <2>4. QED BY <2>3
<1>2. ASSUME NEW k \in Nat, k \in S PROVE k + 1 \in S
  <2>1. PICK g \in [N -> V] : \A n \in N : rank[n] < k => g[n] = F[<<n, g>>] BY <1>2
  <2> DEFINE f == [n \in N |-> IF rank[n] = k THEN F[<<n, g>>] ELSE g[n]]
  <2>2. f \in [N -> V] OBVIOUS
  <2>3. ASSUME NEW n \in N, rank[n] < k + 1 PROVE f[n] = F[<<n, f>>]
    <3>1. \A m \in under[n] : m \in N /\ rank[m] < k BY <2>3
    <3>2. \A m \in under[n] : f[m] = g[m] BY <3>1
    <3>3. F[<<n, f>>] = F[<<n, g>>] BY <2>2, <3>2
    <3>4. CASE rank[n] = k BY <3>3, <3>4
    <3>5. CASE rank[n] # k
      <4>1. rank[n] \in Nat OBVIOUS
      <4>3. rank[n] < k BY <2>3, <3>5, <4>1, Earlier
      <4>4. QED BY <2>1, <3>3, <3>5, <4>3
    <3>6. QED BY <3>4, <3>5
  <2> HIDE DEF f
  <2>4. Upto(k + 1) BY <2>2, <2>3
  <2>5. QED BY <2>4
<1> HIDE DEF S
<1>3. \A k \in Nat : k \in S BY <1>1, <1>2, Induct
<1>4. b + 1 \in S BY <1>3
<1>5. Upto(b + 1) BY <1>4 DEF S
<1>6. \A n \in N : rank[n] < b + 1 OBVIOUS
<1>7. QED BY <1>5, <1>6

\* The same for what is computed step by step.
StepsIn(n, V, v, F) == n \in Nat /\ v \in V /\ F \in [V \X (1 .. n) -> V]

LEMMA Steps ==
  ASSUME NEW n, NEW V, NEW v, NEW F, StepsIn(n, V, v, F)
  PROVE  \E g \in [0 .. n -> V] : g[0] = v /\ \A i \in 1 .. n : g[i] = F[<<g[i - 1], i>>]
<1> USE DEF StepsIn
<1> DEFINE N == 0 .. n
           under == [i \in N |-> IF i = 0 THEN {} ELSE {i - 1}]
           rank == [i \in N |-> i]
           G == [x \in N \X [N -> V] |-> IF x[1] = 0 THEN v ELSE F[<<x[2][x[1] - 1], x[1]>>]]
<1>1. under \in [N -> SUBSET N] /\ rank \in [N -> 0 .. n] OBVIOUS
<1>2. \A i \in N : \A m \in under[i] : rank[m] < rank[i] OBVIOUS
<1>3. G \in [N \X [N -> V] -> V]
  <2>1. \A i \in N, g \in [N -> V] : i # 0 => <<g[i - 1], i>> \in V \X (1 .. n) OBVIOUS
  <2>2. QED BY <2>1
<1>4. \A i \in N : \A f, g \in [N -> V] :
        /\ G[<<i, f>>] = IF i = 0 THEN v ELSE F[<<f[i - 1], i>>]
        /\ (\A m \in under[i] : f[m] = g[m]) => G[<<i, f>>] = G[<<i, g>>]
  OBVIOUS
<1>5. 0 \in N /\ \A i \in 1 .. n : i \in N /\ i # 0 OBVIOUS
<1> HIDE DEF G, rank, under, N
<1>6. PICK g \in [N -> V] : \A i \in N : g[i] = G[<<i, g>>]
  <2>1. \A i \in N : \A f, g \in [N -> V] :
          (\A m \in under[i] : f[m] = g[m]) => G[<<i, f>>] = G[<<i, g>>]
    BY <1>4
  <2>2. Descends(N, under, rank, n) BY <1>1, <1>2 DEF Descends
  <2>3. LooksUnder(N, under, V, G) BY <1>3, <2>1 DEF LooksUnder
  <2>4. QED BY <2>2, <2>3, Recursion
<1>7. g[0] = v BY <1>4, <1>5, <1>6
<1>8. \A i \in 1 .. n : g[i] = F[<<g[i - 1], i>>] BY <1>4, <1>5, <1>6
<1>9. QED BY <1>7, <1>8 DEF N

LEMMA UnderInduct ==
  ASSUME NEW N, NEW under, NEW rank, NEW b, Descends(N, under, rank, b),
         NEW P, \A n \in N : (\A m \in under[n] : m \in P) => n \in P
  PROVE  \A n \in N : n \in P
<1> USE DEF Descends
<1> DEFINE S == {k \in Nat : \A n \in N : rank[n] < k => n \in P}
<1>1. 0 \in S
  <2>1. \A n \in N : ~(rank[n] < 0) OBVIOUS
  <2>2. QED BY <2>1
<1>2. ASSUME NEW k \in Nat, k \in S PROVE k + 1 \in S
  <2>1. ASSUME NEW n \in N, rank[n] < k + 1 PROVE n \in P
    <3>1. \A m \in under[n] : m \in N /\ rank[m] < k BY <2>1
    <3>2. \A m \in under[n] : m \in P BY <1>2, <3>1
    <3>3. QED BY <3>2
  <2>2. QED BY <2>1
<1> HIDE DEF S
<1>3. b + 1 \in S BY <1>1, <1>2, Induct
<1>4. \A n \in N : rank[n] < b + 1 OBVIOUS
<1>5. QED BY <1>3, <1>4 DEF S

LEMMA RangeConcat ==
  ASSUME NEW S, NEW s \in Seq(S), NEW t \in Seq(S)
  PROVE  /\ s \o t \in Seq(S)
         /\ \A x : x \in Range(s \o t) <=> x \in Range(s) \/ x \in Range(t)
<1>1. /\ s \o t \in Seq(S) /\ Len(s \o t) = Len(s) + Len(t)
      /\ \A i \in 1 .. Len(s) + Len(t) :
           (s \o t)[i] = IF i <= Len(s) THEN s[i] ELSE t[i - Len(s)]
  BY ConcatProperties
<1>2. /\ Len(s) \in Nat /\ Len(t) \in Nat /\ DOMAIN s = 1 .. Len(s) /\ DOMAIN t = 1 .. Len(t)
      /\ DOMAIN (s \o t) = 1 .. Len(s) + Len(t)
  BY <1>1
<1>3. \A i \in 1 .. Len(s) : i \in 1 .. Len(s) + Len(t) /\ (s \o t)[i] = s[i]
  BY <1>1, <1>2
<1>4. \A i \in 1 .. Len(t) : /\ Len(s) + i \in 1 .. Len(s) + Len(t)
                            /\ (s \o t)[Len(s) + i] = t[i]
  <2>1. \A i \in 1 .. Len(t) : /\ Len(s) + i \in 1 .. Len(s) + Len(t)
                              /\ ~(Len(s) + i <= Len(s)) /\ (Len(s) + i) - Len(s) = i
    BY <1>2
  <2>2. QED BY <1>1, <2>1
<1>5. \A i \in 1 .. Len(s) + Len(t) : i \in 1 .. Len(s) \/ i - Len(s) \in 1 .. Len(t)
  BY <1>2
<1>6. \A i \in 1 .. Len(s) + Len(t) :
        i - Len(s) \in 1 .. Len(t) => (s \o t)[i] = t[i - Len(s)]
  BY <1>1, <1>2
<1>7. QED BY <1>1, <1>2, <1>3, <1>4, <1>5, <1>6 DEF Range

LEMMA Flatten ==
  ASSUME NEW S, NEW parts \in Seq(Seq(S))
  PROVE  /\ FlattenSeq(parts) \in Seq(S)
         /\ \A x : x \in Range(FlattenSeq(parts)) <=>
                     \E i \in DOMAIN parts : x \in Range(parts[i])
<1> DEFINE n == Len(parts)
           F == [x \in Seq(S) \X (1 .. n) |-> x[1] \o parts[x[2]]]
           Equation(f) == f = [i \in 1 .. n |-> IF i = 1 THEN parts[i] ELSE f[i - 1] \o parts[i]]
<1>1. n \in Nat /\ DOMAIN parts = 1 .. n /\ \A i \in 1 .. n : parts[i] \in Seq(S)
  OBVIOUS
<1>2. CASE n = 0
  <2>1. parts = <<>> /\ FlattenSeq(parts) = <<>> BY <1>2, EmptySeq DEF FlattenSeq
  <2>2. <<>> \in Seq(S) /\ \A x : x \notin Range(<<>>) BY DEF Range
  <2>3. \A i \in DOMAIN parts : FALSE BY <1>1, <1>2
  <2>4. QED BY <2>1, <2>2, <2>3
<1>3. CASE n # 0
  <2>1. F \in [Seq(S) \X (1 .. n) -> Seq(S)]
    <3>1. \A s \in Seq(S), i \in 1 .. n : s \o parts[i] \in Seq(S)
      BY <1>1, ConcatProperties
    <3>2. QED BY <3>1
  <2>2. \A s \in Seq(S), i \in 1 .. n : F[<<s, i>>] = s \o parts[i] OBVIOUS
  <2>3. <<>> \in Seq(S) OBVIOUS
  <2> HIDE DEF F, n
  <2>4. PICK g \in [0 .. n -> Seq(S)] :
          g[0] = <<>> /\ \A i \in 1 .. n : g[i] = F[<<g[i - 1], i>>]
    <3>1. StepsIn(n, Seq(S), <<>>, F) BY <1>1, <2>1, <2>3 DEF StepsIn
    <3>2. QED BY <3>1, Steps
  <2>5. \A i \in 1 .. n : i - 1 \in 0 .. n /\ i \in 0 .. n /\ 1 - 1 = 0 BY <1>1
  <2>6. \A i \in 1 .. n : g[i] = IF i = 1 THEN parts[i] ELSE g[i - 1] \o parts[i]
    <3>1. \A i \in 1 .. n : g[i] = g[i - 1] \o parts[i] BY <2>2, <2>4, <2>5
    <3>2. \A i \in 1 .. n : <<>> \o parts[i] = parts[i] BY <1>1, ConcatEmptySeq
    <3>3. QED BY <2>4, <2>5, <3>1, <3>2
  <2> DEFINE f == [i \in 1 .. n |-> g[i]]
             flatten == CHOOSE h : Equation(h)
  <2>7. Equation(f)
    <3>1. \A i \in 1 .. n : i # 1 => i - 1 \in 1 .. n BY <1>1
    <3>2. QED BY <2>6, <3>1
  <2>8. Equation(flatten) BY <2>7
  <2>9. FlattenSeq(parts) = flatten[n] BY <1>3, Zenon DEF FlattenSeq, n
  <2> HIDE DEF f
  <2> DEFINE Good(k) == /\ flatten[k] \in Seq(S)
                        /\ \A x : x \in Range(flatten[k]) <=> \E i \in 1 .. k : x \in Range(parts[i])
             P == {k \in Nat : k \in 1 .. n => Good(k)}
  <2>10. flatten = [i \in 1 .. n |-> IF i = 1 THEN parts[i] ELSE flatten[i - 1] \o parts[i]]
    BY <2>8
  <2> HIDE DEF flatten
  <2>11. ASSUME NEW k \in Nat, k \in P PROVE k + 1 \in P
    <3> SUFFICES ASSUME k + 1 \in 1 .. n PROVE Good(k + 1)
      OBVIOUS
    <3>1. CASE k = 0
      <4>1. flatten[1] = parts[1] /\ k + 1 = 1 BY <2>10, <3>1
      <4>2. 1 .. 1 = {1} OBVIOUS
      <4>3. QED BY <1>1, <4>1, <4>2
    <3>2. CASE k # 0
      <4>1. k \in 1 .. n /\ k + 1 # 1 /\ (k + 1) - 1 = k BY <1>1, <3>2
      <4>2. flatten[k + 1] = flatten[k] \o parts[k + 1] BY <2>10, <4>1
      <4>3. Good(k) BY <2>11, <4>1
      <4>4. /\ flatten[k + 1] \in Seq(S)
            /\ \A x : x \in Range(flatten[k + 1]) <=>
                 x \in Range(flatten[k]) \/ x \in Range(parts[k + 1])
        BY <1>1, <4>2, <4>3, RangeConcat
      <4>5. 1 .. k + 1 = (1 .. k) \cup {k + 1} BY <4>1
      <4>6. QED BY <4>3, <4>4, <4>5
    <3>3. QED BY <3>1, <3>2
  <2>12. 0 \in P OBVIOUS
  <2> HIDE DEF P
  <2>13. n \in P BY <1>1, <2>11, <2>12, Induct
  <2>14. Good(n) BY <1>1, <1>3, <2>13 DEF P
  <2>15. QED BY <1>1, <2>9, <2>14
<1>4. QED BY <1>2, <1>3

----------------------------------------------------------------------------
(* Heaps without cycles, and the nodes below a node                         *)

Node == [token : Token \cup {Nil}, children : Seq(Nat), parent : Nat \cup {None},
         childIndex : {-1} \cup Nat]

Kids(h, n) == Range(h[n].children)

IsHeap(h) ==
  /\ h \in Seq(Node)
  /\ \A n \in DOMAIN h : /\ h[n].parent \in DOMAIN h \cup {None}
                         /\ \A i \in DOMAIN h[n].children : h[n].children[i] \in DOMAIN h

Acyclic(h) == \E b, rank : Descends(DOMAIN h, [n \in DOMAIN h |-> Kids(h, n)], rank, b)

Sound(h) == IsHeap(h) /\ Acyclic(h)

\* No child is a list.
NoLists(h) == \A n \in DOMAIN h : \A c \in Kids(h, n) : ~IsNil(h, c)

Closed(h, S) == S \subseteq DOMAIN h /\ \A n \in S : Kids(h, n) \subseteq S

Below(h, t) == Range(Preorder(h, t))

LEMMA HeapNodes ==
  ASSUME NEW h, IsHeap(h), NEW n \in DOMAIN h
  PROVE  /\ h[n] \in Node /\ h[n].children \in Seq(DOMAIN h)
         /\ DOMAIN h[n].children = 1 .. Len(h[n].children) /\ Len(h[n].children) \in Nat
         /\ DOMAIN h = 1 .. Len(h) /\ Len(h) \in Nat
         /\ Kids(h, n) \subseteq DOMAIN h
<1>1. h \in Seq(Node) /\ DOMAIN h = 1 .. Len(h) /\ Len(h) \in Nat BY DEF IsHeap
<1>2. h[n] \in Node BY <1>1
<1>3. h[n].children \in Seq(Nat) BY <1>2 DEF Node
<1>4. DOMAIN h[n].children = 1 .. Len(h[n].children) /\ Len(h[n].children) \in Nat BY <1>3
<1>5. \A i \in 1 .. Len(h[n].children) : h[n].children[i] \in DOMAIN h BY <1>4 DEF IsHeap
<1>6. h[n].children \in Seq(DOMAIN h) BY <1>3, <1>5
<1>7. Kids(h, n) \subseteq DOMAIN h BY <1>4, <1>5 DEF Kids, Range
<1>8. QED BY <1>1, <1>2, <1>4, <1>6, <1>7

LEMMA PreorderStep ==
  ASSUME NEW h, Sound(h)
  PROVE  \A t \in DOMAIN h :
           /\ Preorder(h, t) \in Seq(DOMAIN h)
           /\ \A x : x \in Below(h, t) <=> x = t \/ \E c \in Kids(h, t) : x \in Below(h, c)
<1> DEFINE D == DOMAIN h
           V == Seq(D)
           kids(n) == h[n].children
           parts(n, f) == [i \in DOMAIN kids(n) |-> f[kids(n)[i]]]
           body(n, f) == <<n>> \o FlattenSeq(parts(n, f))
           Equation(p) == p = [n \in D |-> body(n, p)]
           pre == CHOOSE p : Equation(p)
           under == [n \in D |-> Kids(h, n)]
<1>1. IsHeap(h) BY DEF Sound
<1>2. PICK b, rank : Descends(D, under, rank, b) BY DEF Sound, Acyclic
<1>3. \A n \in D : /\ DOMAIN kids(n) = 1 .. Len(kids(n)) /\ Len(kids(n)) \in Nat
                   /\ \A i \in DOMAIN kids(n) : kids(n)[i] \in D /\ kids(n)[i] \in under[n]
  <2>1. \A n \in D : /\ DOMAIN kids(n) = 1 .. Len(kids(n)) /\ Len(kids(n)) \in Nat
                     /\ kids(n) \in Seq(D)
    BY <1>1, HeapNodes
  <2>2. QED BY <2>1 DEF Kids, Range
<1>4. ASSUME NEW n \in D, NEW f, \A i \in DOMAIN kids(n) : f[kids(n)[i]] \in V
      PROVE  /\ parts(n, f) \in Seq(V) /\ body(n, f) \in V
             /\ \A x : x \in Range(body(n, f)) <=>
                  x = n \/ \E i \in DOMAIN kids(n) : x \in Range(f[kids(n)[i]])
  <2>1. parts(n, f) \in Seq(V) /\ DOMAIN parts(n, f) = DOMAIN kids(n) BY <1>3, <1>4
  <2>2. \A i \in DOMAIN kids(n) : parts(n, f)[i] = f[kids(n)[i]] OBVIOUS
  <2> HIDE DEF parts
  <2>3. /\ FlattenSeq(parts(n, f)) \in V
        /\ \A x : x \in Range(FlattenSeq(parts(n, f))) <=>
             \E i \in DOMAIN parts(n, f) : x \in Range(parts(n, f)[i])
    BY <2>1, Flatten
  <2>4. <<n>> \in V /\ \A x : x \in Range(<<n>>) <=> x = n BY DEF Range
  <2>5. /\ body(n, f) \in V
        /\ \A x : x \in Range(body(n, f)) <=>
             x \in Range(<<n>>) \/ x \in Range(FlattenSeq(parts(n, f)))
    BY <2>3, <2>4, RangeConcat
  <2>6. QED BY <2>1, <2>2, <2>3, <2>4, <2>5
<1>5. \A n \in D : \A f, g : (\A m \in under[n] : f[m] = g[m]) => body(n, f) = body(n, g)
  <2> SUFFICES ASSUME NEW n \in D, NEW f, NEW g, \A m \in under[n] : f[m] = g[m]
               PROVE  parts(n, f) = parts(n, g)
    OBVIOUS
  <2>1. \A i \in DOMAIN kids(n) : f[kids(n)[i]] = g[kids(n)[i]] BY <1>3
  <2>2. QED BY <2>1
<1> DEFINE F == [x \in D \X [D -> V] |-> body(x[1], x[2])]
<1>6. Equation(pre)
  <2>1. \A n \in D, f \in [D -> V] : body(n, f) \in V BY <1>3, <1>4
  <2> HIDE DEF body
  <2>2. F \in [D \X [D -> V] -> V] BY <2>1
  <2>3. \A n \in D, f \in [D -> V] : F[<<n, f>>] = body(n, f) OBVIOUS
  <2>4. <<>> \in V OBVIOUS
  <2> HIDE DEF F, V, D, under
  <2>5. LooksUnder(D, under, V, F) BY <1>5, <2>2, <2>3, <2>4 DEF LooksUnder
  <2>6. PICK g \in [D -> V] : \A n \in D : g[n] = F[<<n, g>>] BY <1>2, <2>5, Recursion
  <2>7. \A n \in D : g[n] = body(n, g) BY <2>3, <2>6
  <2>8. Equation(g) BY <2>6, <2>7
  <2>9. QED BY <2>8
<1>7. \A t : Preorder(h, t) = pre[t] BY Zenon DEF Preorder
<1> HIDE DEF pre, body
<1>8. \A n \in D : pre[n] = body(n, pre) BY <1>6
<1> HIDE DEF V
<1>9. \A n \in D : pre[n] \in V
  <2> DEFINE P == {n \in D : pre[n] \in V}
  <2>1. ASSUME NEW n \in D, \A m \in under[n] : m \in P PROVE n \in P
    <3>1. \A i \in DOMAIN kids(n) : pre[kids(n)[i]] \in V BY <1>3, <2>1
    <3>2. QED BY <1>4, <1>8, <3>1
  <2> HIDE DEF P, D, under
  <2>2. \A n \in D : n \in P BY <1>2, <2>1, UnderInduct
  <2>3. QED BY <2>2 DEF P
<1>10. ASSUME NEW t \in D
       PROVE  \A x : x \in Range(pre[t]) <=> x = t \/ \E c \in Kids(h, t) : x \in Range(pre[c])
  <2>1. \A i \in DOMAIN kids(t) : pre[kids(t)[i]] \in V BY <1>3, <1>9
  <2>2. \A x : x \in Range(pre[t]) <=> x = t \/ \E i \in DOMAIN kids(t) : x \in Range(pre[kids(t)[i]])
    BY <1>4, <1>8, <2>1
  <2>3. QED BY <2>2 DEF Kids, Range
<1>11. QED BY <1>7, <1>9, <1>10 DEF Below, V

\* The nodes below t are the least set that holds t and the children of its members.
LEMMA BelowLeast ==
  ASSUME NEW h, Sound(h), NEW S,
         \A n \in S \cap DOMAIN h : Kids(h, n) \subseteq S
  PROVE  \A t \in DOMAIN h : t \in S => Below(h, t) \subseteq S
<1> DEFINE P == {t \in DOMAIN h : t \in S => Below(h, t) \subseteq S}
           under == [n \in DOMAIN h |-> Kids(h, n)]
<1>1. PICK b, rank : Descends(DOMAIN h, under, rank, b) BY DEF Sound, Acyclic
<1>2. ASSUME NEW n \in DOMAIN h, \A m \in under[n] : m \in P PROVE n \in P
  <2>1. \A x : x \in Below(h, n) <=> x = n \/ \E c \in Kids(h, n) : x \in Below(h, c)
    BY PreorderStep
  <2>2. QED BY <1>2, <2>1
<1> HIDE DEF P, under
<1>3. \A t \in DOMAIN h : t \in P BY <1>1, <1>2, UnderInduct
<1>4. QED BY <1>3 DEF P

LEMMA BelowIsClosed ==
  ASSUME NEW h, Sound(h), NEW t \in DOMAIN h
  PROVE  t \in Below(h, t) /\ Closed(h, Below(h, t))
<1> DEFINE under == [n \in DOMAIN h |-> Kids(h, n)]
           P == {n \in DOMAIN h : Closed(h, Below(h, n))}
<1>1. PICK b, rank : Descends(DOMAIN h, under, rank, b) BY DEF Sound, Acyclic
<1>2. \A n \in DOMAIN h : \A x :
        x \in Below(h, n) <=> x = n \/ \E c \in Kids(h, n) : x \in Below(h, c)
  BY PreorderStep
<1>3. \A n \in DOMAIN h : Kids(h, n) \subseteq DOMAIN h BY HeapNodes DEF Sound
<1>4. ASSUME NEW n \in DOMAIN h, \A m \in under[n] : m \in P PROVE n \in P
  <2>1. \A c \in Kids(h, n) : c \in DOMAIN h /\ c \in Below(h, c) /\ Closed(h, Below(h, c))
    BY <1>2, <1>3, <1>4
  <2>2. Below(h, n) \subseteq DOMAIN h BY <1>2, <2>1 DEF Closed
  <2>3. ASSUME NEW x \in Below(h, n), NEW y \in Kids(h, x) PROVE y \in Below(h, n)
    <3>1. CASE x = n BY <1>2, <2>1, <2>3, <3>1
    <3>2. CASE x # n
      <4>1. PICK c \in Kids(h, n) : x \in Below(h, c) BY <1>2, <3>2
      <4>2. y \in Below(h, c) BY <2>1, <2>3, <4>1 DEF Closed
      <4>3. QED BY <1>2, <4>2
    <3>3. QED BY <3>1, <3>2
  <2>4. QED BY <2>2, <2>3 DEF Closed
<1> HIDE DEF P, under
<1>5. \A n \in DOMAIN h : n \in P BY <1>1, <1>4, UnderInduct
<1>6. QED BY <1>2, <1>5 DEF P

LEMMA BelowInside ==
  ASSUME NEW h, Sound(h), NEW S, Closed(h, S), NEW t \in S
  PROVE  Below(h, t) \subseteq S
<1>1. \A n \in S \cap DOMAIN h : Kids(h, n) \subseteq S BY DEF Closed
<1>2. t \in DOMAIN h BY DEF Closed
<1>3. QED BY <1>1, <1>2, BelowLeast

LEMMA BelowParent ==
  ASSUME NEW h, Sound(h), NEW t \in DOMAIN h, NEW n \in Below(h, t), n # t
  PROVE  \E m \in Below(h, t) : n \in Kids(h, m)
<1> DEFINE S == {t} \cup {x \in Below(h, t) : \E m \in Below(h, t) : x \in Kids(h, m)}
<1>1. t \in Below(h, t) /\ Closed(h, Below(h, t)) BY BelowIsClosed
<1>2. Closed(h, S) BY <1>1 DEF Closed
<1> HIDE DEF S
<1>3. Below(h, t) \subseteq S
  <2>1. t \in S BY DEF S
  <2>2. QED BY <1>2, <2>1, BelowInside
<1>4. QED BY <1>3 DEF S

\* No node is below its own children.
LEMMA NoCycle ==
  ASSUME NEW h, Sound(h), NEW n \in DOMAIN h, NEW c \in Kids(h, n)
  PROVE  n \notin Below(h, c)
<1>1. PICK b, rank : Descends(DOMAIN h, [x \in DOMAIN h |-> Kids(h, x)], rank, b)
  BY DEF Sound, Acyclic
<1>2. \A x \in DOMAIN h : Kids(h, x) \subseteq DOMAIN h BY HeapNodes DEF Sound
<1>3. /\ \A x \in DOMAIN h : rank[x] \in Int
      /\ \A x \in DOMAIN h : \A y \in Kids(h, x) : rank[y] < rank[x]
  <2>1. b \in Nat /\ rank \in [DOMAIN h -> 0 .. b] BY <1>1 DEF Descends
  <2>2. QED BY <1>1, <2>1 DEF Descends
<1> DEFINE S == {x \in DOMAIN h : rank[x] <= rank[c]}
<1>4. c \in S /\ n \notin S BY <1>2, <1>3
<1>5. Closed(h, S)
  <2>1. ASSUME NEW x \in S, NEW y \in Kids(h, x) PROVE y \in S
    BY <1>2, <1>3, <1>4
  <2>2. QED BY <2>1 DEF Closed
<1> HIDE DEF S
<1>6. Below(h, c) \subseteq S BY <1>4, <1>5, BelowInside
<1>7. QED BY <1>4, <1>6

----------------------------------------------------------------------------
(* Forests: the trees of some roots                                         *)

Places(h, S) ==
  \A n \in S : \A i \in DOMAIN h[n].children :
    h[h[n].children[i]].parent = n /\ h[h[n].children[i]].childIndex = i - 1

Forest(h, R) ==
  /\ R \subseteq DOMAIN h
  /\ Places(h, Live(h, R))
  /\ \A r, s \in R : r # s => Below(h, r) \cap Below(h, s) = {}

LEMMA InLive == \A h, R, x : x \in Live(h, R) <=> \E r \in R : x \in Below(h, r)
BY DEF Live, Below

LEMMA LiveClosed ==
  ASSUME NEW h, Sound(h), NEW R, R \subseteq DOMAIN h
  PROVE  Closed(h, Live(h, R)) /\ R \subseteq Live(h, R)
<1>1. \A r \in R : r \in Below(h, r) /\ Closed(h, Below(h, r)) BY BelowIsClosed
<1>2. QED BY <1>1, InLive DEF Closed

LEMMA LiveLeast ==
  ASSUME NEW h, Sound(h), NEW R, R \subseteq DOMAIN h, NEW S, R \subseteq S,
         \A n \in S \cap DOMAIN h : Kids(h, n) \subseteq S
  PROVE  Live(h, R) \subseteq S
<1>1. \A r \in R : Below(h, r) \subseteq S BY BelowLeast
<1>2. QED BY <1>1, InLive

LEMMA OneParent ==
  ASSUME NEW h, Sound(h), NEW S, Closed(h, S), Places(h, S)
  PROVE  /\ \A n, m \in S : \A c \in Kids(h, n) : c \in Kids(h, m) => n = m
         /\ \A n \in S : \A i, j \in DOMAIN h[n].children :
              h[n].children[i] = h[n].children[j] => i = j
<1>1. \A n \in S : \A c \in Kids(h, n) : h[c].parent = n BY DEF Places, Kids, Range
<1>2. ASSUME NEW n \in S, NEW i \in DOMAIN h[n].children, NEW j \in DOMAIN h[n].children,
             h[n].children[i] = h[n].children[j]
      PROVE  i = j
  <2>1. DOMAIN h[n].children = 1 .. Len(h[n].children) /\ Len(h[n].children) \in Nat
    BY HeapNodes DEF Closed, Sound
  <2>2. i - 1 = j - 1 BY <1>2 DEF Places
  <2>3. QED BY <2>1, <2>2
<1>3. QED BY <1>1, <1>2

\* Two trees neither of which is in the other have no node in common.
LEMMA Apart ==
  ASSUME NEW h, Sound(h), NEW S, Closed(h, S), Places(h, S),
         NEW c \in S, NEW d \in S, c \notin Below(h, d), d \notin Below(h, c)
  PROVE  Below(h, c) \cap Below(h, d) = {}
<1> DEFINE T == Below(h, c) \ Below(h, d)
<1>1. /\ c \in DOMAIN h /\ d \in DOMAIN h
      /\ Closed(h, Below(h, c)) /\ Closed(h, Below(h, d)) /\ c \in Below(h, c)
  BY BelowIsClosed DEF Closed
<1>2. Below(h, c) \subseteq S /\ Below(h, d) \subseteq S BY BelowInside
<1>3. ASSUME NEW n \in T, NEW m \in Kids(h, n) PROVE m \in T
  <2>1. m \in Below(h, c) BY <1>1, <1>3 DEF Closed
  <2>2. SUFFICES ASSUME m \in Below(h, d) PROVE FALSE
    BY <2>1
  <2>3. m # d BY <2>1
  <2>4. PICK k \in Below(h, d) : m \in Kids(h, k) BY <1>1, <2>2, <2>3, BelowParent
  <2>5. k = n BY <1>2, <1>3, <2>4, OneParent
  <2>6. QED BY <1>3, <2>4, <2>5
<1>4. Closed(h, T) BY <1>1, <1>3 DEF Closed
<1> HIDE DEF T
<1>5. Below(h, c) \subseteq T
  <2>1. c \in T BY <1>1 DEF T
  <2>2. QED BY <1>4, <2>1, BelowInside
<1>6. QED BY <1>5 DEF T

LEMMA SiblingsApart ==
  ASSUME NEW h, Sound(h), NEW S, Closed(h, S), Places(h, S),
         NEW n \in S, NEW c \in Kids(h, n), NEW d \in Kids(h, n), c # d
  PROVE  Below(h, c) \cap Below(h, d) = {}
<1>1. n \in DOMAIN h /\ c \in S /\ d \in S /\ c \in DOMAIN h /\ d \in DOMAIN h BY DEF Closed
<1>2. n \notin Below(h, c) /\ n \notin Below(h, d) BY <1>1, NoCycle
<1>3. Below(h, c) \subseteq S /\ Below(h, d) \subseteq S BY <1>1, BelowInside
<1>4. c \notin Below(h, d)
  <2>1. SUFFICES ASSUME c \in Below(h, d) PROVE FALSE
    OBVIOUS
  <2>2. PICK k \in Below(h, d) : c \in Kids(h, k) BY <1>1, <2>1, BelowParent
  <2>3. k = n BY <1>3, <2>2, OneParent
  <2>4. QED BY <1>2, <2>2, <2>3
<1>5. d \notin Below(h, c)
  <2>1. SUFFICES ASSUME d \in Below(h, c) PROVE FALSE
    OBVIOUS
  <2>2. PICK k \in Below(h, c) : d \in Kids(h, k) BY <1>1, <2>1, BelowParent
  <2>3. k = n BY <1>3, <2>2, OneParent
  <2>4. QED BY <1>2, <2>2, <2>3
<1>6. QED BY <1>1, <1>4, <1>5, Apart

\* A root is no child, and a child of one tree is in that tree.
LEMMA RootsOnTop ==
  ASSUME NEW h, Sound(h), NEW R, Forest(h, R)
  PROVE  \A r \in R : \A n \in Live(h, R) : r \notin Kids(h, n)
<1> SUFFICES ASSUME NEW r \in R, NEW n \in Live(h, R), r \in Kids(h, n) PROVE FALSE
  OBVIOUS
<1>1. PICK s \in R : n \in Below(h, s) BY InLive
<1>2. /\ r \in DOMAIN h /\ s \in DOMAIN h /\ r \in Below(h, r)
      /\ Closed(h, Below(h, s))
  BY BelowIsClosed DEF Forest
<1>3. r \in Below(h, s) /\ n \in DOMAIN h BY <1>1, <1>2 DEF Closed
<1>4. r = s BY <1>2, <1>3 DEF Forest
<1>5. n \notin Below(h, r) BY <1>3, NoCycle
<1>6. QED BY <1>1, <1>4, <1>5

\* Sets that hold the roots and are closed cover their trees.
Covered(h, R, A) ==
  \A r \in R : /\ r \in A[r] /\ Closed(h, A[r]) /\ Places(h, A[r])
               /\ \A s \in R : r # s => A[r] \cap A[s] = {}

LEMMA Cover ==
  ASSUME NEW h, Sound(h), NEW R, NEW A, Covered(h, R, A)
  PROVE  Forest(h, R)
<1>1. \A r \in R : r \in DOMAIN h /\ Below(h, r) \subseteq A[r]
  <2>1. \A r \in R : r \in A[r] /\ Closed(h, A[r]) BY DEF Covered
  <2>2. QED BY <2>1, BelowInside DEF Closed
<1>2. Places(h, Live(h, R)) BY <1>1, InLive DEF Covered, Places
<1>3. QED BY <1>1, <1>2 DEF Covered, Forest

----------------------------------------------------------------------------
(* A node gets other children                                               *)

\* No cycle comes about when what gets new children gets them from a closed
\* set it is not in.
LEMMA Arith ==
  \A b \in Nat : \A x, y \in 0 .. b : x < y + b + 1 /\ (x < y => x + b + 1 < y + b + 1)
OBVIOUS

LEMMA StaysAcyclic ==
  ASSUME NEW h, Acyclic(h), NEW g, DOMAIN g = DOMAIN h, NEW D,
         \A n \in DOMAIN h : Kids(g, n) \subseteq DOMAIN h,
         \A n \in DOMAIN h : n \in D => Kids(g, n) \subseteq Kids(h, n) \cap D,
         \A n \in DOMAIN h : n \notin D => Kids(g, n) \subseteq Kids(h, n) \cup D
  PROVE  Acyclic(g)
<1>1. PICK b, rank : Descends(DOMAIN h, [n \in DOMAIN h |-> Kids(h, n)], rank, b) BY DEF Acyclic
<1> DEFINE top == b + b + 1
           new == [n \in DOMAIN h |-> IF n \in D THEN rank[n] ELSE rank[n] + b + 1]
<1>2. /\ b \in Nat /\ rank \in [DOMAIN h -> 0 .. b]
      /\ \A n \in DOMAIN h : \A m \in Kids(h, n) : rank[m] < rank[n]
  BY <1>1 DEF Descends
<1>3. top \in Nat /\ \A n \in DOMAIN h : rank[n] \in 0 .. b BY <1>2
<1>4. new \in [DOMAIN h -> 0 .. top]
  <2>1. \A x \in 0 .. b : x \in 0 .. top /\ x + b + 1 \in 0 .. top BY <1>2
  <2>2. QED BY <1>3, <2>1
<1>5. ASSUME NEW n \in DOMAIN h, NEW m \in Kids(g, n) PROVE new[m] < new[n]
  <2>1. m \in DOMAIN h OBVIOUS
  <2>2. CASE n \in D
    <3>1. m \in D /\ rank[m] < rank[n] BY <1>2, <2>2
    <3>2. QED BY <2>1, <2>2, <3>1
  <2>3. CASE n \notin D /\ m \in D
    <3>1. rank[m] < rank[n] + b + 1 BY <1>2, <1>3, <2>1, Arith
    <3>2. QED BY <2>1, <2>3, <3>1
  <2>4. CASE n \notin D /\ m \notin D
    <3>1. rank[m] < rank[n] BY <1>2, <2>4
    <3>2. rank[m] + b + 1 < rank[n] + b + 1 BY <1>2, <1>3, <2>1, <3>1, Arith
    <3>3. QED BY <2>1, <2>4, <3>2
  <2>5. QED BY <2>2, <2>3, <2>4
<1> DEFINE under == [n \in DOMAIN g |-> Kids(g, n)]
<1>6. under \in [DOMAIN g -> SUBSET DOMAIN g] OBVIOUS
<1>7. Descends(DOMAIN g, under, new, top) BY <1>3, <1>4, <1>5, <1>6 DEF Descends
<1>8. QED BY <1>7 DEF Acyclic

\* The heap g is h with other children of t, which know their places.
Hung(h, g, t, kids) ==
  /\ DOMAIN g = DOMAIN h
  /\ \A n \in DOMAIN h : /\ g[n].token = h[n].token
                         /\ g[n].children = IF n = t THEN kids ELSE h[n].children
  /\ \A i \in DOMAIN kids : g[kids[i]].parent = t /\ g[kids[i]].childIndex = i - 1
  /\ \A n \in DOMAIN h : n \notin Range(kids) =>
       g[n].parent = h[n].parent /\ g[n].childIndex = h[n].childIndex

\* The trees C of the forest, or what is under them, the set G, come under t, from
\* which the children X are taken.
Moves(h, t, kids, R, C, G, X) ==
  /\ Sound(h) /\ Forest(h, R) /\ t \in Live(h, R)
  /\ C \subseteq R /\ t \notin Live(h, C) /\ G \subseteq Live(h, C)
  /\ \A x \in G : \A n \in Live(h, R) : x \in Kids(h, n) => n \in C /\ n \notin Live(h, G)
  /\ X \subseteq Kids(h, t) /\ X \cap Range(kids) = {}
  /\ Range(kids) \subseteq Kids(h, t) \cup G

LEMMA Regrafted ==
  ASSUME NEW h, NEW g, NEW t, NEW kids, NEW R, NEW C, NEW G, NEW X,
         IsHeap(g), Hung(h, g, t, kids), Moves(h, t, kids, R, C, G, X)
  PROVE  Sound(g) /\ \A Q \in SUBSET ((R \ C) \cup X) : Forest(g, Q)
<1> DEFINE L == Live(h, R)
<1> USE DEF Moves
<1>1. R \subseteq DOMAIN h /\ C \subseteq DOMAIN h BY DEF Forest
<1>2. Closed(h, L) /\ R \subseteq L /\ Closed(h, Live(h, C)) /\ C \subseteq Live(h, C)
  BY <1>1, LiveClosed
<1>3. G \subseteq DOMAIN h /\ X \subseteq DOMAIN h /\ t \in DOMAIN h /\ X \subseteq L
  BY <1>2 DEF Closed
<1>4. Closed(h, Live(h, G)) /\ G \subseteq Live(h, G) BY <1>3, LiveClosed
<1>5. Live(h, G) \subseteq Live(h, C)
  <2>1. \A n \in Live(h, C) \cap DOMAIN h : Kids(h, n) \subseteq Live(h, C) BY <1>2 DEF Closed
  <2>2. QED BY <1>3, <2>1, LiveLeast
<1>6. /\ DOMAIN g = DOMAIN h
      /\ \A n \in DOMAIN h : n # t => Kids(g, n) = Kids(h, n)
      /\ Kids(g, t) = Range(kids)
  BY <1>3 DEF Hung, Kids
<1>7. Sound(g)
  <2>1. \A n \in DOMAIN h : Kids(g, n) \subseteq DOMAIN h BY <1>6, HeapNodes
  <2>2. \A n \in DOMAIN h : n \in Live(h, C) => Kids(g, n) \subseteq Kids(h, n) \cap Live(h, C)
    BY <1>2, <1>6 DEF Closed
  <2>3. \A n \in DOMAIN h : n \notin Live(h, C) => Kids(g, n) \subseteq Kids(h, n) \cup Live(h, C)
    BY <1>6
  <2>4. Acyclic(g) BY <1>6, <2>1, <2>2, <2>3, StaysAcyclic DEF Sound
  <2>5. QED BY <2>4 DEF Sound
<1>8. PICK top \in R : t \in Below(h, top) BY InLive
<1>9. top \notin C BY <1>8, InLive
<1>10. \A r, s \in R : r # s => Below(h, r) \cap Below(h, s) = {} BY DEF Forest
<1>11. \A r \in R \cup X : /\ r \in DOMAIN h /\ r \in Below(h, r) /\ Closed(h, Below(h, r))
  BY <1>1, <1>3, BelowIsClosed
<1>12. \A r \in R : Below(h, r) \subseteq L BY InLive
<1>13. \A x \in X : Below(h, x) \subseteq Below(h, top) /\ t \notin Below(h, x)
  <2>1. \A x \in X : x \in Below(h, top) BY <1>8, <1>11 DEF Closed
  <2>2. QED BY <1>3, <1>11, <2>1, BelowInside, NoCycle
<1>14. Live(h, G) \cap Below(h, top) = {} /\ \A r \in R \ C : Live(h, G) \cap Below(h, r) = {}
  BY <1>5, <1>8, <1>9, <1>10, InLive
<1>15. R \cap Live(h, X) = {}
  <2>1. SUFFICES ASSUME NEW r \in R, NEW x \in X, r \in Below(h, x) PROVE FALSE
    BY InLive
  <2>2. \A n \in L : r \notin Kids(h, n) BY RootsOnTop
  <2>3. r # x BY <2>2
  <2>4. PICK m \in Below(h, x) : r \in Kids(h, m) BY <1>11, <2>1, <2>3, BelowParent
  <2>5. m \in L BY <1>8, <1>12, <1>13, <2>4
  <2>6. QED BY <2>2, <2>4, <2>5
<1>16. \A n, m \in L : \A c \in Kids(h, n) : c \in Kids(h, m) => n = m
  BY <1>2, OneParent DEF Forest
<1> DEFINE Main == (Below(h, top) \ Live(h, X)) \cup Live(h, G)
           A == [r \in (R \ C) \cup X |-> IF r = top THEN Main ELSE Below(h, r)]
\* Below t only its own children change.
<1>17. ASSUME NEW S, Closed(h, S), t \notin S PROVE Closed(g, S)
  BY <1>6, <1>17 DEF Closed
<1>18. ASSUME NEW S, Closed(h, S), t \notin S, S \subseteq L,
              \A n \in S : \A x \in G : x \notin Kids(h, n)
       PROVE  Places(g, S)
  <2>1. ASSUME NEW n \in S, NEW i \in DOMAIN g[n].children
        PROVE  /\ g[g[n].children[i]].parent = n
               /\ g[g[n].children[i]].childIndex = i - 1
    <3>1. n \in DOMAIN h /\ n # t /\ n \in L BY <1>18 DEF Closed
    <3>2. g[n].children = h[n].children BY <3>1 DEF Hung
    <3> DEFINE m == h[n].children[i]
    <3>3. m \in Kids(h, n) /\ m \in DOMAIN h BY <1>18, <2>1, <3>1, <3>2 DEF Kids, Range, Closed
    <3>4. m \notin Range(kids)
      <4>1. m \notin G BY <1>18, <3>3
      <4>2. m \notin Kids(h, t) BY <1>16, <3>1, <3>3
      <4>3. QED BY <4>1, <4>2
    <3>5. h[m].parent = n /\ h[m].childIndex = i - 1 BY <2>1, <3>1, <3>2 DEF Forest, Places
    <3>6. QED BY <3>2, <3>3, <3>4, <3>5 DEF Hung
  <2>2. QED BY <2>1 DEF Places
<1>19. \A r \in R \ C : r # top => t \notin Below(h, r) BY <1>8, <1>10
<1>20. \A n \in L : n \notin C => \A x \in G : x \notin Kids(h, n) OBVIOUS
<1>21. \A r \in (R \ C) \cup {top} : \A n \in Below(h, r) : n \in L /\ n \notin C
  BY <1>9, <1>10, <1>11, <1>12
<1>22. \A n \in Live(h, G) : n \in L /\ \A x \in G : x \notin Kids(h, n)
  BY <1>5, <1>12, InLive
<1>23. ASSUME NEW r \in (R \ C) \cup X
       PROVE  /\ r \in A[r] /\ Closed(g, A[r]) /\ Places(g, A[r])
  <2>1. CASE r \in R \ C /\ r # top
    <3>1. A[r] = Below(h, r) BY <2>1
    <3>2. /\ Closed(h, A[r]) /\ t \notin A[r] /\ A[r] \subseteq L /\ r \in A[r]
          /\ \A n \in A[r] : \A x \in G : x \notin Kids(h, n)
      BY <1>11, <1>12, <1>19, <1>20, <1>21, <2>1, <3>1
    <3> HIDE DEF A
    <3>3. QED BY <1>17, <1>18, <3>2
  <2>2. CASE r \in X
    <3>1. A[r] = Below(h, r) BY <1>8, <1>11, <1>13, <1>15, <2>2, InLive
    <3>2. /\ Closed(h, A[r]) /\ t \notin A[r] /\ A[r] \subseteq L /\ r \in A[r]
          /\ \A n \in A[r] : \A x \in G : x \notin Kids(h, n)
      BY <1>11, <1>13, <1>20, <1>21, <2>2, <3>1
    <3> HIDE DEF A
    <3>3. QED BY <1>17, <1>18, <3>2
  <2>3. CASE r = top
    <3>1. A[r] = Main BY <2>3
    <3>2. top \in Main BY <1>8, <1>11, <1>15
    <3>3. \A n \in Main : n \in L /\ \A x \in G : x \notin Kids(h, n)
      BY <1>20, <1>21, <1>22
    <3>4. ASSUME NEW n \in Main, NEW m \in Kids(g, n) PROVE m \in Main
      <4>1. n \in DOMAIN h BY <1>2, <3>3, <3>4 DEF Closed
      <4>2. CASE n \in Live(h, G)
        <5>1. n # t BY <1>5, <4>2
        <5>2. m \in Live(h, G) BY <1>4, <1>6, <3>4, <4>1, <4>2, <5>1 DEF Closed
        <5>3. QED BY <5>2
      <4>3. CASE n \in Below(h, top) /\ n \notin Live(h, X) /\ m \in Kids(h, n) /\ m \notin X
        <5>1. m \in Below(h, top) BY <1>8, <1>11, <4>3 DEF Closed
        <5>2. m \notin Live(h, X)
          <6>1. SUFFICES ASSUME NEW x \in X, m \in Below(h, x) PROVE FALSE
            BY InLive
          <6>2. m # x BY <4>3
          <6>3. PICK k \in Below(h, x) : m \in Kids(h, k) BY <1>11, <6>1, <6>2, BelowParent
          <6>4. k \in L /\ n \in L BY <1>12, <1>13, <4>3, <6>3, <1>8
          <6>5. k = n BY <1>16, <4>3, <6>3, <6>4
          <6>6. QED BY <4>3, <6>3, <6>5, InLive
        <5>3. QED BY <5>1, <5>2
      <4>4. CASE n \in Below(h, top) /\ n \notin Live(h, X) /\ n # t
        <5>1. m \in Kids(h, n) BY <1>6, <3>4, <4>1, <4>4
        <5>2. m \notin X BY <1>12, <1>8, <1>16, <4>4, <5>1
        <5>3. QED BY <4>3, <4>4, <5>1, <5>2
      <4>5. CASE n \in Below(h, top) /\ n \notin Live(h, X) /\ n = t
        <5>1. m \in Range(kids) BY <1>6, <3>4, <4>5
        <5>2. CASE m \in G BY <1>4, <5>2
        <5>3. CASE m \in Kids(h, t) BY <4>3, <4>5, <5>1, <5>3
        <5>4. QED BY <5>1, <5>2, <5>3
      <4>6. QED BY <3>4, <4>2, <4>4, <4>5
    <3>5. Closed(g, Main) BY <1>2, <1>6, <3>3, <3>4 DEF Closed
    <3>6. ASSUME NEW n \in Main, NEW i \in DOMAIN g[n].children
          PROVE  /\ g[g[n].children[i]].parent = n
                 /\ g[g[n].children[i]].childIndex = i - 1
      <4>1. n \in DOMAIN h /\ n \in L BY <1>2, <3>3 DEF Closed
      <4>2. CASE n = t BY <3>6, <4>1, <4>2 DEF Hung
      <4>3. CASE n # t
        <5>1. g[n].children = h[n].children BY <4>1, <4>3 DEF Hung
        <5> DEFINE m == h[n].children[i]
        <5>2. m \in Kids(h, n) /\ m \in DOMAIN h
          BY <1>2, <3>6, <4>1, <5>1 DEF Kids, Range, Closed
        <5>3. m \notin Range(kids) BY <1>16, <3>3, <4>1, <4>3, <5>2
        <5>4. h[m].parent = n /\ h[m].childIndex = i - 1 BY <3>6, <4>1, <5>1 DEF Forest, Places
        <5>5. QED BY <5>1, <5>2, <5>3, <5>4 DEF Hung
      <4>4. QED BY <4>2, <4>3
    <3>7. Places(g, Main) BY <3>6 DEF Places
    <3> HIDE DEF Main
    <3>8. QED BY <2>3, <3>1, <3>2, <3>5, <3>7
  <2>4. QED BY <2>1, <2>2, <2>3
<1>24. ASSUME NEW r \in (R \ C) \cup X, NEW s \in (R \ C) \cup X, r # s
       PROVE  A[r] \cap A[s] = {}
  <2>1. \A x \in X : x # top BY <1>8, <1>11, <1>15, InLive
  <2>2. \A x, y \in X : x # y => Below(h, x) \cap Below(h, y) = {}
    BY <1>2, SiblingsApart DEF Forest
  <2>3. \A x \in X : \A q \in R : q # top => Below(h, x) \cap Below(h, q) = {}
    BY <1>8, <1>10, <1>13
  <2>4. \A x \in X : Below(h, x) \cap Main = {} BY <1>13, <1>14, InLive
  <2>5. \A q \in R \ C : q # top => Below(h, q) \cap Main = {} BY <1>8, <1>10, <1>14
  <2>6. \A q \in (R \ C) \cup X : A[q] = IF q = top THEN Main ELSE Below(h, q) OBVIOUS
  <2> HIDE DEF A, Main
  <2>7. CASE r = top BY <1>24, <2>4, <2>5, <2>6, <2>7
  <2>8. CASE s = top BY <1>24, <2>4, <2>5, <2>6, <2>8
  <2>9. CASE r # top /\ s # top BY <1>10, <1>24, <2>1, <2>2, <2>3, <2>6, <2>9
  <2>10. QED BY <2>7, <2>8, <2>9
<1> HIDE DEF A
<1>25. ASSUME NEW Q \in SUBSET ((R \ C) \cup X) PROVE Forest(g, Q)
  <2>1. Covered(g, Q, A) BY <1>23, <1>24 DEF Covered
  <2>2. QED BY <1>7, <2>1, Cover
<1>26. QED BY <1>7, <1>25

OneToOne(kids) == \A i, j \in DOMAIN kids : kids[i] = kids[j] => i = j

LEMMA PlaceIs ==
  ASSUME NEW kids, OneToOne(kids), NEW i \in DOMAIN kids
  PROVE  Place(kids, kids[i]) = i
<1> DEFINE p == Place(kids, kids[i])
<1>1. p \in DOMAIN kids /\ kids[p] = kids[i] BY DEF Place
<1>2. QED BY <1>1 DEF OneToOne

WithKids(n, kids) == [n EXCEPT !.children = kids]
Told(n, p, i) == [n EXCEPT !.parent = p, !.childIndex = i]

LEMMA NodeWith ==
  ASSUME NEW n \in Node
  PROVE  /\ n.token \in Token \cup {Nil} /\ n.children \in Seq(Nat)
         /\ n.parent \in Nat \cup {None} /\ n.childIndex \in {-1} \cup Nat
         /\ \A kids \in Seq(Nat) :
              LET m == WithKids(n, kids)
              IN /\ m \in Node /\ m.token = n.token /\ m.children = kids
                 /\ m.parent = n.parent /\ m.childIndex = n.childIndex
         /\ \A p \in Nat \cup {None}, i \in {-1} \cup Nat :
              LET m == Told(n, p, i)
              IN /\ m \in Node /\ m.token = n.token /\ m.children = n.children
                 /\ m.parent = p /\ m.childIndex = i
<1> DEFINE S == Seq(Nat)
           P == Nat \cup {None}
           I == {-1} \cup Nat
<1>1. Node = [token : Token \cup {Nil}, children : S, parent : P, childIndex : I] BY DEF Node
<1> HIDE DEF S, P, I
<1>2. QED BY <1>1 DEF S, P, I, WithKids, Told

LEMMA ToldNode ==
  ASSUME NEW n, NEW p, NEW i, n \in Node, p \in Nat \cup {None}, i \in {-1} \cup Nat
  PROVE  LET m == Told(n, p, i)
         IN /\ m \in Node /\ m.token = n.token /\ m.children = n.children
            /\ m.parent = p /\ m.childIndex = i
BY NodeWith

LEMMA SeqOfNodes ==
  ASSUME NEW h \in Seq(Node), NEW g, DOMAIN g = DOMAIN h, g = [n \in DOMAIN h |-> g[n]],
         \A n \in DOMAIN h : g[n] \in Node
  PROVE  g \in Seq(Node)
<1>1. DOMAIN h = 1 .. Len(h) /\ Len(h) \in Nat OBVIOUS
<1>2. g \in [1 .. Len(h) -> Node] BY <1>1
<1>3. QED BY <1>1, <1>2, SeqDef

LEMMA Freshened ==
  ASSUME NEW h, IsHeap(h), NEW t \in DOMAIN h, NEW kids \in Seq(DOMAIN h), OneToOne(kids),
         NEW offset \in 0 .. Len(kids),
         \A i \in 1 .. offset : h[kids[i]].parent = t /\ h[kids[i]].childIndex = i - 1
  PROVE  LET g == Freshen([h EXCEPT ![t].children = kids], t, offset)
         IN IsHeap(g) /\ Hung(h, g, t, kids)
<1> DEFINE h1 == [h EXCEPT ![t].children = kids]
           moved == {h1[t].children[i] : i \in offset + 1 .. Len(h1[t].children)}
           told(n) == [h1[n] EXCEPT !.parent = t, !.childIndex = Place(h1[t].children, n) - 1]
           g == [n \in DOMAIN h1 |-> IF n \in moved THEN told(n) ELSE h1[n]]
<1>1. /\ h \in Seq(Node) /\ Len(h) \in Nat /\ DOMAIN h = 1 .. Len(h)
      /\ \A n \in DOMAIN h : h[n] \in Node
      /\ \A n \in DOMAIN h : h[n].children \in Seq(DOMAIN h)
  BY HeapNodes DEF IsHeap
<1>2. /\ DOMAIN h1 = DOMAIN h
      /\ \A n \in DOMAIN h : h1[n] = IF n = t THEN WithKids(h[t], kids) ELSE h[n]
  BY DEF WithKids
<1>3. /\ DOMAIN kids = 1 .. Len(kids) /\ Len(kids) \in Nat /\ kids \in Seq(Nat)
      /\ \A i \in DOMAIN kids : kids[i] \in DOMAIN h
  BY <1>1
<1>4. \A n \in DOMAIN h : /\ h1[n] \in Node /\ h1[n].token = h[n].token
                          /\ h1[n].children = (IF n = t THEN kids ELSE h[n].children)
                          /\ h1[n].parent = h[n].parent /\ h1[n].childIndex = h[n].childIndex
  <2> HIDE DEF h1
  <2>1. LET m == WithKids(h[t], kids)
        IN /\ m \in Node /\ m.token = h[t].token /\ m.children = kids
           /\ m.parent = h[t].parent /\ m.childIndex = h[t].childIndex
    BY <1>1, <1>3, NodeWith
  <2>2. QED BY <1>1, <1>2, <2>1
<1>5. moved = {kids[i] : i \in offset + 1 .. Len(kids)}
  <2>1. h1[t].children = kids BY <1>4
  <2> HIDE DEF h1
  <2>2. QED BY <2>1
<1>6. \A i \in DOMAIN kids : i \notin 1 .. offset => i \in offset + 1 .. Len(kids)
  BY <1>3
<1>7. offset + 1 .. Len(kids) \subseteq DOMAIN kids BY <1>3
<1> HIDE DEF h1, moved
<1>8. \A i \in DOMAIN kids :
        /\ kids[i] \in moved => i \in offset + 1 .. Len(kids)
        /\ Place(kids, kids[i]) = i
  BY <1>5, <1>7, PlaceIs DEF OneToOne
<1>9. \A i \in DOMAIN kids : kids[i] \in moved \/ i \in 1 .. offset BY <1>5, <1>6
<1>10. \A n \in moved : /\ n \in Range(kids) /\ n \in DOMAIN h
                        /\ Place(kids, n) - 1 \in Nat
  <2>1. \A i \in DOMAIN kids : i - 1 \in Nat BY <1>3
  <2>2. QED BY <1>3, <1>5, <1>7, <1>8, <2>1 DEF Range
<1>11. \A n \in DOMAIN h :
         /\ g[n] \in Node /\ g[n].token = h[n].token
         /\ g[n].children = (IF n = t THEN kids ELSE h[n].children)
         /\ n \in moved => g[n].parent = t /\ g[n].childIndex = Place(kids, n) - 1
         /\ n \notin moved => g[n].parent = h[n].parent /\ g[n].childIndex = h[n].childIndex
  <2>1. \A n \in DOMAIN h : n \in moved =>
          /\ told(n) \in Node /\ told(n).token = h1[n].token
          /\ told(n).children = h1[n].children
          /\ told(n).parent = t /\ told(n).childIndex = Place(kids, n) - 1
    <3>1. \A n \in moved : Place(kids, n) - 1 \in {-1} \cup Nat BY <1>10
    <3>2. t \in Nat /\ \A n \in moved : n \in DOMAIN h /\ h1[n] \in Node BY <1>1, <1>4, <1>10
    <3>3. \A n \in moved :
            told(n) = Told(h1[n], t, Place(kids, n) - 1)
      <4>1. h1[t].children = kids BY <1>4
      <4>2. QED BY <4>1 DEF Told
    <3> HIDE DEF told
    <3>4. ASSUME NEW n \in moved
          PROVE  LET m == Told(h1[n], t, Place(kids, n) - 1)
                 IN /\ m \in Node /\ m.token = h1[n].token /\ m.children = h1[n].children
                    /\ m.parent = t /\ m.childIndex = Place(kids, n) - 1
      <4> DEFINE i == Place(kids, n) - 1
      <4>1. i \in {-1} \cup Nat /\ t \in Nat \cup {None} /\ h1[n] \in Node BY <3>1, <3>2
      <4> HIDE DEF i, h1
      <4>2. QED BY <4>1, ToldNode DEF i
    <3>5. QED BY <3>3, <3>4
  <2>2. \A n \in DOMAIN h : g[n] = IF n \in moved THEN told(n) ELSE h1[n] BY <1>2
  <2> HIDE DEF g, told
  <2>3. QED BY <1>4, <2>1, <2>2
<1>12. g = Freshen(h1, t, offset) BY DEF Freshen, moved
<1>13. DOMAIN g = DOMAIN h BY <1>2
<1> HIDE DEF g
<1>14. Hung(h, g, t, kids)
  <2>1. \A i \in DOMAIN kids : g[kids[i]].parent = t /\ g[kids[i]].childIndex = i - 1
    BY <1>3, <1>8, <1>9, <1>11
  <2>2. \A n \in DOMAIN h : n \notin Range(kids) => n \notin moved BY <1>10
  <2>3. QED BY <1>11, <1>13, <2>1, <2>2 DEF Hung
<1>15. IsHeap(g)
  <2>1. g \in Seq(Node)
    <3>1. g = [n \in DOMAIN h |-> g[n]] BY <1>2 DEF g
    <3>2. QED BY <1>1, <1>11, <1>13, <3>1, SeqOfNodes
  <2>2. \A n \in DOMAIN h : g[n].parent \in DOMAIN h \cup {None} BY <1>11 DEF IsHeap
  <2>3. \A n \in DOMAIN h : \A i \in DOMAIN g[n].children : g[n].children[i] \in DOMAIN h
    BY <1>3, <1>11 DEF IsHeap
  <2>4. QED BY <1>13, <2>1, <2>2, <2>3 DEF IsHeap
<1>16. QED BY <1>12, <1>14, <1>15 DEF h1

----------------------------------------------------------------------------
(* Lists of children that are put together                                  *)

LEMMA ConcatOneToOne ==
  ASSUME NEW S, NEW s \in Seq(S), NEW t \in Seq(S), OneToOne(s), OneToOne(t),
         \A x \in Range(s) : x \notin Range(t)
  PROVE  OneToOne(s \o t)
<1>1. /\ s \o t \in Seq(S) /\ Len(s \o t) = Len(s) + Len(t)
      /\ \A i \in 1 .. Len(s) + Len(t) :
           (s \o t)[i] = IF i <= Len(s) THEN s[i] ELSE t[i - Len(s)]
  BY ConcatProperties
<1>2. /\ Len(s) \in Nat /\ Len(t) \in Nat /\ DOMAIN s = 1 .. Len(s) /\ DOMAIN t = 1 .. Len(t)
      /\ DOMAIN (s \o t) = 1 .. Len(s) + Len(t)
  BY <1>1
<1>3. \A i \in 1 .. Len(s) + Len(t) :
        \/ i \in 1 .. Len(s) /\ (s \o t)[i] = s[i]
        \/ i \notin 1 .. Len(s) /\ i - Len(s) \in 1 .. Len(t) /\ (s \o t)[i] = t[i - Len(s)]
  BY <1>1, <1>2
<1>4. ASSUME NEW i \in 1 .. Len(s) + Len(t), NEW j \in 1 .. Len(s) + Len(t),
             (s \o t)[i] = (s \o t)[j]
      PROVE  i = j
  <2>1. CASE i \in 1 .. Len(s) /\ j \in 1 .. Len(s)
    BY <1>2, <1>3, <1>4, <2>1 DEF OneToOne
  <2>2. CASE i \notin 1 .. Len(s) /\ j \notin 1 .. Len(s)
    <3>1. i - Len(s) = j - Len(s) BY <1>2, <1>3, <1>4, <2>2 DEF OneToOne
    <3>2. QED BY <1>2, <3>1
  <2>3. CASE i \in 1 .. Len(s) /\ j \notin 1 .. Len(s)
    <3>1. s[i] = t[j - Len(s)] /\ s[i] \in Range(s) /\ t[j - Len(s)] \in Range(t)
      BY <1>2, <1>3, <1>4, <2>3 DEF Range
    <3>2. QED BY <3>1
  <2>4. CASE i \notin 1 .. Len(s) /\ j \in 1 .. Len(s)
    <3>1. s[j] = t[i - Len(s)] /\ s[j] \in Range(s) /\ t[i - Len(s)] \in Range(t)
      BY <1>2, <1>3, <1>4, <2>4 DEF Range
    <3>2. QED BY <3>1
  <2>5. QED BY <2>1, <2>2, <2>3, <2>4
<1>5. QED BY <1>2, <1>4 DEF OneToOne

LEMMA SubSeqOneToOne ==
  ASSUME NEW S, NEW s \in Seq(S), OneToOne(s), NEW m \in 1 .. Len(s) + 1, NEW n \in 0 .. Len(s)
  PROVE  /\ SubSeq(s, m, n) \in Seq(S) /\ OneToOne(SubSeq(s, m, n))
         /\ \A x : x \in Range(SubSeq(s, m, n)) <=> \E i \in m .. n : x = s[i]
<1>1. m \in Int /\ n \in Int /\ Len(s) \in Nat /\ DOMAIN s = 1 .. Len(s) OBVIOUS
<1>2. \A i \in m .. n : i \in DOMAIN s /\ s[i] \in S BY <1>1
<1> DEFINE u == SubSeq(s, m, n)
<1>3. /\ u \in Seq(S) /\ Len(u) = (IF m <= n THEN n - m + 1 ELSE 0)
      /\ \A i \in 1 .. n - m + 1 : u[i] = s[m + i - 1]
  BY <1>1, <1>2, SubSeqProperties
<1> HIDE DEF u
<1>4. \A i \in DOMAIN u : m + i - 1 \in m .. n /\ u[i] = s[m + i - 1]
  <2>1. \A i \in DOMAIN u : i \in 1 .. n - m + 1 /\ m + i - 1 \in m .. n BY <1>1, <1>3
  <2>2. QED BY <1>3, <2>1
<1>5. \A i \in m .. n : i - m + 1 \in DOMAIN u /\ u[i - m + 1] = s[i]
  <2>1. \A i \in m .. n : i - m + 1 \in 1 .. n - m + 1 /\ m + (i - m + 1) - 1 = i BY <1>1
  <2>2. \A i \in m .. n : i - m + 1 \in DOMAIN u BY <1>1, <1>3
  <2>3. QED BY <1>3, <2>1, <2>2
<1>6. OneToOne(u)
  <2>1. ASSUME NEW i \in DOMAIN u, NEW j \in DOMAIN u, u[i] = u[j] PROVE i = j
    <3>1. m + i - 1 = m + j - 1 BY <1>2, <1>4, <2>1 DEF OneToOne
    <3>2. i \in Int /\ j \in Int BY <1>3
    <3>3. QED BY <1>1, <3>1, <3>2
  <2>2. QED BY <2>1 DEF OneToOne
<1>7. \A x : x \in Range(u) <=> \E i \in m .. n : x = s[i]
  <2>1. \A i \in DOMAIN u : \E j \in m .. n : u[i] = s[j] BY <1>4
  <2>2. \A j \in m .. n : \E i \in DOMAIN u : u[i] = s[j] BY <1>5
  <2>3. QED BY <2>1, <2>2 DEF Range
<1>8. QED BY <1>3, <1>6, <1>7 DEF u

Splice(kids, put, a, b) == SubSeq(kids, 1, a) \o put \o SubSeq(kids, b + 1, Len(kids))

LEMMA Spliced ==
  ASSUME NEW S, NEW kids \in Seq(S), NEW put \in Seq(S), OneToOne(kids), OneToOne(put),
         \A x \in Range(put) : x \notin Range(kids),
         NEW a \in 0 .. Len(kids), NEW b \in a .. Len(kids)
  PROVE  LET s == Splice(kids, put, a, b)
         IN /\ s \in Seq(S) /\ OneToOne(s) /\ a \in 0 .. Len(s)
            /\ \A i \in 1 .. a : s[i] = kids[i]
            /\ \A x : x \in Range(s) <=> \/ \E i \in 1 .. a : x = kids[i]
                                         \/ x \in Range(put)
                                         \/ \E i \in b + 1 .. Len(kids) : x = kids[i]
<1> DEFINE u == SubSeq(kids, 1, a)
           v == SubSeq(kids, b + 1, Len(kids))
<1>1. /\ 1 \in 1 .. Len(kids) + 1 /\ a \in 0 .. Len(kids) /\ b + 1 \in 1 .. Len(kids) + 1
      /\ Len(kids) \in 0 .. Len(kids) /\ DOMAIN kids = 1 .. Len(kids) /\ Len(kids) \in Nat
  OBVIOUS
<1>2. /\ u \in Seq(S) /\ OneToOne(u)
      /\ \A x : x \in Range(u) <=> \E i \in 1 .. a : x = kids[i]
  BY <1>1, SubSeqOneToOne
<1>3. /\ v \in Seq(S) /\ OneToOne(v)
      /\ \A x : x \in Range(v) <=> \E i \in b + 1 .. Len(kids) : x = kids[i]
  BY <1>1, SubSeqOneToOne
<1>4. /\ Len(u) = a /\ a \in Nat /\ \A i \in 1 .. a : u[i] = kids[i]
  <2>1. \A i \in 1 .. a : kids[i] \in S BY <1>1
  <2>2. /\ Len(u) = IF 1 <= a THEN a - 1 + 1 ELSE 0
        /\ \A i \in 1 .. a - 1 + 1 : u[i] = kids[1 + i - 1]
    BY <1>1, <2>1, SubSeqProperties
  <2>3. \A i \in 1 .. a : i \in 1 .. a - 1 + 1 /\ 1 + i - 1 = i BY <1>1
  <2> HIDE DEF u
  <2>4. \A i \in 1 .. a : u[i] = kids[i] BY <2>2, <2>3
  <2>5. QED BY <1>1, <2>2, <2>4
<1>5. \A i \in 1 .. a, j \in b + 1 .. Len(kids) : kids[i] # kids[j]
  <2>1. \A i \in 1 .. a, j \in b + 1 .. Len(kids) :
          i \in 1 .. Len(kids) /\ j \in 1 .. Len(kids) /\ i # j
    BY <1>1
  <2>2. QED BY <1>1, <2>1 DEF OneToOne
<1>6. \A x \in Range(put) : x \notin Range(u) /\ x \notin Range(v)
  <2>1. \A i \in 1 .. a : i \in DOMAIN kids BY <1>1
  <2>2. \A i \in b + 1 .. Len(kids) : i \in DOMAIN kids BY <1>1
  <2>3. QED BY <1>2, <1>3, <2>1, <2>2 DEF Range
<1> HIDE DEF u, v
<1> DEFINE w == u \o put
<1>7. /\ w \in Seq(S) /\ OneToOne(w)
      /\ \A x : x \in Range(w) <=> x \in Range(u) \/ x \in Range(put)
  BY <1>2, <1>6, ConcatOneToOne, RangeConcat
<1>8. Len(w) = a + Len(put) /\ \A i \in 1 .. a : i \in 1 .. Len(w) /\ w[i] = u[i]
  <2>1. /\ Len(w) = a + Len(put) /\ Len(put) \in Nat
        /\ \A i \in 1 .. a + Len(put) : w[i] = IF i <= a THEN u[i] ELSE put[i - a]
    <3>1. /\ Len(w) = Len(u) + Len(put)
          /\ \A i \in 1 .. Len(u) + Len(put) : w[i] = IF i <= Len(u) THEN u[i] ELSE put[i - Len(u)]
      BY <1>2, ConcatProperties
    <3> HIDE DEF w
    <3>2. QED BY <1>4, <3>1
  <2>2. \A i \in 1 .. a : i \in 1 .. a + Len(put) /\ i <= a BY <1>4, <2>1
  <2>3. QED BY <2>1, <2>2
<1> HIDE DEF w
<1> DEFINE s == w \o v
<1>9. /\ s \in Seq(S) /\ OneToOne(s)
      /\ \A x : x \in Range(s) <=> x \in Range(w) \/ x \in Range(v)
  <2>1. \A x \in Range(w) : x \notin Range(v) BY <1>2, <1>3, <1>5, <1>6, <1>7
  <2>2. QED BY <1>3, <1>7, <2>1, ConcatOneToOne, RangeConcat
<1>10. a \in 0 .. Len(s) /\ \A i \in 1 .. a : s[i] = w[i]
  <2>1. /\ Len(s) = Len(w) + Len(v) /\ Len(v) \in Nat /\ Len(w) \in Nat
        /\ \A i \in 1 .. Len(w) + Len(v) : s[i] = IF i <= Len(w) THEN w[i] ELSE v[i - Len(w)]
    BY <1>3, <1>7, ConcatProperties
  <2>2. Len(put) \in Nat OBVIOUS
  <2>3. \A i \in 1 .. a : i \in 1 .. Len(w) + Len(v) /\ i <= Len(w) BY <1>4, <1>8, <2>1
  <2> HIDE DEF s
  <2>4. QED BY <1>4, <1>8, <2>1, <2>2, <2>3
<1>11. s = Splice(kids, put, a, b) BY DEF Splice, u, v, w
<1> HIDE DEF s
<1>12. QED BY <1>2, <1>3, <1>4, <1>7, <1>8, <1>9, <1>10, <1>11

----------------------------------------------------------------------------
(* The operations on a tree of a forest                                     *)

\* What a tree that is put under another hands over: itself or, if it is a list,
\* its children.
Put(h, c) == IF IsNil(h, c) THEN h[c].children ELSE <<c>>
Handed(h, c) == Range(Put(h, c))

LEMMA HandedOver ==
  ASSUME NEW h, Sound(h), NEW R, Forest(h, R), NEW c \in R
  PROVE  /\ Put(h, c) \in Seq(DOMAIN h) /\ OneToOne(Put(h, c)) /\ c \in DOMAIN h
         /\ Handed(h, c) \subseteq Live(h, {c})
         /\ \A x \in Handed(h, c) : \A n \in Live(h, R) :
              x \in Kids(h, n) => n \in {c} /\ n \notin Live(h, Handed(h, c))
         /\ \A n \in Live(h, R) \ Live(h, {c}) : \A x \in Handed(h, c) : x \notin Kids(h, n)
<1>1. R \subseteq DOMAIN h /\ c \in DOMAIN h BY DEF Forest
<1>2. /\ Closed(h, Live(h, R)) /\ c \in Live(h, R)
      /\ Closed(h, Live(h, {c})) /\ c \in Live(h, {c})
  BY <1>1, LiveClosed
<1>3. CASE IsNil(h, c)
  <2>1. Put(h, c) = h[c].children /\ Handed(h, c) = Kids(h, c)
    BY <1>3 DEF Put, Handed, Kids
  <2>2. h[c].children \in Seq(DOMAIN h) BY <1>1, HeapNodes DEF Sound
  <2>3. /\ \A n, m \in Live(h, R) : \A x \in Kids(h, n) : x \in Kids(h, m) => n = m
        /\ OneToOne(h[c].children)
    BY <1>2, OneParent DEF Forest, OneToOne
  <2>4. c \notin Live(h, Kids(h, c)) BY <1>1, NoCycle, InLive
  <2>5. Kids(h, c) \subseteq Live(h, {c}) BY <1>2 DEF Closed
  <2>6. QED BY <1>1, <1>2, <2>1, <2>2, <2>3, <2>4, <2>5
<1>4. CASE ~IsNil(h, c)
  <2>1. Put(h, c) = <<c>> BY <1>4 DEF Put
  <2>2. <<c>> \in Seq(DOMAIN h) /\ OneToOne(<<c>>) /\ Range(<<c>>) = {c}
    BY <1>1 DEF OneToOne, Range
  <2>3. Handed(h, c) = {c} BY <2>1, <2>2 DEF Handed
  <2>4. \A n \in Live(h, R) : c \notin Kids(h, n) BY RootsOnTop
  <2>5. QED BY <1>1, <1>2, <2>1, <2>2, <2>3, <2>4
<1>5. QED BY <1>3, <1>4

\* Only t has other children, the set K.
Reworked(h, g, t, K) ==
  /\ DOMAIN g = DOMAIN h /\ Kids(g, t) = K
  /\ \A n \in DOMAIN h : g[n].token = h[n].token /\ (n # t => Kids(g, n) = Kids(h, n))

LEMMA Reworks ==
  ASSUME NEW h, NEW t \in DOMAIN h, NEW g, NEW kids, Hung(h, g, t, kids)
  PROVE  Reworked(h, g, t, Range(kids))
BY DEF Hung, Reworked, Kids

LEMMA HandsNoList ==
  ASSUME NEW h, Sound(h), NoLists(h), NEW c \in DOMAIN h, NEW x \in Handed(h, c)
  PROVE  x \in DOMAIN h /\ ~IsNil(h, x)
<1>1. CASE IsNil(h, c)
  <2>1. x \in Kids(h, c) BY <1>1 DEF Handed, Put, Kids
  <2>2. QED BY <2>1, HeapNodes DEF NoLists, Sound
<1>2. CASE ~IsNil(h, c)
  <2>1. x = c BY <1>2 DEF Handed, Put, Range
  <2>2. QED BY <1>2, <2>1
<1>3. QED BY <1>1, <1>2

LEMMA ReworkedListless ==
  ASSUME NEW h, Sound(h), NoLists(h), NEW t \in DOMAIN h, NEW c \in DOMAIN h, NEW g, NEW K,
         Reworked(h, g, t, K), K \subseteq Kids(h, t) \cup Handed(h, c)
  PROVE  NoLists(g)
<1>1. ASSUME NEW n \in DOMAIN g, NEW x \in Kids(g, n) PROVE ~IsNil(g, x)
  <2>1. n \in DOMAIN h /\ (x \in Kids(h, n) \/ x \in Handed(h, c)) BY <1>1 DEF Reworked
  <2>2. x \in DOMAIN h /\ ~IsNil(h, x)
    <3>1. CASE x \in Kids(h, n) BY <2>1, <3>1, HeapNodes DEF NoLists, Sound
    <3>2. CASE x \in Handed(h, c) BY <3>2, HandsNoList
    <3>3. QED BY <2>1, <3>1, <3>2
  <2>3. QED BY <2>2 DEF Reworked, IsNil
<1>2. QED BY <1>1 DEF NoLists

LEMMA KidsPlaced ==
  ASSUME NEW h, Sound(h), NEW R, Forest(h, R), NEW t \in Live(h, R)
  PROVE  /\ t \in DOMAIN h /\ h[t].children \in Seq(DOMAIN h) /\ OneToOne(h[t].children)
         /\ DOMAIN h[t].children = 1 .. Len(h[t].children) /\ Len(h[t].children) \in Nat
         /\ \A i \in DOMAIN h[t].children :
              /\ h[h[t].children[i]].parent = t /\ h[h[t].children[i]].childIndex = i - 1
              /\ h[t].children[i] \in Kids(h, t)
<1>1. Closed(h, Live(h, R)) BY LiveClosed DEF Forest
<1>2. t \in DOMAIN h BY <1>1 DEF Closed
<1>3. OneToOne(h[t].children) BY <1>1, OneParent DEF OneToOne, Forest
<1>4. QED BY <1>2, <1>3, HeapNodes DEF Sound, Forest, Places, Kids, Range

\* The trees C of the forest give the list of nodes, themselves or their children.
Offers(h, R, t, put, C) ==
  /\ C \subseteq R /\ t \notin Live(h, C)
  /\ put \in Seq(DOMAIN h) /\ OneToOne(put) /\ Range(put) \subseteq Live(h, C)
  /\ \A x \in Range(put) : \A n \in Live(h, R) :
       x \in Kids(h, n) => n \in C /\ n \notin Live(h, Range(put))

Exchange(h, t, put, a, b) ==
  Freshen([h EXCEPT ![t].children = Splice(h[t].children, put, a, b)], t, a)
Displaced(h, t, a, b) == {h[t].children[i] : i \in a + 1 .. b}

\* Children of t make place for the nodes that are offered.
LEMMA Exchanged ==
  ASSUME NEW h, Sound(h), NEW R, Forest(h, R), NEW t \in Live(h, R),
         NEW put, NEW C, Offers(h, R, t, put, C),
         NEW a \in 0 .. Len(h[t].children), NEW b \in a .. Len(h[t].children)
  PROVE  LET g == Exchange(h, t, put, a, b)
             X == Displaced(h, t, a, b)
         IN /\ Sound(g) /\ \A Q \in SUBSET ((R \ C) \cup X) : Forest(g, Q)
            /\ Reworked(h, g, t, (Kids(h, t) \ X) \cup Range(put))
<1> DEFINE old == h[t].children
           kids == Splice(old, put, a, b)
           g == Freshen([h EXCEPT ![t].children = kids], t, a)
           X == {old[i] : i \in a + 1 .. b}
           G == Range(put)
<1>1. /\ t \in DOMAIN h /\ old \in Seq(DOMAIN h) /\ OneToOne(old)
      /\ DOMAIN old = 1 .. Len(old) /\ Len(old) \in Nat
      /\ \A i \in DOMAIN old : h[old[i]].parent = t /\ h[old[i]].childIndex = i - 1
  BY KidsPlaced
<1>2. /\ put \in Seq(DOMAIN h) /\ OneToOne(put) /\ G \subseteq Live(h, C)
      /\ C \subseteq R /\ t \notin Live(h, C)
      /\ \A x \in G : \A n \in Live(h, R) : x \in Kids(h, n) => n \in C /\ n \notin Live(h, G)
      /\ \A x \in G : x \notin Kids(h, t)
  <2>1. C \subseteq Live(h, C) BY LiveClosed DEF Forest, Offers
  <2>2. QED BY <2>1 DEF Offers
<1>3. /\ Range(old) = Kids(h, t) /\ Range(put) = G
      /\ a \in 0 .. Len(old) /\ b \in a .. Len(old)
  BY DEF Kids
<1> HIDE DEF old, G
<1>4. /\ kids \in Seq(DOMAIN h) /\ OneToOne(kids) /\ a \in 0 .. Len(kids)
      /\ \A i \in 1 .. a : kids[i] = old[i]
      /\ \A x : x \in Range(kids) <=> \/ \E i \in 1 .. a : x = old[i]
                                      \/ x \in Range(put)
                                      \/ \E i \in b + 1 .. Len(old) : x = old[i]
  <2>1. \A x \in Range(put) : x \notin Range(old) BY <1>2, <1>3
  <2>2. put \in Seq(DOMAIN h) /\ OneToOne(put) BY <1>2
  <2>3. QED BY <1>1, <1>3, <2>1, <2>2, Spliced
<1>5. /\ \A i \in 1 .. a : i \in DOMAIN old /\ i \notin a + 1 .. b
      /\ \A i \in b + 1 .. Len(old) : i \in DOMAIN old /\ i \notin a + 1 .. b
      /\ \A i \in a + 1 .. b : i \in DOMAIN old
      /\ \A i \in DOMAIN old : i \in 1 .. a \/ i \in a + 1 .. b \/ i \in b + 1 .. Len(old)
  BY <1>1, <1>3
<1> HIDE DEF kids
<1>6. IsHeap(g) /\ Hung(h, g, t, kids)
  <2>1. IsHeap(h) BY DEF Sound
  <2>2. \A i \in 1 .. a : h[kids[i]].parent = t /\ h[kids[i]].childIndex = i - 1
    BY <1>1, <1>4, <1>5
  <2>3. QED BY <1>1, <1>4, <2>1, <2>2, Freshened
<1>7. Range(kids) = (Kids(h, t) \ X) \cup G
  <2>1. \A x : x \in Kids(h, t) <=> \E i \in DOMAIN old : x = old[i] BY <1>3 DEF Range
  <2>2. \A i, j \in DOMAIN old : old[i] = old[j] => i = j BY <1>1 DEF OneToOne
  <2>3. \A x : x \in Range(kids) <=> x \in (Kids(h, t) \ X) \cup G
    BY <1>3, <1>4, <1>5, <2>1, <2>2
  <2>4. QED BY <2>3
<1>8. X \subseteq Kids(h, t) BY <1>3, <1>5 DEF Range
<1>9. X \cap Range(kids) = {} BY <1>2, <1>7, <1>8
<1> HIDE DEF X, g
<1>10. Moves(h, t, kids, R, C, G, X) BY <1>2, <1>7, <1>8, <1>9 DEF Moves
<1>11. Sound(g) /\ \A Q \in SUBSET ((R \ C) \cup X) : Forest(g, Q)
  BY <1>6, <1>10, Regrafted
<1>12. Reworked(h, g, t, (Kids(h, t) \ X) \cup G)
  <2>1. Reworked(h, g, t, Range(kids)) BY <1>1, <1>6, Reworks
  <2>2. QED BY <1>7, <2>1
<1>13. QED BY <1>11, <1>12 DEF g, X, kids, G, old, Exchange, Displaced

LEMMA OffersTree ==
  ASSUME NEW h, Sound(h), NEW R, Forest(h, R), NEW c \in R, NEW t, t \notin Live(h, {c})
  PROVE  Offers(h, R, t, Put(h, c), {c})
BY HandedOver DEF Offers, Handed

LEMMA OffersNothing == \A h, R, t : Offers(h, R, t, <<>>, {})
<1>1. \A S : <<>> \in Seq(S) OBVIOUS
<1>2. Range(<<>>) = {} /\ OneToOne(<<>>) BY DEF Range, OneToOne
<1>3. \A h : Live(h, {}) = {} BY InLive
<1>4. QED BY <1>1, <1>2, <1>3 DEF Offers

LEMMA AddedChild ==
  ASSUME NEW h, Sound(h), NEW R, Forest(h, R), NEW t \in Live(h, R), NEW c \in R,
         t \notin Live(h, {c})
  PROVE  LET g == AddChild(h, t, c)
         IN /\ Sound(g) /\ \A Q \in SUBSET (R \ {c}) : Forest(g, Q)
            /\ Reworked(h, g, t, Kids(h, t) \cup Handed(h, c))
<1> DEFINE old == h[t].children
           n == Len(old)
           X == Displaced(h, t, n, n)
           g == Exchange(h, t, Put(h, c), n, n)
<1>1. old \in Seq(DOMAIN h) /\ n \in Nat /\ t \in DOMAIN h BY KidsPlaced
<1>2. X = {} /\ n \in 0 .. n /\ n \in n .. n BY <1>1 DEF Displaced
<1>3. Put(h, c) \in Seq(DOMAIN h) BY HandedOver
<1>4. Splice(old, Put(h, c), n, n) = old \o Put(h, c)
  <2>1. SubSeq(old, 1, n) = old BY <1>1, SubSeqFull
  <2>2. SubSeq(old, n + 1, n) = <<>> BY <1>1, SubSeqEmpty
  <2>3. old \o Put(h, c) \in Seq(DOMAIN h) BY <1>1, <1>3, ConcatProperties
  <2>4. (old \o Put(h, c)) \o <<>> = old \o Put(h, c) BY <2>3, ConcatEmptySeq
  <2>5. QED BY <2>1, <2>2, <2>4 DEF Splice
<1>5. AddChild(h, t, c) = g BY <1>4 DEF AddChild, Put, Exchange
<1>6. Offers(h, R, t, Put(h, c), {c}) BY OffersTree
<1>7. /\ Sound(g) /\ \A Q \in SUBSET ((R \ {c}) \cup X) : Forest(g, Q)
      /\ Reworked(h, g, t, (Kids(h, t) \ X) \cup Range(Put(h, c)))
  BY <1>2, <1>6, Exchanged
<1> HIDE DEF g, X
<1>8. (Kids(h, t) \ X) \cup Range(Put(h, c)) = Kids(h, t) \cup Handed(h, c) BY <1>2 DEF Handed
<1>9. (R \ {c}) \cup X = R \ {c} BY <1>2
<1>10. QED BY <1>5, <1>7, <1>8, <1>9 DEF g

LEMMA ReplacedChildren ==
  ASSUME NEW h, Sound(h), NEW R, Forest(h, R), NEW t \in Live(h, R), NEW c \in R,
         t \notin Live(h, {c}),
         NEW start \in 0 .. Len(h[t].children) - 1, NEW stop \in start .. Len(h[t].children) - 1
  PROVE  LET g == ReplaceChildren(h, t, start, stop, c)
             X == Displaced(h, t, start, stop + 1)
         IN /\ Sound(g) /\ \A Q \in SUBSET ((R \ {c}) \cup X) : Forest(g, Q)
            /\ Reworked(h, g, t, (Kids(h, t) \ X) \cup Handed(h, c))
<1>1. Len(h[t].children) \in Nat BY KidsPlaced
<1>2. /\ start \in 0 .. Len(h[t].children) /\ stop + 1 \in start .. Len(h[t].children)
      /\ (stop + 1) + 1 = stop + 2
  BY <1>1
<1>3. Offers(h, R, t, Put(h, c), {c}) BY OffersTree
<1> DEFINE g == Exchange(h, t, Put(h, c), start, stop + 1)
           X == Displaced(h, t, start, stop + 1)
<1>4. g = ReplaceChildren(h, t, start, stop, c)
  BY <1>2 DEF ReplaceChildren, Exchange, Splice, Put
<1>5. /\ Sound(g) /\ \A Q \in SUBSET ((R \ {c}) \cup X) : Forest(g, Q)
      /\ Reworked(h, g, t, (Kids(h, t) \ X) \cup Range(Put(h, c)))
  BY <1>2, <1>3, Exchanged
<1> HIDE DEF g, X
<1>6. QED BY <1>4, <1>5 DEF Handed, X

LEMMA DeletedChild ==
  ASSUME NEW h, Sound(h), NEW R, Forest(h, R), NEW t \in Live(h, R),
         NEW i \in 0 .. Len(h[t].children) - 1
  PROVE  LET g == DeleteChild(h, t, i)
             X == {h[t].children[i + 1]}
         IN /\ Sound(g) /\ \A Q \in SUBSET (R \cup X) : Forest(g, Q)
            /\ Reworked(h, g, t, Kids(h, t) \ X)
<1> DEFINE old == h[t].children
           Y == Displaced(h, t, i, i + 1)
           X == {old[i + 1]}
           g == Exchange(h, t, <<>>, i, i + 1)
<1>1. old \in Seq(DOMAIN h) /\ Len(old) \in Nat /\ DOMAIN old = 1 .. Len(old) BY KidsPlaced
<1>2. /\ i \in 0 .. Len(old) /\ i + 1 \in i .. Len(old)
      /\ (i + 1) + 1 = i + 2 /\ (i + 1) - 1 = i
      /\ \A j \in i + 1 .. i + 1 : j = i + 1
  BY <1>1
<1>3. Y = X BY <1>2 DEF Displaced
<1>4. Offers(h, R, t, <<>>, {}) BY OffersNothing
<1>5. /\ Sound(g) /\ \A Q \in SUBSET ((R \ {}) \cup Y) : Forest(g, Q)
      /\ Reworked(h, g, t, (Kids(h, t) \ Y) \cup Range(<<>>))
  BY <1>2, <1>4, Exchanged
<1>6. g = DeleteChild(h, t, i)
  <2>1. RemoveAt(old, i + 1) = Splice(old, <<>>, i, i + 1)
    <3>1. SubSeq(old, 1, i) \in Seq(DOMAIN h)
      <4>1. \A j \in 1 .. i : old[j] \in DOMAIN h BY <1>1
      <4>2. QED BY <4>1, SubSeqProperties
    <3>2. SubSeq(old, 1, i) \o <<>> = SubSeq(old, 1, i) BY <3>1, ConcatEmptySeq
    <3>3. QED BY <1>2, <3>2 DEF RemoveAt, Splice
  <2>2. QED BY <2>1 DEF DeleteChild, Exchange
<1> HIDE DEF g, Y, X
<1>7. (R \ {}) \cup Y = R \cup X /\ (Kids(h, t) \ Y) \cup Range(<<>>) = Kids(h, t) \ X
  BY <1>3 DEF Range
<1>8. QED BY <1>5, <1>6, <1>7 DEF X

LEMMA ExchangedOne ==
  ASSUME NEW h, Sound(h), NEW R, Forest(h, R), NEW t \in Live(h, R), NEW c \in R,
         ~IsNil(h, c), t \notin Live(h, {c}), NEW i \in 0 .. Len(h[t].children) - 1
  PROVE  LET g == SetChild(h, t, i, c)
             X == {h[t].children[i + 1]}
         IN /\ Sound(g) /\ \A Q \in SUBSET ((R \ {c}) \cup X) : Forest(g, Q)
            /\ Reworked(h, g, t, (Kids(h, t) \ X) \cup {c})
<1> DEFINE old == h[t].children
           kids == [old EXCEPT ![i + 1] = c]
           h1 == [h EXCEPT ![t].children[i + 1] = c]
           g == [h1 EXCEPT ![c].parent = t, ![c].childIndex = i]
           X == {old[i + 1]}
<1>1. /\ t \in DOMAIN h /\ old \in Seq(DOMAIN h) /\ OneToOne(old)
      /\ DOMAIN old = 1 .. Len(old) /\ Len(old) \in Nat
      /\ \A j \in DOMAIN old : h[old[j]].parent = t /\ h[old[j]].childIndex = j - 1
      /\ \A j \in DOMAIN old : old[j] \in Kids(h, t)
  BY KidsPlaced
<1>2. /\ h \in Seq(Node) /\ \A n \in DOMAIN h : h[n] \in Node
      /\ \A n \in DOMAIN h : h[n].children \in Seq(DOMAIN h)
      /\ DOMAIN h \subseteq Nat
  BY HeapNodes DEF IsHeap, Sound
<1>3. c \in DOMAIN h /\ c \in Live(h, {c}) BY LiveClosed DEF Forest
<1>4. c # t /\ c \notin Kids(h, t) /\ \A n \in Live(h, R) : c \notin Kids(h, n)
  BY <1>3, RootsOnTop
<1>5. i + 1 \in DOMAIN old /\ i \in Nat /\ (i + 1) - 1 = i BY <1>1
<1>6. /\ kids \in Seq(DOMAIN h) /\ kids \in Seq(Nat) /\ DOMAIN kids = DOMAIN old
      /\ \A j \in DOMAIN old : kids[j] = IF j = i + 1 THEN c ELSE old[j]
  <2>1. DOMAIN kids = DOMAIN old /\ \A j \in DOMAIN old : kids[j] = IF j = i + 1 THEN c ELSE old[j]
    BY <1>5
  <2>2. kids \in Seq(DOMAIN h)
    <3>1. kids \in [1 .. Len(old) -> DOMAIN h] BY <1>1, <1>3, <2>1
    <3>2. QED BY <1>1, <3>1, SeqDef
  <2> HIDE DEF kids
  <2>3. kids \in Seq(Nat)
    <3>1. \A j \in 1 .. Len(kids) : kids[j] \in Nat BY <1>2, <2>2
    <3>2. QED BY <2>2, <3>1
  <2>4. QED BY <2>1, <2>2, <2>3
<1> HIDE DEF kids
<1>7. /\ DOMAIN g = DOMAIN h
      /\ \A n \in DOMAIN h : g[n] = IF n = t THEN WithKids(h[t], kids)
                                    ELSE IF n = c THEN Told(h[c], t, i) ELSE h[n]
  <2>1. /\ DOMAIN h1 = DOMAIN h
        /\ \A n \in DOMAIN h : h1[n] = IF n = t THEN WithKids(h[t], kids) ELSE h[n]
    BY DEF WithKids, kids
  <2> HIDE DEF h1
  <2>2. DOMAIN g = DOMAIN h /\ \A n \in DOMAIN h : g[n] = IF n = c THEN Told(h1[c], t, i) ELSE h1[n]
    BY <1>3, <2>1 DEF Told
  <2>3. QED BY <1>3, <1>4, <2>1, <2>2
<1>8. g = SetChild(h, t, i, c) BY DEF SetChild
<1>9. g = [n \in DOMAIN h |-> g[n]] OBVIOUS
<1> HIDE DEF g
<1>10. /\ WithKids(h[t], kids) \in Node /\ WithKids(h[t], kids).token = h[t].token
       /\ WithKids(h[t], kids).children = kids
       /\ WithKids(h[t], kids).parent = h[t].parent
       /\ WithKids(h[t], kids).childIndex = h[t].childIndex
  BY <1>1, <1>2, <1>6, NodeWith
<1>11. /\ Told(h[c], t, i) \in Node /\ Told(h[c], t, i).token = h[c].token
       /\ Told(h[c], t, i).children = h[c].children
       /\ Told(h[c], t, i).parent = t /\ Told(h[c], t, i).childIndex = i
  <2>1. t \in Nat \cup {None} /\ i \in {-1} \cup Nat /\ h[c] \in Node BY <1>1, <1>2, <1>3, <1>5
  <2>2. QED BY <2>1, ToldNode
<1>12. \A n \in DOMAIN h :
         /\ g[n] \in Node /\ g[n].token = h[n].token
         /\ g[n].children = (IF n = t THEN kids ELSE h[n].children)
         /\ n # c => g[n].parent = h[n].parent /\ g[n].childIndex = h[n].childIndex
         /\ n = c => g[n].parent = t /\ g[n].childIndex = i
  BY <1>2, <1>4, <1>7, <1>10, <1>11
<1>13. IsHeap(g)
  <2>1. g \in Seq(Node) BY <1>2, <1>7, <1>9, <1>12, SeqOfNodes
  <2>2. \A n \in DOMAIN h : g[n].parent \in DOMAIN h \cup {None} BY <1>1, <1>12 DEF IsHeap, Sound
  <2>3. \A n \in DOMAIN h : \A j \in DOMAIN g[n].children : g[n].children[j] \in DOMAIN h
    <3>1. \A j \in DOMAIN kids : kids[j] \in DOMAIN h BY <1>6
    <3>2. QED BY <1>12, <3>1 DEF IsHeap, Sound
  <2>4. QED BY <1>7, <2>1, <2>2, <2>3 DEF IsHeap
<1>14. Hung(h, g, t, kids)
  <2>1. ASSUME NEW j \in DOMAIN kids
        PROVE  g[kids[j]].parent = t /\ g[kids[j]].childIndex = j - 1
    <3>1. CASE j = i + 1 BY <1>3, <1>5, <1>6, <1>12, <3>1
    <3>2. CASE j # i + 1
      <4>1. kids[j] = old[j] /\ old[j] # c /\ old[j] \in DOMAIN h
        BY <1>1, <1>4, <1>6, <3>2
      <4>2. QED BY <1>1, <1>6, <1>12, <4>1
    <3>3. QED BY <3>1, <3>2
  <2>2. c \in Range(kids) BY <1>5, <1>6 DEF Range
  <2>3. QED BY <1>7, <1>12, <2>1, <2>2 DEF Hung
<1>15. Range(kids) = (Kids(h, t) \ X) \cup {c}
  <2>1. \A x : x \in Kids(h, t) <=> \E j \in DOMAIN old : x = old[j] BY DEF Kids, Range
  <2>2. \A x : x \in Range(kids) <=> \E j \in DOMAIN old : x = kids[j] BY <1>6 DEF Range
  <2>3. \A j, k \in DOMAIN old : old[j] = old[k] => j = k BY <1>1 DEF OneToOne
  <2> HIDE DEF old
  <2>4. \A x : x \in Range(kids) <=> x \in (Kids(h, t) \ X) \cup {c}
    BY <1>5, <1>6, <2>1, <2>2, <2>3
  <2>5. QED BY <2>4
<1>16. Moves(h, t, kids, R, {c}, {c}, X)
  <2>1. X \subseteq Kids(h, t) BY <1>1, <1>5
  <2>2. X \cap Range(kids) = {} BY <1>4, <1>15, <2>1
  <2>3. QED BY <1>3, <1>4, <1>15, <2>1, <2>2 DEF Moves
<1> HIDE DEF X
<1>17. Sound(g) /\ \A Q \in SUBSET ((R \ {c}) \cup X) : Forest(g, Q)
  BY <1>13, <1>14, <1>16, Regrafted
<1>18. Reworked(h, g, t, Range(kids)) BY <1>1, <1>14, Reworks
<1>19. QED BY <1>8, <1>15, <1>17, <1>18 DEF X

\* A list that is a root may be dropped for one of its children.
LEMMA Unwrapped ==
  ASSUME NEW h, Sound(h), NEW R, Forest(h, R), NEW t \in R, NEW x \in Kids(h, t)
  PROVE  Forest(h, (R \ {t}) \cup {x})
<1> DEFINE Q == (R \ {t}) \cup {x}
<1>1. /\ R \subseteq DOMAIN h /\ t \in Below(h, t) /\ Closed(h, Below(h, t))
  BY BelowIsClosed DEF Forest
<1>2. x \in Below(h, t) /\ x \in DOMAIN h BY <1>1 DEF Closed
<1>3. Below(h, x) \subseteq Below(h, t) BY <1>1, <1>2, BelowInside
<1>4. Live(h, Q) \subseteq Live(h, R) BY <1>3, InLive
<1>5. Places(h, Live(h, Q)) BY <1>4 DEF Places, Forest
<1>6. \A r, s \in Q : r # s => Below(h, r) \cap Below(h, s) = {}
  <2>1. \A r \in R \ {t} : Below(h, r) \cap Below(h, x) = {} BY <1>3 DEF Forest
  <2>2. QED BY <2>1 DEF Forest
<1>7. QED BY <1>1, <1>2, <1>5, <1>6 DEF Forest

\* A root may forget where it was.
LEMMA Detached ==
  ASSUME NEW h, Sound(h), NEW R, Forest(h, R), NEW r \in R
  PROVE  LET g == [h EXCEPT ![r].parent = None, ![r].childIndex = -1]
         IN /\ Sound(g) /\ Forest(g, R) /\ DOMAIN g = DOMAIN h
            /\ \A n \in DOMAIN h : Kids(g, n) = Kids(h, n) /\ g[n].token = h[n].token
<1> DEFINE g == [h EXCEPT ![r].parent = None, ![r].childIndex = -1]
<1>1. /\ h \in Seq(Node) /\ \A n \in DOMAIN h : h[n] \in Node
      /\ r \in DOMAIN h
  BY HeapNodes DEF IsHeap, Sound, Forest
<1>2. /\ DOMAIN g = DOMAIN h /\ g = [n \in DOMAIN h |-> g[n]]
      /\ \A n \in DOMAIN h : g[n] = IF n = r THEN Told(h[r], None, -1) ELSE h[n]
  BY <1>1 DEF Told
<1> HIDE DEF g
<1>3. /\ Told(h[r], None, -1) \in Node /\ Told(h[r], None, -1).token = h[r].token
      /\ Told(h[r], None, -1).children = h[r].children
      /\ Told(h[r], None, -1).parent = None /\ Told(h[r], None, -1).childIndex = -1
  <2>1. None \in Nat \cup {None} /\ -1 \in {-1} \cup Nat OBVIOUS
  <2>2. QED BY <1>1, <2>1, ToldNode
<1>4. \A n \in DOMAIN h :
        /\ g[n] \in Node /\ g[n].token = h[n].token /\ g[n].children = h[n].children
        /\ g[n].parent \in {h[n].parent, None}
        /\ n # r => g[n].parent = h[n].parent /\ g[n].childIndex = h[n].childIndex
  BY <1>1, <1>2, <1>3
<1>5. \A n \in DOMAIN h : Kids(g, n) = Kids(h, n) BY <1>4 DEF Kids
<1>6. IsHeap(g)
  <2>1. g \in Seq(Node) BY <1>1, <1>2, <1>4, SeqOfNodes
  <2>2. QED BY <1>2, <1>4, <2>1 DEF IsHeap, Sound
<1>7. Sound(g)
  <2>1. \A n \in DOMAIN h : Kids(g, n) \subseteq DOMAIN h BY <1>2, <1>6, HeapNodes
  <2>2. Acyclic(g)
    <3>1. \A n \in DOMAIN h : n \in {} => Kids(g, n) \subseteq Kids(h, n) \cap {} OBVIOUS
    <3>2. \A n \in DOMAIN h : n \notin {} => Kids(g, n) \subseteq Kids(h, n) \cup {} BY <1>5
    <3>3. QED BY <1>2, <2>1, <3>1, <3>2, StaysAcyclic DEF Sound
  <2>3. QED BY <1>6, <2>2 DEF Sound
<1> DEFINE A == [q \in R |-> Below(h, q)]
<1>8. ASSUME NEW q \in R PROVE q \in A[q] /\ Closed(g, A[q]) /\ Places(g, A[q])
  <2>1. q \in Below(h, q) /\ Closed(h, Below(h, q)) /\ Below(h, q) \subseteq Live(h, R)
    BY BelowIsClosed, InLive DEF Forest
  <2>2. Closed(g, Below(h, q)) BY <1>2, <1>5, <2>1 DEF Closed
  <2>3. \A n \in Live(h, R) : r \notin Kids(h, n) BY RootsOnTop
  <2>4. ASSUME NEW n \in Below(h, q), NEW i \in DOMAIN g[n].children
        PROVE  /\ g[g[n].children[i]].parent = n
               /\ g[g[n].children[i]].childIndex = i - 1
    <3>1. n \in DOMAIN h /\ g[n].children = h[n].children BY <1>4, <2>1, <2>4 DEF Closed
    <3>2. h[n].children[i] \in Kids(h, n) BY <2>4, <3>1 DEF Kids, Range
    <3>3. h[n].children[i] # r /\ h[n].children[i] \in DOMAIN h
      BY <2>1, <2>3, <2>4, <3>2 DEF Closed
    <3>4. h[h[n].children[i]].parent = n /\ h[h[n].children[i]].childIndex = i - 1
      BY <2>1, <2>4, <3>1 DEF Forest, Places
    <3>5. QED BY <1>4, <3>1, <3>3, <3>4
  <2>5. QED BY <2>1, <2>2, <2>4 DEF Places
<1>9. \A q, s \in R : q # s => A[q] \cap A[s] = {} BY DEF Forest
<1> HIDE DEF A
<1>10. Covered(g, R, A) BY <1>8, <1>9 DEF Covered
<1>11. Forest(g, R) BY <1>7, <1>10, Cover
<1>12. QED BY <1>2, <1>4, <1>5, <1>7, <1>11 DEF g

----------------------------------------------------------------------------
(* New nodes                                                                *)

\* The nodes that g has more than h are a tree whose root comes first.
Grows(h, g) ==
  /\ g \in Seq(Node) /\ Len(h) + 1 \in DOMAIN g
  /\ \A n \in DOMAIN h : n \in DOMAIN g /\ g[n] = h[n]
  /\ \A n \in DOMAIN g \ DOMAIN h :
       /\ g[n].parent \in DOMAIN g \cup {None}
       /\ \A i \in DOMAIN g[n].children :
            LET c == g[n].children[i]
            IN c \in n + 1 .. Len(g) /\ g[c].parent = n /\ g[c].childIndex = i - 1

LEMMA GrownHeap ==
  ASSUME NEW h, Sound(h), NEW R, Forest(h, R), NEW g, Grows(h, g)
  PROVE  /\ Sound(g) /\ Forest(g, R \cup {Len(h) + 1})
         /\ Len(h) + 1 \notin DOMAIN h /\ DOMAIN h \subseteq DOMAIN g
         /\ \A n \in DOMAIN h : g[n] = h[n] /\ Kids(g, n) = Kids(h, n)
<1> DEFINE N == DOMAIN g \ DOMAIN h
           new == Len(h) + 1
<1>1. /\ DOMAIN h = 1 .. Len(h) /\ Len(h) \in Nat
      /\ DOMAIN g = 1 .. Len(g) /\ Len(g) \in Nat
      /\ \A n \in DOMAIN g : g[n] \in Node /\ g[n].children \in Seq(Nat)
  <2>1. h \in Seq(Node) /\ g \in Seq(Node) BY DEF Sound, IsHeap, Grows
  <2>2. \A n \in DOMAIN g : g[n] \in Node BY <2>1
  <2>3. \A n \in Node : n.children \in Seq(Nat) BY NodeWith
  <2>4. QED BY <2>1, <2>2, <2>3
<1>2. new \in N /\ \A n \in N : n \in Nat /\ 1 <= n /\ n <= Len(g) BY <1>1 DEF Grows
<1>3. \A n \in DOMAIN h : n \in DOMAIN g /\ g[n] = h[n] /\ Kids(g, n) = Kids(h, n)
  BY DEF Grows, Kids
<1>4. \A n \in N : \A m \in Kids(g, n) : m \in n + 1 .. Len(g) /\ m \in N
  <2>1. \A n \in N : \A m \in Kids(g, n) : m \in n + 1 .. Len(g) BY DEF Grows, Kids, Range
  <2>2. \A n \in N : \A m \in n + 1 .. Len(g) : m \in N BY <1>1
  <2>3. QED BY <2>1, <2>2
<1>5. IsHeap(g)
  <2>1. \A n \in DOMAIN h : /\ g[n].parent \in DOMAIN g \cup {None}
                            /\ \A i \in DOMAIN g[n].children : g[n].children[i] \in DOMAIN g
    BY <1>3 DEF Sound, IsHeap
  <2>2. \A n \in N : /\ g[n].parent \in DOMAIN g \cup {None}
                     /\ \A i \in DOMAIN g[n].children : g[n].children[i] \in DOMAIN g
    <3>1. \A n \in N : g[n].parent \in DOMAIN g \cup {None} BY DEF Grows
    <3>2. \A n \in N : \A i \in DOMAIN g[n].children : g[n].children[i] \in Kids(g, n)
      BY DEF Kids, Range
    <3>3. QED BY <1>4, <3>1, <3>2
  <2>3. QED BY <2>1, <2>2 DEF IsHeap, Grows
<1> HIDE DEF N
<1>6. DOMAIN g = DOMAIN h \cup N /\ N \cap DOMAIN h = {} BY <1>3 DEF N
<1>7. \A n \in DOMAIN h : Kids(h, n) \subseteq DOMAIN h BY HeapNodes DEF Sound
<1>8. Acyclic(g)
  <2>1. PICK b, rank : Descends(DOMAIN h, [n \in DOMAIN h |-> Kids(h, n)], rank, b)
    BY DEF Sound, Acyclic
  <2>2. /\ b \in Nat /\ rank \in [DOMAIN h -> 0 .. b]
        /\ \A n \in DOMAIN h : \A m \in Kids(h, n) : rank[m] < rank[n]
    BY <2>1 DEF Descends
  <2> DEFINE wider == [n \in DOMAIN g |-> IF n \in DOMAIN h THEN rank[n] ELSE Len(g) - n]
             top == b + Len(g)
             under == [n \in DOMAIN g |-> Kids(g, n)]
  <2>3. \A n \in N : n \in Nat /\ 1 <= n /\ n <= Len(g) BY <1>2
  <2>4. wider \in [DOMAIN g -> 0 .. top]
    <3>1. \A n \in N : Len(g) - n \in 0 .. top BY <1>1, <2>2, <2>3
    <3>2. \A n \in DOMAIN h : rank[n] \in 0 .. top
      <4>1. \A n \in DOMAIN h : rank[n] \in 0 .. b BY <2>2
      <4>2. \A x \in 0 .. b : x \in 0 .. top BY <1>1, <2>2
      <4>3. QED BY <4>1, <4>2
    <3>3. QED BY <1>6, <3>1, <3>2
  <2>5. \A n \in DOMAIN g : \A m \in Kids(g, n) : m \in DOMAIN g /\ wider[m] < wider[n]
    <3>1. ASSUME NEW n \in DOMAIN h, NEW m \in Kids(g, n)
          PROVE  m \in DOMAIN g /\ wider[m] < wider[n]
      BY <1>3, <1>6, <1>7, <2>2, <3>1
    <3>2. ASSUME NEW n \in N, NEW m \in Kids(g, n)
          PROVE  m \in DOMAIN g /\ wider[m] < wider[n]
      <4>1. m \in n + 1 .. Len(g) /\ m \in N BY <1>4, <3>2
      <4>2. Len(g) - m < Len(g) - n BY <1>1, <2>3, <4>1
      <4>3. QED BY <1>6, <4>1, <4>2
    <3>3. QED BY <1>6, <3>1, <3>2
  <2>6. top \in Nat BY <1>1, <2>2
  <2> HIDE DEF wider, top
  <2>7. Descends(DOMAIN g, under, wider, top) BY <2>4, <2>5, <2>6 DEF Descends
  <2>8. QED BY <2>7 DEF Acyclic
<1>9. Sound(g) BY <1>5, <1>8 DEF Sound
<1> DEFINE Q == R \cup {new}
           A == [q \in Q |-> IF q = new THEN N ELSE Below(h, q)]
<1>10. R \subseteq DOMAIN h BY DEF Forest
<1>11. Closed(g, N) /\ Places(g, N)
  <2>1. Closed(g, N) BY <1>4, <1>6 DEF Closed
  <2>2. Places(g, N) BY DEF Grows, Places, N
  <2>3. QED BY <2>1, <2>2
<1>12. ASSUME NEW q \in R
       PROVE  /\ q \in Below(h, q) /\ Closed(g, Below(h, q)) /\ Places(g, Below(h, q))
              /\ Below(h, q) \cap N = {}
  <2>1. q \in Below(h, q) /\ Closed(h, Below(h, q)) BY <1>10, BelowIsClosed
  <2>2. Closed(g, Below(h, q)) BY <1>3, <1>6, <2>1 DEF Closed
  <2>3. Below(h, q) \subseteq Live(h, R) BY InLive
  <2>4. ASSUME NEW n \in Below(h, q), NEW i \in DOMAIN g[n].children
        PROVE  /\ g[g[n].children[i]].parent = n
               /\ g[g[n].children[i]].childIndex = i - 1
    <3>1. n \in DOMAIN h /\ g[n].children = h[n].children BY <1>3, <2>1, <2>4 DEF Closed
    <3>2. h[n].children[i] \in DOMAIN h BY <2>4, <3>1 DEF Sound, IsHeap
    <3>3. h[h[n].children[i]].parent = n /\ h[h[n].children[i]].childIndex = i - 1
      BY <2>3, <2>4, <3>1 DEF Forest, Places
    <3>4. QED BY <1>3, <3>1, <3>2, <3>3
  <2>5. QED BY <1>6, <2>1, <2>2, <2>4 DEF Places, Closed
<1>13. new \notin R BY <1>2, <1>6, <1>10
<1>14. \A q \in Q : A[q] = IF q = new THEN N ELSE Below(h, q) OBVIOUS
<1> HIDE DEF A
<1>15. Covered(g, Q, A)
  <2>1. \A q \in Q : q \in A[q] /\ Closed(g, A[q]) /\ Places(g, A[q])
    BY <1>2, <1>11, <1>12, <1>14
  <2>2. \A q, s \in Q : q # s => A[q] \cap A[s] = {} BY <1>12, <1>14 DEF Forest
  <2>3. QED BY <2>1, <2>2 DEF Covered
<1>16. Forest(g, Q) BY <1>9, <1>15, Cover
<1>17. QED BY <1>2, <1>3, <1>6, <1>9, <1>16

LEMMA GrowsListless ==
  ASSUME NEW h, Sound(h), NoLists(h), NEW g, Grows(h, g),
         \A n \in DOMAIN g \ DOMAIN h : \A c \in Kids(g, n) : ~IsNil(g, c)
  PROVE  NoLists(g)
<1>1. \A n \in DOMAIN h : g[n] = h[n] /\ Kids(g, n) = Kids(h, n) /\ Kids(h, n) \subseteq DOMAIN h
  BY HeapNodes DEF Grows, Kids, Sound
<1>2. QED BY <1>1 DEF NoLists, IsNil

LEMMA NewNodeGrows ==
  ASSUME NEW h, Sound(h), NEW token \in Token \cup {Nil}
  PROVE  LET g == Append(h, NewNode(token)) IN Grows(h, g) /\ (NoLists(h) => NoLists(g))
<1> DEFINE node == NewNode(token)
           g == Append(h, node)
<1>1. h \in Seq(Node) BY DEF Sound, IsHeap
<1>2. /\ node \in Node /\ node.parent = None /\ node.children = <<>>
  <2>1. <<>> \in Seq(Nat) OBVIOUS
  <2> DEFINE S == Seq(Nat)
  <2>2. <<>> \in S BY <2>1
  <2>3. Node = [token : Token \cup {Nil}, children : S, parent : Nat \cup {None},
                childIndex : {-1} \cup Nat]
    BY DEF Node
  <2> HIDE DEF S
  <2>4. QED BY <2>2, <2>3 DEF NewNode
<1> HIDE DEF node
<1>3. /\ g \in Seq(Node) /\ Len(g) = Len(h) + 1 /\ g[Len(h) + 1] = node
      /\ \A n \in 1 .. Len(h) : g[n] = h[n]
  BY <1>1, <1>2, AppendProperties
<1>4. Len(h) \in Nat /\ DOMAIN h = 1 .. Len(h) BY <1>1
<1>5. DOMAIN g = 1 .. Len(h) + 1 BY <1>3, <1>4
<1> HIDE DEF g
<1>6. /\ Len(h) + 1 \in DOMAIN g
      /\ \A n \in DOMAIN h : n \in DOMAIN g
      /\ \A n \in DOMAIN g \ DOMAIN h : n = Len(h) + 1
  BY <1>4, <1>5
<1>7. DOMAIN <<>> = {} OBVIOUS
<1>8. Grows(h, g) BY <1>2, <1>3, <1>4, <1>6, <1>7 DEF Grows
<1>9. \A n \in DOMAIN g \ DOMAIN h : Kids(g, n) = {} BY <1>2, <1>3, <1>6, <1>7 DEF Kids, Range
<1>10. NoLists(h) => NoLists(g) BY <1>8, <1>9, GrowsListless
<1>11. QED BY <1>8, <1>10 DEF g, node

\* A copy: its root comes first, and its nodes are named by their places in it.
Linking(tree) ==
  /\ tree \in Seq(Node) /\ 1 \in DOMAIN tree /\ tree[1].parent = None
  /\ \A n \in DOMAIN tree :
       /\ tree[n].parent \in DOMAIN tree \cup {None}
       /\ \A i \in DOMAIN tree[n].children :
            LET c == tree[n].children[i]
            IN c \in n + 1 .. Len(tree) /\ tree[c].parent = n /\ tree[c].childIndex = i - 1

Bare(tree) == \A n \in DOMAIN tree : n # 1 => tree[n].token # Nil

LEMMA ShiftedNode ==
  ASSUME NEW node \in Node, NEW by \in Nat
  PROVE  LET m == Shifted(node, by)
         IN /\ m \in Node /\ m.token = node.token /\ m.childIndex = node.childIndex
            /\ DOMAIN m.children = DOMAIN node.children
            /\ \A i \in DOMAIN node.children : m.children[i] = node.children[i] + by
            /\ node.parent = None => m.parent = None
            /\ node.parent # None => m.parent = node.parent + by
<1> DEFINE kids == [i \in DOMAIN node.children |-> node.children[i] + by]
           up == IF node.parent = None THEN None ELSE node.parent + by
           m == Shifted(node, by)
<1>1. node.children \in Seq(Nat) /\ node.parent \in Nat \cup {None} BY NodeWith
<1>2. kids \in Seq(Nat)
  <2>1. DOMAIN node.children = 1 .. Len(node.children) /\ Len(node.children) \in Nat BY <1>1
  <2>2. \A i \in DOMAIN node.children : node.children[i] + by \in Nat BY <1>1
  <2>3. kids \in [1 .. Len(node.children) -> Nat] BY <2>1, <2>2
  <2>4. QED BY <2>1, <2>3, SeqDef
<1>3. up \in Nat \cup {None} BY <1>1
<1>4. /\ DOMAIN kids = DOMAIN node.children
      /\ \A i \in DOMAIN node.children : kids[i] = node.children[i] + by
  OBVIOUS
<1>5. m = [WithKids(node, kids) EXCEPT !.parent = up] BY DEF Shifted, WithKids
<1> HIDE DEF kids, m
<1>6. LET w == WithKids(node, kids)
      IN /\ w \in Node /\ w.token = node.token /\ w.children = kids
         /\ w.parent = node.parent /\ w.childIndex = node.childIndex
  BY <1>2, NodeWith
<1> DEFINE w == WithKids(node, kids)
<1>7. m = Told(w, up, w.childIndex)
  <2> DEFINE S == Seq(Nat)
  <2>1. w \in [token : Token \cup {Nil}, children : S, parent : Nat \cup {None},
               childIndex : {-1} \cup Nat]
    BY <1>6 DEF Node
  <2> HIDE DEF w, S, up
  <2>2. QED BY <1>5, <2>1 DEF Told, w
<1>8. w.childIndex \in {-1} \cup Nat /\ w \in Node BY <1>6, NodeWith
<1> HIDE DEF w, up
<1>9. /\ m \in Node /\ m.token = w.token /\ m.children = w.children
      /\ m.parent = up /\ m.childIndex = w.childIndex
  BY <1>3, <1>7, <1>8, ToldNode
<1>10. QED BY <1>4, <1>6, <1>9 DEF m, w, up

\* A tree behind other nodes: what it looks like there.
LEMMA ShiftedTree ==
  ASSUME NEW tree, Linking(tree), NEW by \in Nat, NEW all, NEW n \in DOMAIN tree,
         \A k \in DOMAIN tree : k # 1 => all[by + k] = Shifted(tree[k], by),
         all[by + n].children = Shifted(tree[n], by).children,
         NEW i \in DOMAIN all[by + n].children
  PROVE  LET c == all[by + n].children[i]
         IN /\ c \in by + n + 1 .. by + Len(tree)
            /\ all[c].parent = by + n /\ all[c].childIndex = i - 1
<1>1. /\ tree \in Seq(Node) /\ DOMAIN tree = 1 .. Len(tree) /\ Len(tree) \in Nat
      /\ \A k \in DOMAIN tree : tree[k] \in Node
  BY DEF Linking
<1>2. /\ i \in DOMAIN tree[n].children
      /\ all[by + n].children[i] = tree[n].children[i] + by
  <2>1. tree[n] \in Node BY <1>1
  <2> DEFINE s == Shifted(tree[n], by)
  <2>2. /\ DOMAIN s.children = DOMAIN tree[n].children
        /\ \A j \in DOMAIN tree[n].children : s.children[j] = tree[n].children[j] + by
    BY <2>1, ShiftedNode
  <2> HIDE DEF s
  <2>3. all[by + n].children = s.children BY DEF s
  <2>4. QED BY <2>2, <2>3
<1> DEFINE m == tree[n].children[i]
<1>3. m \in n + 1 .. Len(tree) /\ tree[m].parent = n /\ tree[m].childIndex = i - 1
  BY <1>2 DEF Linking
<1> HIDE DEF m
<1>4. m \in DOMAIN tree /\ m # 1 /\ m \in Nat /\ n \in Nat BY <1>1, <1>3
<1>5. /\ Shifted(tree[m], by).parent = n + by
      /\ Shifted(tree[m], by).childIndex = i - 1
  <2>1. tree[m].parent # None BY <1>3, <1>4, TreeAssumption
  <2>2. tree[m] \in Node BY <1>1, <1>4
  <2> HIDE DEF Linking
  <2>3. QED BY <1>3, <2>1, <2>2, ShiftedNode
<1>6. all[by + m].parent = n + by /\ all[by + m].childIndex = i - 1 BY <1>4, <1>5
<1>7. /\ all[by + n].children[i] = by + m /\ n + by = by + n
      /\ by + m \in by + n + 1 .. by + Len(tree)
  <2>1. all[by + n].children[i] = m + by BY <1>2 DEF m
  <2>2. m + by = by + m /\ n + by = by + n /\ by + m \in by + n + 1 .. by + Len(tree)
    BY <1>1, <1>3, <1>4
  <2>3. QED BY <2>1, <2>2
<1>8. QED BY <1>6, <1>7

LEMMA GraftedLinks ==
  ASSUME NEW tree, Linking(tree), NEW sub, Linking(sub)
  PROVE  LET all == Grafted(tree, sub)
         IN /\ Linking(all) /\ all[1].token = tree[1].token
            /\ Bare(tree) /\ Bare(sub) /\ sub[1].token # Nil => Bare(all)
<1> DEFINE by == Len(tree)
           kids == Append(tree[1].children, by + 1)
           first == [tree EXCEPT ![1].children = kids]
           top == [Shifted(sub[1], by) EXCEPT !.parent = 1, !.childIndex = Len(tree[1].children)]
           second == [k \in DOMAIN sub |-> IF k = 1 THEN top ELSE Shifted(sub[k], by)]
           all == first \o second
<1>1. /\ tree \in Seq(Node) /\ sub \in Seq(Node)
      /\ DOMAIN tree = 1 .. Len(tree) /\ by \in Nat /\ 1 \in DOMAIN tree
      /\ DOMAIN sub = 1 .. Len(sub) /\ Len(sub) \in Nat /\ 1 \in DOMAIN sub
      /\ \A k \in DOMAIN tree : tree[k] \in Node
      /\ \A k \in DOMAIN sub : sub[k] \in Node
  BY DEF Linking
<1>2. /\ kids \in Seq(Nat) /\ DOMAIN kids = 1 .. Len(tree[1].children) + 1
      /\ tree[1].children \in Seq(Nat) /\ Len(tree[1].children) \in Nat
      /\ DOMAIN tree[1].children = 1 .. Len(tree[1].children)
      /\ \A i \in 1 .. Len(tree[1].children) : kids[i] = tree[1].children[i]
      /\ kids[Len(tree[1].children) + 1] = by + 1
  <2>1. tree[1].children \in Seq(Nat) BY <1>1, NodeWith
  <2>2. by + 1 \in Nat BY <1>1
  <2>3. /\ kids \in Seq(Nat) /\ Len(kids) = Len(tree[1].children) + 1
        /\ \A i \in 1 .. Len(tree[1].children) : kids[i] = tree[1].children[i]
        /\ kids[Len(tree[1].children) + 1] = by + 1
    BY <2>1, <2>2, AppendProperties
  <2> HIDE DEF kids
  <2>4. DOMAIN kids = 1 .. Len(kids) /\ Len(tree[1].children) \in Nat
        /\ DOMAIN tree[1].children = 1 .. Len(tree[1].children)
    BY <2>1, <2>3
  <2>5. QED BY <2>1, <2>3, <2>4
<1> HIDE DEF kids
<1>3. /\ first \in Seq(Node) /\ Len(first) = by
      /\ \A k \in DOMAIN tree : first[k] = IF k = 1 THEN WithKids(tree[1], kids) ELSE tree[k]
  <2>1. WithKids(tree[1], kids) \in Node BY <1>1, <1>2, NodeWith
  <2>2. first = [tree EXCEPT ![1] = WithKids(tree[1], kids)] BY <1>1 DEF WithKids
  <2>3. 1 \in 1 .. Len(tree) BY <1>1
  <2> HIDE DEF first
  <2>4. QED BY <1>1, <2>1, <2>2, <2>3, ExceptSeq
<1>4. LET w == WithKids(tree[1], kids)
      IN /\ w \in Node /\ w.children = kids /\ w.parent = None /\ w.token = tree[1].token
  <2> DEFINE n == tree[1]
  <2>1. n \in Node /\ n.parent = None BY <1>1 DEF Linking
  <2>2. kids \in Seq(Nat) BY <1>2
  <2> HIDE DEF n
  <2>3. LET w == WithKids(n, kids)
        IN w \in Node /\ w.children = kids /\ w.parent = n.parent /\ w.token = n.token
    BY <2>1, <2>2, NodeWith
  <2>4. QED BY <2>1, <2>3 DEF n
<1>5. \A k \in DOMAIN sub : Shifted(sub[k], by) \in Node BY <1>1, ShiftedNode
<1>6. /\ top \in Node /\ top.children = Shifted(sub[1], by).children
      /\ top.parent = 1 /\ top.childIndex = Len(tree[1].children)
      /\ top.token = Shifted(sub[1], by).token
  <2>1. top = Told(Shifted(sub[1], by), 1, Len(tree[1].children)) BY DEF Told
  <2>2. 1 \in Nat \cup {None} /\ Len(tree[1].children) \in {-1} \cup Nat BY <1>2
  <2>3. Shifted(sub[1], by) \in Node BY <1>1, <1>5
  <2> HIDE DEF top
  <2>4. QED BY <2>1, <2>2, <2>3, ToldNode
<1> HIDE DEF first, top
<1>7. /\ second \in Seq(Node) /\ Len(second) = Len(sub)
      /\ \A k \in DOMAIN sub : second[k] = IF k = 1 THEN top ELSE Shifted(sub[k], by)
  <2>1. second \in [1 .. Len(sub) -> Node] BY <1>1, <1>5, <1>6
  <2>2. second \in Seq(Node) BY <1>1, <2>1, SeqDef
  <2>3. QED BY <1>1, <2>1, <2>2
<1> HIDE DEF second, by
<1>8. /\ all \in Seq(Node) /\ Len(all) = by + Len(sub)
      /\ \A k \in 1 .. by + Len(sub) : all[k] = IF k <= by THEN first[k] ELSE second[k - by]
  <2>1. /\ all \in Seq(Node) /\ Len(all) = Len(first) + Len(second)
        /\ \A k \in 1 .. Len(first) + Len(second) :
             all[k] = IF k <= Len(first) THEN first[k] ELSE second[k - Len(first)]
    <3>1. first \in Seq(Node) /\ second \in Seq(Node) BY <1>3, <1>7
    <3>2. QED BY ONLY <3>1, ConcatProperties
  <2> HIDE DEF all
  <2>2. QED BY <1>3, <1>7, <2>1
<1> HIDE DEF all
<1>9. /\ DOMAIN all = 1 .. by + Len(sub)
      /\ \A k \in DOMAIN tree : k \in DOMAIN all /\ all[k] = first[k]
      /\ \A k \in DOMAIN sub : by + k \in DOMAIN all /\ all[by + k] = second[k]
      /\ \A n \in DOMAIN all : n \in DOMAIN tree \/ \E k \in DOMAIN sub : n = by + k
  <2>1. DOMAIN all = 1 .. by + Len(sub) BY <1>1, <1>8
  <2>2. \A k \in 1 .. by : k \in 1 .. by + Len(sub) /\ k <= by BY <1>1
  <2>3. \A k \in 1 .. Len(sub) : by + k \in 1 .. by + Len(sub) /\ ~(by + k <= by) /\ (by + k) - by = k
    BY <1>1
  <2>4. \A n \in 1 .. by + Len(sub) : n \notin 1 .. by => n - by \in 1 .. Len(sub) /\ n = by + (n - by)
    BY <1>1
  <2>5. DOMAIN tree = 1 .. by BY <1>1 DEF by
  <2>6. \A n \in DOMAIN all : n \in DOMAIN tree \/ \E k \in DOMAIN sub : n = by + k
    BY <1>1, <2>1, <2>4, <2>5
  <2>7. QED BY <1>1, <1>8, <2>1, <2>2, <2>3, <2>5, <2>6
<1>10. DOMAIN tree = 1 .. by /\ 1 \in 1 .. by BY <1>1 DEF by
<1>11. ASSUME NEW n \in DOMAIN tree
       PROVE  /\ all[n].parent \in DOMAIN all \cup {None}
              /\ \A i \in DOMAIN all[n].children :
                   LET c == all[n].children[i]
                   IN c \in n + 1 .. by + Len(sub) /\ all[c].parent = n /\ all[c].childIndex = i - 1
  <2>1. all[n] = IF n = 1 THEN WithKids(tree[1], kids) ELSE tree[n] BY <1>3, <1>9
  <2>2. all[n].parent \in DOMAIN all \cup {None} BY <1>4, <1>9, <2>1 DEF Linking
  <2>3. ASSUME NEW i \in DOMAIN tree[n].children
        PROVE  LET c == tree[n].children[i]
               IN c \in n + 1 .. by + Len(sub) /\ all[c].parent = n /\ all[c].childIndex = i - 1
    <3> DEFINE c == tree[n].children[i]
    <3>1. c \in n + 1 .. by /\ tree[c].parent = n /\ tree[c].childIndex = i - 1
      BY <2>3 DEF Linking, by
    <3> HIDE DEF c
    <3>2. c \in DOMAIN tree /\ c # 1 /\ c \in n + 1 .. by + Len(sub) BY <1>1, <1>10, <3>1
    <3>3. all[c] = tree[c] BY <1>3, <1>9, <3>2
    <3>4. QED BY <3>1, <3>2, <3>3 DEF c
  <2>4. CASE n # 1 BY <2>1, <2>2, <2>3, <2>4
  <2>5. CASE n = 1
    <3>1. all[1].children = kids BY <1>4, <2>1, <2>5
    <3>2. ASSUME NEW i \in DOMAIN kids
          PROVE  LET c == kids[i]
                 IN c \in 1 + 1 .. by + Len(sub) /\ all[c].parent = 1 /\ all[c].childIndex = i - 1
      <4>1. CASE i \in DOMAIN tree[1].children
        <5>1. kids[i] = tree[1].children[i] BY <1>2, <4>1
        <5>2. QED BY <2>3, <2>5, <4>1, <5>1
      <4>2. CASE i = Len(tree[1].children) + 1
        <5>1. kids[i] = by + 1 /\ i - 1 = Len(tree[1].children) BY <1>2, <4>2
        <5>2. all[by + 1] = top BY <1>1, <1>7, <1>9
        <5>3. by + 1 \in 1 + 1 .. by + Len(sub) BY <1>1, <1>10
        <5>4. QED BY <1>6, <5>1, <5>2, <5>3
      <4>3. i \in DOMAIN tree[1].children \/ i = Len(tree[1].children) + 1 BY <1>2, <3>2
      <4>4. QED BY <4>1, <4>2, <4>3
    <3>3. QED BY <2>2, <2>5, <3>1, <3>2
  <2>6. QED BY <2>4, <2>5
<1>12. ASSUME NEW k \in DOMAIN sub
       PROVE  LET n == by + k
              IN /\ all[n].parent \in DOMAIN all \cup {None}
                 /\ \A i \in DOMAIN all[n].children :
                      LET c == all[n].children[i]
                      IN c \in n + 1 .. by + Len(sub) /\ all[c].parent = n /\ all[c].childIndex = i - 1
  <2>1. \A j \in DOMAIN sub : j # 1 => all[by + j] = Shifted(sub[j], by) BY <1>7, <1>9
  <2>2. all[by + k].children = Shifted(sub[k], by).children BY <1>6, <1>7, <1>9
  <2>3. by \in Nat BY <1>1 DEF by
  <2>4. \A i \in DOMAIN all[by + k].children :
          LET c == all[by + k].children[i]
          IN c \in by + k + 1 .. by + Len(sub) /\ all[c].parent = by + k /\ all[c].childIndex = i - 1
    BY <2>1, <2>2, <2>3, ShiftedTree
  <2>5. all[by + k].parent \in DOMAIN all \cup {None}
    <3>1. CASE k = 1 BY <1>1, <1>6, <1>7, <1>9, <1>10, <3>1
    <3>2. CASE k # 1
      <4>1. all[by + k].parent = Shifted(sub[k], by).parent BY <2>1, <3>2
      <4>2. sub[k].parent \in DOMAIN sub \cup {None} BY DEF Linking
      <4>3. CASE sub[k].parent = None BY <1>1, <2>3, <4>1, <4>3, ShiftedNode
      <4>4. CASE sub[k].parent # None
        <5>1. all[by + k].parent = sub[k].parent + by BY <1>1, <2>3, <4>1, <4>4, ShiftedNode
        <5>2. sub[k].parent \in 1 .. Len(sub) BY <1>1, <4>2, <4>4
        <5>3. sub[k].parent + by = by + sub[k].parent BY <1>1, <2>3, <5>2
        <5>4. QED BY <1>1, <1>9, <5>1, <5>2, <5>3
      <4>5. QED BY <4>3, <4>4
    <3>3. QED BY <3>1, <3>2
  <2>6. QED BY <2>4, <2>5
<1>13. all = Grafted(tree, sub) BY DEF Grafted, all, first, second, kids, top, by
<1>14. all[1].parent = None /\ 1 \in DOMAIN all BY <1>1, <1>3, <1>4, <1>9
<1>15. \A n \in DOMAIN all :
         /\ all[n].parent \in DOMAIN all \cup {None}
         /\ \A i \in DOMAIN all[n].children :
              LET c == all[n].children[i]
              IN c \in n + 1 .. Len(all) /\ all[c].parent = n /\ all[c].childIndex = i - 1
  BY <1>8, <1>9, <1>11, <1>12
<1>16. Linking(all) BY <1>8, <1>14, <1>15 DEF Linking
<1>17. /\ \A k \in DOMAIN tree : all[k].token = tree[k].token
       /\ \A k \in DOMAIN sub : all[by + k].token = sub[k].token
  <2>1. \A k \in DOMAIN sub : Shifted(sub[k], by).token = sub[k].token
    <3>1. by \in Nat BY <1>1 DEF by
    <3>2. QED BY <1>1, <3>1, ShiftedNode
  <2>2. \A k \in DOMAIN tree : first[k].token = tree[k].token BY <1>3, <1>4
  <2>3. \A k \in DOMAIN sub : second[k].token = sub[k].token
    <3>1. 1 \in DOMAIN sub BY <1>1
    <3>2. QED BY <1>6, <1>7, <2>1, <3>1
  <2>4. QED BY <1>9, <2>2, <2>3
<1>18. ASSUME Bare(tree), Bare(sub), sub[1].token # Nil PROVE Bare(all)
  <2>1. \A k \in DOMAIN tree : k # 1 => all[k].token # Nil BY <1>17, <1>18 DEF Bare
  <2>2. \A k \in DOMAIN sub : all[by + k].token # Nil BY <1>17, <1>18 DEF Bare
  <2>3. QED BY <1>9, <2>1, <2>2 DEF Bare
<1>19. all[1].token = tree[1].token BY <1>1, <1>17
<1>20. QED BY <1>13, <1>16, <1>18, <1>19

LEMMA GrownLinks ==
  ASSUME NEW node \in Node, NEW copies \in Seq({tree \in Seq(Node) : Linking(tree)})
  PROVE  LET all == Grown(node, copies)
         IN /\ all \in {tree \in Seq(Node) : Linking(tree)} /\ all[1].token = node.token
            /\ (\A i \in DOMAIN copies : Bare(copies[i]) /\ copies[i][1].token # Nil) => Bare(all)
<1> DEFINE V == {tree \in Seq(Node) : Linking(tree)}
           n == Len(copies)
           start == <<[node EXCEPT !.children = <<>>, !.parent = None]>>
           body(i, g) == IF i = 0 THEN start ELSE Grafted(g[i - 1], copies[i])
           Equation(g) == g = [i \in 0 .. n |-> body(i, g)]
           grown == CHOOSE g : Equation(g)
           F == [x \in V \X (1 .. n) |-> Grafted(x[1], copies[x[2]])]
<1>1. n \in Nat /\ \A i \in 1 .. n : copies[i] \in V OBVIOUS
<1>2. \A s, t \in V :
        /\ Grafted(s, t) \in V /\ Grafted(s, t)[1].token = s[1].token
        /\ Bare(s) /\ Bare(t) /\ t[1].token # Nil => Bare(Grafted(s, t))
  <2>1. SUFFICES ASSUME NEW s \in V, NEW t \in V
                 PROVE  /\ Grafted(s, t) \in V /\ Grafted(s, t)[1].token = s[1].token
                        /\ Bare(s) /\ Bare(t) /\ t[1].token # Nil => Bare(Grafted(s, t))
    BY Zenon
  <2>2. s \in Seq(Node) /\ Linking(s) /\ t \in Seq(Node) /\ Linking(t) BY <2>1
  <2>3. LET all == Grafted(s, t)
        IN /\ Linking(all) /\ all[1].token = s[1].token
           /\ Bare(s) /\ Bare(t) /\ t[1].token # Nil => Bare(all)
    BY ONLY <2>2, GraftedLinks
  <2>4. Grafted(s, t) \in Seq(Node) BY <2>3 DEF Linking
  <2>5. QED BY <2>3, <2>4
<1>3. start \in V /\ start[1].token = node.token /\ Bare(start)
  <2> DEFINE w == WithKids(node, <<>>)
             root == Told(w, None, w.childIndex)
  <2>1. <<>> \in Seq(Nat) OBVIOUS
  <2>2. w \in Node /\ w.children = <<>> /\ w.token = node.token BY <2>1, NodeWith
  <2>3. w.childIndex \in {-1} \cup Nat BY <2>2, NodeWith
  <2>4. root \in Node /\ root.children = <<>> /\ root.parent = None /\ root.token = node.token
    BY <2>2, <2>3, ToldNode
  <2>5. start = <<root>>
    <3> DEFINE S == Seq(Nat)
    <3>1. /\ w \in [token : Token \cup {Nil}, children : S, parent : Nat \cup {None},
                    childIndex : {-1} \cup Nat]
          /\ [node EXCEPT !.children = <<>>, !.parent = None] = [w EXCEPT !.parent = None]
      BY <2>2 DEF Node, WithKids
    <3> HIDE DEF w, S
    <3>2. QED BY <3>1 DEF Told
  <2> HIDE DEF root, start
  <2>6. start \in Seq(Node) /\ DOMAIN start = {1} /\ start[1] = root
    <3>1. <<root>> \in Seq(Node) /\ DOMAIN <<root>> = {1} /\ <<root>>[1] = root BY <2>4
    <3>2. QED BY <2>5, <3>1
  <2>7. DOMAIN <<>> = {} OBVIOUS
  <2>8. QED BY <2>4, <2>6, <2>7 DEF Linking, Bare
<1> HIDE DEF start, V, n
<1>4. Equation(grown)
  <2>1. \A t \in V, i \in 1 .. n : F[<<t, i>>] = Grafted(t, copies[i]) OBVIOUS
  <2>2. F \in [V \X (1 .. n) -> V] BY <1>1, <1>2
  <2> HIDE DEF F
  <2>3. StepsIn(n, V, start, F) BY <1>1, <1>3, <2>2 DEF StepsIn
  <2>4. PICK g \in [0 .. n -> V] :
          g[0] = start /\ \A i \in 1 .. n : g[i] = F[<<g[i - 1], i>>]
    BY <2>3, Steps
  <2>5. \A i \in 0 .. n : i # 0 => i \in 1 .. n /\ i - 1 \in 0 .. n BY <1>1
  <2>6. \A i \in 0 .. n : g[i] = body(i, g) BY <2>1, <2>4, <2>5
  <2>7. Equation(g) BY <2>4, <2>6
  <2>8. QED BY <2>7
<1>5. Grown(node, copies) = grown[n] BY Zenon DEF Grown, n, start
<1> HIDE DEF grown
<1> DEFINE Wanted == \A i \in DOMAIN copies : Bare(copies[i]) /\ copies[i][1].token # Nil
           Good(g) == g \in V /\ g[1].token = node.token /\ (Wanted => Bare(g))
           P == {k \in Nat : k \in 0 .. n => Good(grown[k])}
<1>6. 0 \in P
  <2>1. 0 \in 0 .. n BY <1>1
  <2>2. grown[0] = start BY <1>4, <2>1
  <2> HIDE DEF Wanted
  <2>3. QED BY <1>3, <2>2
<1>7. ASSUME NEW k \in Nat, k \in P PROVE k + 1 \in P
  <2>1. SUFFICES ASSUME k + 1 \in 0 .. n PROVE Good(grown[k + 1])
    OBVIOUS
  <2>2. k \in 0 .. n /\ k + 1 # 0 /\ (k + 1) - 1 = k /\ k + 1 \in 1 .. n BY <1>1, <2>1
  <2>3. grown[k + 1] = Grafted(grown[k], copies[k + 1]) BY <1>4, <2>1, <2>2
  <2>4. Good(grown[k]) BY <1>7, <2>2
  <2>5. copies[k + 1] \in V /\ (Wanted => Bare(copies[k + 1]) /\ copies[k + 1][1].token # Nil)
    BY <1>1, <2>2 DEF n
  <2> HIDE DEF Wanted
  <2>6. QED BY <1>2, <2>3, <2>4, <2>5
<1> HIDE DEF P, Good
<1>8. n \in P BY <1>1, <1>6, <1>7, Induct
<1>9. n \in 0 .. n BY <1>1
<1>10. Good(grown[n]) BY <1>8, <1>9 DEF P
<1>11. QED BY <1>5, <1>10 DEF V, Good

LEMMA CopyLinks ==
  ASSUME NEW h, Sound(h), NEW t \in DOMAIN h
  PROVE  Copy(h, t) \in Seq(Node) /\ Linking(Copy(h, t)) /\ (NoLists(h) => Bare(Copy(h, t)))
<1> DEFINE D == DOMAIN h
           V == {tree \in Seq(Node) : Linking(tree)}
           kids(n) == h[n].children
           parts(n, f) == [i \in DOMAIN kids(n) |-> f[kids(n)[i]]]
           body(n, f) == Grown(h[n], parts(n, f))
           Equation(p) == p = [n \in D |-> body(n, p)]
           copy == CHOOSE p : Equation(p)
           under == [n \in D |-> Kids(h, n)]
           F == [x \in D \X [D -> V] |-> body(x[1], x[2])]
<1>1. IsHeap(h) BY DEF Sound
<1>2. PICK b, rank : Descends(D, under, rank, b) BY DEF Sound, Acyclic
<1>3. \A n \in D : /\ DOMAIN kids(n) = 1 .. Len(kids(n)) /\ Len(kids(n)) \in Nat
                   /\ \A i \in DOMAIN kids(n) : kids(n)[i] \in D /\ kids(n)[i] \in under[n]
                   /\ h[n] \in Node
  <2>1. \A n \in D : /\ DOMAIN kids(n) = 1 .. Len(kids(n)) /\ Len(kids(n)) \in Nat
                     /\ kids(n) \in Seq(D) /\ h[n] \in Node
    BY <1>1, HeapNodes
  <2>2. QED BY <2>1 DEF Kids, Range
<1>4. ASSUME NEW n \in D, NEW f, \A i \in DOMAIN kids(n) : f[kids(n)[i]] \in V
      PROVE  /\ body(n, f) \in V /\ body(n, f)[1].token = h[n].token
             /\ (\A i \in DOMAIN kids(n) : Bare(f[kids(n)[i]]) /\ f[kids(n)[i]][1].token # Nil)
                  => Bare(body(n, f))
  <2>1. parts(n, f) \in [1 .. Len(kids(n)) -> V] BY <1>3, <1>4
  <2> DEFINE copies == parts(n, f)
  <2>2. /\ DOMAIN copies = DOMAIN kids(n)
        /\ \A i \in DOMAIN kids(n) : copies[i] = f[kids(n)[i]]
    OBVIOUS
  <2> HIDE DEF parts, V
  <2>3. copies \in Seq(V) BY <1>3, <2>1, SeqDef
  <2> HIDE DEF copies
  <2>4. /\ Grown(h[n], copies) \in V /\ Grown(h[n], copies)[1].token = h[n].token
        /\ (\A i \in DOMAIN copies : Bare(copies[i]) /\ copies[i][1].token # Nil)
             => Bare(Grown(h[n], copies))
    BY <1>3, <2>3, GrownLinks DEF V
  <2>5. body(n, f) = Grown(h[n], copies) BY DEF copies
  <2> HIDE DEF body, kids
  <2>6. QED BY <2>2, <2>4, <2>5
<1>5. \A n \in D : \A f, g : (\A m \in under[n] : f[m] = g[m]) => body(n, f) = body(n, g)
  <2> SUFFICES ASSUME NEW n \in D, NEW f, NEW g, \A m \in under[n] : f[m] = g[m]
               PROVE  parts(n, f) = parts(n, g)
    OBVIOUS
  <2>1. \A i \in DOMAIN kids(n) : f[kids(n)[i]] = g[kids(n)[i]] BY <1>3
  <2>2. QED BY <2>1
<1>6. Equation(copy)
  <2>1. \A n \in D, f \in [D -> V] : body(n, f) \in V BY <1>3, <1>4
  <2> HIDE DEF body
  <2>2. F \in [D \X [D -> V] -> V] BY <2>1
  <2>3. \A n \in D, f \in [D -> V] : F[<<n, f>>] = body(n, f) OBVIOUS
  <2>4. V # {}
    <3>1. h[t] \in Node BY <1>3
    <3> DEFINE W == Seq(V)
    <3>2. <<>> \in W OBVIOUS
    <3> HIDE DEF W
    <3>3. Grown(h[t], <<>>) \in V BY <3>1, <3>2, GrownLinks DEF W
    <3>4. QED BY <3>3
  <2> HIDE DEF F, V, D, under
  <2>5. LooksUnder(D, under, V, F) BY <1>5, <2>2, <2>3, <2>4 DEF LooksUnder
  <2>6. PICK g \in [D -> V] : \A n \in D : g[n] = F[<<n, g>>] BY <1>2, <2>5, Recursion
  <2>7. \A n \in D : g[n] = body(n, g) BY <2>3, <2>6
  <2>8. Equation(g) BY <2>6, <2>7
  <2>9. QED BY <2>8
<1>7. Copy(h, t) = copy[t] BY Zenon DEF Copy
<1> HIDE DEF copy, body
<1>8. \A n \in D : copy[n] = body(n, copy) BY <1>6
<1> HIDE DEF V
<1> DEFINE Good(n) == /\ copy[n] \in V /\ copy[n][1].token = h[n].token
                      /\ NoLists(h) => Bare(copy[n])
           P == {n \in D : Good(n)}
<1>9. ASSUME NEW n \in D, \A m \in under[n] : m \in P PROVE n \in P
  <2>1. \A i \in DOMAIN kids(n) : copy[kids(n)[i]] \in V /\ Good(kids(n)[i]) BY <1>3, <1>9
  <2>2. NoLists(h) => \A i \in DOMAIN kids(n) : h[kids(n)[i]].token # Nil
    <3>1. \A i \in DOMAIN kids(n) : kids(n)[i] \in Kids(h, n) BY <1>3
    <3>2. QED BY <3>1 DEF NoLists, IsNil
  <2> HIDE DEF kids, under
  <2>3. NoLists(h) => \A i \in DOMAIN kids(n) :
          Bare(copy[kids(n)[i]]) /\ copy[kids(n)[i]][1].token # Nil
    BY <2>1, <2>2
  <2>4. /\ body(n, copy) \in V /\ body(n, copy)[1].token = h[n].token
        /\ NoLists(h) => Bare(body(n, copy))
    BY <1>4, <2>1, <2>3
  <2>5. QED BY <1>8, <2>4
<1> HIDE DEF P, D, under, Good
<1>10. \A n \in D : n \in P BY <1>2, <1>9, UnderInduct
<1>11. Good(t) BY <1>10 DEF P, D
<1>12. QED BY <1>7, <1>11 DEF V, Good

LEMMA DupTreeGrows ==
  ASSUME NEW h, Sound(h), NEW t \in DOMAIN h
  PROVE  Grows(h, DupTree(h, t)) /\ (NoLists(h) => NoLists(DupTree(h, t)))
<1> DEFINE copy == Copy(h, t)
           by == Len(h)
           more == [i \in DOMAIN copy |-> Shifted(copy[i], by)]
           g == h \o more
<1>1. /\ Linking(copy) /\ copy \in Seq(Node) /\ h \in Seq(Node)
      /\ DOMAIN copy = 1 .. Len(copy) /\ Len(copy) \in Nat
      /\ DOMAIN h = 1 .. by /\ by \in Nat /\ 1 \in DOMAIN copy
      /\ \A k \in DOMAIN copy : copy[k] \in Node
  BY CopyLinks DEF Linking, Sound, IsHeap
<1>1a. NoLists(h) => Bare(copy) BY CopyLinks
<1> HIDE DEF copy
<1>2. \A k \in DOMAIN copy : Shifted(copy[k], by) \in Node BY <1>1, ShiftedNode
<1>3. more \in Seq(Node) /\ Len(more) = Len(copy)
  <2>1. more \in [1 .. Len(copy) -> Node] BY <1>1, <1>2
  <2>2. more \in Seq(Node) BY <1>1, <2>1, SeqDef
  <2>3. QED BY <1>1, <2>1, <2>2
<1>4. \A k \in DOMAIN copy : more[k] = Shifted(copy[k], by) OBVIOUS
<1> HIDE DEF more
<1>5. /\ g \in Seq(Node) /\ Len(g) = by + Len(copy)
      /\ \A k \in 1 .. by + Len(copy) : g[k] = IF k <= by THEN h[k] ELSE more[k - by]
  <2>1. /\ g \in Seq(Node) /\ Len(g) = Len(h) + Len(more)
        /\ \A k \in 1 .. Len(h) + Len(more) : g[k] = IF k <= Len(h) THEN h[k] ELSE more[k - Len(h)]
    <3>1. h \in Seq(Node) /\ more \in Seq(Node) BY <1>1, <1>3
    <3>2. QED BY ONLY <3>1, ConcatProperties
  <2> HIDE DEF g
  <2>2. QED BY <1>3, <2>1
<1>6. g = DupTree(h, t) BY DEF DupTree, copy, more
<1> HIDE DEF g, by
<1>7. DOMAIN g = 1 .. by + Len(copy) BY <1>1, <1>5
<1>8. /\ \A n \in DOMAIN h : n \in DOMAIN g /\ g[n] = h[n]
      /\ \A k \in DOMAIN copy : by + k \in DOMAIN g /\ g[by + k] = Shifted(copy[k], by)
      /\ \A n \in DOMAIN g \ DOMAIN h : \E k \in DOMAIN copy : n = by + k
  <2>1. \A k \in 1 .. by : k \in 1 .. by + Len(copy) /\ k <= by BY <1>1
  <2>2. \A k \in 1 .. Len(copy) :
          by + k \in 1 .. by + Len(copy) /\ ~(by + k <= by) /\ (by + k) - by = k
    BY <1>1
  <2>3. \A n \in 1 .. by + Len(copy) :
          n \notin 1 .. by => n - by \in 1 .. Len(copy) /\ n = by + (n - by)
    BY <1>1
  <2>4. \A n \in DOMAIN g \ DOMAIN h : \E k \in DOMAIN copy : n = by + k BY <1>1, <1>7, <2>3
  <2>5. QED BY <1>1, <1>4, <1>5, <1>7, <2>1, <2>2, <2>4
<1>9. ASSUME NEW k \in DOMAIN copy
      PROVE  LET n == by + k
             IN /\ g[n].parent \in DOMAIN g \cup {None}
                /\ \A i \in DOMAIN g[n].children :
                     LET c == g[n].children[i]
                     IN c \in n + 1 .. Len(g) /\ g[c].parent = n /\ g[c].childIndex = i - 1
  <2>1. g[by + k].children = Shifted(copy[k], by).children BY <1>8
  <2>2. \A i \in DOMAIN g[by + k].children :
          LET c == g[by + k].children[i]
          IN c \in by + k + 1 .. by + Len(copy) /\ g[c].parent = by + k /\ g[c].childIndex = i - 1
    <3>1. \A j \in DOMAIN copy : j # 1 => g[by + j] = Shifted(copy[j], by) BY <1>8
    <3>2. by \in Nat /\ Linking(copy) BY <1>1
    <3>3. QED BY <2>1, <3>1, <3>2, ShiftedTree
  <2>3. copy[k].parent \in DOMAIN copy \cup {None} BY <1>1 DEF Linking
  <2>4. CASE copy[k].parent = None
    <3>1. copy[k] \in Node /\ by \in Nat BY <1>1
    <3>2. Shifted(copy[k], by).parent = None BY <2>4, <3>1, ShiftedNode
    <3>3. QED BY <1>5, <1>8, <2>2, <3>2
  <2>5. CASE copy[k].parent # None
    <3>1. g[by + k].parent = copy[k].parent + by BY <1>1, <1>8, <2>5, ShiftedNode
    <3>2. copy[k].parent \in 1 .. Len(copy) BY <1>1, <2>3, <2>5
    <3>3. copy[k].parent + by = by + copy[k].parent BY <1>1, <3>2
    <3>4. QED BY <1>1, <1>5, <1>8, <2>2, <3>1, <3>2, <3>3
  <2>6. QED BY <2>4, <2>5
<1>10. Len(h) + 1 \in DOMAIN g BY <1>1, <1>8 DEF by
<1>11. Grows(h, g) BY <1>5, <1>8, <1>9, <1>10 DEF Grows
<1>12. ASSUME NoLists(h) PROVE NoLists(g)
  <2>1. \A k \in DOMAIN copy : k # 1 => g[by + k].token # Nil
    <3>1. \A k \in DOMAIN copy : Shifted(copy[k], by).token = copy[k].token BY <1>1, ShiftedNode
    <3>2. \A k \in DOMAIN copy : k # 1 => copy[k].token # Nil BY <1>12, <1>1a DEF Bare
    <3>3. QED BY <1>8, <3>1, <3>2
  <2>2. ASSUME NEW n \in DOMAIN g \ DOMAIN h, NEW c \in Kids(g, n) PROVE ~IsNil(g, c)
    <3>1. PICK k \in DOMAIN copy : n = by + k BY <1>8, <2>2
    <3>2. c \in n + 1 .. by + Len(copy) BY <1>5, <1>9, <2>2, <3>1 DEF Kids, Range
    <3>3. k \in 1 .. Len(copy) /\ k \in Nat BY <1>1, <3>1
    <3>4. c - by \in DOMAIN copy /\ c - by # 1 /\ by + (c - by) = c BY <1>1, <3>1, <3>2, <3>3
    <3>5. QED BY <2>1, <3>4 DEF IsNil
  <2>3. QED BY <1>11, <1>12, <2>2, GrowsListless
<1>13. QED BY <1>6, <1>11, <1>12

----------------------------------------------------------------------------
(* The stream                                                               *)

Queued(s) == (Range(s.elements) \cup {s.singleElement}) \ {None}

Gives(s) ==
  IF s.dirty \/ s.cursor >= Size(s) THEN {}
  ELSE IF s.singleElement # None THEN {s.singleElement}
  ELSE {s.elements[i] : i \in s.cursor + 1 .. Len(s.elements)}

StreamOK(s, D) ==
  /\ s \in [singleElement : D \cup {None}, elements : Seq(D), cursor : Nat, dirty : BOOLEAN]
  /\ s.cursor <= Size(s)
  /\ s.singleElement # None => s.elements = <<>>
  /\ ~s.dirty => \A i, j \in s.cursor + 1 .. Len(s.elements) :
                   s.elements[i] = s.elements[j] => i = j

LEMMA WaitingIs == Waiting = Gives(stream)
BY DEF Waiting, Gives, Over

LEMMA StreamFields ==
  ASSUME NEW D, NEW s, StreamOK(s, D)
  PROVE  /\ s.singleElement \in D \cup {None} /\ s.elements \in Seq(D)
         /\ s.cursor \in Nat /\ s.dirty \in BOOLEAN
         /\ DOMAIN s.elements = 1 .. Len(s.elements) /\ Len(s.elements) \in Nat
         /\ Size(s) \in Nat /\ s.cursor <= Size(s)
<1> DEFINE S == Seq(D)
<1>1. s \in [singleElement : D \cup {None}, elements : S, cursor : Nat, dirty : BOOLEAN]
  BY DEF StreamOK
<1> HIDE DEF S
<1>2. /\ s.singleElement \in D \cup {None} /\ s.elements \in S
      /\ s.cursor \in Nat /\ s.dirty \in BOOLEAN
  BY <1>1
<1>3. DOMAIN s.elements = 1 .. Len(s.elements) /\ Len(s.elements) \in Nat BY <1>2 DEF S
<1>4. Size(s) \in Nat BY <1>3 DEF Size
<1>5. QED BY <1>2, <1>3, <1>4 DEF S, StreamOK

\* What StreamOK takes, given field by field.
LEMMA StreamMade ==
  ASSUME NEW D, NEW s, NEW single \in D \cup {None}, NEW list \in Seq(D), NEW cursor \in Nat,
         NEW dirty \in BOOLEAN,
         s = [singleElement |-> single, elements |-> list, cursor |-> cursor, dirty |-> dirty]
  PROVE  /\ s \in [singleElement : D \cup {None}, elements : Seq(D), cursor : Nat, dirty : BOOLEAN]
         /\ s.singleElement = single /\ s.elements = list /\ s.cursor = cursor /\ s.dirty = dirty
<1> DEFINE S == Seq(D)
<1>1. list \in S OBVIOUS
<1> HIDE DEF S
<1>2. s \in [singleElement : D \cup {None}, elements : S, cursor : Nat, dirty : BOOLEAN]
  BY <1>1
<1>3. QED BY <1>2 DEF S

LEMMA StreamIs ==
  ASSUME NEW D, NEW s, StreamOK(s, D)
  PROVE  s = [singleElement |-> s.singleElement, elements |-> s.elements,
              cursor |-> s.cursor, dirty |-> s.dirty]
<1> DEFINE S == Seq(D)
<1>1. s \in [singleElement : D \cup {None}, elements : S, cursor : Nat, dirty : BOOLEAN]
  BY DEF StreamOK
<1> HIDE DEF S
<1>2. QED BY <1>1

LEMMA StreamGrown ==
  ASSUME NEW D, NEW E, D \subseteq E, NEW s, StreamOK(s, D)
  PROVE  StreamOK(s, E)
<1>1. s.elements \in Seq(E)
  <2>1. s.elements \in Seq(D) BY StreamFields
  <2>2. QED BY <2>1
<1>2. /\ s.singleElement \in E \cup {None} /\ s.cursor \in Nat /\ s.dirty \in BOOLEAN
      /\ s = [singleElement |-> s.singleElement, elements |-> s.elements,
              cursor |-> s.cursor, dirty |-> s.dirty]
  BY StreamFields, StreamIs
<1>3. s \in [singleElement : E \cup {None}, elements : Seq(E), cursor : Nat, dirty : BOOLEAN]
  BY <1>1, <1>2, StreamMade
<1>4. QED BY <1>3 DEF StreamOK

LEMMA GivesQueued ==
  ASSUME NEW D, NEW s, StreamOK(s, D), D \subseteq Nat
  PROVE  Gives(s) \subseteq Queued(s) /\ Queued(s) \subseteq D
<1>1. /\ s.singleElement \in D \cup {None} /\ s.elements \in Seq(D) /\ s.cursor \in Nat
      /\ DOMAIN s.elements = 1 .. Len(s.elements) /\ Len(s.elements) \in Nat
  BY StreamFields
<1>2. \A i \in DOMAIN s.elements : s.elements[i] \in D /\ s.elements[i] # None
  BY <1>1, TreeAssumption
<1>3. \A i \in s.cursor + 1 .. Len(s.elements) : i \in DOMAIN s.elements BY <1>1
<1>4. \A x \in Range(s.elements) : x \in D /\ x # None BY <1>2 DEF Range
<1>5. \A i \in DOMAIN s.elements : s.elements[i] \in Range(s.elements) BY DEF Range
<1>6. Queued(s) \subseteq D BY <1>1, <1>4 DEF Queued
<1>7. Gives(s) \subseteq Queued(s) BY <1>2, <1>3, <1>5 DEF Gives, Queued
<1>8. QED BY <1>6, <1>7

LEMMA StreamAdd ==
  ASSUME NEW D, D \subseteq Nat, NEW s, StreamOK(s, D), NEW el \in D, el \notin Gives(s)
  PROVE  LET t == AddTo(s, el)
         IN /\ StreamOK(t, D) /\ Gives(t) \subseteq Gives(s) \cup {el}
            /\ Queued(t) = Queued(s) \cup {el}
<1> DEFINE t == AddTo(s, el)
           n == Len(s.elements)
<1>1. /\ s.singleElement \in D \cup {None} /\ s.elements \in Seq(D)
      /\ s.cursor \in Nat /\ s.dirty \in BOOLEAN
      /\ DOMAIN s.elements = 1 .. n /\ n \in Nat
      /\ s.cursor <= Size(s) /\ el # None /\ None \in D \cup {None}
  BY StreamFields, TreeAssumption
<1>2. s = [singleElement |-> s.singleElement, elements |-> s.elements,
           cursor |-> s.cursor, dirty |-> s.dirty]
  BY StreamIs
<1>3. CASE s.elements # <<>>
  <2> DEFINE list == Append(s.elements, el)
  <2>1. s.singleElement = None BY <1>3 DEF StreamOK
  <2>2. /\ list \in Seq(D) /\ Len(list) = n + 1 /\ list[n + 1] = el
        /\ \A i \in 1 .. n : list[i] = s.elements[i]
    BY <1>1, AppendProperties
  <2>3. t = [singleElement |-> None, elements |-> list, cursor |-> s.cursor, dirty |-> s.dirty]
    BY <1>2, <1>3, <2>1 DEF AddTo, NoList
  <2> HIDE DEF list, t
  <2>4. /\ t \in [singleElement : D \cup {None}, elements : Seq(D), cursor : Nat, dirty : BOOLEAN]
        /\ t.singleElement = None /\ t.elements = list /\ t.cursor = s.cursor /\ t.dirty = s.dirty
    BY <1>1, <2>2, <2>3, StreamMade
  <2>5. Size(s) = n /\ Size(t) = n + 1 BY <2>1, <2>2, <2>4 DEF Size
  <2>6. \A i \in s.cursor + 1 .. n + 1 :
          \/ i \in s.cursor + 1 .. n /\ list[i] = s.elements[i]
          \/ i = n + 1 /\ list[i] = el
    <3>1. \A i \in s.cursor + 1 .. n + 1 :
            (i \in s.cursor + 1 .. n /\ i \in 1 .. n) \/ i = n + 1
      BY <1>1
    <3>2. QED BY <2>2, <3>1
  <2>7. \A i \in s.cursor + 1 .. n : ~s.dirty => s.elements[i] \in Gives(s)
    <3>1. \A i \in s.cursor + 1 .. n : ~(s.cursor >= Size(s)) BY <1>1, <2>5
    <3>2. QED BY <2>1, <3>1 DEF Gives
  <2>8. ~t.dirty => \A i, j \in t.cursor + 1 .. Len(t.elements) :
                      t.elements[i] = t.elements[j] => i = j
    <3>1. SUFFICES ASSUME ~s.dirty, NEW i \in s.cursor + 1 .. n + 1,
                          NEW j \in s.cursor + 1 .. n + 1, list[i] = list[j]
                   PROVE  i = j
      BY <2>2, <2>4
    <3>2. CASE i = n + 1 /\ j = n + 1 BY <3>2
    <3>3. CASE i \in s.cursor + 1 .. n /\ list[i] = s.elements[i]
      BY <2>6, <2>7, <3>1, <3>3 DEF StreamOK
    <3>4. CASE j \in s.cursor + 1 .. n /\ list[j] = s.elements[j]
      BY <2>6, <2>7, <3>1, <3>4 DEF StreamOK
    <3>5. QED BY <2>6, <3>2, <3>3, <3>4
  <2>9. StreamOK(t, D)
    <3>1. t.cursor <= Size(t) BY <1>1, <2>4, <2>5
    <3>2. QED BY <2>4, <2>8, <3>1 DEF StreamOK
  <2>10. Gives(t) \subseteq Gives(s) \cup {el}
    <3>1. CASE t.dirty \/ t.cursor >= Size(t) BY <3>1 DEF Gives
    <3>2. CASE ~(t.dirty \/ t.cursor >= Size(t))
      <4>1. Gives(t) = {list[i] : i \in s.cursor + 1 .. n + 1} BY <2>2, <2>4, <3>2 DEF Gives
      <4>2. ~s.dirty BY <2>4, <3>2
      <4>3. QED BY <2>6, <2>7, <4>1, <4>2
    <3>3. QED BY <3>1, <3>2
  <2>11. Queued(t) = Queued(s) \cup {el}
    <3>1. list = s.elements \o <<el>> BY <1>1, AppendIsConcat DEF list
    <3>2. <<el>> \in Seq(D) /\ \A x : x \in Range(<<el>>) <=> x = el BY DEF Range
    <3>3. \A x : x \in Range(list) <=> x \in Range(s.elements) \/ x = el
      BY <1>1, <3>1, <3>2, RangeConcat
    <3>4. QED BY <1>1, <2>1, <2>4, <3>3 DEF Queued
  <2>12. QED BY <2>9, <2>10, <2>11 DEF t
<1>4. CASE s.elements = <<>> /\ s.singleElement = None
  <2>1. t = [singleElement |-> el, elements |-> <<>>, cursor |-> s.cursor, dirty |-> s.dirty]
    BY <1>2, <1>4 DEF AddTo, NoList
  <2>2. <<>> \in Seq(D) /\ Len(<<>>) = 0 /\ Range(<<>>) = {} BY DEF Range
  <2> HIDE DEF t
  <2>3. /\ t \in [singleElement : D \cup {None}, elements : Seq(D), cursor : Nat, dirty : BOOLEAN]
        /\ t.singleElement = el /\ t.elements = <<>> /\ t.cursor = s.cursor /\ t.dirty = s.dirty
    BY <1>1, <2>1, <2>2, StreamMade
  <2>4. Size(s) = 0 /\ Size(t) = 1 BY <1>1, <1>4, <2>2, <2>3 DEF Size
  <2>5. StreamOK(t, D)
    <3>1. t.cursor <= Size(t) /\ \A i \in t.cursor + 1 .. 0 : FALSE BY <1>1, <2>3, <2>4
    <3>2. QED BY <2>2, <2>3, <3>1 DEF StreamOK
  <2>6. Gives(t) \subseteq {el} BY <1>1, <2>3 DEF Gives
  <2>7. Queued(t) = Queued(s) \cup {el} BY <1>1, <1>4, <2>2, <2>3 DEF Queued
  <2>8. QED BY <2>5, <2>6, <2>7 DEF t
<1>5. CASE s.elements = <<>> /\ s.singleElement # None
  <2> DEFINE list == <<s.singleElement, el>>
  <2>1. t = [singleElement |-> None, elements |-> list, cursor |-> s.cursor, dirty |-> s.dirty]
    BY <1>2, <1>5 DEF AddTo, NoList
  <2>2. /\ list \in Seq(D) /\ Len(list) = 2 /\ Range(<<>>) = {}
        /\ \A x : x \in Range(list) <=> x = s.singleElement \/ x = el
        /\ list[1] = s.singleElement /\ list[2] = el
    BY <1>1, <1>5 DEF Range
  <2> HIDE DEF t, list
  <2>3. /\ t \in [singleElement : D \cup {None}, elements : Seq(D), cursor : Nat, dirty : BOOLEAN]
        /\ t.singleElement = None /\ t.elements = list /\ t.cursor = s.cursor /\ t.dirty = s.dirty
    BY <1>1, <2>1, <2>2, StreamMade
  <2>4. Size(s) = 1 /\ Size(t) = 2 BY <1>5, <2>2, <2>3 DEF Size
  <2>5. \A i \in s.cursor + 1 .. 2 : (i = 1 /\ s.cursor = 0) \/ i = 2 BY <1>1
  <2>6. s.cursor = 0 /\ ~s.dirty => s.singleElement \in Gives(s) BY <1>5, <2>4 DEF Gives
  <2>7. ~t.dirty => \A i, j \in t.cursor + 1 .. Len(t.elements) :
                      t.elements[i] = t.elements[j] => i = j
    BY <2>2, <2>3, <2>5, <2>6
  <2>8. StreamOK(t, D)
    <3>1. t.cursor <= Size(t) BY <1>1, <2>3, <2>4
    <3>2. QED BY <2>3, <2>7, <3>1 DEF StreamOK
  <2>9. Gives(t) \subseteq Gives(s) \cup {el}
    <3>1. CASE t.dirty \/ t.cursor >= Size(t) BY <3>1 DEF Gives
    <3>2. CASE ~(t.dirty \/ t.cursor >= Size(t))
      <4>1. Gives(t) = {list[i] : i \in s.cursor + 1 .. 2} BY <2>2, <2>3, <3>2 DEF Gives
      <4>2. ~s.dirty BY <2>3, <3>2
      <4>3. QED BY <2>2, <2>5, <2>6, <4>1, <4>2
    <3>3. QED BY <3>1, <3>2
  <2>10. Queued(t) = Queued(s) \cup {el} BY <1>1, <1>5, <2>2, <2>3 DEF Queued
  <2>11. QED BY <2>8, <2>9, <2>10 DEF t
<1>6. QED BY <1>3, <1>4, <1>5

\* The stream goes on: what it gave it does not give again as it is.
LEMMA StreamTaken ==
  ASSUME NEW D, D \subseteq Nat, StreamOK(stream, D), HasAnother, Advance
  PROVE  /\ StreamOK(stream', D) /\ Queued(stream') = Queued(stream)
         /\ NextElement \in D \cup {None} /\ Gives(stream') \subseteq Gives(stream)
         /\ NextElement # None => NextElement \in Queued(stream)
         /\ NextElement # None /\ ~MustDup =>
              NextElement \in Gives(stream) /\ NextElement \notin Gives(stream')
<1> DEFINE s == stream
           n == Len(s.elements)
<1>1. /\ s.singleElement \in D \cup {None} /\ s.elements \in Seq(D)
      /\ s.cursor \in Nat /\ s.dirty \in BOOLEAN
      /\ DOMAIN s.elements = 1 .. n /\ n \in Nat
      /\ s.cursor <= Size(s) /\ Size(s) \in Nat
  BY StreamFields
<1>2. CASE Over
  <2>1. stream' = stream /\ NextElement = s.singleElement BY <1>2 DEF Advance, NextElement
  <2>2. Size(s) = 1 BY <1>1, <1>2 DEF HasAnother
  <2>3. MustDup BY <1>2, <2>2 DEF MustDup
  <2>4. s.singleElement # None => s.singleElement \in Queued(s) BY DEF Queued
  <2>5. QED BY <1>1, <2>1, <2>3, <2>4
<1>3. CASE ~Over
  <2> DEFINE t == [s EXCEPT !.cursor = @ + 1]
  <2>1. stream' = t BY <1>3 DEF Advance
  <2>2. s.cursor < Size(s) /\ s.cursor + 1 \in Nat BY <1>1, <1>3 DEF Over
  <2>3. t = [singleElement |-> s.singleElement, elements |-> s.elements,
             cursor |-> s.cursor + 1, dirty |-> s.dirty]
    <3>1. s = [singleElement |-> s.singleElement, elements |-> s.elements,
               cursor |-> s.cursor, dirty |-> s.dirty]
      BY StreamIs
    <3>2. QED BY <3>1
  <2> HIDE DEF t
  <2>4. /\ t \in [singleElement : D \cup {None}, elements : Seq(D), cursor : Nat, dirty : BOOLEAN]
        /\ t.singleElement = s.singleElement /\ t.elements = s.elements
        /\ t.cursor = s.cursor + 1 /\ t.dirty = s.dirty
    BY <1>1, <2>2, <2>3, StreamMade
  <2>5. Size(t) = Size(s) /\ Queued(t) = Queued(s) BY <2>4 DEF Size, Queued
  <2>6. \A i \in t.cursor + 1 .. n : i \in s.cursor + 1 .. n /\ i # s.cursor + 1
    BY <1>1, <2>4
  <2>7. StreamOK(t, D)
    <3>1. t.cursor <= Size(t) BY <1>1, <2>2, <2>4, <2>5
    <3>2. ~t.dirty => \A i, j \in t.cursor + 1 .. n : t.elements[i] = t.elements[j] => i = j
      BY <2>4, <2>6 DEF StreamOK
    <3>3. QED BY <2>4, <3>1, <3>2 DEF StreamOK
  <2>8. CASE s.singleElement # None
    <3>1. NextElement = s.singleElement /\ Size(s) = 1 BY <2>8 DEF NextElement, Size
    <3>2. t.cursor >= Size(t) BY <1>1, <2>2, <2>4, <2>5, <3>1
    <3>3. Gives(t) = {} BY <3>2 DEF Gives
    <3>4. ~MustDup => s.singleElement \in Gives(s)
      <4>1. ~MustDup => ~s.dirty BY DEF MustDup
      <4>2. ~(s.cursor >= Size(s)) BY <1>1, <2>2
      <4>3. QED BY <2>8, <4>1, <4>2 DEF Gives
    <3>5. s.singleElement \in Queued(s) BY <2>8 DEF Queued
    <3>6. QED BY <1>1, <2>1, <2>5, <2>7, <3>1, <3>3, <3>4, <3>5
  <2>9. CASE s.singleElement = None
    <3> DEFINE next == s.elements[s.cursor + 1]
    <3>1. NextElement = next /\ Size(s) = n BY <1>3, <2>9 DEF NextElement, Size
    <3>2. s.cursor + 1 \in DOMAIN s.elements /\ s.cursor + 1 \in s.cursor + 1 .. n
      BY <1>1, <2>2, <3>1
    <3>3. next \in D /\ next \in Queued(s)
      <4>1. next \in D /\ next \in Range(s.elements) BY <1>1, <3>2 DEF Range
      <4>2. QED BY <4>1, TreeAssumption DEF Queued
    <3>4. ~(s.cursor >= Size(s)) BY <1>1, <2>2
    <3>5. ~s.dirty => Gives(s) = {s.elements[i] : i \in s.cursor + 1 .. n}
      BY <2>9, <3>4 DEF Gives
    <3>6. \A x \in Gives(t) : ~s.dirty /\ \E i \in t.cursor + 1 .. n : x = s.elements[i]
      BY <2>4, <2>9 DEF Gives
    <3>7. Gives(t) \subseteq Gives(s) BY <2>6, <3>5, <3>6
    <3>8. ~MustDup => next \in Gives(s) /\ next \notin Gives(t)
      <4>1. SUFFICES ASSUME ~s.dirty PROVE next \in Gives(s) /\ next \notin Gives(t)
        BY DEF MustDup
      <4>2. \A i, j \in s.cursor + 1 .. n : s.elements[i] = s.elements[j] => i = j
        BY <4>1 DEF StreamOK
      <4>3. QED BY <2>6, <3>2, <3>5, <3>6, <4>1, <4>2
    <3>9. QED BY <2>1, <2>5, <2>7, <3>1, <3>3, <3>7, <3>8
  <2>10. QED BY <2>8, <2>9
<1>4. QED BY <1>2, <1>3

LEMMA StreamReset ==
  ASSUME NEW D, NEW s, StreamOK(s, D)
  PROVE  LET t == [s EXCEPT !.cursor = 0, !.dirty = TRUE]
         IN StreamOK(t, D) /\ Gives(t) = {} /\ Queued(t) = Queued(s)
<1> DEFINE t == [s EXCEPT !.cursor = 0, !.dirty = TRUE]
<1>1. /\ s.singleElement \in D \cup {None} /\ s.elements \in Seq(D)
      /\ Size(s) \in Nat
  BY StreamFields
<1>2. t = [singleElement |-> s.singleElement, elements |-> s.elements, cursor |-> 0, dirty |-> TRUE]
  <2> DEFINE S == Seq(D)
  <2>1. s \in [singleElement : D \cup {None}, elements : S, cursor : Nat, dirty : BOOLEAN]
    BY DEF StreamOK
  <2> HIDE DEF S
  <2>2. /\ t \in [singleElement : D \cup {None}, elements : S, cursor : Nat, dirty : BOOLEAN]
        /\ t.singleElement = s.singleElement /\ t.elements = s.elements
        /\ t.cursor = 0 /\ t.dirty = TRUE
    BY <2>1
  <2> HIDE DEF t
  <2>3. QED BY <2>2
<1> HIDE DEF t
<1>3. /\ t \in [singleElement : D \cup {None}, elements : Seq(D), cursor : Nat, dirty : BOOLEAN]
      /\ t.singleElement = s.singleElement /\ t.elements = s.elements
      /\ t.cursor = 0 /\ t.dirty
  BY <1>1, <1>2, StreamMade
<1>4. Size(t) = Size(s) /\ Queued(t) = Queued(s) BY <1>3 DEF Size, Queued
<1>5. StreamOK(t, D) BY <1>1, <1>3, <1>4 DEF StreamOK
<1>6. Gives(t) = {} BY <1>3 DEF Gives
<1>7. QED BY <1>4, <1>5, <1>6 DEF t

----------------------------------------------------------------------------
(* The inductive invariant                                                  *)

\* What is in hand or waits in the stream is a forest, in a heap that has no cycle
\* even in what nobody holds; no tree is in hand and waits at once.
Inv ==
  /\ Sound(heap) /\ NoLists(heap) /\ Forest(heap, Roots)
  /\ StreamOK(stream, DOMAIN heap)
  /\ held \cap Waiting = {}

LEMMA InvNumbers == ASSUME Inv PROVE DOMAIN heap \subseteq Nat /\ DOMAIN heap = 1 .. Len(heap) /\ Len(heap) \in Nat
<1>1. heap \in Seq(Node) BY DEF Inv, Sound, IsHeap
<1>2. QED BY <1>1

LEMMA NoChildIsSelf ==
  ASSUME NEW h, Sound(h), NEW n \in DOMAIN h
  PROVE  n \notin Kids(h, n)
<1>1. n \in Below(h, n) BY BelowIsClosed
<1>2. QED BY <1>1, NoCycle

LEMMA InvTypes == Inv => TypeOK
<1> SUFFICES ASSUME Inv PROVE TypeOK
  OBVIOUS
<1>1. IsHeap(heap) BY DEF Inv, Sound
<1>2. DOMAIN heap = 1 .. Len(heap) /\ Len(heap) \in Nat BY InvNumbers
<1>3. ASSUME NEW n \in DOMAIN heap
      PROVE  /\ heap[n].token \in Token \cup {Nil} /\ heap[n].parent \in DOMAIN heap \cup {None}
             /\ Range(heap[n].children) \subseteq (1 .. n - 1) \cup (n + 1 .. Len(heap))
             /\ heap[n].childIndex \in {-1} \cup Nat
  <2>1. heap[n] \in Node /\ Kids(heap, n) \subseteq DOMAIN heap BY <1>1, HeapNodes
  <2>2. n \notin Kids(heap, n) BY NoChildIsSelf DEF Inv
  <2>3. \A m \in 1 .. Len(heap) : m # n => m \in (1 .. n - 1) \cup (n + 1 .. Len(heap))
    BY <1>2
  <2>4. Kids(heap, n) \subseteq (1 .. n - 1) \cup (n + 1 .. Len(heap))
    BY <1>2, <2>1, <2>2, <2>3
  <2>5. heap[n].token \in Token \cup {Nil} /\ heap[n].childIndex \in {-1} \cup Nat
    BY <2>1, NodeWith
  <2>6. QED BY <1>1, <2>4, <2>5 DEF Kids, IsHeap
<1>4. held \subseteq DOMAIN heap BY DEF Inv, Forest, Roots
<1>5. /\ stream.cursor \in 0 .. Size(stream)
      /\ stream.singleElement # None => stream.elements = NoList
  <2>1. stream.cursor \in Nat /\ Size(stream) \in Nat /\ stream.cursor <= Size(stream)
    BY StreamFields DEF Inv
  <2>2. stream.singleElement # None => stream.elements = NoList BY DEF Inv, StreamOK, NoList
  <2>3. QED BY <2>1, <2>2
<1>6. QED BY <1>3, <1>4, <1>5 DEF TypeOK

LEMMA InvLinked == Inv => Linked
<1> SUFFICES ASSUME Inv PROVE Linked
  OBVIOUS
<1>1. TypeOK BY InvTypes
<1>2. \A n \in Live(heap, Roots) : \A i \in DOMAIN heap[n].children :
        LET child == heap[heap[n].children[i]] IN child.parent = n /\ child.childIndex = i - 1
  BY DEF Inv, Forest, Places
<1>3. \A r \in Roots : \A n \in Live(heap, Roots) : r \notin Range(heap[n].children)
  BY RootsOnTop DEF Inv, Kids
<1>4. QED BY <1>1, <1>2, <1>3 DEF Linked

\* How a step is shown to keep the invariant: the forest that an operation leaves
\* has all roots there are then.
LEMMA Keeps ==
  ASSUME NEW R, Sound(heap'), NoLists(heap'), Forest(heap', R), held' \subseteq R,
         StreamOK(stream', DOMAIN heap'), Gives(stream') \subseteq R,
         held' \cap Gives(stream') = {}
  PROVE  Inv'
<1>1. Waiting' = Gives(stream')
  <2>1. (Waiting = Gives(stream))' BY WaitingIs, PTL
  <2>2. QED BY <2>1
<1>2. Roots' \subseteq R BY <1>1 DEF Roots
<1>3. Live(heap', Roots') \subseteq Live(heap', R) BY <1>2, InLive
<1>4. Forest(heap', Roots') BY <1>2, <1>3 DEF Forest, Places
<1>5. QED BY <1>1, <1>4 DEF Inv

LEMMA Start == Init => Inv
<1> SUFFICES ASSUME Init PROVE Inv
  OBVIOUS
<1>1. heap \in Seq(Node) /\ \A n \in DOMAIN heap :
        heap[n].parent = None /\ heap[n].children = <<>>
  <2>1. CASE heap = <<>> BY <2>1
  <2>2. CASE \E token \in Token : heap = <<NewNode(token)>>
    <3>1. PICK token \in Token : heap = <<NewNode(token)>> BY <2>2
    <3> DEFINE S == Seq(Nat)
               node == NewNode(token)
    <3>2. <<>> \in S OBVIOUS
    <3>3. node \in Node /\ node.parent = None /\ node.children = <<>>
      <4>1. Node = [token : Token \cup {Nil}, children : S, parent : Nat \cup {None},
                    childIndex : {-1} \cup Nat]
        BY DEF Node
      <4> HIDE DEF S
      <4>2. QED BY <3>2, <4>1 DEF NewNode
    <3> HIDE DEF node
    <3>4. QED BY <3>1, <3>3 DEF node
  <2>3. QED BY <2>1, <2>2 DEF Init
<1>2. DOMAIN <<>> = {} /\ Range(<<>>) = {} BY DEF Range
<1>3. IsHeap(heap) BY <1>1, <1>2 DEF IsHeap
<1>4. \A n \in DOMAIN heap : Kids(heap, n) = {} BY <1>1, <1>2 DEF Kids
<1>5. Sound(heap)
  <2> DEFINE under == [n \in DOMAIN heap |-> Kids(heap, n)]
             rank == [n \in DOMAIN heap |-> 0]
  <2>1. under \in [DOMAIN heap -> SUBSET DOMAIN heap] /\ rank \in [DOMAIN heap -> 0 .. 0]
    BY <1>4
  <2>2. \A n \in DOMAIN heap : \A m \in under[n] : rank[m] < rank[n] BY <1>4
  <2> HIDE DEF under, rank
  <2>3. Descends(DOMAIN heap, under, rank, 0) BY <2>1, <2>2 DEF Descends
  <2>4. QED BY <1>3, <2>3 DEF Sound, Acyclic, under
<1>6. StreamOK(stream, DOMAIN heap) /\ Waiting \subseteq DOMAIN heap
  <2>1. \E list \in Seq(DOMAIN heap) : stream = NewStream(list) /\ Len(list) \in 0 .. 1
    <3>1. CASE heap = <<>> /\ stream = NewStream(NoList)
      <4> DEFINE S == Seq(DOMAIN heap)
      <4>1. <<>> \in S /\ Len(<<>>) \in 0 .. 1 OBVIOUS
      <4>2. stream = NewStream(<<>>) BY <3>1 DEF NoList
      <4> HIDE DEF S
      <4>3. QED BY <4>1, <4>2 DEF S
    <3>2. CASE \E token \in Token : heap = <<NewNode(token)>> /\ stream = NewStream(<<1>>)
      <4>1. PICK token \in Token : heap = <<NewNode(token)>> /\ stream = NewStream(<<1>>)
        BY <3>2
      <4>2. DOMAIN heap = {1} BY <4>1
      <4> DEFINE S == Seq(DOMAIN heap)
      <4>3. <<1>> \in S /\ Len(<<1>>) \in 0 .. 1 BY <4>2
      <4> HIDE DEF S
      <4>4. QED BY <4>1, <4>3 DEF S
    <3>3. QED BY <3>1, <3>2 DEF Init
  <2>2. PICK list \in Seq(DOMAIN heap) : stream = NewStream(list) /\ Len(list) \in 0 .. 1 BY <2>1
  <2>3. /\ stream \in [singleElement : DOMAIN heap \cup {None}, elements : Seq(DOMAIN heap),
                       cursor : Nat, dirty : BOOLEAN]
        /\ stream.singleElement = None /\ stream.elements = list
        /\ stream.cursor = 0 /\ stream.dirty = FALSE
    <3>1. None \in DOMAIN heap \cup {None} /\ 0 \in Nat /\ FALSE \in BOOLEAN OBVIOUS
    <3>2. QED BY <2>2, <3>1, StreamMade DEF NewStream
  <2>4. StreamOK(stream, DOMAIN heap)
    <3>1. \A i \in stream.cursor + 1 .. Len(list) : i = 1
      <4>1. stream.cursor + 1 = 1 BY <2>3
      <4>2. \A l \in 0 .. 1 : \A i \in 1 .. l : i = 1 OBVIOUS
      <4>3. QED BY <2>2, <4>1, <4>2
    <3>2. stream.cursor <= Size(stream) BY <2>2, <2>3 DEF Size
    <3>3. QED BY <2>3, <3>1, <3>2 DEF StreamOK
  <2>5. DOMAIN heap \subseteq Nat
    <3>1. DOMAIN heap = 1 .. Len(heap) BY <1>1
    <3>2. QED BY <3>1
  <2>6. QED BY <2>4, <2>5, GivesQueued, WaitingIs
<1>7. held = {} BY DEF Init
<1>8. Forest(heap, Roots)
  <2> DEFINE A == [r \in Roots |-> {r}]
  <2>1. Roots \subseteq DOMAIN heap BY <1>6, <1>7 DEF Roots
  <2>2. \A r \in Roots : r \in A[r] /\ Closed(heap, A[r]) BY <1>4, <2>1 DEF Closed
  <2>3. \A r \in Roots : Places(heap, A[r]) BY <1>1, <1>2, <2>1 DEF Places
  <2>4. \A r, s \in Roots : r # s => A[r] \cap A[s] = {} OBVIOUS
  <2> HIDE DEF A
  <2>5. Covered(heap, Roots, A) BY <2>2, <2>3, <2>4 DEF Covered
  <2>6. QED BY <1>5, <2>5, Cover
<1>9. NoLists(heap) BY <1>4 DEF NoLists
<1>10. QED BY <1>5, <1>6, <1>7, <1>8, <1>9 DEF Inv

----------------------------------------------------------------------------
(* What a step keeps                                                        *)

\* The nodes of L hold all that the trees H held but the lists N.
LEMMA Survive ==
  ASSUME NEW h, Sound(h), NEW H, H \subseteq DOMAIN h, NEW L, NEW N, H \subseteq L \cup N,
         \A n \in N : IsNil(h, n) /\ Kids(h, n) \subseteq L,
         \A n \in DOMAIN h : n \in L => Kids(h, n) \subseteq L
  PROVE  {n \in Live(h, H) : ~IsNil(h, n)} \subseteq L
<1>1. \A n \in (L \cup N) \cap DOMAIN h : Kids(h, n) \subseteq L \cup N OBVIOUS
<1>2. Live(h, H) \subseteq L \cup N BY <1>1, LiveLeast
<1>3. QED BY <1>2

\* What is above t is there when only the children of t have changed.
LEMMA StaysAbove ==
  ASSUME NEW h, Sound(h), NEW g, Sound(g), NEW t \in DOMAIN h, NEW K, Reworked(h, g, t, K),
         NEW r \in DOMAIN h, t \in Below(h, r)
  PROVE  t \in Below(g, r)
<1> DEFINE S == Below(g, r) \cup (Below(h, t) \ {t})
<1>1. /\ r \in DOMAIN g /\ r \in Below(g, r) /\ Closed(g, Below(g, r))
      /\ t \in Below(h, t) /\ Closed(h, Below(h, t))
  BY BelowIsClosed DEF Reworked
<1>2. ASSUME NEW n \in S \cap DOMAIN h, NEW m \in Kids(h, n) PROVE m \in S
  <2>1. CASE n = t
    <3>1. m \in Below(h, t) BY <1>1, <1>2, <2>1 DEF Closed
    <3>2. m # t BY <1>2, <2>1, NoChildIsSelf
    <3>3. QED BY <3>1, <3>2
  <2>2. CASE n # t /\ n \in Below(g, r)
    <3>1. m \in Kids(g, n) BY <1>2, <2>2 DEF Reworked
    <3>2. QED BY <1>1, <2>2, <3>1 DEF Closed
  <2>3. CASE n # t /\ n \in Below(h, t)
    <3>1. m \in Below(h, t) BY <1>1, <1>2, <2>3 DEF Closed
    <3>2. m # t
      <4>1. n \notin Below(h, m) BY <1>2, NoCycle
      <4>2. QED BY <2>3, <4>1
    <3>3. QED BY <3>1, <3>2
  <2>4. QED BY <1>2, <2>1, <2>2, <2>3
<1> HIDE DEF S
<1>3. Below(h, r) \subseteq S
  <2>1. r \in S BY <1>1 DEF S
  <2>2. QED BY <1>2, <2>1, BelowLeast
<1>4. QED BY <1>3 DEF S

\* An operation on a node t of a tree in hand: what it took from under t is in hand
\* afterwards, and what the tree c handed over is under t.
Worked(h, H, g, K, t, c, X) ==
  /\ Sound(h) /\ Sound(g) /\ H \subseteq DOMAIN h /\ K \subseteq DOMAIN h
  /\ t \in Live(h, H) /\ t \notin Live(h, {c}) /\ c \in DOMAIN h
  /\ Reworked(h, g, t, (Kids(h, t) \ X) \cup Handed(h, c))
  /\ H \ {c} \subseteq K /\ X \subseteq K

LEMMA NothingLost ==
  ASSUME NEW h, NEW H, NEW g, NEW K, NEW t, NEW c, NEW X, Worked(h, H, g, K, t, c, X)
  PROVE  {n \in Live(h, H) : ~IsNil(h, n)} \subseteq Live(g, K)
<1> USE DEF Worked
<1> DEFINE L == Live(g, K)
           N == IF IsNil(h, c) THEN {c} ELSE {}
<1>1. Closed(g, L) /\ K \subseteq L /\ DOMAIN g = DOMAIN h BY LiveClosed DEF Reworked
<1>2. t \in DOMAIN h BY LiveClosed DEF Closed
<1>3. t \in L
  <2>1. PICK r \in H : t \in Below(h, r) BY InLive
  <2>2. r # c BY <2>1, InLive
  <2>3. t \in Below(g, r) BY <1>2, <2>1, StaysAbove
  <2>4. QED BY <2>1, <2>2, <2>3, InLive
<1>4. Kids(g, t) = (Kids(h, t) \ X) \cup Handed(h, c) BY DEF Reworked
<1>5. Handed(h, c) \subseteq L BY <1>1, <1>3, <1>4 DEF Closed
<1>6. \A n \in DOMAIN h : n \in L => Kids(h, n) \subseteq L
  <2>1. ASSUME NEW n \in L, n \in DOMAIN h, n # t PROVE Kids(h, n) \subseteq L
    BY <1>1, <2>1 DEF Closed, Reworked
  <2>2. Kids(h, t) \subseteq L BY <1>1, <1>3, <1>4 DEF Closed
  <2>3. QED BY <2>1, <2>2
<1>7. \A n \in N : IsNil(h, n) /\ Kids(h, n) \subseteq L
  <2>1. IsNil(h, c) => Handed(h, c) = Kids(h, c) BY DEF Handed, Put, Kids
  <2>2. QED BY <1>5, <2>1
<1>8. c \in L \cup N
  <2>1. ~IsNil(h, c) => c \in Handed(h, c) BY DEF Handed, Put, Range
  <2>2. QED BY <1>5, <2>1
<1> HIDE DEF L, N
<1>9. H \subseteq L \cup N BY <1>1, <1>8
<1>10. {n \in Live(h, H) : ~IsNil(h, n)} \subseteq L BY <1>6, <1>7, <1>9, Survive
<1>11. QED BY <1>10 DEF L

Dropless == {n \in Live(heap, held) : ~IsNil(heap, n)} \subseteq Live(heap', Kept')

LEMMA InvFacts ==
  ASSUME Inv
  PROVE  /\ Sound(heap) /\ NoLists(heap) /\ Forest(heap, Roots) /\ StreamOK(stream, DOMAIN heap)
         /\ DOMAIN heap \subseteq Nat /\ Roots \subseteq DOMAIN heap /\ held \subseteq Roots
         /\ Waiting = Gives(stream) /\ Waiting \subseteq Roots /\ held \cap Waiting = {}
         /\ Queued(stream) \subseteq DOMAIN heap /\ Kept = held \cup Queued(stream)
         /\ \A r \in Roots : r \in Below(heap, r) /\ r \in Live(heap, Roots)
         /\ \A r, s \in Roots : r # s => r \notin Below(heap, s) /\ r \notin Live(heap, {s})
<1>1. /\ Sound(heap) /\ NoLists(heap) /\ Forest(heap, Roots) /\ StreamOK(stream, DOMAIN heap)
      /\ held \cap Waiting = {} /\ Roots \subseteq DOMAIN heap
  BY DEF Inv, Forest
<1>2. DOMAIN heap \subseteq Nat BY InvNumbers
<1>3. Queued(stream) \subseteq DOMAIN heap BY <1>1, <1>2, GivesQueued
<1>4. \A r \in Roots : r \in Below(heap, r) BY <1>1, BelowIsClosed
<1>5. \A r, s \in Roots : r # s => r \notin Below(heap, s) BY <1>1, <1>4 DEF Forest
<1>6. QED BY <1>1, <1>2, <1>3, <1>4, <1>5, InLive, WaitingIs DEF Roots, Kept, Queued

LEMMA KeptThen == Kept' = held' \cup Queued(stream')
BY DEF Kept, Queued

\* The heap has the same nodes, and the stream is left alone.
LEMMA KeepsStream ==
  ASSUME Inv, NEW R, Sound(heap'), NoLists(heap'), Forest(heap', R),
         held' \cup Waiting \subseteq R,
         DOMAIN heap \subseteq DOMAIN heap', stream' = stream, held' \cap Waiting = {}
  PROVE  Inv'
<1>1. Waiting = Gives(stream) /\ StreamOK(stream, DOMAIN heap) BY InvFacts
<1>2. StreamOK(stream', DOMAIN heap') BY <1>1, StreamGrown
<1>3. QED BY <1>1, <1>2, Keeps

----------------------------------------------------------------------------
(* The actions                                                              *)

LEMMA LiveGrows ==
  ASSUME NEW h, Sound(h), NEW g, Sound(g), NEW H, H \subseteq DOMAIN h,
         NEW K, K \subseteq DOMAIN g, H \subseteq K,
         \A n \in DOMAIN h : Kids(g, n) = Kids(h, n)
  PROVE  {n \in Live(h, H) : ~IsNil(h, n)} \subseteq Live(g, K)
<1>1. Closed(g, Live(g, K)) /\ K \subseteq Live(g, K) BY LiveClosed
<1>2. \A n \in DOMAIN h : n \in Live(g, K) => Kids(h, n) \subseteq Live(g, K)
  BY <1>1 DEF Closed
<1>3. \A n \in Live(g, K) \cap DOMAIN h : Kids(h, n) \subseteq Live(g, K) BY <1>2
<1>4. H \subseteq Live(g, K) BY <1>1
<1>5. Live(h, H) \subseteq Live(g, K) BY <1>3, <1>4, LiveLeast
<1>6. QED BY <1>5

LEMMA CreateKeeps ==
  ASSUME Inv, NEW token \in Token \cup {Nil}, Create(token)
  PROVE  Inv' /\ Dropless
<1>1. /\ Sound(heap) /\ Forest(heap, Roots) /\ StreamOK(stream, DOMAIN heap)
      /\ Waiting \subseteq Roots /\ held \subseteq Roots /\ held \cap Waiting = {}
      /\ Roots \subseteq DOMAIN heap /\ Queued(stream) \subseteq DOMAIN heap
  BY InvFacts
<1> DEFINE new == Len(heap) + 1
<1>2. /\ heap' = Append(heap, NewNode(token)) /\ held' = held \cup {Len(heap')}
      /\ stream' = stream
  BY DEF Create
<1>3. Grows(heap, heap') /\ NoLists(heap') BY <1>1, <1>2, NewNodeGrows DEF Inv
<1>4. Len(heap') = new
  <2>1. heap \in Seq(Node) /\ heap' \in Seq(Node) BY <1>1, <1>3 DEF Sound, IsHeap, Grows
  <2>2. QED BY <1>2, <2>1
<1>5. /\ Sound(heap') /\ Forest(heap', Roots \cup {new})
      /\ new \notin DOMAIN heap /\ DOMAIN heap \subseteq DOMAIN heap'
      /\ \A n \in DOMAIN heap : heap'[n] = heap[n] /\ Kids(heap', n) = Kids(heap, n)
  BY <1>1, <1>3, GrownHeap
<1> HIDE DEF new
<1>6. Inv'
  <2>1. held' \cup Waiting \subseteq Roots \cup {new} /\ held' \cap Waiting = {}
    BY <1>1, <1>2, <1>4, <1>5
  <2>2. QED BY <1>2, <1>3, <1>5, <2>1, KeepsStream
<1>7. Dropless
  <2>1. /\ held \subseteq Kept' /\ held \subseteq DOMAIN heap
        /\ Kept' \subseteq DOMAIN heap'
    <3>1. new \in DOMAIN heap' BY <1>3 DEF Grows, new
    <3>2. QED BY <1>1, <1>2, <1>4, <1>5, <3>1, KeptThen
  <2>2. QED BY <1>1, <1>5, <2>1, LiveGrows DEF Dropless
<1>8. QED BY <1>6, <1>7

LEMMA AddChildToKeeps ==
  ASSUME Inv, NEW t \in held, NEW child \in held, AddChildTo(t, child)
  PROVE  Inv' /\ Dropless
<1>1. /\ Sound(heap) /\ Forest(heap, Roots) /\ held \subseteq Roots
      /\ Roots \subseteq DOMAIN heap /\ Waiting \subseteq Roots /\ held \cap Waiting = {}
      /\ Queued(stream) \subseteq DOMAIN heap
      /\ t \in Live(heap, Roots) /\ t \in Below(heap, t) /\ t \notin Live(heap, {child})
  <2>1. t # child BY DEF AddChildTo
  <2>2. QED BY <2>1, InvFacts
<1>2. heap' = AddChild(heap, t, child) /\ held' = held \ {child} /\ stream' = stream
  BY DEF AddChildTo
<1>3. /\ Sound(heap') /\ \A Q \in SUBSET (Roots \ {child}) : Forest(heap', Q)
      /\ Reworked(heap, heap', t, Kids(heap, t) \cup Handed(heap, child))
  BY <1>1, <1>2, AddedChild
<1>4. Inv'
  <2>1. Forest(heap', Roots \ {child}) /\ DOMAIN heap' = DOMAIN heap BY <1>3 DEF Reworked
  <2>2. held' \cup Waiting \subseteq Roots \ {child} /\ held' \cap Waiting = {} BY <1>1, <1>2
  <2>3. NoLists(heap') BY <1>1, <1>3, ReworkedListless DEF Inv
  <2>4. QED BY <1>2, <1>3, <2>1, <2>2, <2>3, KeepsStream
<1>5. Dropless
  <2>1. t \in Live(heap, held) BY <1>1, InLive
  <2>2. (Kids(heap, t) \ {}) \cup Handed(heap, child) = Kids(heap, t) \cup Handed(heap, child)
    OBVIOUS
  <2>3. Kept' \subseteq DOMAIN heap /\ held \subseteq DOMAIN heap /\ held \ {child} \subseteq Kept'
    BY <1>1, <1>2, KeptThen
  <2>4. Worked(heap, held, heap', Kept', t, child, {}) BY <1>1, <1>3, <2>1, <2>2, <2>3 DEF Worked
  <2>5. QED BY <2>4, NothingLost DEF Dropless
<1>6. QED BY <1>4, <1>5

LEMMA DeleteKeeps ==
  ASSUME Inv, NEW t \in Live(heap, held), NEW i \in 0 .. Len(heap[t].children) - 1, Delete(t, i)
  PROVE  Inv' /\ Dropless
<1> DEFINE x == heap[t].children[i + 1]
<1>1. /\ Sound(heap) /\ Forest(heap, Roots) /\ held \subseteq Roots
      /\ Roots \subseteq DOMAIN heap /\ Waiting \subseteq Roots /\ held \cap Waiting = {}
      /\ Queued(stream) \subseteq DOMAIN heap
  BY InvFacts
<1>2. t \in Live(heap, Roots) BY <1>1, InLive
<1>3. x \in Kids(heap, t) /\ t \in DOMAIN heap
  <2>1. /\ DOMAIN heap[t].children = 1 .. Len(heap[t].children) /\ Len(heap[t].children) \in Nat
        /\ \A j \in DOMAIN heap[t].children : heap[t].children[j] \in Kids(heap, t)
        /\ t \in DOMAIN heap
    BY <1>1, <1>2, KidsPlaced
  <2>2. i + 1 \in DOMAIN heap[t].children BY <2>1
  <2>3. QED BY <2>1, <2>2
<1>4. heap' = DeleteChild(heap, t, i) /\ held' = held \cup {x} /\ stream' = stream
  BY DEF Delete
<1>5. /\ Sound(heap') /\ \A Q \in SUBSET (Roots \cup {x}) : Forest(heap', Q)
      /\ Reworked(heap, heap', t, Kids(heap, t) \ {x})
  BY <1>1, <1>2, <1>4, DeletedChild
<1> HIDE DEF x
<1>6. x \in DOMAIN heap /\ x \notin Roots
  <2>1. x \in DOMAIN heap BY <1>1, <1>3, HeapNodes DEF Sound
  <2>2. QED BY <1>1, <1>2, <1>3, <2>1, RootsOnTop
<1>7. DOMAIN heap' = DOMAIN heap BY <1>5 DEF Reworked
<1>8. Inv'
  <2>1. Forest(heap', Roots \cup {x}) BY <1>5
  <2>2. held' \cup Waiting \subseteq Roots \cup {x} /\ held' \cap Waiting = {}
    BY <1>1, <1>4, <1>6
  <2>3. NoLists(heap')
    <3>1. Kids(heap, t) \ {x} \subseteq Kids(heap, t) \cup Handed(heap, t) OBVIOUS
    <3>2. QED BY <1>1, <1>3, <1>5, <3>1, ReworkedListless DEF Inv
  <2>4. QED BY <1>4, <1>5, <1>7, <2>1, <2>2, <2>3, KeepsStream
<1>9. Dropless
  <2> DEFINE L == Live(heap', Kept')
  <2>1. held \subseteq Kept' /\ x \in Kept' /\ Kept' \subseteq DOMAIN heap'
    BY <1>1, <1>4, <1>6, <1>7, KeptThen
  <2>2. Closed(heap', L) /\ Kept' \subseteq L BY <1>5, <2>1, LiveClosed
  <2>3. t \in L
    <3>1. PICK r \in held : t \in Below(heap, r) BY InLive
    <3>2. t \in Below(heap', r) BY <1>1, <1>3, <1>5, <3>1, StaysAbove
    <3>3. QED BY <2>1, <3>1, <3>2, InLive
  <2>4. \A n \in DOMAIN heap : n \in L => Kids(heap, n) \subseteq L
    BY <1>5, <2>1, <2>2, <2>3 DEF Reworked, Closed
  <2> HIDE DEF L
  <2>5. held \subseteq L \cup {} /\ held \subseteq DOMAIN heap BY <1>1, <2>1, <2>2
  <2>6. \A n \in {} : IsNil(heap, n) /\ Kids(heap, n) \subseteq L OBVIOUS
  <2>7. {n \in Live(heap, held) : ~IsNil(heap, n)} \subseteq L
    BY <1>1, <2>4, <2>5, <2>6, Survive
  <2>8. QED BY <2>7 DEF L, Dropless
<1>10. QED BY <1>8, <1>9

\* Replace and Set: a tree in hand comes under t, and children of t into the hand.
LEMMA MoveKeeps ==
  ASSUME Inv, NEW t \in Live(heap, held), NEW c \in held, t \notin Live(heap, {c}),
         NEW X, X \subseteq Kids(heap, t),
         Sound(heap'), \A Q \in SUBSET ((Roots \ {c}) \cup X) : Forest(heap', Q),
         Reworked(heap, heap', t, (Kids(heap, t) \ X) \cup Handed(heap, c)),
         held' = (held \ {c}) \cup X, stream' = stream
  PROVE  Inv' /\ Dropless
<1>1. /\ Sound(heap) /\ Forest(heap, Roots) /\ held \subseteq Roots
      /\ Roots \subseteq DOMAIN heap /\ Waiting \subseteq Roots /\ held \cap Waiting = {}
      /\ Queued(stream) \subseteq DOMAIN heap
  BY InvFacts
<1>2. t \in Live(heap, Roots) BY <1>1, InLive
<1>3. t \in DOMAIN heap BY <1>1, <1>2, KidsPlaced
<1>4. X \subseteq DOMAIN heap
  <2>1. Kids(heap, t) \subseteq DOMAIN heap BY <1>1, <1>3, HeapNodes DEF Sound
  <2>2. QED BY <2>1
<1>5. X \cap Roots = {} BY <1>1, <1>2, RootsOnTop
<1>6. DOMAIN heap' = DOMAIN heap BY DEF Reworked
<1>7. Inv'
  <2> DEFINE R == (Roots \ {c}) \cup X
  <2>1. Forest(heap', R) OBVIOUS
  <2>2. held' \cup Waiting \subseteq R /\ held' \cap Waiting = {} BY <1>1, <1>5
  <2> HIDE DEF R
  <2>3. NoLists(heap')
    <3>1. /\ c \in DOMAIN heap
          /\ (Kids(heap, t) \ X) \cup Handed(heap, c) \subseteq Kids(heap, t) \cup Handed(heap, c)
      BY <1>1
    <3>2. QED BY <1>1, <1>3, <3>1, ReworkedListless DEF Inv
  <2>4. QED BY <1>6, <2>1, <2>2, <2>3, KeepsStream
<1>8. Dropless
  <2>1. Kept' \subseteq DOMAIN heap /\ held \subseteq DOMAIN heap /\ held \ {c} \subseteq Kept'
        /\ X \subseteq Kept'
    BY <1>1, <1>4, KeptThen
  <2>2. Worked(heap, held, heap', Kept', t, c, X) BY <1>1, <2>1 DEF Worked
  <2>3. QED BY <2>2, NothingLost DEF Dropless
<1>9. QED BY <1>7, <1>8

LEMMA ReplaceKeeps ==
  ASSUME Inv, NEW t \in Live(heap, held), NEW i \in 0 .. Len(heap[t].children) - 1,
         NEW stop \in i .. Len(heap[t].children) - 1, NEW new \in held, Replace(t, i, stop, new)
  PROVE  Inv' /\ Dropless
<1> DEFINE X == Displaced(heap, t, i, stop + 1)
           old == heap[t].children
<1>1. Sound(heap) /\ Forest(heap, Roots) /\ held \subseteq Roots BY InvFacts
<1>2. t \in Live(heap, Roots) /\ t \notin Live(heap, {new}) BY <1>1, InLive DEF Replace
<1>3. /\ old \in Seq(DOMAIN heap) /\ OneToOne(old)
      /\ DOMAIN old = 1 .. Len(old) /\ Len(old) \in Nat
      /\ \A j \in DOMAIN old : old[j] \in Kids(heap, t)
  BY <1>1, <1>2, KidsPlaced
<1>4. Range(SubSeq(old, i + 1, stop + 1)) = X
  <2>1. i + 1 \in 1 .. Len(old) + 1 /\ stop + 1 \in 0 .. Len(old) BY <1>3
  <2>2. \A x : x \in Range(SubSeq(old, i + 1, stop + 1)) <=> \E j \in i + 1 .. stop + 1 : x = old[j]
    BY <1>3, <2>1, SubSeqOneToOne
  <2>3. \A x : x \in X <=> \E j \in i + 1 .. stop + 1 : x = old[j] BY DEF Displaced
  <2>4. QED BY <2>2, <2>3
<1>5. X \subseteq Kids(heap, t)
  <2>1. \A j \in i + 1 .. stop + 1 : j \in DOMAIN old BY <1>3
  <2>2. QED BY <1>3, <2>1 DEF Displaced
<1>6. /\ heap' = ReplaceChildren(heap, t, i, stop, new) /\ stream' = stream
      /\ held' = (held \ {new}) \cup X
  BY <1>4 DEF Replace
<1>7. /\ Sound(heap') /\ \A Q \in SUBSET ((Roots \ {new}) \cup X) : Forest(heap', Q)
      /\ Reworked(heap, heap', t, (Kids(heap, t) \ X) \cup Handed(heap, new))
  BY <1>1, <1>2, <1>6, ReplacedChildren
<1> HIDE DEF X
<1>8. QED BY <1>2, <1>5, <1>6, <1>7, MoveKeeps

LEMMA SetKeeps ==
  ASSUME Inv, NEW t \in Live(heap, held), NEW i \in 0 .. Len(heap[t].children) - 1,
         NEW new \in held, Set(t, i, new)
  PROVE  Inv' /\ Dropless
<1> DEFINE X == {heap[t].children[i + 1]}
<1>1. Sound(heap) /\ Forest(heap, Roots) /\ held \subseteq Roots BY InvFacts
<1>2. t \in Live(heap, Roots) /\ t \notin Live(heap, {new}) /\ ~IsNil(heap, new)
  BY <1>1, InLive DEF Set
<1>3. X \subseteq Kids(heap, t)
  <2>1. /\ DOMAIN heap[t].children = 1 .. Len(heap[t].children) /\ Len(heap[t].children) \in Nat
        /\ \A j \in DOMAIN heap[t].children : heap[t].children[j] \in Kids(heap, t)
    BY <1>1, <1>2, KidsPlaced
  <2>2. i + 1 \in DOMAIN heap[t].children BY <2>1
  <2>3. QED BY <2>1, <2>2
<1>4. heap' = SetChild(heap, t, i, new) /\ stream' = stream /\ held' = (held \ {new}) \cup X
  BY DEF Set
<1>5. Handed(heap, new) = {new} BY <1>2 DEF Handed, Put, Range
<1>6. /\ Sound(heap') /\ \A Q \in SUBSET ((Roots \ {new}) \cup X) : Forest(heap', Q)
      /\ Reworked(heap, heap', t, (Kids(heap, t) \ X) \cup Handed(heap, new))
  BY <1>1, <1>2, <1>4, <1>5, ExchangedOne
<1> HIDE DEF X
<1>7. QED BY <1>2, <1>3, <1>4, <1>6, MoveKeeps

LEMMA BecomeRootOfKeeps ==
  ASSUME Inv, NEW new \in held, NEW old \in held, BecomeRootOf(new, old)
  PROVE  Inv' /\ Dropless
<1> DEFINE x == RealRoot(heap, new)
           R == (Roots \ {new}) \cup {x}
<1>1. /\ Sound(heap) /\ Forest(heap, Roots) /\ held \subseteq Roots
      /\ Roots \subseteq DOMAIN heap /\ Waiting \subseteq Roots /\ held \cap Waiting = {}
      /\ Queued(stream) \subseteq DOMAIN heap
  BY InvFacts
<1>2. new # old /\ heap' = AddChild(heap, x, old) /\ stream' = stream
      /\ held' = (held \ {new, old}) \cup {x}
  BY DEF BecomeRootOf, BecomeRoot
<1>3. x # new => IsNil(heap, new) /\ Kids(heap, new) = {x}
  <2>1. SUFFICES ASSUME x # new PROVE IsNil(heap, new) /\ Kids(heap, new) = {x}
    OBVIOUS
  <2>2. IsNil(heap, new) /\ Len(heap[new].children) = 1 /\ x = heap[new].children[1]
    BY <2>1 DEF RealRoot
  <2>3. DOMAIN heap[new].children = 1 .. 1 BY <1>1, <2>2, HeapNodes DEF Sound
  <2>4. QED BY <2>2, <2>3 DEF Kids, Range
<1> HIDE DEF x
<1>4. x \in DOMAIN heap /\ Forest(heap, R) /\ (x # new => x \notin Roots)
  <2>1. CASE x = new
    <3>1. R = Roots BY <1>1, <2>1
    <3>2. QED BY <1>1, <2>1, <3>1
  <2>2. CASE x # new
    <3>1. x \in Kids(heap, new) BY <1>3, <2>2
    <3>2. x \in DOMAIN heap BY <1>1, <3>1, HeapNodes DEF Sound
    <3>3. new \in Live(heap, Roots) BY <1>1, LiveClosed
    <3>4. x \notin Roots BY <1>1, <3>1, <3>3, RootsOnTop
    <3>5. Forest(heap, R) BY <1>1, <3>1, Unwrapped
    <3>6. QED BY <3>2, <3>4, <3>5
  <2>3. QED BY <2>1, <2>2
<1>5. x \in R /\ old \in R /\ x # old BY <1>1, <1>2, <1>4
<1> HIDE DEF R
<1>6. x \in Live(heap, R) /\ x \notin Live(heap, {old})
  <2>1. x \in Below(heap, x) BY <1>1, <1>4, BelowIsClosed
  <2>2. x \notin Below(heap, old) BY <1>4, <1>5, <2>1 DEF Forest
  <2>3. QED BY <1>5, <2>1, <2>2, InLive
<1>7. /\ Sound(heap') /\ \A Q \in SUBSET (R \ {old}) : Forest(heap', Q)
      /\ Reworked(heap, heap', x, Kids(heap, x) \cup Handed(heap, old))
  BY <1>1, <1>2, <1>4, <1>5, <1>6, AddedChild
<1>8. DOMAIN heap' = DOMAIN heap BY <1>7 DEF Reworked
<1>9. Inv'
  <2>1. Forest(heap', R \ {old}) BY <1>7
  <2>2. held' \cap Waiting = {} BY <1>1, <1>2, <1>4
  <2>3. held' \cup Waiting \subseteq R \ {old}
    <3>1. new \notin Waiting /\ old \notin Waiting BY <1>1
    <3>2. QED BY <1>1, <1>2, <1>5, <3>1 DEF R
  <2>4. NoLists(heap')
    <3>1. old \in DOMAIN heap BY <1>1
    <3>2. QED BY <1>1, <1>4, <1>7, <3>1, ReworkedListless DEF Inv
  <2>5. QED BY <1>2, <1>7, <1>8, <2>1, <2>2, <2>3, <2>4, KeepsStream
<1>10. Dropless
  <2> DEFINE L == Live(heap', Kept')
             N == {n \in held : IsNil(heap, n) /\ Kids(heap, n) \subseteq L}
  <2>1. /\ held \ {new, old} \subseteq Kept' /\ x \in Kept' /\ Kept' \subseteq DOMAIN heap'
        /\ held \subseteq DOMAIN heap
    BY <1>1, <1>2, <1>4, <1>8, KeptThen
  <2>2. Closed(heap', L) /\ Kept' \subseteq L BY <1>7, <2>1, LiveClosed
  <2>3. \A n \in DOMAIN heap : n \in L => Kids(heap, n) \subseteq L
    BY <1>7, <2>2 DEF Reworked, Closed
  <2>4. Handed(heap, old) \subseteq L BY <1>7, <2>1, <2>2 DEF Reworked, Closed
  <2> HIDE DEF L
  <2>5. new \in L \cup N BY <1>3, <2>1, <2>2
  <2>6. old \in L \cup N
    <3>1. CASE IsNil(heap, old)
      <4>1. Handed(heap, old) = Kids(heap, old) BY <3>1 DEF Handed, Put, Kids
      <4>2. QED BY <2>4, <3>1, <4>1
    <3>2. CASE ~IsNil(heap, old)
      <4>1. Handed(heap, old) = {old} BY <3>2 DEF Handed, Put, Range
      <4>2. QED BY <2>4, <4>1
    <3>3. QED BY <3>1, <3>2
  <2>7. held \subseteq L \cup N BY <2>1, <2>2, <2>5, <2>6
  <2>8. \A n \in N : IsNil(heap, n) /\ Kids(heap, n) \subseteq L OBVIOUS
  <2> HIDE DEF N
  <2>9. {n \in Live(heap, held) : ~IsNil(heap, n)} \subseteq L
    BY <1>1, <2>1, <2>3, <2>7, <2>8, Survive
  <2>10. QED BY <2>9 DEF L, Dropless
<1>11. QED BY <1>9, <1>10

\* The list that is unwrapped, or that was empty, is the only node that goes.
LEMMA PostProcessKeeps ==
  ASSUME Inv, NEW t \in held, PostProcess(t)
  PROVE  Inv' /\ Dropless
<1> DEFINE x == PostProcessed(heap, t)
           R == (Roots \ {t}) \cup ({x} \ {None})
<1>1. /\ Sound(heap) /\ Forest(heap, Roots) /\ held \subseteq Roots
      /\ Roots \subseteq DOMAIN heap /\ Waiting \subseteq Roots /\ held \cap Waiting = {}
      /\ Queued(stream) \subseteq DOMAIN heap /\ DOMAIN heap \subseteq Nat
  BY InvFacts
<1>2. /\ IsNil(heap, t) /\ heap' = RulePostProcessing(heap, t) /\ stream' = stream
      /\ held' = (held \ {t}) \cup ({x} \ {None})
  BY DEF PostProcess
<1>3. \/ x = t
      \/ x # t /\ Kids(heap, t) \subseteq {x} \ {None} /\ {x} \ {None} \subseteq Kids(heap, t)
  <2> DEFINE kids == heap[t].children
  <2>1. /\ DOMAIN kids = 1 .. Len(kids) /\ Len(kids) \in Nat /\ Kids(heap, t) \subseteq DOMAIN heap
        /\ kids \in Seq(DOMAIN heap)
    BY <1>1, HeapNodes DEF Sound
  <2>2. CASE Len(kids) > 1 BY <2>2 DEF PostProcessed
  <2>3. CASE kids = <<>>
    <3>1. x = None BY <1>2, <2>1, <2>3 DEF PostProcessed
    <3>2. Kids(heap, t) = {} BY <2>3 DEF Kids, Range
    <3>3. t # None BY <1>1, TreeAssumption
    <3>4. QED BY <3>1, <3>2, <3>3
  <2>4. CASE Len(kids) = 1
    <3>1. kids # <<>> BY <2>4
    <3>2. x = kids[1] BY <1>2, <2>4, <3>1 DEF PostProcessed
    <3>3. Kids(heap, t) = {x} BY <2>1, <2>4, <3>2 DEF Kids, Range
    <3>4. x \in DOMAIN heap BY <2>1, <3>3
    <3>5. x # None BY <1>1, <3>4, TreeAssumption
    <3>6. t \notin Kids(heap, t) BY <1>1, NoChildIsSelf
    <3>7. QED BY <3>3, <3>5, <3>6
  <2>5. kids = <<>> \/ Len(kids) = 1 \/ Len(kids) > 1
    <3>1. \A l \in Nat : l = 0 \/ l = 1 \/ l > 1 OBVIOUS
    <3>2. Len(kids) = 0 => kids = <<>> BY <2>1
    <3>3. QED BY <2>1, <3>1, <3>2
  <2>6. QED BY <2>2, <2>3, <2>4, <2>5
<1>4. heap' = IF x \in {t, None} THEN heap
              ELSE [heap EXCEPT ![x].parent = None, ![x].childIndex = -1]
  BY <1>2 DEF RulePostProcessing
<1> HIDE DEF x
<1>5. Kids(heap, t) \subseteq DOMAIN heap BY <1>1, HeapNodes DEF Sound
<1>6. Forest(heap, R) /\ R \subseteq DOMAIN heap /\ (x # t => x \notin Roots)
  <2>1. CASE x = t
    <3>1. R = Roots BY <1>1, <2>1, TreeAssumption
    <3>2. QED BY <1>1, <2>1, <3>1
  <2>2. CASE x # t /\ x # None
    <3>1. x \in Kids(heap, t) BY <1>3, <2>2
    <3>2. R = (Roots \ {t}) \cup {x} BY <2>2
    <3>3. Forest(heap, R) BY <1>1, <3>1, <3>2, Unwrapped
    <3>4. t \in Live(heap, Roots) BY <1>1, LiveClosed
    <3>5. x \notin Roots BY <1>1, <3>1, <3>4, RootsOnTop
    <3>6. QED BY <1>1, <1>5, <3>1, <3>2, <3>3, <3>5
  <2>3. CASE x = None
    <3>1. R \subseteq Roots BY <2>3
    <3>2. Live(heap, R) \subseteq Live(heap, Roots) BY <3>1, InLive
    <3>3. Forest(heap, R) BY <1>1, <3>1, <3>2 DEF Forest, Places
    <3>4. x \notin Roots BY <1>1, <2>3, TreeAssumption
    <3>5. QED BY <1>1, <3>1, <3>3, <3>4
  <2>4. QED BY <2>1, <2>2, <2>3
<1>7. /\ Sound(heap') /\ Forest(heap', R) /\ DOMAIN heap' = DOMAIN heap
      /\ \A n \in DOMAIN heap :
           Kids(heap', n) = Kids(heap, n) /\ heap'[n].token = heap[n].token
  <2>1. CASE x \in {t, None} BY <1>1, <1>4, <1>6, <2>1
  <2>2. CASE x \notin {t, None}
    <3>1. x \in R BY <2>2
    <3> HIDE DEF R
    <3>2. heap' = [heap EXCEPT ![x].parent = None, ![x].childIndex = -1] BY <1>4, <2>2
    <3>3. QED BY <1>1, <1>6, <3>1, <3>2, Detached
  <2>3. QED BY <2>1, <2>2
<1>8. Inv'
  <2>1. held' \cap Waiting = {} BY <1>1, <1>2, <1>6
  <2>2. held' \cup Waiting \subseteq R BY <1>1, <1>2
  <2> HIDE DEF R
  <2>3. NoLists(heap')
    <3>1. NoLists(heap) /\ \A n \in DOMAIN heap : Kids(heap, n) \subseteq DOMAIN heap
      BY <1>1, HeapNodes DEF Inv, Sound
    <3>2. QED BY <1>7, <3>1 DEF NoLists, IsNil
  <2>4. QED BY <1>2, <1>7, <2>1, <2>2, <2>3, KeepsStream
<1>9. Dropless
  <2> DEFINE L == Live(heap', Kept')
             N == {n \in held : IsNil(heap, n) /\ Kids(heap, n) \subseteq L}
  <2>1. /\ held \ {t} \subseteq Kept' /\ {x} \ {None} \subseteq Kept'
        /\ Kept' \subseteq DOMAIN heap' /\ held \subseteq DOMAIN heap
    BY <1>1, <1>2, <1>6, <1>7, KeptThen
  <2>2. Closed(heap', L) /\ Kept' \subseteq L BY <1>7, <2>1, LiveClosed
  <2>3. \A n \in DOMAIN heap : n \in L => Kids(heap, n) \subseteq L
    BY <1>7, <2>2 DEF Closed
  <2> HIDE DEF L
  <2>4. t \in L \cup N
    <3>1. t # None BY <1>1, TreeAssumption
    <3>2. QED BY <1>2, <1>3, <2>1, <2>2, <3>1
  <2>5. held \subseteq L \cup N BY <2>1, <2>2, <2>4
  <2>6. \A n \in N : IsNil(heap, n) /\ Kids(heap, n) \subseteq L OBVIOUS
  <2> HIDE DEF N
  <2>7. {n \in Live(heap, held) : ~IsNil(heap, n)} \subseteq L
    BY <1>1, <2>1, <2>3, <2>5, <2>6, Survive
  <2>8. QED BY <2>7 DEF L, Dropless
<1>10. QED BY <1>8, <1>9

LEMMA AddKeeps ==
  ASSUME Inv, NEW el \in held, Add(el)
  PROVE  Inv' /\ Dropless
<1> DEFINE D == DOMAIN heap
<1>1. /\ Sound(heap) /\ Forest(heap, Roots) /\ held \subseteq Roots /\ StreamOK(stream, D)
      /\ Roots \subseteq D /\ D \subseteq Nat /\ held \cap Waiting = {}
      /\ Waiting = Gives(stream) /\ Waiting \subseteq Roots /\ Queued(stream) \subseteq D
  BY InvFacts
<1>2. heap' = heap /\ held' = held \ {el} /\ stream' = AddTo(stream, el) BY DEF Add
<1>3. el \in D /\ el \notin Gives(stream) BY <1>1
<1> HIDE DEF D
<1>4. /\ StreamOK(stream', D) /\ Gives(stream') \subseteq Gives(stream) \cup {el}
      /\ Queued(stream') = Queued(stream) \cup {el}
  BY <1>1, <1>2, <1>3, StreamAdd
<1>5. Inv'
  <2>1. held' \subseteq Roots /\ Gives(stream') \subseteq Roots /\ held' \cap Gives(stream') = {}
    BY <1>1, <1>2, <1>4
  <2>2. /\ Sound(heap') /\ NoLists(heap') /\ Forest(heap', Roots)
        /\ StreamOK(stream', DOMAIN heap')
    BY <1>1, <1>2, <1>4 DEF D, Inv
  <2>3. QED BY <2>1, <2>2, Keeps
<1>6. Dropless
  <2>1. held \subseteq Kept' /\ Kept' \subseteq DOMAIN heap' /\ held \subseteq DOMAIN heap
    BY <1>1, <1>2, <1>3, <1>4, KeptThen DEF D
  <2>2. QED BY <1>1, <1>2, <2>1, LiveGrows DEF Dropless
<1>7. QED BY <1>5, <1>6

\* What is taken is new, or was waiting until then and is not waiting any more.
LEMMA TakeKeeps ==
  ASSUME Inv, NEW copied, Take(copied),
         NextElement \in DOMAIN heap => Grows(heap, copied) /\ NoLists(copied)
  PROVE  Inv' /\ Dropless
<1> DEFINE D == DOMAIN heap
           new == Len(heap) + 1
<1>1. /\ Sound(heap) /\ Forest(heap, Roots) /\ held \subseteq Roots /\ StreamOK(stream, D)
      /\ Roots \subseteq D /\ D \subseteq Nat /\ held \cap Waiting = {}
      /\ Waiting = Gives(stream) /\ Waiting \subseteq Roots /\ Queued(stream) \subseteq D
  BY InvFacts
<1> DEFINE el == NextElement
<1>2. /\ HasAnother /\ Advance
      /\ \/ el = None /\ heap' = heap /\ held' = held
         \/ el # None /\ MustDup /\ heap' = copied /\ held' = held \cup {new}
         \/ el # None /\ ~MustDup /\ heap' = heap /\ held' = held \cup {el}
  BY DEF Take
<1> HIDE DEF D
<1>3. /\ StreamOK(stream', D) /\ Queued(stream') = Queued(stream)
      /\ el \in D \cup {None} /\ Gives(stream') \subseteq Gives(stream)
      /\ el # None /\ ~MustDup => el \in Gives(stream) /\ el \notin Gives(stream')
  BY <1>1, <1>2, StreamTaken
<1> HIDE DEF el, new
<1>4. /\ Sound(heap') /\ NoLists(heap') /\ D \subseteq DOMAIN heap'
      /\ \A n \in D : Kids(heap', n) = Kids(heap, n)
      /\ \/ /\ heap' = heap /\ Forest(heap', Roots) /\ held' \subseteq Roots
            /\ held' \cap Gives(stream') = {}
         \/ /\ Forest(heap', Roots \cup {new}) /\ held' = held \cup {new}
            /\ new \notin D /\ new \in DOMAIN heap'
  <2>1. CASE el = None BY <1>1, <1>2, <1>3, <2>1 DEF D, Inv
  <2>2. CASE el # None /\ MustDup
    <3>1. Grows(heap, heap') /\ NoLists(heap') BY <1>2, <1>3, <2>2 DEF D, el
    <3>2. new \in DOMAIN heap' BY <3>1 DEF Grows, new
    <3>3. QED BY <1>1, <1>2, <2>2, <3>1, <3>2, GrownHeap DEF D, new
  <2>3. CASE el # None /\ ~MustDup BY <1>1, <1>2, <1>3, <2>3 DEF D, Inv
  <2>4. QED BY <2>1, <2>2, <2>3
<1>5. StreamOK(stream', DOMAIN heap') BY <1>3, <1>4, StreamGrown
<1>6. Inv'
  <2>1. CASE heap' = heap /\ Forest(heap', Roots) /\ held' \subseteq Roots
             /\ held' \cap Gives(stream') = {}
    <3>1. Gives(stream') \subseteq Roots BY <1>1, <1>3
    <3>2. QED BY <1>4, <1>5, <2>1, <3>1, Keeps
  <2>2. CASE Forest(heap', Roots \cup {new}) /\ held' = held \cup {new} /\ new \notin D
    <3>1. /\ held' \subseteq Roots \cup {new} /\ Gives(stream') \subseteq Roots \cup {new}
          /\ held' \cap Gives(stream') = {}
      BY <1>1, <1>3, <2>2
    <3>2. QED BY <1>4, <1>5, <2>2, <3>1, Keeps
  <2>3. QED BY <1>4, <2>1, <2>2
<1>7. Dropless
  <2>1. held \subseteq held' /\ held' \subseteq DOMAIN heap'
    BY <1>1, <1>2, <1>4
  <2>2. held \subseteq Kept' /\ Kept' \subseteq DOMAIN heap' /\ held \subseteq DOMAIN heap
    BY <1>1, <1>3, <1>4, <2>1, KeptThen DEF D
  <2>3. QED BY <1>1, <1>4, <2>2, LiveGrows DEF Dropless, D
<1>8. QED BY <1>6, <1>7

LEMMA NextTreeKeeps ==
  ASSUME Inv, NextTree
  PROVE  Inv' /\ Dropless
<1>1. NextElement \in DOMAIN heap =>
        Grows(heap, DupTree(heap, NextElement)) /\ NoLists(DupTree(heap, NextElement))
  BY DupTreeGrows DEF Inv
<1>2. QED BY <1>1, TakeKeeps DEF NextTree

LEMMA NextNodeKeeps ==
  ASSUME Inv, NextNode
  PROVE  Inv' /\ Dropless
<1>1. ASSUME NextElement \in DOMAIN heap
      PROVE  Grows(heap, DupNode(heap, NextElement)) /\ NoLists(DupNode(heap, NextElement))
  <2>1. heap[NextElement].token \in Token \cup {Nil} BY <1>1, InvTypes DEF TypeOK
  <2>2. QED BY <2>1, NewNodeGrows DEF Inv, DupNode
<1>2. QED BY <1>1, TakeKeeps DEF NextNode

LEMMA ResetKeeps ==
  ASSUME Inv, Reset
  PROVE  Inv' /\ Dropless
<1>1. /\ Sound(heap) /\ Forest(heap, Roots) /\ held \subseteq Roots
      /\ StreamOK(stream, DOMAIN heap) /\ Roots \subseteq DOMAIN heap
      /\ Queued(stream) \subseteq DOMAIN heap
  BY InvFacts
<1>2. /\ heap' = heap /\ held' = held
      /\ stream' = [stream EXCEPT !.cursor = 0, !.dirty = TRUE]
  BY DEF Reset
<1>3. /\ StreamOK(stream', DOMAIN heap) /\ Gives(stream') = {}
      /\ Queued(stream') = Queued(stream)
  BY <1>1, <1>2, StreamReset
<1>4. Inv'
  <2>1. held' \subseteq Roots /\ Gives(stream') \subseteq Roots /\ held' \cap Gives(stream') = {}
    BY <1>1, <1>2, <1>3
  <2>2. QED BY <1>1, <1>2, <1>3, <2>1, Keeps DEF Inv
<1>5. Dropless
  <2>1. held \subseteq Kept' /\ Kept' \subseteq DOMAIN heap' /\ held \subseteq DOMAIN heap
    BY <1>1, <1>2, <1>3, KeptThen
  <2>2. QED BY <1>1, <1>2, <2>1, LiveGrows DEF Dropless
<1>6. QED BY <1>4, <1>5

LEMMA EditKeeps ==
  ASSUME Inv, NEW t \in Live(heap, held), NEW i \in 0 .. Len(heap[t].children) - 1,
         \/ Delete(t, i)
         \/ \E new \in held : Set(t, i, new)
         \/ \E stop \in i .. Len(heap[t].children) - 1, new \in held : Replace(t, i, stop, new)
  PROVE  Inv' /\ Dropless
<1>1. CASE Delete(t, i) BY <1>1, DeleteKeeps
<1>2. CASE \E new \in held : Set(t, i, new) BY <1>2, SetKeeps
<1>3. CASE \E stop \in i .. Len(heap[t].children) - 1, new \in held : Replace(t, i, stop, new)
  BY <1>3, ReplaceKeeps
<1>4. QED BY <1>1, <1>2, <1>3

LEMMA StepKeeps ==
  ASSUME Inv, Next
  PROVE  Inv' /\ Dropless
<1>1. CASE Build
  <2>1. CASE \E token \in Token \cup {Nil} : Create(token) BY <2>1, CreateKeeps
  <2>2. CASE \E t, child \in held : AddChildTo(t, child) BY <2>2, AddChildToKeeps
  <2>3. CASE \E new, old \in held : BecomeRootOf(new, old) BY <2>3, BecomeRootOfKeeps
  <2>4. CASE \E t \in held : PostProcess(t) BY <2>4, PostProcessKeeps
  <2>5. QED BY <1>1, <2>1, <2>2, <2>3, <2>4 DEF Build
<1>2. CASE Edit BY <1>2, EditKeeps DEF Edit
<1>3. CASE Stream
  BY <1>3, AddKeeps, NextTreeKeeps, NextNodeKeeps, ResetKeeps DEF Stream
<1>4. QED BY <1>1, <1>2, <1>3 DEF Next

LEMMA StutterKeeps ==
  ASSUME Inv, UNCHANGED vars
  PROVE  Inv'
<1>1. heap' = heap /\ held' = held /\ stream' = stream BY DEF vars
<1>2. Waiting' = Waiting BY <1>1 DEF Waiting, Over, Size
<1>3. Roots' = Roots BY <1>1, <1>2 DEF Roots
<1>4. QED BY <1>1, <1>2, <1>3 DEF Inv

----------------------------------------------------------------------------
(* Sequences joined one after the other                                     *)

\* The parts joined one after the other, step by step.
Joins(parts, S, g) ==
  /\ g \in [0 .. Len(parts) -> Seq(S)] /\ g[0] = <<>>
  /\ \A i \in 1 .. Len(parts) : g[i] = g[i - 1] \o parts[i]
  /\ FlattenSeq(parts) = g[Len(parts)]

LEMMA Joined ==
  ASSUME NEW S, NEW parts \in Seq(Seq(S))
  PROVE  \E g : Joins(parts, S, g)
<1> DEFINE n == Len(parts)
           F == [x \in Seq(S) \X (1 .. n) |-> x[1] \o parts[x[2]]]
           Equation(f) == f = [i \in 1 .. n |-> IF i = 1 THEN parts[i] ELSE f[i - 1] \o parts[i]]
<1>1. n \in Nat /\ DOMAIN parts = 1 .. n /\ \A i \in 1 .. n : parts[i] \in Seq(S)
  OBVIOUS
<1>2. F \in [Seq(S) \X (1 .. n) -> Seq(S)]
  <2>1. \A s \in Seq(S), i \in 1 .. n : s \o parts[i] \in Seq(S)
    BY <1>1, ConcatProperties
  <2>2. QED BY <2>1
<1>3. \A s \in Seq(S), i \in 1 .. n : F[<<s, i>>] = s \o parts[i] OBVIOUS
<1>4. <<>> \in Seq(S) OBVIOUS
<1> HIDE DEF F, n
<1>5. PICK g \in [0 .. n -> Seq(S)] :
        g[0] = <<>> /\ \A i \in 1 .. n : g[i] = F[<<g[i - 1], i>>]
  <2>1. StepsIn(n, Seq(S), <<>>, F) BY <1>1, <1>2, <1>4 DEF StepsIn
  <2>2. QED BY <2>1, Steps
<1>6. \A i \in 1 .. n : i - 1 \in 0 .. n /\ i \in 0 .. n /\ 1 - 1 = 0 BY <1>1
<1>7. \A i \in 1 .. n : g[i] = g[i - 1] \o parts[i] BY <1>3, <1>5, <1>6
<1>8. FlattenSeq(parts) = g[n]
  <2>1. CASE n = 0
    <3>1. parts = <<>> /\ FlattenSeq(parts) = <<>> BY <2>1, EmptySeq DEF FlattenSeq, n
    <3>2. QED BY <1>5, <2>1, <3>1
  <2>2. CASE n # 0
    <3> DEFINE f == [i \in 1 .. n |-> g[i]]
               flatten == CHOOSE h : Equation(h)
               P == {k \in Nat : k + 1 \in 1 .. n => flatten[k + 1] = g[k + 1]}
    <3>1. \A i \in 1 .. n : g[i] = IF i = 1 THEN parts[i] ELSE g[i - 1] \o parts[i]
      <4>1. \A i \in 1 .. n : <<>> \o parts[i] = parts[i] BY <1>1, ConcatEmptySeq
      <4>2. QED BY <1>5, <1>6, <1>7, <4>1
    <3>2. Equation(f)
      <4>1. \A i \in 1 .. n : i # 1 => i - 1 \in 1 .. n BY <1>1
      <4>2. QED BY <3>1, <4>1
    <3>3. Equation(flatten) BY <3>2
    <3>4. FlattenSeq(parts) = flatten[n] BY <2>2, Zenon DEF FlattenSeq, n
    <3>5. flatten = [i \in 1 .. n |-> IF i = 1 THEN parts[i] ELSE flatten[i - 1] \o parts[i]]
      BY <3>3
    <3> HIDE DEF f, flatten
    <3>6. 0 \in P
      <4>1. 1 \in 1 .. n => flatten[1] = g[1] BY <3>1, <3>5
      <4>2. QED BY <4>1
    <3>7. ASSUME NEW k \in Nat, k \in P PROVE k + 1 \in P
      <4>1. SUFFICES ASSUME (k + 1) + 1 \in 1 .. n
                     PROVE  flatten[(k + 1) + 1] = g[(k + 1) + 1]
        OBVIOUS
      <4>2. k + 1 \in 1 .. n /\ (k + 1) + 1 # 1 /\ ((k + 1) + 1) - 1 = k + 1 BY <1>1, <4>1
      <4>3. flatten[k + 1] = g[k + 1] BY <3>7, <4>2
      <4> DEFINE e == (k + 1) + 1
      <4>4. e \in 1 .. n /\ e # 1 /\ e - 1 = k + 1 BY <4>1, <4>2
      <4> HIDE DEF e
      <4>5. g[e] = g[k + 1] \o parts[e] BY <3>1, <4>4
      <4>6. flatten[e] = flatten[k + 1] \o parts[e] BY <3>5, <4>4
      <4>7. QED BY <4>3, <4>5, <4>6 DEF e
    <3> HIDE DEF P
    <3>8. \A k \in Nat : k \in P BY <3>6, <3>7, Induct
    <3>9. n - 1 \in Nat /\ (n - 1) + 1 = n /\ n \in 1 .. n BY <1>1, <2>2
    <3>10. flatten[n] = g[n] BY <3>8, <3>9 DEF P
    <3>11. QED BY <3>4, <3>10
  <2>3. QED BY <2>1, <2>2
<1>9. QED BY <1>5, <1>7, <1>8 DEF Joins, n

\* What holds of the parts, and of two sequences put together when it holds of
\* both, holds of the whole.
LEMMA FlattenIn ==
  ASSUME NEW S, NEW P, P \subseteq Seq(S), <<>> \in P,
         \A a, b \in P : a \o b \in P, NEW parts \in Seq(P)
  PROVE  FlattenSeq(parts) \in P
<1> DEFINE n == Len(parts)
<1>1. n \in Nat /\ \A i \in 1 .. n : parts[i] \in P OBVIOUS
<1>2. parts \in Seq(Seq(S)) BY SeqMonotonic
<1>3. PICK g : Joins(parts, S, g) BY <1>2, Joined
<1> DEFINE T == {k \in Nat : k \in 0 .. n => g[k] \in P}
<1>4. 0 \in T BY <1>3 DEF Joins
<1>5. ASSUME NEW k \in Nat, k \in T PROVE k + 1 \in T
  <2>1. SUFFICES ASSUME k + 1 \in 0 .. n PROVE g[k + 1] \in P
    OBVIOUS
  <2>2. k \in 0 .. n /\ k + 1 \in 1 .. n /\ (k + 1) - 1 = k BY <1>1, <2>1
  <2>3. g[k + 1] = g[k] \o parts[k + 1] BY <1>3, <2>2 DEF Joins
  <2>4. QED BY <1>1, <1>5, <2>2, <2>3
<1> HIDE DEF T
<1>6. n \in T BY <1>1, <1>4, <1>5, Induct
<1>7. QED BY <1>1, <1>3, <1>6 DEF T, Joins

LEMMA Associative ==
  \A S : \A s, t, u \in Seq(S) : (s \o t) \o u = s \o (t \o u)
BY ConcatAssociative

LEMMA FlattenAt ==
  ASSUME NEW S, NEW parts \in Seq(Seq(S)), NEW i \in DOMAIN parts
  PROVE  \E a, b \in Seq(S) : FlattenSeq(parts) = (a \o parts[i]) \o b
<1> DEFINE n == Len(parts)
<1>1. n \in Nat /\ i \in 1 .. n /\ \A k \in 1 .. n : parts[k] \in Seq(S) OBVIOUS
<1>2. PICK g : Joins(parts, S, g) BY Joined
<1>3. i - 1 \in 0 .. n /\ i \in 1 .. n /\ i + 0 = i /\ <<>> \in Seq(S) BY <1>1
<1>4. g[i - 1] \in Seq(S) /\ g[i] = g[i - 1] \o parts[i] BY <1>2, <1>3 DEF Joins
<1> DEFINE c == g[i - 1] \o parts[i]
           Starts(s) == \E b \in Seq(S) : s = c \o b
           T == {k \in Nat : i + k \in 1 .. n => Starts(g[i + k])}
<1>5. c \in Seq(S) BY <1>1, <1>4, ConcatProperties
<1> HIDE DEF c, Starts
<1>6. 0 \in T
  <2>1. c = c \o <<>> BY <1>5, ConcatEmptySeq
  <2>2. g[i + 0] = c BY <1>3, <1>4 DEF c
  <2>3. Starts(g[i + 0]) BY <1>3, <2>1, <2>2 DEF Starts
  <2>4. QED BY <2>3
<1>7. ASSUME NEW k \in Nat, k \in T PROVE k + 1 \in T
  <2>1. SUFFICES ASSUME i + (k + 1) \in 1 .. n
                 PROVE  Starts(g[i + (k + 1)])
    OBVIOUS
  <2>2. i + k \in 1 .. n /\ (i + (k + 1)) - 1 = i + k BY <1>1, <2>1
  <2>3. PICK b \in Seq(S) : g[i + k] = c \o b BY <1>7, <2>2 DEF Starts
  <2>4. g[i + (k + 1)] = (c \o b) \o parts[i + (k + 1)] BY <1>2, <2>1, <2>2, <2>3 DEF Joins
  <2>5. parts[i + (k + 1)] \in Seq(S) BY <1>1, <2>1
  <2>6. (c \o b) \o parts[i + (k + 1)] = c \o (b \o parts[i + (k + 1)])
    <3>1. \A t \in Seq(S) : (c \o b) \o t = c \o (b \o t) BY <1>5, Associative
    <3>2. QED BY <2>5, <3>1
  <2>7. b \o parts[i + (k + 1)] \in Seq(S) BY ONLY <2>3, <2>5, ConcatProperties
  <2>8. QED BY <2>4, <2>6, <2>7 DEF Starts
<1> HIDE DEF T
<1>8. \A k \in Nat : k \in T BY <1>6, <1>7, Induct
<1>9. n - i \in Nat /\ i + (n - i) = n /\ n \in 1 .. n BY <1>1
<1>10. PICK b \in Seq(S) : g[n] = c \o b
  <2>1. Starts(g[n]) BY <1>8, <1>9 DEF T
  <2>2. QED BY <2>1 DEF Starts
<1>11. QED BY <1>2, <1>4, <1>10 DEF Joins, c

LEMMA FlattenConcat ==
  ASSUME NEW S, NEW x \in Seq(Seq(S)), NEW y \in Seq(Seq(S))
  PROVE  FlattenSeq(x \o y) = FlattenSeq(x) \o FlattenSeq(y)
<1> DEFINE z == x \o y
           m == Len(x)
           n == Len(y)
<1>1. /\ m \in Nat /\ n \in Nat /\ z \in Seq(Seq(S)) /\ Len(z) = m + n
      /\ \A i \in 1 .. m + n : z[i] = IF i <= m THEN x[i] ELSE y[i - m]
      /\ \A i \in 1 .. m : x[i] \in Seq(S)
      /\ \A i \in 1 .. n : y[i] \in Seq(S)
  BY ConcatProperties
<1> HIDE DEF z, m, n
<1>2. PICK f : Joins(x, S, f) BY Joined
<1>3. PICK g : Joins(y, S, g) BY Joined
<1>4. PICK h : Joins(z, S, h) BY <1>1, Joined
<1> DEFINE T == {k \in Nat : k \in 0 .. m => h[k] = f[k]}
<1>5. 0 \in T BY <1>2, <1>4 DEF Joins
<1>6. ASSUME NEW k \in Nat, k \in T PROVE k + 1 \in T
  <2>1. SUFFICES ASSUME k + 1 \in 0 .. m PROVE h[k + 1] = f[k + 1]
    OBVIOUS
  <2>2. /\ k \in 0 .. m /\ k + 1 \in 1 .. m /\ (k + 1) - 1 = k
        /\ k + 1 \in 1 .. m + n /\ k + 1 <= m
    BY <1>1, <2>1
  <2>3. f[k + 1] = f[k] \o x[k + 1] BY <1>2, <2>2 DEF Joins, m
  <2>4. h[k + 1] = h[k] \o z[k + 1] BY <1>1, <1>4, <2>2 DEF Joins
  <2>5. QED BY <1>1, <1>6, <2>2, <2>3, <2>4
<1> HIDE DEF T
<1>7. h[m] = f[m]
  <2>1. \A k \in Nat : k \in T BY <1>5, <1>6, Induct
  <2>2. m \in Nat /\ m \in 0 .. m BY <1>1
  <2>3. QED BY <2>1, <2>2 DEF T
<1>8. f[m] \in Seq(S)
  <2>1. m \in 0 .. m BY <1>1
  <2>2. f \in [0 .. m -> Seq(S)] BY <1>2 DEF Joins, m
  <2>3. QED BY <2>1, <2>2
<1> DEFINE both(k) == f[m] \o g[k]
           U == {k \in Nat : k \in 0 .. n => h[m + k] = both(k)}
<1> HIDE DEF both
<1>9. 0 \in U
  <2>1. m + 0 = m /\ g[0] = <<>> BY <1>1, <1>3 DEF Joins
  <2>2. f[m] \o <<>> = f[m] BY <1>8, ConcatEmptySeq
  <2>3. QED BY <1>7, <2>1, <2>2 DEF both
<1>10. ASSUME NEW k \in Nat, k \in U PROVE k + 1 \in U
  <2>1. SUFFICES ASSUME k + 1 \in 0 .. n PROVE h[m + (k + 1)] = both(k + 1)
    OBVIOUS
  <2>2. /\ k \in 0 .. n /\ k + 1 \in 1 .. n /\ (k + 1) - 1 = k
        /\ m + (k + 1) \in 1 .. m + n /\ ~(m + (k + 1) <= m)
        /\ (m + (k + 1)) - 1 = m + k /\ (m + (k + 1)) - m = k + 1
    <3>1. m \in Nat /\ n \in Nat BY <1>1
    <3>2. QED BY ONLY <1>10, <2>1, <3>1
  <2>3. g[k + 1] = g[k] \o y[k + 1] /\ g[k] \in Seq(S) BY <1>3, <2>2 DEF Joins, n
  <2>4. h[m + (k + 1)] = h[m + k] \o z[m + (k + 1)] BY <1>1, <1>4, <2>2 DEF Joins
  <2>5. z[m + (k + 1)] = y[k + 1] /\ y[k + 1] \in Seq(S) BY <1>1, <2>2
  <2>6. h[m + k] = both(k) BY <1>10, <2>2
  <2>7. (f[m] \o g[k]) \o y[k + 1] = f[m] \o (g[k] \o y[k + 1])
    <3>1. \A s, t, u \in Seq(S) : (s \o t) \o u = s \o (t \o u) BY Associative
    <3>2. QED BY <1>8, <2>3, <2>5, <3>1, Zenon
  <2>8. QED BY <2>3, <2>4, <2>5, <2>6, <2>7 DEF both
<1> HIDE DEF U
<1>11. h[m + n] = both(n)
  <2>1. \A k \in Nat : k \in U BY <1>9, <1>10, Induct
  <2>2. n \in Nat /\ n \in 0 .. n BY <1>1
  <2>3. QED BY <2>1, <2>2 DEF U
<1>12. /\ FlattenSeq(x) = f[m] /\ FlattenSeq(y) = g[n]
       /\ FlattenSeq(z) = h[m + n]
  BY <1>1, <1>2, <1>3, <1>4 DEF Joins, m, n
<1>13. QED BY <1>11, <1>12 DEF both, z

\* The members of X stand in the sequence no more than once.
Once(s, X) == \A i, j \in DOMAIN s : s[i] = s[j] /\ s[i] \in X => i = j

LEMMA ConcatOnce ==
  ASSUME NEW S, NEW X, NEW s \in Seq(S), NEW t \in Seq(S), Once(s, X), Once(t, X),
         \A x \in Range(s) : x \in X => x \notin Range(t)
  PROVE  Once(s \o t, X)
<1>1. /\ s \o t \in Seq(S) /\ Len(s \o t) = Len(s) + Len(t)
      /\ \A i \in 1 .. Len(s) + Len(t) :
           (s \o t)[i] = IF i <= Len(s) THEN s[i] ELSE t[i - Len(s)]
  BY ConcatProperties
<1>2. /\ Len(s) \in Nat /\ Len(t) \in Nat /\ DOMAIN s = 1 .. Len(s) /\ DOMAIN t = 1 .. Len(t)
      /\ DOMAIN (s \o t) = 1 .. Len(s) + Len(t)
  BY <1>1
<1>3. \A i \in 1 .. Len(s) + Len(t) :
        \/ i \in 1 .. Len(s) /\ (s \o t)[i] = s[i]
        \/ i \notin 1 .. Len(s) /\ i - Len(s) \in 1 .. Len(t) /\ (s \o t)[i] = t[i - Len(s)]
  BY <1>1, <1>2
<1>4. ASSUME NEW i \in 1 .. Len(s) + Len(t), NEW j \in 1 .. Len(s) + Len(t),
             (s \o t)[i] = (s \o t)[j], (s \o t)[i] \in X
      PROVE  i = j
  <2>1. CASE i \in 1 .. Len(s) /\ j \in 1 .. Len(s) BY <1>2, <1>3, <1>4, <2>1 DEF Once
  <2>2. CASE i \notin 1 .. Len(s) /\ j \notin 1 .. Len(s)
    <3>1. i - Len(s) \in 1 .. Len(t) /\ j - Len(s) \in 1 .. Len(t) BY <1>3, <2>2
    <3>2. t[i - Len(s)] = t[j - Len(s)] /\ t[i - Len(s)] \in X BY <1>3, <1>4, <2>2
    <3>3. i - Len(s) = j - Len(s) BY <1>2, <3>1, <3>2 DEF Once
    <3>4. QED BY <1>2, <3>3
  <2>3. CASE i \in 1 .. Len(s) /\ j \notin 1 .. Len(s)
    BY <1>2, <1>3, <1>4, <2>3 DEF Range
  <2>4. CASE i \notin 1 .. Len(s) /\ j \in 1 .. Len(s)
    BY <1>2, <1>3, <1>4, <2>4 DEF Range
  <2>5. QED BY <2>1, <2>2, <2>3, <2>4
<1>5. QED BY <1>2, <1>4 DEF Once

LEMMA FlattenOnce ==
  ASSUME NEW S, NEW X, NEW parts \in Seq(Seq(S)),
         \A i \in DOMAIN parts : Once(parts[i], X),
         \A i, j \in DOMAIN parts : i # j =>
           \A x \in Range(parts[i]) : x \in X => x \notin Range(parts[j])
  PROVE  Once(FlattenSeq(parts), X)
<1> DEFINE n == Len(parts)
<1>1. n \in Nat /\ DOMAIN parts = 1 .. n /\ \A i \in 1 .. n : parts[i] \in Seq(S) OBVIOUS
<1>2. PICK g : Joins(parts, S, g) BY Joined
<1> DEFINE Good(k) == /\ g[k] \in Seq(S) /\ Once(g[k], X)
                      /\ \A x : x \in Range(g[k]) => \E i \in 1 .. k : x \in Range(parts[i])
           T == {k \in Nat : k \in 0 .. n => Good(k)}
<1>3. 0 \in T
  <2>1. g[0] = <<>> BY <1>2 DEF Joins
  <2>2. <<>> \in Seq(S) /\ DOMAIN <<>> = {} OBVIOUS
  <2>3. Good(0) BY <2>1, <2>2 DEF Once, Range
  <2>4. QED BY <2>3
<1>4. ASSUME NEW k \in Nat, k \in T PROVE k + 1 \in T
  <2>1. SUFFICES ASSUME k + 1 \in 0 .. n PROVE Good(k + 1)
    OBVIOUS
  <2>2. k \in 0 .. n /\ k + 1 \in 1 .. n /\ (k + 1) - 1 = k BY <1>1, <2>1
  <2>3. g[k + 1] = g[k] \o parts[k + 1] BY <1>2, <2>2 DEF Joins
  <2>4. Good(k) BY <1>4, <2>2
  <2>5. \A x \in Range(g[k]) : x \in X => x \notin Range(parts[k + 1])
    <3>1. \A i \in 1 .. k : i \in 1 .. n /\ i # k + 1 BY <2>2
    <3>2. QED BY <1>1, <2>2, <2>4, <3>1
  <2>6. Once(g[k] \o parts[k + 1], X) BY <1>1, <2>2, <2>4, <2>5, ConcatOnce
  <2>7. /\ g[k] \o parts[k + 1] \in Seq(S)
        /\ \A x : x \in Range(g[k] \o parts[k + 1]) <=>
                     x \in Range(g[k]) \/ x \in Range(parts[k + 1])
    BY <1>1, <2>2, <2>4, RangeConcat
  <2>8. \A i \in 1 .. k : i \in 1 .. k + 1 BY <2>2
  <2>9. k + 1 \in 1 .. k + 1 BY <2>2
  <2>10. QED BY <2>3, <2>4, <2>6, <2>7, <2>8, <2>9
<1> HIDE DEF T
<1>5. \A k \in Nat : k \in T BY <1>3, <1>4, Induct
<1>6. n \in 0 .. n BY <1>1
<1>7. Once(g[n], X) BY <1>1, <1>5, <1>6 DEF T
<1>8. QED BY <1>2, <1>7 DEF Joins

\* Every member of a sequence gives way to a sequence.
Mapped(f, s) == FlattenSeq([i \in DOMAIN s |-> f[s[i]]])
ToSeqs(f, S, U) == f \in [S -> Seq(U)]

LEMMA MappedConcat ==
  ASSUME NEW S, NEW U, NEW f, ToSeqs(f, S, U), NEW s \in Seq(S), NEW t \in Seq(S)
  PROVE  /\ Mapped(f, s) \in Seq(U)
         /\ Mapped(f, s \o t) = Mapped(f, s) \o Mapped(f, t)
<1> DEFINE by(x) == [i \in DOMAIN x |-> f[x[i]]]
<1>1. ASSUME NEW x \in Seq(S)
      PROVE  /\ by(x) \in Seq(Seq(U)) /\ Len(by(x)) = Len(x)
             /\ \A i \in 1 .. Len(x) : by(x)[i] = f[x[i]]
  <2>1. DOMAIN x = 1 .. Len(x) /\ Len(x) \in Nat /\ \A i \in 1 .. Len(x) : x[i] \in S
    OBVIOUS
  <2>2. by(x) \in [1 .. Len(x) -> Seq(U)] BY <2>1 DEF ToSeqs
  <2>3. by(x) \in Seq(Seq(U)) BY <2>1, <2>2, SeqDef
  <2>4. QED BY <2>1, <2>2, <2>3
<1>2. /\ s \o t \in Seq(S) /\ Len(s \o t) = Len(s) + Len(t)
      /\ \A i \in 1 .. Len(s) + Len(t) :
           (s \o t)[i] = IF i <= Len(s) THEN s[i] ELSE t[i - Len(s)]
  BY ConcatProperties
<1> DEFINE bs == by(s)
           bt == by(t)
           bst == by(s \o t)
<1>3. /\ bs \in Seq(Seq(U)) /\ Len(bs) = Len(s) /\ \A i \in 1 .. Len(s) : bs[i] = f[s[i]]
      /\ bt \in Seq(Seq(U)) /\ Len(bt) = Len(t) /\ \A i \in 1 .. Len(t) : bt[i] = f[t[i]]
  BY <1>1
<1>4. /\ bst \in Seq(Seq(U)) /\ Len(bst) = Len(s) + Len(t)
      /\ \A i \in 1 .. Len(s) + Len(t) : bst[i] = f[(s \o t)[i]]
  <2>1. s \o t \in Seq(S) BY <1>2
  <2>2. /\ by(s \o t) \in Seq(Seq(U)) /\ Len(by(s \o t)) = Len(s \o t)
        /\ \A i \in 1 .. Len(s \o t) : by(s \o t)[i] = f[(s \o t)[i]]
    BY <1>1, <2>1
  <2>3. QED BY <1>2, <2>2
<1>5. /\ Mapped(f, s) = FlattenSeq(bs) /\ Mapped(f, t) = FlattenSeq(bt)
      /\ Mapped(f, s \o t) = FlattenSeq(bst)
  BY DEF Mapped
<1>6. Len(s) \in Nat /\ Len(t) \in Nat OBVIOUS
<1> HIDE DEF bs, bt, bst, by
<1>7. bst = bs \o bt
  <2>1. /\ bs \o bt \in Seq(Seq(U)) /\ Len(bs \o bt) = Len(s) + Len(t)
        /\ \A i \in 1 .. Len(s) + Len(t) :
             (bs \o bt)[i] = IF i <= Len(s) THEN bs[i] ELSE bt[i - Len(s)]
    <3>1. bs \in Seq(Seq(U)) /\ bt \in Seq(Seq(U)) BY <1>3
    <3>2. Len(bs) = Len(s) /\ Len(bt) = Len(t) BY <1>3
    <3>3. /\ bs \o bt \in Seq(Seq(U)) /\ Len(bs \o bt) = Len(bs) + Len(bt)
          /\ \A i \in 1 .. Len(bs) + Len(bt) :
               (bs \o bt)[i] = IF i <= Len(bs) THEN bs[i] ELSE bt[i - Len(bs)]
      BY ONLY <3>1, ConcatProperties
    <3>4. QED BY <3>2, <3>3
  <2> DEFINE whole == bs \o bt
  <2>2. ASSUME NEW i \in 1 .. Len(s) + Len(t) PROVE bst[i] = whole[i]
    <3>1. CASE i <= Len(s)
      <4>1. i \in 1 .. Len(s) BY <1>6, <3>1
      <4>2. bst[i] = f[s[i]] BY <1>2, <1>4, <3>1
      <4>3. QED BY <1>3, <2>1, <3>1, <4>1, <4>2
    <3>2. CASE ~(i <= Len(s))
      <4>1. i - Len(s) \in 1 .. Len(t) BY <1>6, <3>2
      <4>2. bst[i] = f[t[i - Len(s)]] BY <1>2, <1>4, <3>2
      <4>3. whole[i] = bt[i - Len(s)] BY <2>1, <3>2
      <4>4. QED BY <1>3, <4>1, <4>2, <4>3
    <3>3. QED BY <3>1, <3>2
  <2>3. whole \in Seq(Seq(U)) /\ Len(whole) = Len(s) + Len(t) BY <2>1
  <2> HIDE DEF whole
  <2>4. bst = whole BY <1>4, <2>2, <2>3, SeqEqual
  <2>5. QED BY <2>4 DEF whole
<1>8. QED BY <1>3, <1>5, <1>7, Flatten, FlattenConcat

LEMMA MappedFlatten ==
  ASSUME NEW S, NEW U, NEW f, ToSeqs(f, S, U), NEW parts \in Seq(Seq(S))
  PROVE  Mapped(f, FlattenSeq(parts)) = FlattenSeq([i \in DOMAIN parts |-> Mapped(f, parts[i])])
<1> DEFINE n == Len(parts)
           map == [i \in DOMAIN parts |-> Mapped(f, parts[i])]
<1>1. n \in Nat /\ DOMAIN parts = 1 .. n /\ \A i \in 1 .. n : parts[i] \in Seq(S) OBVIOUS
<1>2. \A s \in Seq(S) : Mapped(f, s) \in Seq(U) BY MappedConcat
<1>3. map \in [1 .. n -> Seq(U)] BY <1>1, <1>2
<1>4. /\ map \in Seq(Seq(U)) /\ Len(map) = n
      /\ \A i \in 1 .. n : map[i] = Mapped(f, parts[i])
  <2>1. map \in Seq(Seq(U)) BY <1>1, <1>3, SeqDef
  <2>2. QED BY <1>1, <1>3, <2>1
<1> HIDE DEF map
<1>5. PICK g : Joins(parts, S, g) BY Joined
<1>6. PICK h : Joins(map, U, h) BY <1>4, Joined
<1> DEFINE T == {k \in Nat : k \in 0 .. n => Mapped(f, g[k]) = h[k]}
<1>7. 0 \in T
  <2>1. g[0] = <<>> /\ h[0] = <<>> BY <1>5, <1>6 DEF Joins
  <2>2. Mapped(f, <<>>) = <<>>
    <3>1. [i \in DOMAIN <<>> |-> f[<<>>[i]]] = <<>> OBVIOUS
    <3>2. FlattenSeq(<<>>) = <<>> BY DEF FlattenSeq
    <3>3. QED BY <3>1, <3>2 DEF Mapped
  <2>3. QED BY <2>1, <2>2
<1>8. ASSUME NEW k \in Nat, k \in T PROVE k + 1 \in T
  <2>1. SUFFICES ASSUME k + 1 \in 0 .. n PROVE Mapped(f, g[k + 1]) = h[k + 1]
    OBVIOUS
  <2>2. k \in 0 .. n /\ k + 1 \in 1 .. n /\ (k + 1) - 1 = k BY <1>1, <2>1
  <2>3. g[k + 1] = g[k] \o parts[k + 1] /\ g[k] \in Seq(S) BY <1>5, <2>2 DEF Joins
  <2>4. h[k + 1] = h[k] \o map[k + 1] BY <1>4, <1>6, <2>2 DEF Joins
  <2>5. \A s, t \in Seq(S) : Mapped(f, s \o t) = Mapped(f, s) \o Mapped(f, t)
    <3> SUFFICES ASSUME NEW s \in Seq(S), NEW t \in Seq(S)
                 PROVE  Mapped(f, s \o t) = Mapped(f, s) \o Mapped(f, t)
      OBVIOUS
    <3>1. QED BY MappedConcat
  <2>6. Mapped(f, g[k] \o parts[k + 1]) = Mapped(f, g[k]) \o Mapped(f, parts[k + 1])
    BY <1>1, <2>2, <2>3, <2>5
  <2>7. QED BY <1>4, <1>8, <2>2, <2>3, <2>4, <2>6
<1> HIDE DEF T
<1>9. \A k \in Nat : k \in T BY <1>7, <1>8, Induct
<1>10. n \in 0 .. n BY <1>1
<1>11. Mapped(f, g[n]) = h[n] BY <1>1, <1>9, <1>10 DEF T
<1>12. FlattenSeq(parts) = g[n] /\ FlattenSeq(map) = h[n] BY <1>4, <1>5, <1>6 DEF Joins
<1>13. QED BY <1>11, <1>12 DEF map

MapsNone(f) == Mapped(f, <<>>) = <<>>
MapsOne(f, x) == Mapped(f, <<x>>) = f[x]
MapsTwo(f, x, y) == Mapped(f, <<x, y>>) = f[x] \o f[y]

LEMMA MappedShort ==
  ASSUME NEW S, NEW U, NEW f, ToSeqs(f, S, U)
  PROVE  MapsNone(f) /\ \A x \in S : MapsOne(f, x) /\ \A y \in S : MapsTwo(f, x, y)
<1>1. Mapped(f, <<>>) = <<>>
  <2>1. [i \in DOMAIN <<>> |-> f[<<>>[i]]] = <<>> OBVIOUS
  <2>2. FlattenSeq(<<>>) = <<>> BY DEF FlattenSeq
  <2>3. QED BY <2>1, <2>2 DEF Mapped
<1>2. ASSUME NEW x \in S PROVE Mapped(f, <<x>>) = f[x]
  <2> DEFINE parts == <<f[x]>>
  <2>1. [i \in DOMAIN <<x>> |-> f[<<x>>[i]]] = parts OBVIOUS
  <2>2. parts \in Seq(Seq(U)) /\ Len(parts) = 1 /\ parts[1] = f[x] /\ f[x] \in Seq(U)
    BY DEF ToSeqs
  <2>3. PICK g : Joins(parts, U, g) BY <2>2, Joined
  <2>4. FlattenSeq(parts) = g[1] /\ g[0] = <<>> /\ g[1] = g[1 - 1] \o parts[1]
    <3> HIDE DEF parts
    <3>1. 1 \in 1 .. Len(parts) BY <2>2
    <3>2. QED BY <2>2, <2>3, <3>1 DEF Joins
  <2> HIDE DEF parts
  <2>5. <<>> \o f[x] = f[x] BY <2>2, ConcatEmptySeq
  <2>6. Mapped(f, <<x>>) = FlattenSeq(parts) BY <2>1 DEF Mapped
  <2>7. 1 - 1 = 0 OBVIOUS
  <2>8. QED BY <2>2, <2>4, <2>5, <2>6, <2>7
<1>3. ASSUME NEW x \in S, NEW y \in S PROVE Mapped(f, <<x, y>>) = f[x] \o f[y]
  <2>1. <<x, y>> = <<x>> \o <<y>>
    <3> DEFINE a == <<x>>
               b == <<y>>
               c == <<x, y>>
    <3>1. /\ a \in Seq(S) /\ Len(a) = 1 /\ a[1] = x
          /\ b \in Seq(S) /\ Len(b) = 1 /\ b[1] = y
          /\ c \in Seq(S) /\ Len(c) = 2 /\ c[1] = x /\ c[2] = y
      OBVIOUS
    <3> HIDE DEF a, b, c
    <3>2. /\ a \o b \in Seq(S) /\ Len(a \o b) = Len(a) + Len(b)
          /\ \A i \in 1 .. Len(a) + Len(b) :
               (a \o b)[i] = IF i <= Len(a) THEN a[i] ELSE b[i - Len(a)]
      BY <3>1, ConcatProperties
    <3> DEFINE d == a \o b
    <3>3. d \in Seq(S) /\ Len(d) = 2 /\ d[1] = x /\ d[2] = y BY <3>1, <3>2
    <3> HIDE DEF d
    <3>4. \A i \in 1 .. Len(c) : c[i] = d[i]
      <4>1. \A i \in 1 .. 2 : i = 1 \/ i = 2 OBVIOUS
      <4>2. QED BY <3>1, <3>3, <4>1
    <3>5. c = d BY <3>1, <3>3, <3>4, SeqEqual
    <3>6. QED BY <3>5 DEF a, b, c, d
  <2>2. <<x>> \in Seq(S) /\ <<y>> \in Seq(S) OBVIOUS
  <2>3. Mapped(f, <<x>> \o <<y>>) = Mapped(f, <<x>>) \o Mapped(f, <<y>>)
    <3> DEFINE a == <<x>>
               b == <<y>>
    <3>1. a \in Seq(S) /\ b \in Seq(S) BY <2>2
    <3> HIDE DEF a, b
    <3>2. Mapped(f, a \o b) = Mapped(f, a) \o Mapped(f, b) BY <3>1, MappedConcat
    <3>3. QED BY <3>2 DEF a, b
  <2>4. QED BY <1>2, <2>1, <2>3
<1>4. ASSUME NEW x \in S, NEW y \in S PROVE MapsOne(f, x) /\ MapsTwo(f, x, y)
  BY <1>2, <1>3 DEF MapsOne, MapsTwo
<1>5. MapsNone(f) BY <1>1 DEF MapsNone
<1>6. QED BY <1>4, <1>5

----------------------------------------------------------------------------
(* Walks of a tree                                                          *)

\* A walk of the tree: at each node what opens it, the walks of its children,
\* and what closes it.
Parts(h, W, n) == [i \in DOMAIN h[n].children |-> W[h[n].children[i]]]
Under(h, W, n) == FlattenSeq(Parts(h, W, n))
Brackets(h, V, open, close) ==
  Sound(h) /\ open \in [DOMAIN h -> Seq(V)] /\ close \in [DOMAIN h -> Seq(V)]
Walk(h, V, open, close, W) ==
  /\ Brackets(h, V, open, close) /\ W \in [DOMAIN h -> Seq(V)]
  /\ \A n \in DOMAIN h : W[n] = (open[n] \o Under(h, W, n)) \o close[n]

LEMMA UnderIs ==
  ASSUME NEW h, Sound(h), NEW n \in DOMAIN h, NEW V, NEW W,
         \A c \in Kids(h, n) : W[c] \in Seq(V)
  PROVE  /\ Parts(h, W, n) \in Seq(Seq(V)) /\ DOMAIN Parts(h, W, n) = DOMAIN h[n].children
         /\ \A i \in DOMAIN h[n].children :
              Parts(h, W, n)[i] = W[h[n].children[i]] /\ h[n].children[i] \in Kids(h, n)
         /\ Under(h, W, n) \in Seq(V)
         /\ \A x : x \in Range(Under(h, W, n)) <=> \E c \in Kids(h, n) : x \in Range(W[c])
<1> DEFINE kids == h[n].children
           parts == Parts(h, W, n)
<1>1. /\ DOMAIN kids = 1 .. Len(kids) /\ Len(kids) \in Nat
      /\ \A i \in DOMAIN kids : kids[i] \in Kids(h, n)
      /\ Kids(h, n) \subseteq DOMAIN h
  BY HeapNodes DEF Sound, Kids, Range
<1>2. parts \in [1 .. Len(kids) -> Seq(V)] BY <1>1 DEF Parts
<1>3. /\ parts \in Seq(Seq(V)) /\ DOMAIN parts = DOMAIN kids
      /\ \A i \in DOMAIN kids : parts[i] = W[kids[i]]
  <2>1. parts \in Seq(Seq(V)) BY <1>1, <1>2, SeqDef
  <2>2. QED BY <1>1, <2>1 DEF Parts
<1>4. Under(h, W, n) = FlattenSeq(parts) BY DEF Under
<1> HIDE DEF parts
<1>5. /\ FlattenSeq(parts) \in Seq(V)
      /\ \A x : x \in Range(FlattenSeq(parts)) <=> \E i \in DOMAIN parts : x \in Range(parts[i])
  BY <1>3, Flatten
<1>6. \A c : c \in Kids(h, n) <=> \E i \in DOMAIN kids : c = kids[i] BY DEF Kids, Range
<1>7. \A x : x \in Range(Under(h, W, n)) <=> \E c \in Kids(h, n) : x \in Range(W[c])
  <2>1. \A x : (\E i \in DOMAIN parts : x \in Range(parts[i]))
               <=> \E i \in DOMAIN kids : x \in Range(W[kids[i]])
    BY <1>3
  <2> HIDE DEF kids
  <2>2. \A x : (\E i \in DOMAIN kids : x \in Range(W[kids[i]]))
               <=> \E c \in Kids(h, n) : x \in Range(W[c])
    BY <1>6
  <2>3. QED BY <1>4, <1>5, <2>1, <2>2
<1>8. QED BY <1>1, <1>3, <1>4, <1>5, <1>7 DEF parts

LEMMA UnderSame ==
  ASSUME NEW h, Sound(h), NEW n \in DOMAIN h, NEW W, NEW U,
         \A c \in Kids(h, n) : W[c] = U[c]
  PROVE  Under(h, W, n) = Under(h, U, n)
<1>1. \A i \in DOMAIN h[n].children : h[n].children[i] \in Kids(h, n) BY DEF Kids, Range
<1>2. Parts(h, W, n) = Parts(h, U, n) BY <1>1 DEF Parts
<1>3. QED BY <1>2 DEF Under

\* What holds of a node when it holds of its children holds of every node.
LEMMA KidsInduct ==
  ASSUME NEW h, Sound(h), NEW P, \A n \in DOMAIN h : (\A c \in Kids(h, n) : c \in P) => n \in P
  PROVE  \A n \in DOMAIN h : n \in P
<1> DEFINE under == [n \in DOMAIN h |-> Kids(h, n)]
<1>1. PICK b, rank : Descends(DOMAIN h, under, rank, b) BY DEF Sound, Acyclic
<1>2. \A n \in DOMAIN h : (\A m \in under[n] : m \in P) => n \in P OBVIOUS
<1> HIDE DEF under
<1>3. QED BY <1>1, <1>2, UnderInduct

LEMMA WalkStep ==
  ASSUME NEW h, NEW V, NEW open, NEW close, Brackets(h, V, open, close),
         NEW n \in DOMAIN h, NEW W, \A c \in Kids(h, n) : W[c] \in Seq(V)
  PROVE  LET w == (open[n] \o Under(h, W, n)) \o close[n]
         IN /\ w \in Seq(V)
            /\ \A x : x \in Range(w) <=> \/ x \in Range(open[n]) \/ x \in Range(close[n])
                                         \/ \E c \in Kids(h, n) : x \in Range(W[c])
<1> DEFINE u == Under(h, W, n)
           a == open[n]
           b == close[n]
<1>1. a \in Seq(V) /\ b \in Seq(V) /\ Sound(h) BY DEF Brackets
<1>2. u \in Seq(V) /\ \A x : x \in Range(u) <=> \E c \in Kids(h, n) : x \in Range(W[c])
  BY <1>1, UnderIs
<1> HIDE DEF u, a, b
<1>3. a \o u \in Seq(V) /\ \A x : x \in Range(a \o u) <=> x \in Range(a) \/ x \in Range(u)
  BY <1>1, <1>2, RangeConcat
<1> DEFINE au == a \o u
<1>4. au \in Seq(V) BY <1>3
<1> HIDE DEF au
<1>5. au \o b \in Seq(V) /\ \A x : x \in Range(au \o b) <=> x \in Range(au) \/ x \in Range(b)
  BY <1>1, <1>4, RangeConcat
<1>6. QED BY <1>2, <1>3, <1>5 DEF au, a, b, u

LEMMA WalkExists ==
  ASSUME NEW h, NEW V, NEW open, NEW close, Brackets(h, V, open, close)
  PROVE  \E W : Walk(h, V, open, close, W)
<1> DEFINE D == DOMAIN h
           S == Seq(V)
           body(n, f) == (open[n] \o Under(h, f, n)) \o close[n]
           under == [n \in D |-> Kids(h, n)]
           F == [x \in D \X [D -> S] |-> body(x[1], x[2])]
<1>1. Sound(h) BY DEF Brackets
<1>2. PICK b, rank : Descends(D, under, rank, b) BY <1>1 DEF Sound, Acyclic
<1>3. \A n \in D : Kids(h, n) \subseteq D BY <1>1, HeapNodes DEF Sound
<1>4. \A n \in D, f \in [D -> S] : body(n, f) \in S
  <2> SUFFICES ASSUME NEW n \in D, NEW f \in [D -> S] PROVE body(n, f) \in S
    OBVIOUS
  <2>1. \A c \in Kids(h, n) : f[c] \in Seq(V) BY <1>3
  <2>2. QED BY <2>1, WalkStep
<1>5. \A n \in D : \A f, g : (\A m \in under[n] : f[m] = g[m]) => body(n, f) = body(n, g)
  <2> SUFFICES ASSUME NEW n \in D, NEW f, NEW g, \A m \in under[n] : f[m] = g[m]
               PROVE  Under(h, f, n) = Under(h, g, n)
    OBVIOUS
  <2>1. \A c \in Kids(h, n) : f[c] = g[c] OBVIOUS
  <2>2. QED BY <1>1, <2>1, UnderSame
<1> HIDE DEF body
<1>6. F \in [D \X [D -> S] -> S] BY <1>4
<1>7. \A n \in D, f \in [D -> S] : F[<<n, f>>] = body(n, f) OBVIOUS
<1>8. <<>> \in S OBVIOUS
<1> HIDE DEF F, S, D, under
<1>9. LooksUnder(D, under, S, F) BY <1>5, <1>6, <1>7, <1>8 DEF LooksUnder
<1>10. PICK W \in [D -> S] : \A n \in D : W[n] = F[<<n, W>>] BY <1>2, <1>9, Recursion
<1>11. \A n \in D : W[n] = body(n, W) BY <1>7, <1>10
<1>12. QED BY <1>10, <1>11 DEF Walk, D, S, body

\* Walks that open and close the nodes of a closed set alike are alike on it.
LEMMA SameWalk ==
  ASSUME NEW h, NEW V, NEW open, NEW close, NEW W, Walk(h, V, open, close, W),
         NEW V2, NEW open2, NEW close2, NEW W2, Walk(h, V2, open2, close2, W2),
         NEW S, Closed(h, S), \A n \in S : open[n] = open2[n] /\ close[n] = close2[n]
  PROVE  \A n \in S : W[n] = W2[n]
<1> DEFINE P == {n \in DOMAIN h : n \in S => W[n] = W2[n]}
<1>1. Sound(h) BY DEF Walk, Brackets
<1>2. ASSUME NEW n \in DOMAIN h, \A c \in Kids(h, n) : c \in P PROVE n \in P
  <2>1. SUFFICES ASSUME n \in S PROVE W[n] = W2[n]
    OBVIOUS
  <2>2. \A c \in Kids(h, n) : W[c] = W2[c] BY <1>2, <2>1 DEF Closed
  <2>3. Under(h, W, n) = Under(h, W2, n) BY <1>1, <2>2, UnderSame
  <2>4. QED BY <2>1, <2>3 DEF Walk
<1> HIDE DEF P
<1>3. \A n \in DOMAIN h : n \in P BY <1>1, <1>2, KidsInduct
<1>4. QED BY <1>3 DEF P, Closed

Three(S, r, s, t) == r \in Seq(S) /\ s \in Seq(S) /\ t \in Seq(S)

LEMMA Associates ==
  ASSUME NEW S, NEW r, NEW s, NEW t, Three(S, r, s, t)
  PROVE  (r \o s) \o t = r \o (s \o t)
BY ConcatAssociative DEF Three

LEMMA Joining ==
  ASSUME NEW S, NEW r, NEW s, r \in Seq(S), s \in Seq(S)
  PROVE  r \o s \in Seq(S)
BY ConcatProperties

\* The text w stands in s.
Holds(V, s, w) == w \in Seq(V) /\ \E a, b \in Seq(V) : s = (a \o w) \o b

LEMMA HoldsAll ==
  ASSUME NEW V, NEW s, NEW t, NEW w, Holds(V, s, t), Holds(V, t, w)
  PROVE  Holds(V, s, w)
<1>1. PICK p, q \in Seq(V) : s = (p \o t) \o q BY DEF Holds
<1>2. PICK a, b \in Seq(V) : t = (a \o w) \o b BY DEF Holds
<1>3. p \in Seq(V) /\ q \in Seq(V) /\ a \in Seq(V) /\ b \in Seq(V) /\ w \in Seq(V) BY DEF Holds
<1> DEFINE aw == a \o w
           pa == p \o a
           bq == b \o q
<1>4. aw \in Seq(V) /\ pa \in Seq(V) /\ bq \in Seq(V) BY <1>3, Joining
<1>5. p \o aw = pa \o w
  <2>1. Three(V, p, a, w) BY <1>3 DEF Three
  <2>2. QED BY <2>1, Associates
<1> HIDE DEF aw, pa
<1> DEFINE paw == p \o aw
<1>6. paw \in Seq(V) BY <1>3, <1>4, Joining
<1>7. p \o (aw \o b) = paw \o b
  <2>1. Three(V, p, aw, b) BY <1>3, <1>4 DEF Three
  <2>2. QED BY <2>1, Associates
<1> HIDE DEF paw
<1>8. (paw \o b) \o q = paw \o bq
  <2>1. Three(V, paw, b, q) BY <1>3, <1>6 DEF Three
  <2>2. QED BY <2>1, Associates
<1>9. s = (paw \o b) \o q BY <1>1, <1>2, <1>7 DEF aw
<1>10. paw = pa \o w BY <1>5 DEF paw
<1> HIDE DEF bq
<1>11. s = (pa \o w) \o bq BY <1>8, <1>9, <1>10
<1>12. QED BY <1>3, <1>4, <1>11 DEF Holds

LEMMA HoldsPart ==
  ASSUME NEW V, NEW a, NEW w, NEW b, a \in Seq(V), b \in Seq(V), w \in Seq(V)
  PROVE  Holds(V, w, w) /\ Holds(V, (a \o w) \o b, w)
<1>1. <<>> \in Seq(V) OBVIOUS
<1>2. <<>> \o w = w /\ w \o <<>> = w BY ConcatEmptySeq
<1>3. w = (<<>> \o w) \o <<>> BY <1>2
<1>4. QED BY <1>1, <1>3 DEF Holds

\* The walk of a tree holds the walks of the trees in it.
LEMMA WalkHas ==
  ASSUME NEW h, NEW V, NEW open, NEW close, NEW W, Walk(h, V, open, close, W)
  PROVE  \A n \in DOMAIN h : \A x \in Below(h, n) : Holds(V, W[n], W[x])
<1> DEFINE P == {n \in DOMAIN h : \A x \in Below(h, n) : Holds(V, W[n], W[x])}
<1>1. /\ Sound(h) /\ \A n \in DOMAIN h : Kids(h, n) \subseteq DOMAIN h
      /\ \A n \in DOMAIN h : W[n] \in Seq(V) /\ open[n] \in Seq(V) /\ close[n] \in Seq(V)
  BY HeapNodes DEF Walk, Brackets, Sound
<1>2. ASSUME NEW n \in DOMAIN h, \A c \in Kids(h, n) : c \in P PROVE n \in P
  <2>1. SUFFICES ASSUME NEW x \in Below(h, n) PROVE Holds(V, W[n], W[x])
    OBVIOUS
  <2>2. CASE x = n BY <1>1, <2>2, HoldsPart
  <2>3. CASE x # n
    <3>1. PICK c \in Kids(h, n) : x \in Below(h, c) BY <1>1, <2>3, PreorderStep
    <3>2. Holds(V, W[c], W[x]) BY <1>2, <3>1
    <3> DEFINE parts == Parts(h, W, n)
    <3>3. PICK i \in DOMAIN h[n].children : h[n].children[i] = c BY DEF Kids, Range
    <3>4. /\ parts \in Seq(Seq(V)) /\ i \in DOMAIN parts /\ parts[i] = W[c]
          /\ Under(h, W, n) = FlattenSeq(parts) /\ Under(h, W, n) \in Seq(V)
      <4>1. \A d \in Kids(h, n) : W[d] \in Seq(V) BY <1>1
      <4>2. QED BY <1>1, <3>3, <4>1, UnderIs DEF Under
    <3> HIDE DEF parts
    <3>5. Holds(V, Under(h, W, n), W[c])
      <4>1. W[c] \in Seq(V) BY <1>1
      <4>2. \E p, q \in Seq(V) : FlattenSeq(parts) = (p \o parts[i]) \o q BY <3>4, FlattenAt
      <4>3. QED BY <3>4, <4>1, <4>2 DEF Holds
    <3>6. Holds(V, W[n], Under(h, W, n)) BY <1>1, <3>4, HoldsPart DEF Walk
    <3>7. QED BY <3>2, <3>5, <3>6, HoldsAll
  <2>4. QED BY <2>2, <2>3
<1> HIDE DEF P
<1>3. \A n \in DOMAIN h : n \in P BY <1>1, <1>2, KidsInduct
<1>4. QED BY <1>3 DEF P

\* What is of X in the brackets of a node tells the node.
Owned(h, open, close, X, own) ==
  \A n \in DOMAIN h : \A x \in X :
    x \in Range(open[n]) \/ x \in Range(close[n]) => own[x] = n

LEMMA WalkOwns ==
  ASSUME NEW h, NEW V, NEW open, NEW close, NEW W, Walk(h, V, open, close, W),
         NEW X, NEW own, Owned(h, open, close, X, own)
  PROVE  \A n \in DOMAIN h : \A x \in X : x \in Range(W[n]) => own[x] \in Below(h, n)
<1> DEFINE P == {n \in DOMAIN h : \A x \in X : x \in Range(W[n]) => own[x] \in Below(h, n)}
<1>1. /\ Sound(h) /\ Brackets(h, V, open, close)
      /\ \A n \in DOMAIN h : W[n] \in Seq(V) /\ Kids(h, n) \subseteq DOMAIN h
  BY HeapNodes DEF Walk, Brackets, Sound
<1>2. ASSUME NEW n \in DOMAIN h, \A c \in Kids(h, n) : c \in P PROVE n \in P
  <2>1. SUFFICES ASSUME NEW x \in X, x \in Range(W[n]) PROVE own[x] \in Below(h, n)
    OBVIOUS
  <2>2. \A y : y \in Range(W[n]) <=> \/ y \in Range(open[n]) \/ y \in Range(close[n])
                                     \/ \E c \in Kids(h, n) : y \in Range(W[c])
    <3>1. \A c \in Kids(h, n) : W[c] \in Seq(V) BY <1>1
    <3>2. W[n] = (open[n] \o Under(h, W, n)) \o close[n] BY DEF Walk
    <3>3. QED BY <1>1, <3>1, <3>2, WalkStep
  <2>3. \A y : y \in Below(h, n) <=> y = n \/ \E c \in Kids(h, n) : y \in Below(h, c)
    BY <1>1, PreorderStep
  <2>4. CASE x \in Range(open[n]) \/ x \in Range(close[n]) BY <2>3, <2>4 DEF Owned
  <2>5. CASE \E c \in Kids(h, n) : x \in Range(W[c]) BY <1>2, <2>3, <2>5
  <2>6. QED BY <2>1, <2>2, <2>4, <2>5
<1> HIDE DEF P
<1>3. \A n \in DOMAIN h : n \in P BY <1>1, <1>2, KidsInduct
<1>4. QED BY <1>3 DEF P

BracketsOnce(h, open, close, X) ==
  \A n \in DOMAIN h : /\ Once(open[n], X) /\ Once(close[n], X)
                      /\ \A x \in X : x \in Range(open[n]) => x \notin Range(close[n])

\* No node of a forest is met twice.
LEMMA WalkOnce ==
  ASSUME NEW h, NEW V, NEW open, NEW close, NEW W, Walk(h, V, open, close, W),
         NEW X, NEW own, Owned(h, open, close, X, own), BracketsOnce(h, open, close, X),
         NEW S, Closed(h, S), Places(h, S)
  PROVE  \A n \in S : Once(W[n], X)
<1> DEFINE P == {n \in DOMAIN h : n \in S => Once(W[n], X)}
<1>1. /\ Sound(h) /\ \A n \in DOMAIN h : Kids(h, n) \subseteq DOMAIN h
      /\ \A n \in DOMAIN h : W[n] \in Seq(V) /\ open[n] \in Seq(V) /\ close[n] \in Seq(V)
  BY HeapNodes DEF Walk, Brackets, Sound
<1>2. \A n \in DOMAIN h : \A x \in X : x \in Range(W[n]) => own[x] \in Below(h, n)
  BY WalkOwns
<1>3. ASSUME NEW n \in DOMAIN h, \A c \in Kids(h, n) : c \in P PROVE n \in P
  <2>1. SUFFICES ASSUME n \in S PROVE Once(W[n], X)
    OBVIOUS
  <2> DEFINE kids == h[n].children
             parts == Parts(h, W, n)
             u == Under(h, W, n)
             a == open[n]
             b == close[n]
  <2>2. \A c \in Kids(h, n) : W[c] \in Seq(V) /\ c \in S /\ Once(W[c], X)
    BY <1>1, <1>3, <2>1 DEF Closed
  <2>3. /\ parts \in Seq(Seq(V)) /\ DOMAIN parts = DOMAIN kids
        /\ \A i \in DOMAIN kids : parts[i] = W[kids[i]] /\ kids[i] \in Kids(h, n)
        /\ u \in Seq(V)
        /\ \A x : x \in Range(u) <=> \E c \in Kids(h, n) : x \in Range(W[c])
    BY <1>1, <2>2, UnderIs
  <2>4. \A i, j \in DOMAIN kids : kids[i] = kids[j] => i = j BY <1>1, <2>1, OneParent
  <2>5. \A c, d \in Kids(h, n) : c # d => Below(h, c) \cap Below(h, d) = {}
    BY <1>1, <2>1, SiblingsApart
  <2>6. Once(u, X)
    <3>1. \A i \in DOMAIN parts : Once(parts[i], X) BY <2>2, <2>3
    <3>2. ASSUME NEW i \in DOMAIN parts, NEW j \in DOMAIN parts, i # j,
                 NEW x \in Range(parts[i]), x \in X, x \in Range(parts[j])
          PROVE  FALSE
      <4> DEFINE c == kids[i]
                 d == kids[j]
      <4>1. c \in Kids(h, n) /\ d \in Kids(h, n) /\ c # d BY <2>3, <2>4, <3>2
      <4>2. x \in Range(W[c]) /\ x \in Range(W[d]) BY <2>3, <3>2
      <4> HIDE DEF c, d
      <4>3. own[x] \in Below(h, c) /\ own[x] \in Below(h, d) BY <1>1, <1>2, <3>2, <4>1, <4>2
      <4>4. QED BY <2>5, <4>1, <4>3
    <3>3. u = FlattenSeq(parts) BY DEF Under
    <3> HIDE DEF parts, u
    <3>4. \A i, j \in DOMAIN parts : i # j =>
            \A x \in Range(parts[i]) : x \in X => x \notin Range(parts[j])
      BY <3>2
    <3>5. Once(FlattenSeq(parts), X) BY <2>3, <3>1, <3>4, FlattenOnce
    <3>6. QED BY <3>3, <3>5
  <2>7. \A x \in X : x \in Range(a) \/ x \in Range(b) => x \notin Range(u)
    <3>1. SUFFICES ASSUME NEW x \in X, own[x] = n, x \in Range(u) PROVE FALSE
      BY DEF Owned
    <3>2. PICK c \in Kids(h, n) : x \in Range(W[c]) BY <2>3, <3>1
    <3>3. own[x] \in Below(h, c) BY <1>1, <1>2, <3>2
    <3>4. QED BY <1>1, <3>1, <3>3, NoCycle
  <2>8. Once(a, X) /\ Once(b, X) /\ \A x \in X : x \in Range(a) => x \notin Range(b)
    BY DEF BracketsOnce
  <2>9. a \in Seq(V) /\ b \in Seq(V) BY <1>1
  <2>10. W[n] = (a \o u) \o b BY DEF Walk
  <2> HIDE DEF a, b, u
  <2> DEFINE au == a \o u
  <2>11. Once(au, X) BY <2>3, <2>6, <2>7, <2>8, <2>9, ConcatOnce
  <2>12. au \in Seq(V) /\ \A x : x \in Range(au) <=> x \in Range(a) \/ x \in Range(u)
    BY <2>3, <2>9, RangeConcat
  <2> HIDE DEF au
  <2>13. \A x \in Range(au) : x \in X => x \notin Range(b) BY <2>7, <2>8, <2>12
  <2>14. Once(au \o b, X) BY <2>8, <2>9, <2>11, <2>12, <2>13, ConcatOnce
  <2>15. QED BY <2>10, <2>14 DEF au
<1> HIDE DEF P
<1>4. \A n \in DOMAIN h : n \in P BY <1>1, <1>3, KidsInduct
<1>5. QED BY <1>4 DEF P, Closed

\* A walk whose members give way to sequences is a walk again.
LEMMA MappedWalk ==
  ASSUME NEW h, NEW V, NEW open, NEW close, NEW W, Walk(h, V, open, close, W),
         NEW U, NEW f, ToSeqs(f, V, U)
  PROVE  Walk(h, U, [n \in DOMAIN h |-> Mapped(f, open[n])],
              [n \in DOMAIN h |-> Mapped(f, close[n])], [n \in DOMAIN h |-> Mapped(f, W[n])])
<1> DEFINE o == [n \in DOMAIN h |-> Mapped(f, open[n])]
           z == [n \in DOMAIN h |-> Mapped(f, close[n])]
           M == [n \in DOMAIN h |-> Mapped(f, W[n])]
<1>1. /\ Sound(h) /\ \A n \in DOMAIN h : Kids(h, n) \subseteq DOMAIN h
      /\ \A n \in DOMAIN h : W[n] \in Seq(V) /\ open[n] \in Seq(V) /\ close[n] \in Seq(V)
  BY HeapNodes DEF Walk, Brackets, Sound
<1>2. \A s \in Seq(V) : Mapped(f, s) \in Seq(U) BY MappedConcat
<1>3. /\ o \in [DOMAIN h -> Seq(U)] /\ z \in [DOMAIN h -> Seq(U)] /\ M \in [DOMAIN h -> Seq(U)]
  BY <1>1, <1>2
<1>4. ASSUME NEW n \in DOMAIN h PROVE M[n] = (o[n] \o Under(h, M, n)) \o z[n]
  <2> DEFINE parts == Parts(h, W, n)
             u == Under(h, W, n)
             a == open[n]
             b == close[n]
             au == a \o u
  <2>1. \A c \in Kids(h, n) : W[c] \in Seq(V) /\ M[c] = Mapped(f, W[c]) BY <1>1
  <2>2. /\ parts \in Seq(Seq(V)) /\ DOMAIN parts = DOMAIN h[n].children /\ u \in Seq(V)
        /\ \A i \in DOMAIN h[n].children :
             parts[i] = W[h[n].children[i]] /\ h[n].children[i] \in Kids(h, n)
    <3>1. Sound(h) /\ \A c \in Kids(h, n) : W[c] \in Seq(V) BY <1>1, <2>1
    <3> HIDE DEF M, o, z, a, b, au
    <3>2. QED BY <3>1, UnderIs
  <2>3. Parts(h, M, n) = [i \in DOMAIN parts |-> Mapped(f, parts[i])]
    <3> HIDE DEF M, parts
    <3>1. \A i \in DOMAIN h[n].children : M[h[n].children[i]] = Mapped(f, parts[i])
      BY <2>1, <2>2
    <3>2. QED BY <2>2, <3>1 DEF Parts
  <2>4. u = FlattenSeq(parts) BY DEF Under
  <2>5. Under(h, M, n) = Mapped(f, u)
    <3> HIDE DEF parts, u, M
    <3>1. QED BY <2>2, <2>3, <2>4, MappedFlatten DEF Under
  <2>6. W[n] = au \o b BY DEF Walk
  <2>7. a \in Seq(V) /\ b \in Seq(V) BY <1>1
  <2> HIDE DEF a, b, u
  <2>8. au \in Seq(V) BY <2>2, <2>7, Joining
  <2>9. Mapped(f, au) = Mapped(f, a) \o Mapped(f, u) BY <2>2, <2>7, MappedConcat
  <2> HIDE DEF au
  <2>10. Mapped(f, au \o b) = Mapped(f, au) \o Mapped(f, b) BY <2>7, <2>8, MappedConcat
  <2>11. o[n] = Mapped(f, a) /\ z[n] = Mapped(f, b) /\ M[n] = Mapped(f, W[n]) BY DEF a, b
  <2> HIDE DEF o, z, M
  <2>12. QED BY <2>5, <2>6, <2>9, <2>10, <2>11
<1> HIDE DEF o, z, M
<1>5. Walk(h, U, o, z, M) BY <1>1, <1>3, <1>4 DEF Walk, Brackets
<1>6. QED BY <1>5 DEF o, z, M

----------------------------------------------------------------------------
(* Balanced sequences of DOWN and UP                                        *)

\* What stands in a sequence can be cut out of it again.
LEMMA CutOut ==
  ASSUME NEW V, NEW a \in Seq(V), NEW w \in Seq(V), NEW b \in Seq(V)
  PROVE  LET s == (a \o w) \o b
         IN /\ s \in Seq(V) /\ Len(s) = Len(a) + Len(w) + Len(b)
            /\ \A i \in 1 .. Len(w) : s[Len(a) + i] = w[i]
            /\ SubSeq(s, Len(a) + 1, Len(a) + Len(w)) = w
<1> DEFINE aw == a \o w
           s == aw \o b
           m == Len(a)
           n == Len(w)
<1>1. /\ aw \in Seq(V) /\ Len(aw) = Len(a) + Len(w)
      /\ \A i \in 1 .. Len(a) + Len(w) : aw[i] = IF i <= Len(a) THEN a[i] ELSE w[i - Len(a)]
  BY ConcatProperties
<1> HIDE DEF aw
<1>2. /\ s \in Seq(V) /\ Len(s) = Len(aw) + Len(b)
      /\ \A i \in 1 .. Len(aw) + Len(b) : s[i] = IF i <= Len(aw) THEN aw[i] ELSE b[i - Len(aw)]
  <2>1. aw \in Seq(V) /\ b \in Seq(V) BY <1>1
  <2>2. QED BY ONLY <2>1, ConcatProperties
<1> HIDE DEF s
<1>3. Len(a) \in Nat /\ Len(w) \in Nat /\ Len(b) \in Nat OBVIOUS
<1>4. ASSUME NEW i \in 1 .. Len(w) PROVE s[Len(a) + i] = w[i] /\ Len(a) + i \in 1 .. Len(s)
  <2> DEFINE j == Len(a) + i
  <2>1. /\ j \in 1 .. Len(a) + Len(w) /\ j \in 1 .. (Len(a) + Len(w)) + Len(b)
        /\ j <= Len(a) + Len(w) /\ ~(j <= Len(a)) /\ j - Len(a) = i
    BY ONLY <1>3, <1>4
  <2> HIDE DEF j
  <2>2. s[j] = aw[j] /\ j \in 1 .. Len(s) BY <1>1, <1>2, <2>1
  <2>3. aw[j] = w[i] BY <1>1, <2>1
  <2>4. QED BY <2>2, <2>3 DEF j
<1>5. SubSeq(s, m + 1, m + n) = w
  <2> DEFINE t == SubSeq(s, m + 1, m + n)
  <2>1. m + 1 \in Int /\ m + n \in Int /\ \A i \in m + 1 .. m + n : s[i] \in V
    <3>1. \A i \in m + 1 .. m + n : i - m \in 1 .. n /\ m + (i - m) = i BY <1>3
    <3>2. \A i \in 1 .. n : w[i] \in V /\ s[m + i] = w[i] BY <1>4
    <3>3. \A i \in m + 1 .. m + n : s[i] \in V
      <4> TAKE i \in m + 1 .. m + n
      <4> DEFINE j == i - m
      <4>1. j \in 1 .. n /\ m + j = i BY <3>1
      <4> HIDE DEF j
      <4>2. s[m + j] \in V BY <3>2, <4>1
      <4>3. QED BY <4>1, <4>2
    <3>4. QED BY <1>3, <3>3
  <2>2. /\ t \in Seq(V) /\ Len(t) = IF m + 1 <= m + n THEN (m + n) - (m + 1) + 1 ELSE 0
        /\ \A i \in 1 .. (m + n) - (m + 1) + 1 : t[i] = s[(m + 1) + i - 1]
    BY <2>1, SubSeqProperties
  <2> HIDE DEF t
  <2>3. Len(t) = n
    <3>1. (IF m + 1 <= m + n THEN (m + n) - (m + 1) + 1 ELSE 0) = n BY <1>3
    <3>2. QED BY <2>2, <3>1
  <2>4. \A i \in 1 .. Len(t) : t[i] = w[i]
    <3>1. \A i \in 1 .. n : i \in 1 .. (m + n) - (m + 1) + 1 /\ (m + 1) + i - 1 = m + i BY <1>3
    <3>2. QED BY <1>4, <2>2, <2>3, <3>1
  <2>5. t = w BY <2>2, <2>3, <2>4, SeqEqual
  <2>6. QED BY <2>5 DEF t
<1>6. Len(s) = Len(a) + Len(w) + Len(b) BY <1>1, <1>2
<1>7. QED BY <1>2, <1>4, <1>5, <1>6 DEF s, aw

\* How much deeper the stream is after a node.
Turn(x) == IF x = Down THEN 1 ELSE IF x = Up THEN -1 ELSE 0

LEMMA Turns == \A x : Turn(x) \in Int /\ Down # Up
BY DEF Turn, Down, Up

Levels(s, L) ==
  /\ L \in [0 .. Len(s) -> Int] /\ L[0] = 0
  /\ \A i \in 1 .. Len(s) : L[i] = L[i - 1] + Turn(s[i])

\* The stream of whole trees: it never comes out of them, and at the end it is
\* where it was.
Balanced(s) == \E L : Levels(s, L) /\ L[Len(s)] = 0 /\ \A i \in 0 .. Len(s) : L[i] >= 0

LEMMA BalancedShort == Balanced(<<>>) /\ \A x : x \notin {Down, Up} => Balanced(<<x>>)
<1>1. Balanced(<<>>)
  <2> DEFINE L == [i \in 0 .. 0 |-> 0]
  <2>1. Len(<<>>) = 0 /\ 0 .. 0 = {0} /\ 1 .. 0 = {} OBVIOUS
  <2>2. Levels(<<>>, L) BY <2>1 DEF Levels
  <2>3. QED BY <2>1, <2>2 DEF Balanced
<1>2. ASSUME NEW x, x \notin {Down, Up} PROVE Balanced(<<x>>)
  <2> DEFINE L == [i \in 0 .. 1 |-> 0]
  <2>1. Len(<<x>>) = 1 /\ 1 .. 1 = {1} /\ <<x>>[1] = x OBVIOUS
  <2>2. Turn(x) = 0 BY <1>2 DEF Turn
  <2>3. Levels(<<x>>, L) BY <2>1, <2>2 DEF Levels
  <2>4. QED BY <2>1, <2>3 DEF Balanced
<1>3. QED BY <1>1, <1>2

LEMMA BalancedConcat ==
  ASSUME NEW V, NEW s \in Seq(V), NEW t \in Seq(V), Balanced(s), Balanced(t)
  PROVE  Balanced(s \o t)
<1> DEFINE m == Len(s)
           n == Len(t)
           u == s \o t
<1>1. /\ Len(u) = m + n /\ m \in Nat /\ n \in Nat
      /\ \A i \in 1 .. m + n : u[i] = IF i <= m THEN s[i] ELSE t[i - m]
  BY ConcatProperties
<1>2. PICK L : Levels(s, L) /\ L[m] = 0 /\ \A i \in 0 .. m : L[i] >= 0 BY DEF Balanced
<1>3. PICK K : Levels(t, K) /\ K[n] = 0 /\ \A i \in 0 .. n : K[i] >= 0 BY DEF Balanced
<1> DEFINE J == [i \in 0 .. m + n |-> IF i <= m THEN L[i] ELSE K[i - m]]
<1>4. /\ L \in [0 .. m -> Int] /\ L[0] = 0 /\ \A i \in 1 .. m : L[i] = L[i - 1] + Turn(s[i])
      /\ K \in [0 .. n -> Int] /\ K[0] = 0 /\ \A i \in 1 .. n : K[i] = K[i - 1] + Turn(t[i])
  BY <1>2, <1>3 DEF Levels
<1> HIDE DEF m, n, u
<1>5. \A i \in 0 .. m + n : i \in 0 .. m \/ (~(i <= m) /\ i - m \in 1 .. n /\ i - m \in 0 .. n)
  BY <1>1
<1>6. J \in [0 .. m + n -> Int] /\ J[0] = 0 /\ \A i \in 0 .. m + n : J[i] >= 0
  BY <1>1, <1>2, <1>3, <1>4, <1>5
<1>7. J[m + n] = 0
  <2>1. CASE n = 0 BY <1>1, <1>2, <2>1
  <2>2. CASE n # 0
    <3>1. m + n \in 0 .. m + n /\ ~(m + n <= m) /\ (m + n) - m = n BY <1>1, <2>2
    <3>2. QED BY <1>3, <3>1
  <2>3. QED BY <2>1, <2>2
<1>8. ASSUME NEW i \in 1 .. m + n PROVE J[i] = J[i - 1] + Turn(u[i])
  <2>1. i - 1 \in 0 .. m + n /\ i \in 0 .. m + n BY <1>1
  <2>2. CASE i <= m
    <3>1. i \in 1 .. m /\ i - 1 <= m BY <1>1, <2>2
    <3>2. u[i] = s[i] BY <1>1, <2>2
    <3>3. QED BY <1>4, <2>1, <2>2, <3>1, <3>2
  <2>3. CASE ~(i <= m)
    <3> DEFINE j == i - m
    <3>1. j \in 1 .. n BY <1>1, <2>3
    <3>2. u[i] = t[j] /\ J[i] = K[j] BY <1>1, <2>1, <2>3
    <3>3. J[i - 1] = K[j - 1]
      <4>1. CASE i - 1 <= m
        <5>1. i - 1 = m /\ j - 1 = 0 BY <1>1, <2>3, <4>1
        <5>2. J[i - 1] = L[m] BY <1>1, <2>1, <5>1
        <5>3. QED BY <1>2, <1>4, <5>1, <5>2
      <4>2. CASE ~(i - 1 <= m)
        <5>1. (i - 1) - m = j - 1 BY <1>1
        <5>2. QED BY <2>1, <4>2, <5>1
      <4>3. QED BY <4>1, <4>2
    <3> HIDE DEF j, J
    <3>4. QED BY <1>4, <3>1, <3>2, <3>3
  <2>4. QED BY <2>2, <2>3
<1> HIDE DEF J
<1>9. Levels(u, J) BY <1>1, <1>6, <1>8 DEF Levels
<1>10. QED BY <1>1, <1>6, <1>7, <1>9 DEF Balanced, u

\* The stream of a node with children, k the stream of them.
Inner(x, k) == (<<x, Down>> \o k) \o <<Up>>
Navigable(V) == {Down, Up} \subseteq V
InnerOf(V, x, k, w) == x \in V /\ Navigable(V) /\ k \in Seq(V) /\ w = Inner(x, k)

LEMMA InnerIs ==
  ASSUME NEW V, NEW x, NEW k, NEW w, InnerOf(V, x, k, w)
  PROVE  /\ w \in Seq(V) /\ Len(w) = Len(k) + 3
         /\ w[1] = x /\ w[2] = Down /\ w[Len(k) + 3] = Up
         /\ \A j \in 1 .. Len(k) : w[2 + j] = k[j]
<1> DEFINE a == <<x, Down>>
           b == <<Up>>
           n == Len(k)
<1>1. /\ a \in Seq(V) /\ Len(a) = 2 /\ a[1] = x /\ a[2] = Down
      /\ b \in Seq(V) /\ Len(b) = 1 /\ b[1] = Up /\ n \in Nat /\ k \in Seq(V)
  BY DEF Navigable, InnerOf
<1> HIDE DEF a, b
<1> DEFINE ak == a \o k
<1>2. /\ ak \in Seq(V) /\ Len(ak) = Len(a) + Len(k)
      /\ \A i \in 1 .. Len(a) + Len(k) : ak[i] = IF i <= Len(a) THEN a[i] ELSE k[i - Len(a)]
  BY <1>1, ConcatProperties
<1> HIDE DEF ak
<1> DEFINE v == ak \o b
<1>3. /\ v \in Seq(V) /\ Len(v) = Len(ak) + Len(b)
      /\ \A i \in 1 .. Len(ak) + Len(b) : v[i] = IF i <= Len(ak) THEN ak[i] ELSE b[i - Len(ak)]
  <2>1. ak \in Seq(V) /\ b \in Seq(V) BY <1>1, <1>2
  <2>2. QED BY ONLY <2>1, ConcatProperties
<1> HIDE DEF v, n
<1>4. Len(ak) = 2 + n /\ Len(v) = n + 3 BY <1>1, <1>2, <1>3 DEF n
<1>5. \A i \in 1 .. 2 + n : i \in 1 .. (2 + n) + 1 /\ i <= 2 + n BY <1>1
<1>6. v[1] = x /\ v[2] = Down
  <2>1. 1 \in 1 .. 2 + n /\ 2 \in 1 .. 2 + n BY <1>1
  <2>2. v[1] = ak[1] /\ v[2] = ak[2] BY <1>1, <1>3, <1>4, <1>5, <2>1
  <2>3. ak[1] = a[1] /\ ak[2] = a[2] BY <1>1, <1>2, <2>1 DEF n
  <2>4. QED BY <1>1, <2>2, <2>3
<1>7. \A j \in 1 .. n : v[2 + j] = k[j]
  <2> TAKE j \in 1 .. n
  <2>1. 2 + j \in 1 .. 2 + n /\ ~(2 + j <= 2) /\ (2 + j) - 2 = j BY <1>1
  <2>2. v[2 + j] = ak[2 + j] BY <1>1, <1>3, <1>4, <1>5, <2>1
  <2>3. ak[2 + j] = k[j] BY <1>1, <1>2, <2>1 DEF n
  <2>4. QED BY <2>2, <2>3
<1>8. v[n + 3] = Up
  <2>1. n + 3 \in 1 .. (2 + n) + 1 /\ ~(n + 3 <= 2 + n) /\ (n + 3) - (2 + n) = 1 BY <1>1
  <2>2. QED BY <1>1, <1>3, <1>4, <2>1
<1>9. v = w BY DEF Inner, InnerOf, v, ak, a, b
<1>10. QED BY <1>3, <1>4, <1>6, <1>7, <1>8, <1>9 DEF n

LEMMA BalancedInner ==
  ASSUME NEW V, NEW x \in V, x \notin {Down, Up}, Navigable(V), NEW k \in Seq(V),
         Balanced(k)
  PROVE  Balanced(Inner(x, k))
<1> DEFINE n == Len(k)
           w == Inner(x, k)
<1>1. /\ n \in Nat /\ Len(w) = n + 3 /\ w[1] = x /\ w[2] = Down /\ w[n + 3] = Up
      /\ \A j \in 1 .. n : w[2 + j] = k[j]
  <2>1. InnerOf(V, x, k, w) BY DEF InnerOf
  <2> HIDE DEF w
  <2>2. QED BY <2>1, InnerIs
<1>2. PICK K : /\ K \in [0 .. n -> Int] /\ K[0] = 0 /\ K[n] = 0
               /\ \A i \in 1 .. n : K[i] = K[i - 1] + Turn(k[i])
               /\ \A i \in 0 .. n : K[i] >= 0
  BY DEF Balanced, Levels
<1> HIDE DEF n, w
<1> DEFINE J == [i \in 0 .. n + 3 |->
                   IF i <= 1 \/ i = n + 3 THEN 0 ELSE 1 + K[i - 2]]
<1>3. \A i \in 0 .. n + 3 : i <= 1 \/ i = n + 3 \/ i - 2 \in 0 .. n BY <1>1
<1>4. /\ J \in [0 .. n + 3 -> Int] /\ J[0] = 0 /\ J[1] = 0 /\ J[n + 3] = 0
      /\ \A i \in 0 .. n : J[2 + i] = 1 + K[i]
  <2>1. 0 \in 0 .. n + 3 /\ 1 \in 0 .. n + 3 /\ n + 3 \in 0 .. n + 3 BY <1>1
  <2>2. \A i \in 0 .. n : /\ 2 + i \in 0 .. n + 3 /\ ~(2 + i <= 1) /\ 2 + i # n + 3
                          /\ (2 + i) - 2 = i
    BY <1>1
  <2>3. J \in [0 .. n + 3 -> Int] BY <1>2, <1>3
  <2>4. QED BY <2>1, <2>2, <2>3
<1>5. \A i \in 0 .. n + 3 : J[i] >= 0 BY <1>2, <1>3
<1> HIDE DEF J
<1>6. ASSUME NEW i \in 1 .. n + 3 PROVE J[i] = J[i - 1] + Turn(w[i])
  <2>1. CASE i = 1
    <3>1. Turn(x) = 0 BY DEF Turn
    <3>2. QED BY <1>1, <1>4, <2>1, <3>1
  <2>2. CASE i = 2
    <3>1. Turn(Down) = 1 BY DEF Turn
    <3>2. 0 \in 0 .. n /\ 2 + 0 = 2 BY <1>1
    <3>3. J[2] = 1 BY <1>2, <1>4, <3>2
    <3>4. QED BY <1>1, <1>4, <2>2, <3>1, <3>3
  <2>3. CASE i = n + 3
    <3>1. Turn(Up) = -1 BY Turns DEF Turn
    <3>2. n \in 0 .. n /\ (n + 3) - 1 = 2 + n BY <1>1
    <3>3. J[(n + 3) - 1] = 1 BY <1>2, <1>4, <3>2
    <3>4. QED BY <1>1, <1>4, <2>3, <3>1, <3>3
  <2>4. CASE i # 1 /\ i # 2 /\ i # n + 3
    <3> DEFINE j == i - 2
    <3>1. j \in 1 .. n /\ j \in 0 .. n /\ j - 1 \in 0 .. n /\ i = 2 + j /\ i - 1 = 2 + (j - 1)
      BY <1>1, <2>4
    <3> HIDE DEF j
    <3>2. J[i] = 1 + K[j] /\ J[i - 1] = 1 + K[j - 1] BY <1>4, <3>1
    <3>3. w[i] = k[j] BY <1>1, <3>1
    <3>4. K[j] = K[j - 1] + Turn(k[j]) /\ K[j - 1] \in Int /\ Turn(k[j]) \in Int
      BY <1>2, <3>1, Turns
    <3>5. QED BY <3>2, <3>3, <3>4
  <2>5. QED BY <2>1, <2>2, <2>3, <2>4
<1>7. Levels(w, J) BY <1>1, <1>4, <1>6 DEF Levels
<1>8. QED BY <1>1, <1>4, <1>5, <1>7 DEF Balanced, w

\* The wildcard passes over the stream of a node with children.
Passes(h, V, x, k, a, b) ==
  /\ x \in V /\ x \notin {Down, Up} /\ Navigable(V) /\ k \in Seq(V) /\ Balanced(k)
  /\ a \in Seq(V) /\ b \in Seq(V) /\ h[x].children # <<>>

LEMMA Wildcard ==
  ASSUME NEW h, NEW V, NEW x, NEW k, NEW a, NEW b, Passes(h, V, x, k, a, b)
  PROVE  MatchAny(h, (a \o Inner(x, k)) \o b, Len(a)) = Len(a) + Len(Inner(x, k))
<1>0. /\ x \in V /\ x \notin {Down, Up} /\ Navigable(V) /\ k \in Seq(V) /\ Balanced(k)
      /\ a \in Seq(V) /\ b \in Seq(V) /\ h[x].children # <<>>
  BY DEF Passes
<1> USE <1>0
<1> DEFINE w == Inner(x, k)
           s == (a \o w) \o b
           p == Len(a)
           n == Len(k)
           last == p + 2 + n
<1>1. /\ n \in Nat /\ p \in Nat /\ w \in Seq(V) /\ Len(w) = n + 3
      /\ w[1] = x /\ w[2] = Down /\ w[n + 3] = Up
      /\ \A j \in 1 .. n : w[2 + j] = k[j]
  <2>1. n \in Nat /\ p \in Nat /\ InnerOf(V, x, k, w) BY DEF InnerOf
  <2> HIDE DEF w
  <2>2. QED BY <2>1, InnerIs
<1> HIDE DEF w
<1>2. /\ s \in Seq(V) /\ Len(s) = Len(a) + Len(w) + Len(b) /\ \A i \in 1 .. Len(w) : s[Len(a) + i] = w[i]
  <2>1. a \in Seq(V) /\ w \in Seq(V) /\ b \in Seq(V) BY <1>1
  <2>2. QED BY ONLY <2>1, CutOut
<1>3. Len(s) \in Nat /\ last \in p .. Len(s) - 1
  <2>1. Len(b) \in Nat OBVIOUS
  <2>2. QED BY <1>1, <1>2, <2>1
<1>4. PICK K : /\ K \in [0 .. n -> Int] /\ K[0] = 0 /\ K[n] = 0
               /\ \A i \in 1 .. n : K[i] = K[i - 1] + Turn(k[i])
               /\ \A i \in 0 .. n : K[i] >= 0
  BY DEF Balanced, Levels
<1> DEFINE Seen(nav, i) == {j \in p + 1 .. i : s[j + 1] = nav}
           met(nav, i) == Cardinality(Seen(nav, i))
           level(i) == met(Down, i) - met(Up, i)
           ups == {i \in p .. Len(s) - 1 : s[i + 1] = Up /\ level(i) = 0}
<1>5. s[p + 1] = x /\ s[p + 2] = Down /\ s[last + 1] = Up /\ \A j \in 1 .. n : s[p + 2 + j] = k[j]
  <2>1. 1 \in 1 .. n + 3 /\ 2 \in 1 .. n + 3 /\ n + 3 \in 1 .. n + 3 BY <1>1
  <2>2. \A j \in 1 .. n : 2 + j \in 1 .. n + 3 BY <1>1
  <2>3. last + 1 = p + (n + 3) /\ \A j \in 1 .. n : p + (2 + j) = p + 2 + j BY <1>1
  <2>4. QED BY <1>1, <1>2, <2>1, <2>2, <2>3
<1> HIDE DEF s, p, n
<1>6. ASSUME NEW nav, NEW i \in Nat, i >= p
      PROVE  /\ IsFiniteSet(Seen(nav, i)) /\ met(nav, p) = 0
             /\ met(nav, i + 1) = IF s[i + 2] = nav THEN met(nav, i) + 1 ELSE met(nav, i)
  <2>1. IsFiniteSet(p + 1 .. i)
    <3>1. p + 1 \in Int /\ i \in Int BY <1>1
    <3>2. QED BY ONLY <3>1, FS_Interval
  <2>2. IsFiniteSet(Seen(nav, i))
    <3>1. Seen(nav, i) \subseteq p + 1 .. i OBVIOUS
    <3> HIDE DEF Seen
    <3>2. QED BY <2>1, <3>1, FS_Subset
  <2>3. met(nav, p) = 0
    <3>1. Seen(nav, p) = {} BY <1>1
    <3> HIDE DEF Seen
    <3>2. QED BY <3>1, FS_EmptySet
  <2>4. met(nav, i + 1) = IF s[i + 2] = nav THEN met(nav, i) + 1 ELSE met(nav, i)
    <3>1. p + 1 .. i + 1 = (p + 1 .. i) \cup {i + 1} /\ i + 1 \notin p + 1 .. i /\ (i + 1) + 1 = i + 2
      BY <1>1, <1>6
    <3>2. CASE s[i + 2] = nav
      <4>1. Seen(nav, i + 1) = Seen(nav, i) \cup {i + 1} /\ i + 1 \notin Seen(nav, i) BY <3>1, <3>2
      <4> HIDE DEF Seen
      <4>2. Cardinality(Seen(nav, i) \cup {i + 1}) = Cardinality(Seen(nav, i)) + 1
        BY <2>2, <4>1, FS_AddElement
      <4>3. QED BY <3>2, <4>1, <4>2
    <3>3. CASE s[i + 2] # nav
      <4>1. Seen(nav, i + 1) = Seen(nav, i) BY <3>1, <3>3
      <4>2. QED BY <3>3, <4>1
    <3>4. QED BY <3>2, <3>3
  <2>5. QED BY <2>2, <2>3, <2>4
<1>7. ASSUME NEW i \in Nat, i >= p
      PROVE  /\ level(i) \in Int /\ level(p) = 0
             /\ level(i + 1) = level(i) + Turn(s[i + 2])
  <2>1. /\ met(Down, i) \in Nat /\ met(Up, i) \in Nat
    <3>1. \A nav : IsFiniteSet(Seen(nav, i)) BY <1>6, <1>7
    <3> HIDE DEF Seen
    <3>2. QED BY <3>1, FS_CardinalityType
  <2>2. \A nav : /\ met(nav, p) = 0
                 /\ met(nav, i + 1) = IF s[i + 2] = nav THEN met(nav, i) + 1 ELSE met(nav, i)
    <3> HIDE DEF level, ups, Seen
    <3>1. QED BY <1>6, <1>7
  <2> HIDE DEF met
  <2>3. QED BY <2>1, <2>2, Turns DEF Turn
<1> HIDE DEF level
<1>8. level(p + 1) = 1
  <2>1. level(p + 1) = level(p) + Turn(s[p + 2]) /\ level(p) = 0 BY <1>1, <1>7
  <2>2. QED BY <1>5, <2>1 DEF Turn
<1> DEFINE T == {j \in Nat : j \in 0 .. n => level(p + 1 + j) = 1 + K[j]}
<1>9. 0 \in T
  <2>1. p + 1 + 0 = p + 1 BY <1>1
  <2>2. QED BY <1>4, <1>8, <2>1
<1>10. ASSUME NEW j \in Nat, j \in T PROVE j + 1 \in T
  <2>1. SUFFICES ASSUME j + 1 \in 0 .. n PROVE level(p + 1 + (j + 1)) = 1 + K[j + 1]
    OBVIOUS
  <2> DEFINE i == p + 1 + j
  <2>2. /\ i \in Nat /\ i >= p /\ p + 1 + (j + 1) = i + 1 /\ i + 2 = p + 2 + (j + 1)
        /\ j \in 0 .. n /\ j + 1 \in 1 .. n /\ (j + 1) - 1 = j
    BY <1>1, <2>1
  <2>3. level(i) = 1 + K[j] BY <1>10, <2>2
  <2> HIDE DEF i
  <2>4. level(i + 1) = level(i) + Turn(s[i + 2]) BY <1>7, <2>2
  <2>5. s[i + 2] = k[j + 1] BY <1>5, <2>2
  <2>6. K[j + 1] = K[j] + Turn(k[j + 1]) /\ K[j] \in Int /\ Turn(k[j + 1]) \in Int
    BY <1>4, <2>2, Turns
  <2>7. QED BY <2>2, <2>3, <2>4, <2>5, <2>6
<1> HIDE DEF T
<1>11. \A j \in 0 .. n : level(p + 1 + j) = 1 + K[j]
  <2>1. \A j \in Nat : j \in T BY <1>9, <1>10, Induct
  <2>2. \A j \in 0 .. n : j \in Nat BY <1>1
  <2>3. QED BY <2>1, <2>2 DEF T
<1>12. last \in ups
  <2>1. /\ n \in 0 .. n /\ p + 1 + n \in Nat /\ p + 1 + n >= p /\ (p + 1 + n) + 1 = last
        /\ (p + 1 + n) + 2 = last + 1
    BY <1>1
  <2>2. level(p + 1 + n) = 1 BY <1>4, <1>11, <2>1
  <2>3. level((p + 1 + n) + 1) = level(p + 1 + n) + Turn(s[(p + 1 + n) + 2]) BY <1>7, <2>1
  <2>4. Turn(Up) = -1 BY Turns DEF Turn
  <2>5. level(last) = 0 BY <1>5, <2>1, <2>2, <2>3, <2>4
  <2>6. QED BY <1>3, <1>5, <2>5
<1>13. ASSUME NEW i \in ups PROVE last <= i
  <2>1. i \in Int /\ last \in Int /\ i >= p BY <1>1, <1>3
  <2>2. SUFFICES ASSUME i < last PROVE FALSE
    BY <2>1
  <2>3. i = p \/ i = p + 1 \/ \E j \in 1 .. n : i = p + 1 + j
    <3>1. i = p \/ i = p + 1 \/ (i - (p + 1) \in 1 .. n /\ i = p + 1 + (i - (p + 1)))
      BY <1>1, <2>1, <2>2
    <3>2. QED BY <3>1
  <2>4. CASE i = p BY <1>5, <2>4
  <2>5. CASE i = p + 1
    <3>1. i + 1 = p + 2 BY <1>1, <2>5
    <3>2. QED BY <1>5, <3>1, Turns
  <2>6. CASE \E j \in 1 .. n : i = p + 1 + j
    <3>1. PICK j \in 1 .. n : i = p + 1 + j BY <2>6
    <3>2. j \in 0 .. n BY <1>1
    <3>3. level(i) = 1 + K[j] /\ K[j] >= 0 /\ K[j] \in Int BY <1>4, <1>11, <3>1, <3>2
    <3>4. QED BY <3>3
  <2>7. QED BY <2>3, <2>4, <2>5, <2>6
<1>14. Min(ups) = last
  <2> DEFINE m == Min(ups)
  <2>1. m \in ups /\ \A i \in ups : m <= i BY <1>12, <1>13 DEF Min
  <2>2. m <= last /\ last <= m BY <1>12, <1>13, <2>1
  <2>3. m \in Int /\ last \in Int BY <1>1, <1>3, <2>1
  <2> HIDE DEF m
  <2>4. m = last BY <2>2, <2>3
  <2>5. QED BY <2>4 DEF m
<1>15. MatchAny(h, s, p) = IF h[s[p + 1]].children = <<>> THEN p + 1
                           ELSE IF ups = {} THEN Len(s) + 1 ELSE Min(ups) + 1
  BY DEF MatchAny, level
<1> HIDE DEF ups
<1>16. MatchAny(h, s, p) = last + 1
  <2>1. ups # {} BY <1>12
  <2>2. h[s[p + 1]].children # <<>> BY <1>5
  <2>3. QED BY <1>14, <1>15, <2>1, <2>2
<1>17. last + 1 = p + (n + 3) BY <1>1
<1>18. QED BY <1>1, <1>16, <1>17 DEF s, p, w

----------------------------------------------------------------------------
(* The stream of nodes, the visitor and the nodes in prefix order           *)

Streamed(h) == DOMAIN h \cup {Down, Up}
FillOpen(h) ==
  [n \in DOMAIN h |-> IF IsNil(h, n) THEN <<>> ELSE IF h[n].children = <<>> THEN <<n>> ELSE <<n, Down>>]
FillClose(h) ==
  [n \in DOMAIN h |-> IF IsNil(h, n) THEN <<>> ELSE IF h[n].children = <<>> THEN <<>> ELSE <<Up>>]

LEMMA NodesAreNodes ==
  ASSUME NEW h, Sound(h)
  PROVE  /\ \A n \in DOMAIN h : n \in Nat /\ n # 0 /\ n \notin {Down, Up}
         /\ \A n \in DOMAIN h : Kids(h, n) \subseteq DOMAIN h
         /\ \A n \in DOMAIN h : Kids(h, n) = {} <=> h[n].children = <<>>
<1>1. \A n \in DOMAIN h : /\ h[n].children \in Seq(DOMAIN h) /\ DOMAIN h = 1 .. Len(h) /\ Len(h) \in Nat
                          /\ Kids(h, n) \subseteq DOMAIN h
  BY HeapNodes DEF Sound
<1>2. \A n \in DOMAIN h : Kids(h, n) = {} <=> h[n].children = <<>>
  <2> TAKE n \in DOMAIN h
  <2> DEFINE kids == h[n].children
  <2>1. kids \in Seq(DOMAIN h) BY <1>1
  <2>2. Kids(h, n) = Range(kids) BY DEF Kids
  <2> HIDE DEF kids
  <2>3. Range(kids) = {} <=> kids = <<>>
    <3>1. CASE kids = <<>> BY <3>1 DEF Range
    <3>2. CASE kids # <<>>
      <4>1. 1 \in DOMAIN kids BY <2>1, <3>2, EmptySeq
      <4>2. QED BY <3>2, <4>1 DEF Range
    <3>3. QED BY <3>1, <3>2
  <2>4. QED BY <2>2, <2>3 DEF kids
<1>3. \A n \in DOMAIN h : n \in Nat /\ n # 0 /\ n \notin {Down, Up} BY <1>1 DEF Down, Up
<1>4. QED BY <1>1, <1>2, <1>3

LEMMA FillBrackets ==
  ASSUME NEW h, Sound(h)
  PROVE  Brackets(h, Streamed(h), FillOpen(h), FillClose(h))
<1> DEFINE V == Streamed(h)
           S == Seq(V)
<1>1. Down \in V /\ Up \in V /\ \A n \in DOMAIN h : n \in V BY DEF Streamed
<1> HIDE DEF V
<1>2. <<>> \in S /\ <<Up>> \in S /\ \A n \in DOMAIN h : <<n>> \in S /\ <<n, Down>> \in S BY <1>1
<1> HIDE DEF S
<1>3. FillOpen(h) \in [DOMAIN h -> S] BY <1>2 DEF FillOpen
<1>4. FillClose(h) \in [DOMAIN h -> S] BY <1>2 DEF FillClose
<1>5. QED BY <1>3, <1>4 DEF Brackets, S, V

\* What the stream of a tree is, and that it never comes out of the tree.
FillIs(h, W, n) ==
  LET u == Under(h, W, n)
  IN /\ u \in Seq(Streamed(h)) /\ Balanced(u) /\ (u = <<>> <=> h[n].children = <<>>)
     /\ W[n] = IF IsNil(h, n) THEN u ELSE IF h[n].children = <<>> THEN <<n>> ELSE Inner(n, u)

LEMMA EmptyIff ==
  ASSUME NEW S, NEW s, s \in Seq(S)
  PROVE  s = <<>> <=> ~\E x : x \in Range(s)
<1>1. CASE s = <<>> BY <1>1 DEF Range
<1>2. CASE s # <<>>
  <2>1. 1 \in DOMAIN s BY <1>2, EmptySeq
  <2>2. QED BY <1>2, <2>1 DEF Range
<1>3. QED BY <1>1, <1>2

LEMMA FillWalkIs ==
  ASSUME NEW h, NoLists(h), NEW W, Walk(h, Streamed(h), FillOpen(h), FillClose(h), W)
  PROVE  \A n \in DOMAIN h : FillIs(h, W, n)
<1> DEFINE V == Streamed(h)
           P == {n \in DOMAIN h : FillIs(h, W, n) /\ Balanced(W[n])}
<1>1. /\ Sound(h) /\ Brackets(h, V, FillOpen(h), FillClose(h)) /\ W \in [DOMAIN h -> Seq(V)]
      /\ \A n \in DOMAIN h : W[n] = (FillOpen(h)[n] \o Under(h, W, n)) \o FillClose(h)[n]
  BY DEF Walk, Brackets
<1>2. /\ \A n \in DOMAIN h : n \in Nat /\ n # 0 /\ n \notin {Down, Up}
      /\ \A n \in DOMAIN h : Kids(h, n) \subseteq DOMAIN h
      /\ \A n \in DOMAIN h : Kids(h, n) = {} <=> h[n].children = <<>>
  BY <1>1, NodesAreNodes
<1>3. ASSUME NEW n \in DOMAIN h, \A c \in Kids(h, n) : c \in P PROVE n \in P
  <2> DEFINE u == Under(h, W, n)
             parts == Parts(h, W, n)
  <2>1. \A c \in Kids(h, n) : W[c] \in Seq(V) /\ Balanced(W[c]) BY <1>1, <1>2, <1>3
  <2>2. /\ parts \in Seq(Seq(V)) /\ DOMAIN parts = DOMAIN h[n].children
        /\ \A i \in DOMAIN h[n].children :
             parts[i] = W[h[n].children[i]] /\ h[n].children[i] \in Kids(h, n)
        /\ u \in Seq(V)
        /\ \A x : x \in Range(u) <=> \E c \in Kids(h, n) : x \in Range(W[c])
    <3> HIDE DEF V, u, parts
    <3>1. QED BY <1>1, <2>1, UnderIs DEF u, parts
  <2>3. Balanced(u)
    <3> DEFINE B == {s \in Seq(V) : Balanced(s)}
    <3>1. <<>> \in B BY BalancedShort
    <3>2. ASSUME NEW s \in B, NEW t \in B PROVE s \o t \in B
      <4>1. s \in Seq(V) /\ t \in Seq(V) /\ Balanced(s) /\ Balanced(t) OBVIOUS
      <4>2. QED BY <4>1, Joining, BalancedConcat
    <3>3. parts \in Seq(B)
      <4>1. \A i \in DOMAIN parts : parts[i] \in B BY <2>1, <2>2
      <4> HIDE DEF parts, B
      <4>2. DOMAIN parts = 1 .. Len(parts) /\ Len(parts) \in Nat /\ parts = [i \in DOMAIN parts |-> parts[i]]
        BY <2>2
      <4>3. parts \in [1 .. Len(parts) -> B] BY <4>1, <4>2
      <4>4. QED BY <4>2, <4>3, SeqDef
    <3>4. u = FlattenSeq(parts) BY DEF Under
    <3>5. B \subseteq Seq(V) OBVIOUS
    <3> HIDE DEF B, u, parts
    <3>6. FlattenSeq(parts) \in B BY <3>1, <3>2, <3>3, <3>5, FlattenIn
    <3>7. QED BY <3>4, <3>6 DEF B
  <2>4. u = <<>> <=> h[n].children = <<>>
    <3>1. CASE h[n].children = <<>>
      <4>1. ~\E x : x \in Range(u) BY <1>2, <2>2, <3>1
      <4>2. QED BY <2>2, <3>1, <4>1, EmptyIff
    <3>2. CASE h[n].children # <<>>
      <4>1. PICK c \in Kids(h, n) : TRUE BY <1>2, <3>2
      <4>2. c \in DOMAIN h /\ ~IsNil(h, c) BY <1>2, <4>1 DEF NoLists
      <4>3. c \in Range(W[c])
        <5>1. \A d \in Kids(h, c) : W[d] \in Seq(V) BY <1>1, <1>2, <4>2
        <5>2. \A x : x \in Range(FillOpen(h)[c]) => x \in Range(W[c])
          <6> HIDE DEF V, u, parts
          <6>1. Brackets(h, V, FillOpen(h), FillClose(h)) BY <1>1
          <6> DEFINE o == FillOpen(h)
                     z == FillClose(h)
          <6> HIDE DEF o, z
          <6>2. \A x : x \in Range(o[c]) => x \in Range((o[c] \o Under(h, W, c)) \o z[c])
            BY <4>2, <5>1, <6>1, WalkStep DEF o, z
          <6>3. W[c] = (o[c] \o Under(h, W, c)) \o z[c] BY <1>1, <4>2 DEF o, z
          <6>4. QED BY <6>2, <6>3 DEF o
        <5>3. FillOpen(h)[c] = <<c>> \/ FillOpen(h)[c] = <<c, Down>> BY <4>2 DEF FillOpen
        <5>4. c \in Range(<<c>>) /\ c \in Range(<<c, Down>>) BY DEF Range
        <5>5. QED BY <5>2, <5>3, <5>4
      <4>4. \E x : x \in Range(u) BY <2>2, <4>1, <4>3
      <4>5. QED BY <2>2, <3>2, <4>4, EmptyIff
    <3>3. QED BY <3>1, <3>2
  <2>5. u \in Seq(V) BY <2>2
  <2>6. W[n] = IF IsNil(h, n) THEN u ELSE IF h[n].children = <<>> THEN <<n>> ELSE Inner(n, u)
    <3>1. W[n] = (FillOpen(h)[n] \o u) \o FillClose(h)[n] BY <1>1
    <3> HIDE DEF u
    <3>2. <<>> \o u = u /\ u \o <<>> = u BY <2>5, ConcatEmptySeq
    <3>3. CASE IsNil(h, n)
      <4>1. FillOpen(h)[n] = <<>> /\ FillClose(h)[n] = <<>> BY <3>3 DEF FillOpen, FillClose
      <4>2. QED BY <3>1, <3>2, <3>3, <4>1
    <3>4. CASE ~IsNil(h, n) /\ h[n].children = <<>>
      <4>1. FillOpen(h)[n] = <<n>> /\ FillClose(h)[n] = <<>> BY <3>4 DEF FillOpen, FillClose
      <4>2. u = <<>> BY <2>4, <3>4
      <4>3. W[n] = (<<n>> \o <<>>) \o <<>> BY <3>1, <4>1, <4>2
      <4>4. <<n>> \in Seq({n}) OBVIOUS
      <4>5. <<n>> \o <<>> = <<n>> BY <4>4, ConcatEmptySeq
      <4>6. QED BY <3>4, <4>3, <4>5
    <3>5. CASE ~IsNil(h, n) /\ h[n].children # <<>>
      <4>1. FillOpen(h)[n] = <<n, Down>> /\ FillClose(h)[n] = <<Up>> BY <3>5 DEF FillOpen, FillClose
      <4>2. QED BY <3>1, <3>5, <4>1 DEF Inner
    <3>6. QED BY <3>3, <3>4, <3>5
  <2>7. Balanced(W[n])
    <3> HIDE DEF u
    <3>1. CASE IsNil(h, n) BY <2>3, <2>6, <3>1
    <3>2. CASE ~IsNil(h, n) /\ h[n].children = <<>>
      <4>1. W[n] = <<n>> BY <2>6, <3>2
      <4>2. n \notin {Down, Up} BY <1>2
      <4>3. QED BY <4>1, <4>2, BalancedShort
    <3>3. CASE ~IsNil(h, n) /\ h[n].children # <<>>
      <4>1. W[n] = Inner(n, u) BY <2>6, <3>3
      <4>2. n \in V /\ Navigable(V) /\ n \notin {Down, Up} BY <1>2 DEF Streamed, Navigable
      <4> HIDE DEF V
      <4>3. Balanced(Inner(n, u)) BY <2>3, <2>5, <4>2, BalancedInner
      <4>4. QED BY <4>1, <4>3
    <3>4. QED BY <3>1, <3>2, <3>3
  <2>8. QED BY <2>3, <2>4, <2>5, <2>6, <2>7 DEF FillIs
<1> HIDE DEF P
<1>4. \A n \in DOMAIN h : n \in P BY <1>1, <1>3, KidsInduct
<1>5. QED BY <1>4 DEF P

LEMMA FillWalk ==
  ASSUME NEW h, Sound(h), NoLists(h)
  PROVE  \E W : /\ Walk(h, Streamed(h), FillOpen(h), FillClose(h), W)
                /\ \A t \in DOMAIN h : FillBuffer(h, t) = W[t]
<1>1. PICK W : Walk(h, Streamed(h), FillOpen(h), FillClose(h), W) BY FillBrackets, WalkExists
<1>2. \A n \in DOMAIN h : FillIs(h, W, n) BY <1>1, FillWalkIs
<1> DEFINE kids(n, f) == FlattenSeq([i \in DOMAIN h[n].children |-> f[h[n].children[i]]])
           body(n, f) == IF IsNil(h, n) THEN kids(n, f)
                         ELSE IF kids(n, f) = <<>> THEN <<n>> ELSE <<n, Down>> \o kids(n, f) \o <<Up>>
           Equation(f) == f = [n \in DOMAIN h |-> body(n, f)]
           fill == CHOOSE f : Equation(f)
<1>3. \A n, f : kids(n, f) = Under(h, f, n) BY DEF Under, Parts
<1>4. \A t : FillBuffer(h, t) = fill[t] BY Zenon DEF FillBuffer
<1>5. Equation(W)
  <2>1. \A n \in DOMAIN h : W[n] = body(n, W)
    <3> TAKE n \in DOMAIN h
    <3> HIDE DEF kids
    <3>1. QED BY <1>2, <1>3 DEF FillIs, Inner
  <2> HIDE DEF body
  <2>2. W = [n \in DOMAIN h |-> W[n]] BY <1>1 DEF Walk
  <2>3. QED BY <2>1, <2>2
<1>6. Equation(fill) BY <1>5
<1> HIDE DEF fill
<1> DEFINE P == {n \in DOMAIN h : fill[n] = W[n]}
<1>7. ASSUME NEW n \in DOMAIN h, \A c \in Kids(h, n) : c \in P PROVE n \in P
  <2>1. \A c \in Kids(h, n) : fill[c] = W[c] BY <1>7
  <2>2. kids(n, fill) = kids(n, W) BY <1>3, <2>1, UnderSame
  <2> HIDE DEF kids
  <2>3. fill[n] = body(n, fill) /\ W[n] = body(n, W) BY <1>5, <1>6
  <2>4. QED BY <2>2, <2>3
<1> HIDE DEF P
<1>8. \A n \in DOMAIN h : n \in P BY <1>7, KidsInduct
<1>9. \A n \in DOMAIN h : fill[n] = W[n] BY <1>8 DEF P
<1>10. QED BY <1>1, <1>4, <1>9

Nothing(h) == [n \in DOMAIN h |-> <<>>]
PreOpen(h) == [n \in DOMAIN h |-> <<n>>]

LEMMA PreWalk ==
  ASSUME NEW h, Sound(h)
  PROVE  \E W : /\ Walk(h, DOMAIN h, PreOpen(h), Nothing(h), W)
                /\ \A t \in DOMAIN h : Preorder(h, t) = W[t]
<1> DEFINE S == Seq(DOMAIN h)
<1>1. <<>> \in S /\ \A n \in DOMAIN h : <<n>> \in S OBVIOUS
<1> HIDE DEF S
<1>2. Brackets(h, DOMAIN h, PreOpen(h), Nothing(h)) BY <1>1 DEF Brackets, S, PreOpen, Nothing
<1>3. PICK W : Walk(h, DOMAIN h, PreOpen(h), Nothing(h), W) BY <1>2, WalkExists
<1> DEFINE body(n, f) == <<n>> \o FlattenSeq([i \in DOMAIN h[n].children |-> f[h[n].children[i]]])
           Equation(f) == f = [n \in DOMAIN h |-> body(n, f)]
           pre == CHOOSE f : Equation(f)
<1>4. \A n, f : body(n, f) = <<n>> \o Under(h, f, n) BY DEF Under, Parts
<1>5. \A t : Preorder(h, t) = pre[t] BY Zenon DEF Preorder
<1> HIDE DEF body
<1>6. Equation(W)
  <2>1. ASSUME NEW n \in DOMAIN h PROVE W[n] = body(n, W)
    <3> DEFINE w == <<n>> \o Under(h, W, n)
    <3>1. W \in [DOMAIN h -> Seq(DOMAIN h)] BY <1>3 DEF Walk
    <3>2. \A c \in Kids(h, n) : W[c] \in Seq(DOMAIN h) BY <3>1, NodesAreNodes
    <3>3. Under(h, W, n) \in Seq(DOMAIN h) /\ <<n>> \in Seq(DOMAIN h)
      <4>1. Under(h, W, n) \in Seq(DOMAIN h) BY <3>2, UnderIs
      <4>2. QED BY <4>1
    <3>4. w \in Seq(DOMAIN h) BY <3>3, Joining
    <3>5. W[n] = w \o <<>> BY <1>3 DEF Walk, PreOpen, Nothing
    <3>6. w = body(n, W) BY <1>4
    <3> HIDE DEF w
    <3>7. QED BY <3>4, <3>5, <3>6, ConcatEmptySeq
  <2>2. W = [n \in DOMAIN h |-> W[n]] BY <1>3 DEF Walk
  <2>3. QED BY <2>1, <2>2
<1>7. Equation(pre) BY <1>6
<1> HIDE DEF pre
<1> DEFINE P == {n \in DOMAIN h : pre[n] = W[n]}
<1>8. ASSUME NEW n \in DOMAIN h, \A c \in Kids(h, n) : c \in P PROVE n \in P
  <2>1. \A c \in Kids(h, n) : pre[c] = W[c] BY <1>8
  <2>2. Under(h, pre, n) = Under(h, W, n) BY <2>1, UnderSame
  <2>3. body(n, pre) = body(n, W) BY <1>4, <2>2
  <2>4. pre[n] = body(n, pre) /\ W[n] = body(n, W) BY <1>6, <1>7
  <2>5. QED BY <2>3, <2>4
<1> HIDE DEF P
<1>9. \A n \in DOMAIN h : n \in P BY <1>8, KidsInduct
<1>10. \A n \in DOMAIN h : pre[n] = W[n] BY <1>9 DEF P
<1>11. QED BY <1>3, <1>5, <1>10

Calls(h) == {[pre |-> n] : n \in DOMAIN h} \cup {[post |-> n] : n \in DOMAIN h}
VisitOpen(h) == [n \in DOMAIN h |-> IF IsNil(h, n) THEN <<>> ELSE <<[pre |-> n]>>]
VisitClose(h) == [n \in DOMAIN h |-> IF IsNil(h, n) THEN <<>> ELSE <<[post |-> n]>>]

LEMMA VisitWalk ==
  ASSUME NEW h, Sound(h)
  PROVE  \E W : /\ Walk(h, Calls(h), VisitOpen(h), VisitClose(h), W)
                /\ \A t \in DOMAIN h : Visit(h, t) = W[t]
<1> DEFINE V == Calls(h)
           S == Seq(V)
<1>1. \A n \in DOMAIN h : [pre |-> n] \in V /\ [post |-> n] \in V BY DEF Calls
<1> HIDE DEF V
<1>2. <<>> \in S /\ \A n \in DOMAIN h : <<[pre |-> n]>> \in S /\ <<[post |-> n]>> \in S BY <1>1
<1> HIDE DEF S
<1>3. Brackets(h, V, VisitOpen(h), VisitClose(h)) BY <1>2 DEF Brackets, S, VisitOpen, VisitClose
<1>4. PICK W : Walk(h, V, VisitOpen(h), VisitClose(h), W) BY <1>3, WalkExists
<1> DEFINE kids(n, f) == FlattenSeq([i \in DOMAIN h[n].children |-> f[h[n].children[i]]])
           body(n, f) == IF IsNil(h, n) THEN kids(n, f)
                         ELSE <<[pre |-> n]>> \o kids(n, f) \o <<[post |-> n]>>
           Equation(f) == f = [n \in DOMAIN h |-> body(n, f)]
           visit == CHOOSE f : Equation(f)
<1>5. \A n, f : kids(n, f) = Under(h, f, n) BY DEF Under, Parts
<1>6. \A t : Visit(h, t) = visit[t] BY Zenon DEF Visit
<1> HIDE DEF kids
<1>7. Equation(W)
  <2>1. ASSUME NEW n \in DOMAIN h PROVE W[n] = body(n, W)
    <3> DEFINE u == Under(h, W, n)
    <3>1. W \in [DOMAIN h -> Seq(V)] BY <1>4 DEF Walk
    <3>2. \A c \in Kids(h, n) : W[c] \in Seq(V) BY <3>1, NodesAreNodes
    <3>3. u \in Seq(V) BY <3>2, UnderIs
    <3>4. W[n] = (VisitOpen(h)[n] \o u) \o VisitClose(h)[n] BY <1>4 DEF Walk
    <3>5. kids(n, W) = u BY <1>5
    <3> HIDE DEF u
    <3>6. <<>> \o u = u /\ u \o <<>> = u BY <3>3, ConcatEmptySeq
    <3>7. CASE IsNil(h, n)
      <4>1. VisitOpen(h)[n] = <<>> /\ VisitClose(h)[n] = <<>> BY <3>7 DEF VisitOpen, VisitClose
      <4>2. QED BY <3>4, <3>5, <3>6, <3>7, <4>1
    <3>8. CASE ~IsNil(h, n)
      <4>1. VisitOpen(h)[n] = <<[pre |-> n]>> /\ VisitClose(h)[n] = <<[post |-> n]>>
        BY <3>8 DEF VisitOpen, VisitClose
      <4>2. QED BY <3>4, <3>5, <3>8, <4>1
    <3>9. QED BY <3>7, <3>8
  <2> HIDE DEF body
  <2>2. W = [n \in DOMAIN h |-> W[n]] BY <1>4 DEF Walk
  <2>3. QED BY <2>1, <2>2
<1>8. Equation(visit) BY <1>7
<1> HIDE DEF visit
<1> DEFINE P == {n \in DOMAIN h : visit[n] = W[n]}
<1>9. ASSUME NEW n \in DOMAIN h, \A c \in Kids(h, n) : c \in P PROVE n \in P
  <2>1. \A c \in Kids(h, n) : visit[c] = W[c] BY <1>9
  <2>2. kids(n, visit) = kids(n, W) BY <1>5, <2>1, UnderSame
  <2>3. visit[n] = body(n, visit) /\ W[n] = body(n, W) BY <1>7, <1>8
  <2>4. QED BY <2>2, <2>3
<1> HIDE DEF P
<1>10. \A n \in DOMAIN h : n \in P BY <1>9, KidsInduct
<1>11. \A n \in DOMAIN h : visit[n] = W[n] BY <1>10 DEF P
<1>12. QED BY <1>4, <1>6, <1>11 DEF V

\* The nodes of the stream, and those the visitor comes to, are those below a
\* node, parents first.
NodeOf(h) == [x \in Streamed(h) |-> IF x \in {Down, Up} THEN <<>> ELSE <<x>>]
PreOf(h) == [c \in Calls(h) |-> IF "pre" \in DOMAIN c THEN <<c.pre>> ELSE <<>>]
OwnOpen(h) == [n \in DOMAIN h |-> IF IsNil(h, n) THEN <<>> ELSE <<n>>]

LEMMA Selections ==
  ASSUME NEW h, Sound(h)
  PROVE  /\ ToSeqs(NodeOf(h), Streamed(h), DOMAIN h)
         /\ \A s \in Seq(Streamed(h)) : NodesOf(s) = Mapped(NodeOf(h), s)
         /\ ToSeqs(PreOf(h), Calls(h), DOMAIN h)
         /\ \A s \in Seq(Calls(h)) : Entered(s) = Mapped(PreOf(h), s)
<1> DEFINE D == DOMAIN h
           S == Seq(D)
<1>1. <<>> \in S /\ \A n \in D : <<n>> \in S OBVIOUS
<1> HIDE DEF S
<1>2. \A x \in Streamed(h) : x \in {Down, Up} \/ x \in D BY DEF Streamed
<1>3. NodeOf(h) \in [Streamed(h) -> S] BY <1>1, <1>2 DEF NodeOf
<1>4. PreOf(h) \in [Calls(h) -> S]
  <2>1. \A c \in Calls(h) : (\E n \in D : c = [pre |-> n]) \/ (\E n \in D : c = [post |-> n])
    BY DEF Calls
  <2>2. \A n \in D : /\ "pre" \in DOMAIN [pre |-> n] /\ [pre |-> n].pre = n
                     /\ "pre" \notin DOMAIN [post |-> n]
    OBVIOUS
  <2>3. \A c \in Calls(h) : (IF "pre" \in DOMAIN c THEN <<c.pre>> ELSE <<>>) \in S
    BY <1>1, <2>1, <2>2
  <2>4. QED BY <2>3 DEF PreOf
<1>5. ASSUME NEW s \in Seq(Streamed(h)) PROVE NodesOf(s) = Mapped(NodeOf(h), s)
  <2>1. \A i \in DOMAIN s : s[i] \in Streamed(h) OBVIOUS
  <2>2. [i \in DOMAIN s |-> IF s[i] \in {Down, Up} THEN <<>> ELSE <<s[i]>>]
          = [i \in DOMAIN s |-> NodeOf(h)[s[i]]]
    BY <2>1 DEF NodeOf
  <2>3. QED BY <2>2, Zenon DEF NodesOf, Mapped
<1>6. ASSUME NEW s \in Seq(Calls(h)) PROVE Entered(s) = Mapped(PreOf(h), s)
  <2>1. \A i \in DOMAIN s : s[i] \in Calls(h) OBVIOUS
  <2>2. [i \in DOMAIN s |-> IF "pre" \in DOMAIN s[i] THEN <<s[i].pre>> ELSE <<>>]
          = [i \in DOMAIN s |-> PreOf(h)[s[i]]]
    BY <2>1 DEF PreOf
  <2>3. QED BY <2>2, Zenon DEF Entered, Mapped
<1>7. QED BY <1>3, <1>4, <1>5, <1>6 DEF ToSeqs, S

----------------------------------------------------------------------------
(* They read the same tree                                                  *)

LEMMA OwnOpens ==
  ASSUME NEW h, Sound(h), NEW n \in DOMAIN h
  PROVE  /\ Mapped(NodeOf(h), FillOpen(h)[n]) = OwnOpen(h)[n]
         /\ Mapped(NodeOf(h), FillClose(h)[n]) = <<>>
         /\ Mapped(PreOf(h), VisitOpen(h)[n]) = OwnOpen(h)[n]
         /\ Mapped(PreOf(h), VisitClose(h)[n]) = <<>>
<1> DEFINE f == NodeOf(h)
           g == PreOf(h)
           pre == [pre |-> n]
           post == [post |-> n]
<1>1. /\ n \in Streamed(h) /\ Down \in Streamed(h) /\ Up \in Streamed(h)
      /\ pre \in Calls(h) /\ post \in Calls(h)
  BY DEF Streamed, Calls
<1>2. f[n] = <<n>> /\ f[Down] = <<>> /\ f[Up] = <<>>
  <2>1. n \notin {Down, Up} BY NodesAreNodes
  <2>2. QED BY <1>1, <2>1 DEF NodeOf
<1>3. g[pre] = <<n>> /\ g[post] = <<>>
  <2>1. "pre" \in DOMAIN pre /\ pre.pre = n /\ "pre" \notin DOMAIN post OBVIOUS
  <2> HIDE DEF pre, post
  <2>2. QED BY <1>1, <2>1 DEF PreOf
<1>4. /\ Mapped(f, <<>>) = <<>> /\ Mapped(f, <<n>>) = f[n] /\ Mapped(f, <<Up>>) = f[Up]
      /\ Mapped(f, <<n, Down>>) = f[n] \o f[Down]
  <2>1. ToSeqs(f, Streamed(h), DOMAIN h) BY Selections
  <2> DEFINE S == Streamed(h)
             U == DOMAIN h
  <2> HIDE DEF f, S, U
  <2>2. ToSeqs(f, S, U) BY <2>1 DEF S, U
  <2>3. n \in S /\ Down \in S /\ Up \in S BY <1>1 DEF S
  <2>4. MapsNone(f) /\ MapsOne(f, n) /\ MapsOne(f, Up) /\ MapsTwo(f, n, Down)
    BY ONLY <2>2, <2>3, MappedShort
  <2>5. QED BY <2>4 DEF MapsNone, MapsOne, MapsTwo
<1>5. Mapped(g, <<>>) = <<>> /\ Mapped(g, <<pre>>) = g[pre] /\ Mapped(g, <<post>>) = g[post]
  <2>1. ToSeqs(g, Calls(h), DOMAIN h) BY Selections
  <2> DEFINE S == Calls(h)
             U == DOMAIN h
  <2> HIDE DEF g, pre, post, S, U
  <2>2. ToSeqs(g, S, U) BY <2>1 DEF S, U
  <2>3. pre \in S /\ post \in S BY <1>1 DEF S
  <2>4. MapsNone(g) /\ MapsOne(g, pre) /\ MapsOne(g, post)
    BY ONLY <2>2, <2>3, MappedShort
  <2>5. QED BY <2>4 DEF MapsNone, MapsOne
<1> HIDE DEF f, g
<1>6. <<n>> \o <<>> = <<n>>
  <2>1. <<n>> \in Seq({n}) OBVIOUS
  <2>2. QED BY <2>1, ConcatEmptySeq
<1>7. /\ Mapped(f, FillOpen(h)[n]) = OwnOpen(h)[n] /\ Mapped(f, FillClose(h)[n]) = <<>>
      /\ Mapped(g, VisitOpen(h)[n]) = OwnOpen(h)[n] /\ Mapped(g, VisitClose(h)[n]) = <<>>
  BY <1>2, <1>3, <1>4, <1>5, <1>6 DEF FillOpen, FillClose, VisitOpen, VisitClose, OwnOpen
<1>8. QED BY <1>7 DEF f, g

\* The visitor comes to the nodes of the stream.
LEMMA EnteredAlike ==
  ASSUME NEW h, Sound(h), NoLists(h), NEW t \in DOMAIN h
  PROVE  Entered(Visit(h, t)) = NodesOf(FillBuffer(h, t))
<1>1. PICK F : /\ Walk(h, Streamed(h), FillOpen(h), FillClose(h), F)
               /\ \A n \in DOMAIN h : FillBuffer(h, n) = F[n]
  BY FillWalk
<1>2. PICK V : /\ Walk(h, Calls(h), VisitOpen(h), VisitClose(h), V)
               /\ \A n \in DOMAIN h : Visit(h, n) = V[n]
  BY VisitWalk
<1> DEFINE f == NodeOf(h)
           g == PreOf(h)
           D == DOMAIN h
           o1 == [n \in D |-> Mapped(f, FillOpen(h)[n])]
           z1 == [n \in D |-> Mapped(f, FillClose(h)[n])]
           W1 == [n \in D |-> Mapped(f, F[n])]
           o2 == [n \in D |-> Mapped(g, VisitOpen(h)[n])]
           z2 == [n \in D |-> Mapped(g, VisitClose(h)[n])]
           W2 == [n \in D |-> Mapped(g, V[n])]
<1>3. ToSeqs(f, Streamed(h), D) /\ ToSeqs(g, Calls(h), D) BY Selections
<1> HIDE DEF f, g
<1>4. Walk(h, D, o1, z1, W1) BY <1>1, <1>3, MappedWalk
<1>5. Walk(h, D, o2, z2, W2) BY <1>2, <1>3, MappedWalk
<1>6. \A n \in D : o1[n] = o2[n] /\ z1[n] = z2[n] BY OwnOpens DEF f, g
<1>7. W1[t] = Mapped(f, F[t]) /\ W2[t] = Mapped(g, V[t]) OBVIOUS
<1>8. Closed(h, D) BY NodesAreNodes DEF Closed
<1> HIDE DEF o1, z1, W1, o2, z2, W2
<1>9. \A n \in D : W1[n] = W2[n] BY <1>4, <1>5, <1>6, <1>8, SameWalk
<1>10. F[t] \in Seq(Streamed(h)) /\ V[t] \in Seq(Calls(h)) BY <1>1, <1>2 DEF Walk
<1>11. NodesOf(F[t]) = Mapped(f, F[t]) /\ Entered(V[t]) = Mapped(g, V[t])
  BY <1>10, Selections DEF f, g
<1>12. QED BY <1>1, <1>2, <1>7, <1>9, <1>11

\* The nodes of the stream of a tree are the nodes of the tree.
LEMMA StreamedAlike ==
  ASSUME NEW h, Sound(h), NoLists(h), NEW t \in DOMAIN h, ~IsNil(h, t)
  PROVE  NodesOf(FillBuffer(h, t)) = Preorder(h, t)
<1>1. PICK F : /\ Walk(h, Streamed(h), FillOpen(h), FillClose(h), F)
               /\ \A n \in DOMAIN h : FillBuffer(h, n) = F[n]
  BY FillWalk
<1>2. PICK P : /\ Walk(h, DOMAIN h, PreOpen(h), Nothing(h), P)
               /\ \A n \in DOMAIN h : Preorder(h, n) = P[n]
  BY PreWalk
<1> DEFINE f == NodeOf(h)
           D == DOMAIN h
           o1 == [n \in D |-> Mapped(f, FillOpen(h)[n])]
           z1 == [n \in D |-> Mapped(f, FillClose(h)[n])]
           W1 == [n \in D |-> Mapped(f, F[n])]
           S == {n \in D : ~IsNil(h, n)}
<1>3. ToSeqs(f, Streamed(h), D) BY Selections
<1> HIDE DEF f
<1>4. Walk(h, D, o1, z1, W1) BY <1>1, <1>3, MappedWalk
<1>5. \A n \in S : o1[n] = PreOpen(h)[n] /\ z1[n] = Nothing(h)[n]
  BY OwnOpens DEF f, OwnOpen, PreOpen, Nothing
<1>6. W1[t] = Mapped(f, F[t]) /\ t \in S OBVIOUS
<1>7. Closed(h, S) BY NodesAreNodes DEF Closed, NoLists
<1> HIDE DEF o1, z1, W1, S
<1>8. \A n \in S : W1[n] = P[n] BY <1>2, <1>4, <1>5, <1>7, SameWalk
<1>9. F[t] \in Seq(Streamed(h)) BY <1>1 DEF Walk
<1>10. NodesOf(F[t]) = Mapped(f, F[t]) BY <1>9, Selections DEF f
<1>11. QED BY <1>1, <1>2, <1>6, <1>8, <1>10

\* A tree of a forest without lists under its nodes.
Standing(h, S, r) == Sound(h) /\ NoLists(h) /\ Closed(h, S) /\ Places(h, S) /\ r \in S

LEMMA ShortSeqs ==
  ASSUME NEW x, NEW y
  PROVE  /\ Range(<<>>) = {} /\ Range(<<x>>) = {x} /\ Range(<<x, y>>) = {x, y}
         /\ \A X : Once(<<>>, X) /\ Once(<<x>>, X) /\ (x # y => Once(<<x, y>>, X))
<1>1. /\ DOMAIN <<>> = {} /\ DOMAIN <<x>> = {1} /\ DOMAIN <<x, y>> = {1, 2}
      /\ <<x>>[1] = x /\ <<x, y>>[1] = x /\ <<x, y>>[2] = y
  OBVIOUS
<1>2. Range(<<>>) = {} /\ Range(<<x>>) = {x} /\ Range(<<x, y>>) = {x, y}
  BY <1>1 DEF Range
<1>3. \A X : Once(<<>>, X) /\ Once(<<x>>, X)
  BY <1>1 DEF Once
<1>4. \A X : x # y => Once(<<x, y>>, X)
  BY <1>1 DEF Once
<1>5. QED BY <1>2, <1>3, <1>4

LEMMA FillOwned ==
  ASSUME NEW h, Sound(h)
  PROVE  /\ Owned(h, FillOpen(h), FillClose(h), DOMAIN h, [n \in DOMAIN h |-> n])
         /\ BracketsOnce(h, FillOpen(h), FillClose(h), DOMAIN h)
         /\ \A own : Owned(h, FillOpen(h), FillClose(h), {n \in DOMAIN h : IsNil(h, n)}, own)
<1>1. \A n \in DOMAIN h : n \notin {Down, Up} BY NodesAreNodes
<1>2. ASSUME NEW n \in DOMAIN h
      PROVE  /\ \A x \in DOMAIN h : /\ x \in Range(FillOpen(h)[n]) => x = n /\ ~IsNil(h, n)
                                    /\ x \notin Range(FillClose(h)[n])
             /\ Once(FillOpen(h)[n], DOMAIN h) /\ Once(FillClose(h)[n], DOMAIN h)
  <2> DEFINE o == FillOpen(h)[n]
             z == FillClose(h)[n]
  <2>1. \/ o = <<>> /\ z = <<>>
        \/ o = <<n>> /\ z = <<>> /\ ~IsNil(h, n)
        \/ o = <<n, Down>> /\ z = <<Up>> /\ ~IsNil(h, n)
    BY DEF FillOpen, FillClose
  <2> HIDE DEF o, z
  <2>2. /\ Range(<<>>) = {} /\ Range(<<n>>) = {n} /\ Range(<<n, Down>>) = {n, Down}
        /\ Range(<<Up>>) = {Up}
        /\ Once(<<>>, DOMAIN h) /\ Once(<<n>>, DOMAIN h) /\ Once(<<Up>>, DOMAIN h)
        /\ Once(<<n, Down>>, DOMAIN h)
    BY <1>1, ShortSeqs
  <2>3. QED BY <1>1, <2>1, <2>2 DEF o, z
<1>3. QED BY <1>2 DEF Owned, BracketsOnce

\* The wildcard passes over exactly the subtree it begins at.
LEMMA SkipsAlike ==
  ASSUME NEW h, NEW S, NEW r, Standing(h, S, r),
         NEW p \in 0 .. Len(FillBuffer(h, r)) - 1, FillBuffer(h, r)[p + 1] \notin {Down, Up}
  PROVE  LET nodes == FillBuffer(h, r)
             x == nodes[p + 1]
         IN /\ x \in DOMAIN h /\ ~IsNil(h, x)
            /\ SubSeq(nodes, p + 1, MatchAny(h, nodes, p)) = FillBuffer(h, x)
<1> DEFINE V == Streamed(h)
           nodes == FillBuffer(h, r)
           x == nodes[p + 1]
<1>1. Sound(h) /\ NoLists(h) /\ Closed(h, S) /\ Places(h, S) /\ r \in S /\ r \in DOMAIN h
  BY DEF Standing, Closed
<1>2. PICK F : /\ Walk(h, V, FillOpen(h), FillClose(h), F)
               /\ \A n \in DOMAIN h : FillBuffer(h, n) = F[n]
  BY <1>1, FillWalk
<1>3. F \in [DOMAIN h -> Seq(V)] BY <1>2 DEF Walk
<1>4. nodes = F[r] /\ nodes \in Seq(V) /\ p \in Nat /\ p + 1 \in DOMAIN nodes /\ Len(nodes) \in Nat
  BY <1>1, <1>2, <1>3
<1>5. x \in Range(F[r]) /\ x \in DOMAIN h
  BY <1>4 DEF Range, Streamed
<1> HIDE DEF nodes, x, V
<1>6. x \in Below(h, r)
  <2> DEFINE own == [n \in DOMAIN h |-> n]
  <2>1. Owned(h, FillOpen(h), FillClose(h), DOMAIN h, own) BY <1>1, FillOwned
  <2>2. own[x] = x BY <1>5
  <2> HIDE DEF own
  <2>3. \A n \in DOMAIN h : \A y \in DOMAIN h : y \in Range(F[n]) => own[y] \in Below(h, n)
    BY <1>2, <2>1, WalkOwns
  <2>4. QED BY <1>1, <1>5, <2>2, <2>3
<1>7. ~IsNil(h, x)
  <2> DEFINE X == {n \in DOMAIN h : IsNil(h, n)}
             own == [n \in X |-> 0]
  <2>1. Owned(h, FillOpen(h), FillClose(h), X, own) BY <1>1, FillOwned
  <2>2. SUFFICES ASSUME x \in X PROVE FALSE
    BY <1>5
  <2>3. own[x] = 0 BY <2>2
  <2> HIDE DEF own, X
  <2>4. \A n \in DOMAIN h : \A y \in X : y \in Range(F[n]) => own[y] \in Below(h, n)
    BY <1>2, <2>1, WalkOwns
  <2>5. 0 \in Below(h, r) BY <1>1, <1>5, <2>2, <2>3, <2>4
  <2>6. Below(h, r) \subseteq DOMAIN h BY <1>1, BelowIsClosed DEF Closed
  <2>7. QED BY <1>1, <2>5, <2>6, NodesAreNodes
<1>8. Once(F[r], DOMAIN h)
  <2> DEFINE own == [n \in DOMAIN h |-> n]
  <2>1. /\ Owned(h, FillOpen(h), FillClose(h), DOMAIN h, own)
        /\ BracketsOnce(h, FillOpen(h), FillClose(h), DOMAIN h)
    BY <1>1, FillOwned
  <2> HIDE DEF own
  <2>2. QED BY <1>1, <1>2, <2>1, WalkOnce
<1>9. FillIs(h, F, x) BY <1>1, <1>2, <1>5, FillWalkIs DEF V
<1> DEFINE k == Under(h, F, x)
           w == F[x]
<1>10. /\ k \in Seq(V) /\ Balanced(k)
       /\ w = IF h[x].children = <<>> THEN <<x>> ELSE Inner(x, k)
  BY <1>7, <1>9 DEF FillIs, V
<1>11. PICK a, b \in Seq(V) : F[r] = (a \o w) \o b
  <2>1. Holds(V, F[r], F[x]) BY <1>1, <1>2, <1>6, WalkHas
  <2>2. QED BY <2>1 DEF Holds
<1>12. w \in Seq(V) BY <1>3, <1>5
<1>13. x \in V /\ x \notin {Down, Up} /\ Navigable(V)
  BY <1>1, <1>5, NodesAreNodes DEF V, Streamed, Navigable
<1> HIDE DEF k, w
<1>14. w[1] = x /\ Len(w) \in Nat /\ 1 \in 1 .. Len(w)
  <2>1. CASE h[x].children = <<>>
    <3>1. w = <<x>> BY <1>10, <2>1
    <3>2. QED BY <3>1
  <2>2. CASE h[x].children # <<>>
    <3>1. InnerOf(V, x, k, w) BY <1>10, <1>13, <2>2 DEF InnerOf
    <3>2. Len(w) = Len(k) + 3 /\ w[1] = x BY <3>1, InnerIs
    <3>3. Len(k) \in Nat BY <1>10
    <3>4. QED BY <3>2, <3>3
  <2>3. QED BY <2>1, <2>2
<1> DEFINE s == (a \o w) \o b
<1>15. /\ s \in Seq(V) /\ Len(s) = Len(a) + Len(w) + Len(b)
       /\ \A i \in 1 .. Len(w) : s[Len(a) + i] = w[i]
       /\ SubSeq(s, Len(a) + 1, Len(a) + Len(w)) = w
  BY <1>12, CutOut
<1>16. s = nodes BY <1>4, <1>11
<1> HIDE DEF s
<1>17. p = Len(a)
  <2>1. Len(a) \in Nat /\ Len(b) \in Nat BY <1>11
  <2>2. Len(a) + 1 \in DOMAIN nodes
    <3>1. DOMAIN nodes = 1 .. Len(nodes) BY <1>4
    <3>2. QED BY <1>14, <1>15, <1>16, <2>1, <3>1
  <2>3. nodes[Len(a) + 1] = x BY <1>14, <1>15, <1>16
  <2>4. nodes[p + 1] = x BY DEF x
  <2>5. Once(nodes, DOMAIN h) BY <1>4, <1>8
  <2>6. Len(a) + 1 = p + 1 BY <1>4, <1>5, <2>2, <2>3, <2>4, <2>5 DEF Once
  <2>7. QED BY <1>4, <2>1, <2>6
<1>18. MatchAny(h, nodes, p) = Len(a) + Len(w)
  <2>1. CASE h[x].children = <<>>
    <3>1. w = <<x>> BY <1>10, <2>1
    <3>2. Len(w) = 1 BY <3>1
    <3>3. MatchAny(h, nodes, p) = p + 1 BY <2>1 DEF MatchAny, x
    <3>4. QED BY <1>17, <3>2, <3>3
  <2>2. CASE h[x].children # <<>>
    <3>1. w = Inner(x, k) BY <1>10, <2>2
    <3>2. Passes(h, V, x, k, a, b) BY <1>10, <1>11, <1>13, <2>2 DEF Passes
    <3>3. MatchAny(h, (a \o Inner(x, k)) \o b, Len(a)) = Len(a) + Len(Inner(x, k))
      BY <3>2, Wildcard
    <3>4. QED BY <1>16, <1>17, <3>1, <3>3 DEF s
  <2>3. QED BY <2>1, <2>2
<1>19. SubSeq(nodes, p + 1, MatchAny(h, nodes, p)) = FillBuffer(h, x)
  BY <1>2, <1>5, <1>15, <1>16, <1>17, <1>18 DEF w
<1>20. QED BY <1>5, <1>7, <1>19 DEF nodes, x

LEMMA VisitOwned ==
  ASSUME NEW h, Sound(h)
  PROVE  \E own : /\ Owned(h, VisitOpen(h), VisitClose(h), Calls(h), own)
                  /\ BracketsOnce(h, VisitOpen(h), VisitClose(h), Calls(h))
<1> DEFINE pre(n) == [pre |-> n]
           post(n) == [post |-> n]
           own == [x \in Calls(h) |-> IF "pre" \in DOMAIN x THEN x.pre ELSE x.post]
<1>1. \A n \in DOMAIN h : /\ pre(n) \in Calls(h) /\ post(n) \in Calls(h)
  BY DEF Calls
<1>2. \A n \in DOMAIN h : /\ "pre" \in DOMAIN pre(n) /\ pre(n).pre = n
                          /\ "pre" \notin DOMAIN post(n) /\ post(n).post = n
  OBVIOUS
<1> HIDE DEF pre, post
<1>3. \A n \in DOMAIN h : own[pre(n)] = n /\ own[post(n)] = n /\ pre(n) # post(n)
  BY <1>1, <1>2
<1> HIDE DEF own
<1>4. ASSUME NEW n \in DOMAIN h
      PROVE  /\ \A x \in Calls(h) : /\ x \in Range(VisitOpen(h)[n]) => x = pre(n)
                                    /\ x \in Range(VisitClose(h)[n]) => x = post(n)
             /\ Once(VisitOpen(h)[n], Calls(h)) /\ Once(VisitClose(h)[n], Calls(h))
  <2> DEFINE o == VisitOpen(h)[n]
             z == VisitClose(h)[n]
             x == pre(n)
             y == post(n)
  <2>1. (o = <<>> \/ o = <<x>>) /\ (z = <<>> \/ z = <<y>>)
    BY DEF VisitOpen, VisitClose, pre, post
  <2> HIDE DEF o, z, x, y
  <2>2. /\ Range(<<>>) = {} /\ Range(<<x>>) = {x} /\ Range(<<y>>) = {y}
        /\ Once(<<>>, Calls(h)) /\ Once(<<x>>, Calls(h)) /\ Once(<<y>>, Calls(h))
    BY ShortSeqs
  <2>3. QED BY <2>1, <2>2 DEF o, z, x, y
<1>5. Owned(h, VisitOpen(h), VisitClose(h), Calls(h), own) BY <1>3, <1>4 DEF Owned
<1>6. BracketsOnce(h, VisitOpen(h), VisitClose(h), Calls(h)) BY <1>3, <1>4 DEF BracketsOnce
<1>7. QED BY <1>5, <1>6

LEMMA HoldsRange ==
  ASSUME NEW V, NEW s, NEW w, Holds(V, s, w), NEW x \in Range(w)
  PROVE  x \in Range(s)
<1>1. PICK a, b \in Seq(V) : s = (a \o w) \o b BY DEF Holds
<1>2. w \in Seq(V) BY DEF Holds
<1> DEFINE aw == a \o w
<1>3. aw \in Seq(V) /\ x \in Range(aw) BY <1>2, RangeConcat
<1> HIDE DEF aw
<1>4. x \in Range(aw \o b) BY <1>3, RangeConcat
<1>5. QED BY <1>1, <1>4 DEF aw

\* The visitor leaves a node after all that is under it.
LEMMA LeftAfter ==
  ASSUME NEW h, NEW S, NEW r, Standing(h, S, r), NEW n \in Below(h, r), ~IsNil(h, n),
         NEW c \in Below(h, n), c # n
  PROVE  \E i, j \in DOMAIN Visit(h, r) :
           /\ i < j /\ Visit(h, r)[i] = [post |-> c] /\ Visit(h, r)[j] = [post |-> n]
           /\ Once(Visit(h, r), Calls(h)) /\ [post |-> c] \in Calls(h) /\ [post |-> n] \in Calls(h)
<1> DEFINE X == Calls(h)
           o == VisitOpen(h)
           z == VisitClose(h)
           x == [post |-> c]
           y == [post |-> n]
           e == [pre |-> n]
<1>1. Sound(h) /\ NoLists(h) /\ Closed(h, S) /\ Places(h, S) /\ r \in S /\ r \in DOMAIN h
  BY DEF Standing, Closed
<1>2. n \in DOMAIN h /\ c \in DOMAIN h BY <1>1, BelowIsClosed DEF Closed
<1>3. ~IsNil(h, c) BY <1>1, <1>2, BelowParent, BelowIsClosed DEF NoLists, Closed
<1>4. /\ o[n] = <<e>> /\ z[n] = <<y>> /\ z[c] = <<x>> /\ x \in X /\ y \in X /\ e \in X
  BY <1>2, <1>3 DEF VisitOpen, VisitClose, Calls
<1>5. PICK W : /\ Walk(h, X, o, z, W) /\ \A t \in DOMAIN h : Visit(h, t) = W[t]
  BY <1>1, VisitWalk
<1>6. PICK own : Owned(h, o, z, X, own) /\ BracketsOnce(h, o, z, X)
  BY <1>1, VisitOwned
<1> HIDE DEF X, o, z, x, y, e
<1>7. Once(W[r], X) BY <1>1, <1>5, <1>6, WalkOnce
<1>8. /\ Brackets(h, X, o, z) /\ \A t \in DOMAIN h : W[t] \in Seq(X) /\ Kids(h, t) \subseteq DOMAIN h
      /\ \A t \in DOMAIN h : W[t] = (o[t] \o Under(h, W, t)) \o z[t]
  BY <1>1, <1>5, NodesAreNodes DEF Walk
<1>9. x \in Range(W[c])
  <2>1. \A d \in Kids(h, c) : W[d] \in Seq(X) BY <1>2, <1>8
  <2>2. \A v : v \in Range(z[c]) => v \in Range((o[c] \o Under(h, W, c)) \o z[c])
    BY <1>2, <1>8, <2>1, WalkStep
  <2>3. x \in Range(z[c]) BY <1>4, ShortSeqs
  <2>4. QED BY <1>2, <1>8, <2>2, <2>3
<1>10. PICK k \in Kids(h, n) : c \in Below(h, k) BY <1>1, <1>2, PreorderStep
<1>11. x \in Range(W[k])
  <2>1. Holds(X, W[k], W[c]) BY <1>2, <1>5, <1>8, <1>10, WalkHas
  <2>2. QED BY <1>9, <2>1, HoldsRange
<1> DEFINE u == Under(h, W, n)
<1>12. u \in Seq(X) /\ x \in Range(u)
  <2>1. \A d \in Kids(h, n) : W[d] \in Seq(X) BY <1>2, <1>8
  <2> HIDE DEF u
  <2>2. u \in Seq(X) /\ \A v : v \in Range(u) <=> \E d \in Kids(h, n) : v \in Range(W[d])
    BY <1>1, <1>2, <2>1, UnderIs DEF u
  <2>3. QED BY <1>10, <1>11, <2>2
<1>13. W[n] = (<<e>> \o u) \o <<y>> BY <1>2, <1>4, <1>8
<1> HIDE DEF u
<1>14. PICK i \in DOMAIN u : u[i] = x BY <1>12 DEF Range
<1> DEFINE p == <<e>>
           q == <<y>>
           w == (p \o u) \o q
<1>15. p \in Seq(X) /\ q \in Seq(X) /\ Len(p) = 1 /\ Len(q) = 1 /\ q[1] = y BY <1>4
<1> HIDE DEF p, q
<1>16. /\ w \in Seq(X) /\ Len(w) = Len(u) + 2 /\ Len(u) \in Nat /\ i \in 1 .. Len(u)
       /\ w[1 + i] = x /\ w[Len(u) + 2] = y
  <2>1. /\ w \in Seq(X) /\ Len(w) = Len(p) + Len(u) + Len(q)
        /\ \A m \in 1 .. Len(u) : w[Len(p) + m] = u[m]
    <3>1. p \in Seq(X) /\ u \in Seq(X) /\ q \in Seq(X) BY <1>12, <1>15
    <3>2. QED BY ONLY <3>1, CutOut
  <2>2. Len(u) \in Nat /\ i \in 1 .. Len(u) BY <1>12
  <2> DEFINE pu == p \o u
  <2>3. pu \in Seq(X) /\ Len(pu) = Len(p) + Len(u) BY <1>12, <1>15, ConcatProperties
  <2> HIDE DEF pu
  <2>4. \A m \in 1 .. Len(pu) + Len(q) : (pu \o q)[m] = IF m <= Len(pu) THEN pu[m] ELSE q[m - Len(pu)]
    <3>1. pu \in Seq(X) /\ q \in Seq(X) BY <1>15, <2>3
    <3>2. QED BY ONLY <3>1, ConcatProperties
  <2>5. w = pu \o q BY DEF pu
  <2> HIDE DEF w
  <2> DEFINE m == Len(u) + 2
  <2>6. m \in 1 .. Len(pu) + Len(q) /\ ~(m <= Len(pu)) /\ m - Len(pu) = 1
    BY <1>15, <2>2, <2>3
  <2>7. w[m] = y BY <1>15, <2>4, <2>5, <2>6
  <2>8. QED BY <1>14, <1>15, <2>1, <2>2, <2>7
<1>17. w = W[n] BY <1>13 DEF p, q
<1> HIDE DEF w
<1>18. PICK a, b \in Seq(X) : W[r] = (a \o w) \o b
  <2>1. Holds(X, W[r], W[n]) BY <1>1, <1>5, WalkHas
  <2>2. QED BY <1>17, <2>1 DEF Holds
<1> DEFINE s == (a \o w) \o b
<1>19. /\ s \in Seq(X) /\ Len(s) = Len(a) + Len(w) + Len(b)
       /\ \A m \in 1 .. Len(w) : s[Len(a) + m] = w[m]
  <2>1. a \in Seq(X) /\ w \in Seq(X) /\ b \in Seq(X) BY <1>16, <1>18
  <2>2. QED BY ONLY <2>1, CutOut
<1>20. s = W[r] BY <1>18
<1> HIDE DEF s
<1> DEFINE at == Len(a) + (1 + i)
           end == Len(a) + (Len(u) + 2)
<1>21. /\ at \in DOMAIN s /\ end \in DOMAIN s /\ at < end /\ s[at] = x /\ s[end] = y
  <2>1. Len(a) \in Nat /\ Len(b) \in Nat BY <1>18
  <2>2. 1 + i \in 1 .. Len(w) /\ Len(u) + 2 \in 1 .. Len(w) BY <1>16
  <2>3. s[at] = x /\ s[end] = y BY <1>16, <1>19, <2>2
  <2>4. DOMAIN s = 1 .. Len(s) BY <1>19
  <2>5. at \in 1 .. Len(s) /\ end \in 1 .. Len(s) /\ at < end BY <1>16, <1>19, <2>1
  <2>6. QED BY <2>3, <2>4, <2>5
<1> HIDE DEF at, end
<1>22. s = Visit(h, r) BY <1>1, <1>5, <1>20
<1>23. Once(s, X) BY <1>7, <1>20
<1>24. QED BY <1>4, <1>21, <1>22, <1>23 DEF x, y, X

LEMMA PlaceOnce ==
  ASSUME NEW s, NEW X, Once(s, X), NEW i \in DOMAIN s, s[i] \in X
  PROVE  (CHOOSE j \in DOMAIN s : s[j] = s[i]) = i
BY DEF Once

Precedes(calls, x, y) ==
  (CHOOSE i \in DOMAIN calls : calls[i] = x) < (CHOOSE i \in DOMAIN calls : calls[i] = y)

LEMMA LeavesAlike ==
  ASSUME NEW h, NEW S, NEW r, Standing(h, S, r), NEW n \in Below(h, r), ~IsNil(h, n),
         NEW c \in Below(h, n), c # n
  PROVE  Precedes(Visit(h, r), [post |-> c], [post |-> n])
<1> DEFINE x == [post |-> c]
           y == [post |-> n]
           calls == Visit(h, r)
<1>1. PICK i, j \in DOMAIN calls :
        /\ i < j /\ calls[i] = x /\ calls[j] = y
        /\ Once(calls, Calls(h)) /\ x \in Calls(h) /\ y \in Calls(h)
  <2> HIDE DEF x, y
  <2>1. QED BY LeftAfter DEF x, y
<1> HIDE DEF x, y, calls
<1>2. (CHOOSE k \in DOMAIN calls : calls[k] = x) = i BY <1>1, PlaceOnce
<1>3. (CHOOSE k \in DOMAIN calls : calls[k] = y) = j BY <1>1, PlaceOnce
<1>4. QED BY <1>1, <1>2, <1>3 DEF x, y, calls, Precedes

LEMMA Alike == Inv => ReadsAlike
<1> SUFFICES ASSUME Inv, NEW r \in held
             PROVE  LET nodes == FillBuffer(heap, r)
                        calls == Visit(heap, r)
                        place(call) == CHOOSE i \in DOMAIN calls : calls[i] = call
                    IN /\ \A p \in 0 .. Len(nodes) - 1 : nodes[p + 1] \notin {Down, Up} =>
                            NodesOf(SubSeq(nodes, p + 1, MatchAny(heap, nodes, p)))
                              = Preorder(heap, nodes[p + 1])
                       /\ Entered(calls) = NodesOf(nodes)
                       /\ \A n \in Live(heap, {r}) : \A c \in Live(heap, {n}) \ {n} :
                            ~IsNil(heap, n) => place([post |-> c]) < place([post |-> n])
  BY DEF ReadsAlike
<1> DEFINE nodes == FillBuffer(heap, r)
           calls == Visit(heap, r)
           place(call) == CHOOSE i \in DOMAIN calls : calls[i] = call
           S == Live(heap, Roots)
<1>1. Sound(heap) /\ NoLists(heap) /\ Forest(heap, Roots) /\ Roots \subseteq DOMAIN heap /\ r \in Roots
  BY DEF Inv, Forest, Roots
<1>2. Standing(heap, S, r) /\ r \in DOMAIN heap
  BY <1>1, LiveClosed DEF Standing, Forest
<1>3. ASSUME NEW p \in 0 .. Len(nodes) - 1, nodes[p + 1] \notin {Down, Up}
      PROVE  NodesOf(SubSeq(nodes, p + 1, MatchAny(heap, nodes, p))) = Preorder(heap, nodes[p + 1])
  <2> DEFINE x == nodes[p + 1]
  <2>1. /\ x \in DOMAIN heap /\ ~IsNil(heap, x)
        /\ SubSeq(nodes, p + 1, MatchAny(heap, nodes, p)) = FillBuffer(heap, x)
    BY <1>2, <1>3, SkipsAlike
  <2> HIDE DEF x
  <2>2. NodesOf(FillBuffer(heap, x)) = Preorder(heap, x) BY <1>1, <2>1, StreamedAlike
  <2>3. QED BY <2>1, <2>2 DEF x
<1>4. Entered(calls) = NodesOf(nodes) BY <1>1, <1>2, EnteredAlike
<1>5. ASSUME NEW n \in Live(heap, {r}), NEW c \in Live(heap, {n}) \ {n}, ~IsNil(heap, n)
      PROVE  place([post |-> c]) < place([post |-> n])
  <2>1. n \in Below(heap, r) /\ c \in Below(heap, n) /\ c # n BY <1>5, InLive
  <2>2. Precedes(calls, [post |-> c], [post |-> n])
    <3> HIDE DEF S
    <3>1. QED BY <1>2, <1>5, <2>1, LeavesAlike
  <2>3. QED BY <2>2 DEF Precedes
<1>6. QED BY <1>3, <1>4, <1>5

----------------------------------------------------------------------------
(* The theorems                                                             *)

\* What is in hand or waits in the stream are the roots of disjoint trees; the heap has
\* no cycle, and no child in it is a list.
THEOREM Inductive == Spec => []Inv
<1>1. Inv /\ [Next]_vars => Inv' BY StepKeeps, StutterKeeps
<1>2. QED BY Start, <1>1, PTL DEF Spec

\* The trees that the rules of a generated parser hold are trees, and every node in them
\* knows its parent and its place (RewriteRuleElementStream, BaseTreeAdaptor), with any
\* number of trees, nodes and elements of the stream.
THEOREM TreesLinked == Spec => []Linked
BY Inductive, InvLinked, PTL

\* What a client reads in a tree is the same whichever way it reads it: a debugger's stream
\* of nodes with DOWN and UP (CommonTreeNodeStream.fillBufferRec), the subtree that a
\* wildcard of a tree grammar skips in it (TreeParser.matchAny), and the calls of
\* TreeVisitor.visit, which comes back from every child before it leaves the parent.
THEOREM TreesReadAlike == Spec => []ReadsAlike
BY Inductive, Alike, PTL

\* No operation of the adaptor or of the stream loses a node that a rule had in hand.
THEOREM NothingDropped == Spec => NoneDropped
<1>1. Inv /\ [Next]_vars =>
        [{n \in Live(heap, held) : ~IsNil(heap, n)} \subseteq Live(heap', Kept')]_vars
  BY StepKeeps DEF Dropless
<1>2. QED BY Inductive, <1>1, PTL DEF Spec, NoneDropped
==============================================================================
