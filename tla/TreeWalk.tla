------------------------------ MODULE TreeWalk ------------------------------
(***************************************************************************)
(* How a tree of the ANTLR runtime is read (antlr3/tree.py): as the stream *)
(* of CommonTreeNodeStream, where DOWN and UP stand around the children of *)
(* a node, by the wildcard of a tree parser, which skips a whole subtree   *)
(* of that stream, and by TreeVisitor.                                     *)
(***************************************************************************)
EXTENDS Tree

\* The navigation nodes, none of the heap.
Down == -2
Up == -3

\* _fillBuffer: a list has no node of its own, nor DOWN and UP.
FillBuffer(h, t) ==
  LET fill[n \in DOMAIN h] ==
        LET kids == FlattenSeq([i \in DOMAIN h[n].children |-> fill[h[n].children[i]]])
        IN IF IsNil(h, n) THEN kids
           ELSE IF kids = <<>> THEN <<n>> ELSE <<n, Down>> \o kids \o <<Up>>
  IN fill[t]

\* Mutated: to behind the next UP.
MatchAnyNextUp(h, nodes, p) ==
  LET ups == {i \in p .. Len(nodes) - 1 : nodes[i + 1] = Up}
  IN IF h[nodes[p + 1]].children = <<>> THEN p + 1 ELSE Min(ups) + 1

\* TreeParser.matchAny at index p, from 0, of a stream: one node, or to behind
\* the UP of its children, counted by the level; the index it leaves.
MatchAny(h, nodes, p) ==
  LET met(nav, i) == Cardinality({j \in p + 1 .. i : nodes[j + 1] = nav})
      level(i) == met(Down, i) - met(Up, i)     \* when the node at i has been looked at
      ups == {i \in p .. Len(nodes) - 1 : nodes[i + 1] = Up /\ level(i) = 0}
  IN IF h[nodes[p + 1]].children = <<>> THEN p + 1
     ELSE IF ups = {} THEN Len(nodes) + 1 ELSE Min(ups) + 1

\* TreeVisitor.visit, with actions that leave the tree as it is: the calls of
\* the actions in their order.
Visit(h, t) ==
  LET visit[n \in DOMAIN h] ==
        LET kids == FlattenSeq([i \in DOMAIN h[n].children |-> visit[h[n].children[i]]])
        IN IF IsNil(h, n) THEN kids ELSE <<[pre |-> n]>> \o kids \o <<[post |-> n]>>
  IN visit[t]
=============================================================================
