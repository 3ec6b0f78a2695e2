----------------------------- MODULE NodeStream -----------------------------
(***************************************************************************)
(* CommonTreeNodeStream of the ANTLR runtime (antlr3/tree.py) as a value:  *)
(*   root        the tree it reads                                         *)
(*   nodes       the buffer; p points into it from 0, and is -1 until the  *)
(*               first use fills it                                        *)
(*   lastMarker  of mark()                                                 *)
(*   calls       the indexes push() has saved                              *)
(* and what a tree parser asks of a node, inContext.                       *)
(***************************************************************************)
EXTENDS TreeWalk

Eof == -4

NewNodeStream(root) ==
  [root |-> root, nodes |-> <<>>, p |-> -1, lastMarker |-> None, calls |-> <<>>]

\* fillBuffer, which everything but reset begins with.
Filled(h, s) ==
  IF s.p # -1 THEN s ELSE [s EXCEPT !.nodes = @ \o FillBuffer(h, s.root), !.p = 0]

\* LT of a stream that has been filled, backwards for k < 0.
LB(s, k) == IF s.p - k < 0 THEN None ELSE s.nodes[s.p - k + 1]
LT(s, k) ==
  IF k = 0 THEN None
  ELSE IF k < 0 THEN LB(s, -k)
  ELSE IF s.p + k > Len(s.nodes) THEN Eof ELSE s.nodes[s.p + k]

NodeIndex(s, node) ==
  IF node \in Range(s.nodes) THEN Place(s.nodes, node) - 1 ELSE -1

ConsumeNode(s) == [s EXCEPT !.p = @ + 1]
Seek(s, index) == [s EXCEPT !.p = index]
Mark(s) == [s EXCEPT !.lastMarker = s.p]

\* Mutated: always to the last mark.
RewindLast(s, marker) == Seek(s, s.lastMarker)

Rewind(s, marker) == Seek(s, IF marker = None THEN s.lastMarker ELSE marker)

Push(s, index) == Seek([s EXCEPT !.calls = Append(@, s.p)], index)

Pop(s) == Seek([s EXCEPT !.calls = Front(@)], Last(s.calls))

----------------------------------------------------------------------------
(* TreeParser._inContext                                                    *)

\* The nodes above a node, the nearest first.
Ancestors(h, n) ==
  LET above[m \in DOMAIN h] ==
        IF h[m].parent = None THEN <<>> ELSE <<h[m].parent>> \o above[h[m].parent]
  IN above[n]

\* The names of a context, "..." between them, are held against the nodes above
\* t, from the last to the first; for "..." the nearest node of the name before
\* it is taken.
InContext(h, t, context, name) ==
  LET nodes == Ancestors(h, t)
      Nearest(i, goal) == {j \in i .. Len(nodes) : name[nodes[j]] = goal}
      matches[c \in 0 .. Len(context), i \in 1 .. Len(nodes) + 1] ==
        IF c = 0 THEN TRUE
        ELSE IF i > Len(nodes) THEN FALSE
        ELSE IF context[c] = "..."
          THEN \/ c = 1
               \/ LET found == Nearest(i, context[c - 1])
                  IN found # {} /\ matches[c - 2, Min(found) + 1]
        ELSE name[nodes[i]] = context[c] /\ matches[c - 1, i + 1]
  IN matches[Len(context), 1]
=============================================================================
