------------------------------- MODULE Tree --------------------------------
(***************************************************************************)
(* The trees of the ANTLR runtime (BaseTree, CommonTree, BaseTreeAdaptor   *)
(* in antlr3/tree.py) as a heap, the sequence of all nodes ever made: a    *)
(* node has the list of its children, and every node knows its parent and  *)
(* its place among the children.  A node without a token is "nil", the     *)
(* root of a flat list.  The operations are functions from heap to heap.   *)
(***************************************************************************)
EXTENDS Integers, Sequences, FiniteSets, SequencesExt, FiniteSetsExt, Functions

CONSTANTS
  Token,      \* payloads of a node
  Nil,        \* no payload
  None        \* no node

ASSUME TreeAssumption == Nil \notin Token /\ None \notin Nat

NewNode(token) == [token |-> token, children |-> <<>>, parent |-> None, childIndex |-> -1]

IsNil(h, t) == h[t].token = Nil

Place(kids, n) == CHOOSE i \in DOMAIN kids : kids[i] = n

\* The children of t from the index on are told their place.
Freshen(h, t, offset) ==
  LET kids == h[t].children
      moved == {kids[i] : i \in offset + 1 .. Len(kids)}
  IN [n \in DOMAIN h |->
        IF n \in moved
          THEN [h[n] EXCEPT !.parent = t, !.childIndex = Place(kids, n) - 1]
          ELSE h[n]]

\* A child that is a list hands over its children.
AddChild(h, t, c) ==
  LET added == IF IsNil(h, c) THEN h[c].children ELSE <<c>>
  IN Freshen([h EXCEPT ![t].children = @ \o added], t, Len(h[t].children))

SetChild(h, t, i, c) ==
  [h EXCEPT ![t].children[i + 1] = c, ![c].parent = t, ![c].childIndex = i]

\* The child that is removed keeps its parent; the places of those behind it
\* are counted anew.
DeleteChild(h, t, i) ==
  Freshen([h EXCEPT ![t].children = RemoveAt(@, i + 1)], t, i)

\* Children start to stop make place for a tree or for the children of a list.
ReplaceChildren(h, t, start, stop, new) ==
  LET kids == h[t].children
      put == IF IsNil(h, new) THEN h[new].children ELSE <<new>>
  IN Freshen([h EXCEPT ![t].children = SubSeq(kids, 1, start) \o put
                                         \o SubSeq(kids, stop + 2, Len(kids))], t, start)

----------------------------------------------------------------------------
(* The adaptor                                                              *)

DupNode(h, t) == Append(h, NewNode(h[t].token))

\* The nodes of a tree, parents first.
Preorder(h, t) ==
  LET pre[n \in DOMAIN h] ==
        <<n>> \o FlattenSeq([i \in DOMAIN h[n].children |-> pre[h[n].children[i]]])
  IN pre[t]

\* In a copy that is being made the nodes are named by their places in it.
Shifted(node, by) ==
  [node EXCEPT !.children = [i \in DOMAIN @ |-> @[i] + by],
               !.parent = IF @ = None THEN None ELSE @ + by]

\* The copy of a child is added behind those before it.
Grafted(tree, sub) ==
  LET by == Len(tree)
      top == [Shifted(sub[1], by) EXCEPT !.parent = 1, !.childIndex = Len(tree[1].children)]
  IN [tree EXCEPT ![1].children = Append(@, by + 1)]
       \o [i \in DOMAIN sub |-> IF i = 1 THEN top ELSE Shifted(sub[i], by)]

\* The copy of a node, which keeps its place, with the copies of its children added
\* in turn.
Grown(node, copies) ==
  LET grown[i \in 0 .. Len(copies)] ==
        IF i = 0 THEN <<[node EXCEPT !.children = <<>>, !.parent = None]>>
        ELSE Grafted(grown[i - 1], copies[i])
  IN grown[Len(copies)]

\* dupTree.  (No child is a list, which addChild would dissolve.)
Copy(h, t) ==
  LET copy[n \in DOMAIN h] ==
        Grown(h[n], [i \in DOMAIN h[n].children |-> copy[h[n].children[i]]])
  IN copy[t]

\* The root of the copy is the next node of the heap.
DupTree(h, t) ==
  LET copy == Copy(h, t) IN h \o [i \in DOMAIN copy |-> Shifted(copy[i], Len(h))]

\* The node that becomes the root: of ^(nil x) it is x.
RealRoot(h, new) ==
  IF IsNil(h, new) /\ Len(h[new].children) = 1 THEN h[new].children[1] ELSE new

BecomeRoot(h, new, old) == AddChild(h, RealRoot(h, new), old)

\* ^(nil x) becomes x and nil becomes None.
PostProcessed(h, t) ==
  IF ~IsNil(h, t) \/ Len(h[t].children) > 1 THEN t
  ELSE IF h[t].children = <<>> THEN None ELSE h[t].children[1]

RulePostProcessing(h, t) ==
  LET root == PostProcessed(h, t)
  IN IF root \in {t, None} THEN h
     ELSE [h EXCEPT ![root].parent = None, ![root].childIndex = -1]
=============================================================================
