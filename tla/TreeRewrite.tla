---------------------------- MODULE TreeRewrite -----------------------------
(***************************************************************************)
(* The building of trees by the rules of a generated parser (external):    *)
(* the trees a rule holds, which it hands on through the adaptor, and one  *)
(* RewriteRuleSubtreeStream of antlr3/tree.py, in which it collects trees  *)
(* and from which it takes them, as often as it likes, for the right side  *)
(* of ->.  A tree that was handed on is not held any more: the stream has  *)
(* to see to it that an element that is used again is a copy.  (What the   *)
(* streams of tokens and of matched nodes give is always a new node.)      *)
(***************************************************************************)
EXTENDS TreeWalk

CONSTANTS
  MaxNodes,     \* bound: nodes ever made
  MaxHeld,      \* bound: trees in hand at a time
  MaxElements   \* bound: elements of the stream

ASSUME RewriteAssumption == {MaxNodes, MaxHeld, MaxElements} \subseteq Nat

VARIABLES
  heap,
  held,         \* roots of the trees the rules have in hand
  stream        \* singleElement, elements, cursor and dirty
vars == <<heap, held, stream>>

\* None in the code; the list of a stream is never empty.
NoList == <<>>

\* The stream begins empty, or over the list of a list label that has one element.
NewStream(list) == [singleElement |-> None, elements |-> list, cursor |-> 0, dirty |-> FALSE]

Init ==
  /\ \/ heap = <<>> /\ stream = NewStream(NoList)
     \/ \E token \in Token : heap = <<NewNode(token)>> /\ stream = NewStream(<<1>>)
  /\ held = {}

Live(h, roots) == UNION {Range(Preorder(h, r)) : r \in roots}
Room(h) == Len(h) <= MaxNodes

----------------------------------------------------------------------------
(* The adaptor, used by the rules                                           *)

Create(token) ==
  /\ heap' = Append(heap, NewNode(token)) /\ Room(heap')
  /\ held' = held \cup {Len(heap')}
  /\ UNCHANGED stream

AddChildTo(t, child) ==
  /\ t # child
  /\ heap' = AddChild(heap, t, child)
  /\ held' = held \ {child}
  /\ UNCHANGED stream

\* A list with several children is no root: RuntimeError.
BecomeRootOf(new, old) ==
  /\ new # old /\ ~(IsNil(heap, new) /\ Len(heap[new].children) > 1)
  /\ heap' = BecomeRoot(heap, new, old)
  /\ held' = (held \ {new, old}) \cup {RealRoot(heap, new)}
  /\ UNCHANGED stream

PostProcess(t) ==
  /\ IsNil(heap, t)
  /\ heap' = RulePostProcessing(heap, t)
  /\ held' = (held \ {t}) \cup ({PostProcessed(heap, t)} \ {None})
  /\ UNCHANGED stream

\* The children a tree grammar removes are held by it.
Delete(t, i) ==
  /\ heap' = DeleteChild(heap, t, i)
  /\ held' = held \cup {heap[t].children[i + 1]}
  /\ UNCHANGED stream

Replace(t, start, stop, new) ==
  /\ t \notin Live(heap, {new})
  /\ heap' = ReplaceChildren(heap, t, start, stop, new)
  /\ held' = (held \ {new}) \cup Range(SubSeq(heap[t].children, start + 1, stop + 1))
  /\ UNCHANGED stream

\* A list is no child: ValueError.
Set(t, i, child) ==
  /\ ~IsNil(heap, child) /\ t \notin Live(heap, {child})
  /\ heap' = SetChild(heap, t, i, child)
  /\ held' = (held \ {child}) \cup {heap[t].children[i + 1]}
  /\ UNCHANGED stream

----------------------------------------------------------------------------
(* The stream                                                               *)

Size(s) == IF s.singleElement # None THEN 1 ELSE Len(s.elements)

AddTo(s, el) ==
  IF s.elements # NoList THEN [s EXCEPT !.elements = Append(@, el)]
  ELSE IF s.singleElement = None THEN [s EXCEPT !.singleElement = el]
  ELSE [s EXCEPT !.elements = <<s.singleElement, el>>, !.singleElement = None]

\* The result of a rule, which is the stream's then.
Add(el) ==
  /\ Size(stream) < MaxElements
  /\ PostProcessed(heap, el) = el
  /\ stream' = AddTo(stream, el)
  /\ held' = held \ {el}
  /\ UNCHANGED heap

Over == stream.cursor >= Size(stream)
\* RewriteEmptyStreamException and RewriteCardinalityException otherwise.
HasAnother == Size(stream) = 1 \/ (Size(stream) > 1 /\ ~Over)

\* _next without toTree: past the end the single element again, which a stream
\* over a list does not have.
NextElement ==
  IF Over \/ stream.singleElement # None THEN stream.singleElement
  ELSE stream.elements[stream.cursor + 1]

Advance == stream' = IF Over THEN stream ELSE [stream EXCEPT !.cursor = @ + 1]

\* Mutated: a stream that was reset gives its elements again.
MustDupOnce == Over /\ Size(stream) = 1

MustDup == stream.dirty \/ (Over /\ Size(stream) = 1)

\* What nextTree and nextNode return, given the heap with the copy they make if
\* one is due, whose root is the first new node.
Take(copied) ==
  /\ HasAnother
  /\ IF NextElement = None THEN UNCHANGED <<heap, held>>
     ELSE IF MustDup
       THEN /\ heap' = copied /\ Room(heap')
            /\ held' = held \cup {Len(heap) + 1}
       ELSE held' = held \cup {NextElement} /\ UNCHANGED heap
  /\ Advance

NextTree == Take(DupTree(heap, NextElement))

\* A node to become a root: copied without its children, if it is copied.
NextNode == Take(DupNode(heap, NextElement))

Reset ==
  /\ stream' = [stream EXCEPT !.cursor = 0, !.dirty = TRUE]
  /\ UNCHANGED <<heap, held>>

Build ==
  \/ \E token \in Token \cup {Nil} : Create(token)
  \/ \E t, child \in held : AddChildTo(t, child) \/ BecomeRootOf(t, child)
  \/ \E t \in held : PostProcess(t)
Edit ==
  \E t \in Live(heap, held) : \E i \in 0 .. Len(heap[t].children) - 1 :
    \/ Delete(t, i)
    \/ \E new \in held : Set(t, i, new)
    \/ \E stop \in i .. Len(heap[t].children) - 1, new \in held : Replace(t, i, stop, new)
Stream ==
  \/ \E el \in held : Add(el)
  \/ NextTree \/ NextNode \/ Reset
Next == (Build \/ Edit \/ Stream) /\ Cardinality(held') <= MaxHeld

Spec == Init /\ [][Next]_vars

----------------------------------------------------------------------------
(* Properties                                                               *)

\* The elements the stream has not yet given out, which nothing else holds.
Waiting ==
  IF stream.dirty \/ Over THEN {}
  ELSE IF stream.singleElement # None THEN {stream.singleElement}
  ELSE {stream.elements[i] : i \in stream.cursor + 1 .. Len(stream.elements)}
Roots == held \cup Waiting

TypeOK ==
  /\ \A n \in DOMAIN heap :
       /\ heap[n].token \in Token \cup {Nil} /\ heap[n].parent \in DOMAIN heap \cup {None}
       /\ Range(heap[n].children) \subseteq (1 .. n - 1) \cup (n + 1 .. Len(heap))
       /\ heap[n].childIndex \in {-1} \cup Nat
  /\ held \subseteq DOMAIN heap
  /\ stream.cursor \in 0 .. Size(stream)
  /\ stream.singleElement # None => stream.elements = NoList

\* The trees in hand are trees, and every node in them knows its place: no
\* node is in two places, none has a parent or an index that is not its own,
\* however often and in whatever order elements of the stream were reused.
Linked ==
  /\ TypeOK
  /\ \A n \in Live(heap, Roots) : \A i \in DOMAIN heap[n].children :
       LET child == heap[heap[n].children[i]] IN child.parent = n /\ child.childIndex = i - 1
  /\ \A r \in Roots : \A n \in Live(heap, Roots) : r \notin Range(heap[n].children)

\* Whatever is done with the trees in hand loses none of their nodes but lists:
\* they are in the trees in hand afterwards or in the stream.
Kept == held \cup ((Range(stream.elements) \cup {stream.singleElement}) \ {None})
NoneDropped ==
  [][{n \in Live(heap, held) : ~IsNil(heap, n)} \subseteq Live(heap', Kept')]_vars

\* The nodes of a stream, and the nodes that calls of the visitor come to.
NodesOf(stm) ==
  FlattenSeq([i \in DOMAIN stm |-> IF stm[i] \in {Down, Up} THEN <<>> ELSE <<stm[i]>>])
Entered(calls) ==
  FlattenSeq([i \in DOMAIN calls |-> IF "pre" \in DOMAIN calls[i] THEN <<calls[i].pre>> ELSE <<>>])

\* A tree reads the same in every way: the wildcard passes over exactly the
\* nodes of the subtree it begins at, and the visitor comes to the nodes in the
\* order of the stream and leaves each after its children.
ReadsAlike ==
  \A r \in held :
    LET nodes == FillBuffer(heap, r)
        calls == Visit(heap, r)
        place(call) == CHOOSE i \in DOMAIN calls : calls[i] = call
    IN /\ \A p \in 0 .. Len(nodes) - 1 : nodes[p + 1] \notin {Down, Up} =>
            NodesOf(SubSeq(nodes, p + 1, MatchAny(heap, nodes, p))) = Preorder(heap, nodes[p + 1])
       /\ Entered(calls) = NodesOf(nodes)
       /\ \A n \in Live(heap, {r}) : \A c \in Live(heap, {n}) \ {n} : ~IsNil(heap, n) =>
            place([post |-> c]) < place([post |-> n])
=============================================================================
