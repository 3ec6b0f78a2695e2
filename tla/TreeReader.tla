----------------------------- MODULE TreeReader -----------------------------
(***************************************************************************)
(* A program (external) that reads a tree with the ANTLR runtime: it finds *)
(* a subtree with a pattern of TreeWizard, and a tree parser reads it from *)
(* a CommonTreeNodeStream.  The parser looks ahead and goes back, jumps to *)
(* another subtree and returns, skips what a wildcard matches, and puts    *)
(* other trees in the place of what it has read.                           *)
(***************************************************************************)
EXTENDS NodeStream, TreeWizard

CONSTANTS
  Tree,      \* the trees there are: heaps, with the root first
  Query,     \* the patterns that are asked for, as trees of names, arguments and labels
  Context,   \* what inContext is asked
  MaxNodes,  \* bound: nodes ever made
  MaxFrames  \* bound: marks and jumps at a time

VARIABLES
  query,      \* what is looked for, NoQuery once it was found
  heap,
  stream,
  path,       \* the nodes whose children the parser is at, from base downwards
  base,       \* the subtree the parser reads
  frames,     \* its marks and jumps, with the path and the base to go back to
  rewritten   \* the tree has changed since the stream was made
vars == <<query, heap, stream, path, base, frames, rewritten>>

NoQuery == None

Init ==
  /\ query \in Query /\ heap \in Tree
  /\ stream = NewNodeStream(1)
  /\ path = <<>> /\ base = 1 /\ frames = <<>> /\ rewritten = FALSE

\* How a query is written: a single name as it is, anything else as a tree.
TextOfQuery(q) ==
  LET node(n) == (IF q[n].token.label = NoLabel THEN <<>> ELSE <<PERCENT, ID(q[n].token.label), COLON>>)
                 \o (IF q[n].token.name = Wildcard THEN <<DOT>> ELSE <<ID(q[n].token.name)>>)
                 \o (IF q[n].token.arg = NoText THEN <<>> ELSE <<ARG(q[n].token.arg)>>)
      text[n \in DOMAIN q] ==
        LET kids == q[n].children
        IN IF kids = <<>> /\ ~(n = 1 /\ node(1)[1].is # "ID") THEN node(n)
           ELSE <<BEGIN>> \o node(n) \o FlattenSeq([i \in DOMAIN kids |-> text[kids[i]]]) \o <<END>>
  IN text[1]

Find ==
  /\ query # NoQuery
  /\ \E found \in {FindPattern(heap, 1, Pattern(TextOfQuery(query)))} :
       found # None /\ \E n \in Range(found) : stream' = NewNodeStream(n) /\ base' = n
  /\ query' = NoQuery
  /\ UNCHANGED <<heap, path, frames, rewritten>>

----------------------------------------------------------------------------
(* The tree parser                                                          *)

Now == Filled(heap, stream)
Here == LT(Now, 1)

\* A subtree the parser jumped to has been read.
ReadAll ==
  /\ \E i \in DOMAIN frames : frames[i].by = "call"
  /\ path = <<>> /\ Now.p > NodeIndex(Now, base) /\ Here # Down

AtNode == query = NoQuery /\ Here \in DOMAIN heap /\ ~ReadAll

\* A node, DOWN or UP is matched.
ConsumeHere ==
  /\ query = NoQuery /\ Here # Eof /\ ~ReadAll
  /\ stream' = ConsumeNode(Now)
  /\ path' = IF Here = Down THEN Append(path, LT(Now, -1))
             ELSE IF Here = Up THEN Front(path) ELSE path
  /\ UNCHANGED <<query, heap, base, frames, rewritten>>

Skip ==
  /\ AtNode
  /\ stream' = Seek(Now, MatchAny(heap, Now.nodes, Now.p))
  /\ UNCHANGED <<query, heap, path, base, frames, rewritten>>

Saved(by) == [by |-> by, marker |-> Now.p, path |-> path, base |-> base]
Restore ==
  /\ path' = Last(frames).path /\ base' = Last(frames).base
  /\ frames' = Front(frames)

LookAhead ==
  /\ query = NoQuery /\ Len(frames) < MaxFrames
  /\ stream' = Mark(Now)
  /\ frames' = Append(frames, Saved("mark"))
  /\ UNCHANGED <<query, heap, path, base, rewritten>>

GoBack ==
  /\ frames # <<>> /\ Last(frames).by = "mark"
  /\ stream' = Rewind(Now, Last(frames).marker)
  /\ Restore
  /\ UNCHANGED <<query, heap, rewritten>>

\* To a subtree that is in the buffer.
Jump ==
  /\ query = NoQuery /\ Len(frames) < MaxFrames /\ ~rewritten
  /\ \E n \in Range(Now.nodes) \cap DOMAIN heap :
       stream' = Push(Now, NodeIndex(Now, n)) /\ base' = n
  /\ path' = <<>>
  /\ frames' = Append(frames, Saved("call"))
  /\ UNCHANGED <<query, heap, rewritten>>

Return ==
  /\ frames # <<>> /\ Last(frames).by = "call" /\ ReadAll
  /\ stream' = Pop(Now)
  /\ Restore
  /\ UNCHANGED <<query, heap, rewritten>>

\* Children that have been read make place for a new node, or for nothing.  What
\* is done while looking ahead is never undone, so parsers do not do it.
Rewrite ==
  /\ query = NoQuery /\ frames = <<>> /\ path # <<>> /\ Here # Down
  /\ Len(heap) < MaxNodes
  /\ LET parent == Last(path)
         read == {i \in DOMAIN heap[parent].children :
                    NodeIndex(Now, heap[parent].children[i]) < Now.p}
     IN \E start, stop \in read, token \in {Nil, CHOOSE t \in Token : TRUE} :
          /\ start <= stop
          /\ heap' = ReplaceChildren(Append(heap, NewNode(token)), parent,
                                     start - 1, stop - 1, Len(heap) + 1)
  /\ stream' = Now /\ rewritten' = TRUE
  /\ UNCHANGED <<query, path, base, frames>>

\* TreeParser.reset, unless the tree has changed.
ParserReset ==
  /\ query = NoQuery /\ frames = <<>> /\ ~rewritten
  /\ stream' = Seek(Now, 0)
  /\ path' = <<>>
  /\ UNCHANGED <<query, heap, base, frames, rewritten>>

\* The next phase makes a new stream.
NextPhase ==
  /\ query = NoQuery /\ Here = Eof /\ frames = <<>>
  /\ stream' = NewNodeStream(stream.root) /\ rewritten' = FALSE
  /\ UNCHANGED <<query, heap, path, base, frames>>

Next ==
  \/ Find
  \/ ConsumeHere \/ Skip \/ LookAhead \/ GoBack \/ Jump \/ Return
  \/ Rewrite \/ ParserReset \/ NextPhase

Spec == Init /\ [][Next]_vars

----------------------------------------------------------------------------
(* Properties                                                               *)

\* The nodes of a tree by their places, each the way to it from the root.
Form(children, root) ==
  LET places[n \in DOMAIN children] ==
        {<<>>} \cup UNION {{<<i>> \o p : p \in places[children[n][i]]} : i \in DOMAIN children[n]}
      at[place \in places[root]] ==
        IF place = <<>> THEN root ELSE children[at[Front(place)]][Last(place)]
  IN at
Children(h) == [n \in DOMAIN h |-> h[n].children]
FormOf(h, n) == Form(Children(h), n)
SameForm(f, g, Same(_, _)) ==
  DOMAIN f = DOMAIN g /\ \A place \in DOMAIN f : Same(f[place], g[place])

\* In the tree a query stands for lists dissolve into what they are in.
Denoted(q) ==
  LET kids[n \in DOMAIN q] ==
        FlattenSeq([i \in DOMAIN q[n].children |->
          LET c == q[n].children[i] IN IF q[c].token.name = "nil" THEN kids[c] ELSE <<c>>])
  IN Form([n \in DOMAIN q |-> kids[n]], 1)

\* create gives the tree that was written down.
Written(made) ==
  LET AsWritten(m, n) ==
        LET t == query[n].token IN
        IF t.name = "nil" THEN IsNil(made.heap, m)
        ELSE made.heap[m].token = [type |-> t.name, text |-> IF t.arg = NoText THEN t.name ELSE t.arg]
  IN made # None /\ SameForm(FormOf(made.heap, made.root), Denoted(query), AsWritten)
PatternsDenote ==
  query # NoQuery /\ (\A n \in DOMAIN query : query[n].token.name # Wildcard) =>
    Written(Create(TextOfQuery(query)))

\* A subtree is one the query means: at each place of the query there is what it
\* wants, and there are other places only below a wildcard without children,
\* which stands for a node or a whole subtree.
Wanted(m, k) ==
  LET t == query[k].token IN
  t.name # Wildcard => TypeOf(heap, m) = t.name /\ t.arg \in {NoText, TextOf(heap, m)}
Meant(n) ==
  LET f == FormOf(heap, n)
      g == Denoted(query)
      leaf(place) == \A p \in DOMAIN g : Len(p) > Len(place) => ~IsPrefix(place, p)
  IN /\ DOMAIN g \subseteq DOMAIN f
     /\ \A place \in DOMAIN g : Wanted(f[place], g[place])
     /\ \A place \in DOMAIN f \ DOMAIN g :
          \E p \in DOMAIN g : IsPrefix(p, place) /\ leaf(p) /\ query[g[p]].token.name = Wildcard

\* No wildcard stands for a subtree: nothing is below the places of the query.
NodesOnly(n) == DOMAIN FormOf(heap, n) = DOMAIN Denoted(query)

\* What a visitor is told of a node, its place in the tree and its labels.
Told(v, form) ==
  LET labels == {query[form[p]].token.label : p \in DOMAIN form} \ {NoLabel} IN
  /\ v.parent = heap[v.node].parent
  /\ v.parent # None => heap[v.parent].children[v.childIndex + 1] = v.node
  /\ DOMAIN v.labels = labels
  /\ \A label \in labels : \E p \in DOMAIN form :
       query[form[p]].token.label = label /\ FormOf(heap, v.node)[p] = v.labels[label]

\* A pattern finds only subtrees it means, all of those where its wildcards stand
\* for single nodes, in order, tells the visitor where each is and which node has
\* which label; an index has the nodes of a type; and two subtrees are equal if
\* they have the same form.  Subtrees in the place of a wildcard it does not find:
\* WildcardsAreSubtrees.
WizardFinds ==
  query # NoQuery =>
    LET Same(m, n) == heap[m].token = heap[n].token
    IN /\ \A pattern \in {Pattern(TextOfQuery(query))} :
            /\ FindPattern(heap, 1, pattern) =
                 IF query[1].token.name \in {Wildcard, "nil"} THEN None
                 ELSE SelectSeq(Preorder(heap, 1), LAMBDA n : Meant(n) /\ NodesOnly(n))
            /\ \A v \in Range(VisitPattern(heap, 1, pattern)) : Told(v, Denoted(query))
       /\ \A type \in TypeName :
            FindTokenType(heap, 1, type) =
              IF type \in DOMAIN Index(heap, 1) THEN Index(heap, 1)[type] ELSE <<>>
       /\ \A m, n \in DOMAIN heap :
            Equals(heap, m, n) <=> SameForm(FormOf(heap, m), FormOf(heap, n), Same)

\* "'.' (dot) as the node/subtree wildcard" (treewizard.py:519): a pattern finds
\* every subtree it means.
WildcardsAreSubtrees ==
  query # NoQuery /\ query[1].token.name \notin {Wildcard, "nil"} =>
    FindPattern(heap, 1, Pattern(TextOfQuery(query))) = SelectSeq(Preorder(heap, 1), Meant)

\* The nodes above a node in the subtree that is read, from its root downwards.
Above(n) ==
  LET above[m \in DOMAIN heap] ==
        LET parent == heap[m].parent
        IN IF m = base \/ IsNil(heap, parent) THEN <<>> ELSE Append(above[parent], parent)
  IN above[n]

Name == [n \in DOMAIN heap |-> TypeOf(heap, n)]

\* A context fits the nodes above: its names are found going up, one after the
\* other, or with nodes between them where it has "...".
Seen(n, context) ==
  LET up == Reverse(context)
      names == SelectSeq(up, LAMBDA c : c # "...")
      gap(i) == \E j \in DOMAIN up : /\ up[j] = "..."
                                     /\ Cardinality({k \in 1 .. j : up[k] # "..."}) = i - 1
      nodes == Ancestors(heap, n)
  IN \E at \in [DOMAIN names -> DOMAIN nodes] :
       \A i \in DOMAIN names :
         /\ Name[nodes[at[i]]] = names[i]
         /\ LET before == IF i = 1 THEN 0 ELSE at[i - 1]
            IN IF gap(i) THEN at[i] > before ELSE at[i] = before + 1

\* However the parser came to a node, by lookahead that was taken back, after a
\* jump, past subtrees it skipped or replaced: the node is still in the tree,
\* under the nodes whose children the parser believes to read, and inContext
\* says of it what the tree does.  At the end everything it entered is closed.
KnowsItsPlace ==
  query = NoQuery =>
    /\ AtNode =>
         /\ path = Above(Here)
         /\ Here # base /\ heap[Here].parent # None => Here \in Range(heap[heap[Here].parent].children)
         /\ \A context \in Context : InContext(heap, Here, context, Name) <=> Seen(Here, context)
    /\ Here = Eof => path = <<>>
=============================================================================
