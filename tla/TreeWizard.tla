----------------------------- MODULE TreeWizard -----------------------------
(***************************************************************************)
(* TreeWizard of the ANTLR runtime (antlr3/treewizard.py): trees written   *)
(* down as patterns, "(A %l:B[x] .)", which are read by a lexer and a      *)
(* parser of their own, and the search for nodes and subtrees that match.  *)
(*                                                                         *)
(* A pattern is the sequence of its tokens; a character that begins none   *)
(* reads as EOF, like the end.  A TreePattern that was parsed from it has  *)
(* its nodes where their names are in the pattern, from which their        *)
(* attributes can be read, and a list of children for each.                *)
(***************************************************************************)
EXTENDS TreeWalk, TLC

CONSTANTS
  TypeName,   \* names of token types the wizard knows
  Invalid,    \* INVALID_TOKEN_TYPE
  NoText, NoLabel

ASSUME WizardAssumption == \A t \in Token : t.type \in TypeName

Sign(is) == [is |-> is, text |-> NoText]
BEGIN == Sign("BEGIN")
END == Sign("END")
PERCENT == Sign("PERCENT")
COLON == Sign("COLON")
DOT == Sign("DOT")
EOFToken == Sign("EOF")
ID(name) == [is |-> "ID", text |-> name]
ARG(text) == [is |-> "ARG", text |-> text]

NextToken(tokens, i) == IF i <= Len(tokens) THEN tokens[i] ELSE EOFToken

----------------------------------------------------------------------------
(* TreePatternParser                                                        *)

Wildcard == "."

\* The attributes of the node at k; nil has none.
HasTextArg(tokens, k) ==
  tokens[k].is = "ID" /\ tokens[k].text # "nil" /\ NextToken(tokens, k + 1).is = "ARG"
PatternType(tokens, k) ==
  IF tokens[k] = DOT THEN Wildcard ELSE IF tokens[k].text = "nil" THEN Invalid ELSE tokens[k].text
PatternText(tokens, k) ==
  IF HasTextArg(tokens, k) THEN tokens[k + 1].text ELSE PatternType(tokens, k)
Label(tokens, k) ==
  IF k > 3 /\ tokens[k - 1] = COLON /\ PatternType(tokens, k) # Invalid
    THEN tokens[k - 2].text ELSE NoLabel

\* Mutated: an argument is not passed over.
BehindName(tokens, k) == k + 1

\* The token after the node at k.
Behind(tokens, k) == IF HasTextArg(tokens, k) THEN k + 2 ELSE k + 1

\* The node that is parsed from token i on, None if it cannot be, and the token
\* after it: %label: and then the wildcard or a name.
ParseNode(tokens, i) ==
  LET at(j) == NextToken(tokens, j)
      k == IF at(i) = PERCENT THEN i + 3 ELSE i
  IN IF at(i) = PERCENT /\ at(i + 1).is # "ID" THEN [node |-> None, next |-> i + 1]
     ELSE IF at(i) = PERCENT /\ at(i + 2) # COLON THEN [node |-> None, next |-> i + 2]
     ELSE IF at(k).is \notin {"DOT", "ID"} THEN [node |-> None, next |-> k]
     ELSE [node |-> IF at(k) = DOT \/ at(k).text \in TypeName \cup {"nil"} THEN k ELSE None,
           next |-> Behind(tokens, k)]

\* The loop of parseTree from token i on: the children it adds, those of the
\* nodes below, and whether it ends well.  A list hands over its children; a
\* subtree that cannot be parsed is passed over, a node is not.
ParseChildren(tokens) ==
  LET parse[i \in 1 .. Len(tokens) + 1] ==
        LET nested == NextToken(tokens, i) = BEGIN
            head == ParseNode(tokens, IF nested THEN i + 1 ELSE i)
            below == IF nested /\ head.node # None THEN parse[head.next]
                     ELSE [list |-> <<>>, made |-> <<>>, ok |-> ~nested, next |-> head.next]
            whole == below.ok /\ (nested => NextToken(tokens, below.next) = END)
            added == IF ~whole \/ head.node = None THEN <<>>
                     ELSE IF PatternType(tokens, head.node) = Invalid THEN below.list
                     ELSE <<head.node>>
            rest == parse[IF nested /\ whole THEN below.next + 1 ELSE below.next]
        IN IF NextToken(tokens, i).is \notin {"BEGIN", "ID", "PERCENT", "DOT"}
             THEN [list |-> <<>>, made |-> <<>>, ok |-> TRUE, next |-> i]
           ELSE IF ~nested /\ head.node = None
             THEN [list |-> <<>>, made |-> <<>>, ok |-> FALSE, next |-> head.next]
           ELSE [rest EXCEPT !.list = added \o @,
                             !.made = IF ~whole THEN @
                                      ELSE below.made @@ (head.node :> below.list) @@ @]
  IN parse

\* A tree whose children were parsed as kids, if all ended well.
WholeTree(tokens, root, kids) ==
  IF kids.ok /\ NextToken(tokens, kids.next) = END
    THEN [tokens |-> tokens, root |-> root, children |-> (root :> kids.list) @@ kids.made]
    ELSE None

\* What is behind a tree is not looked at; a node has to be all there is.
Pattern(tokens) ==
  LET tree == NextToken(tokens, 1) = BEGIN
      head == ParseNode(tokens, IF tree THEN 2 ELSE 1)
  IN IF head.node = None THEN None
     ELSE IF tree THEN WholeTree(tokens, head.node, ParseChildren(tokens)[head.next])
     ELSE IF tokens[1].is = "ID" /\ NextToken(tokens, head.next) = EOFToken
       THEN [tokens |-> tokens, root |-> head.node, children |-> head.node :> <<>>]
       ELSE None

----------------------------------------------------------------------------
(* TreeWizard                                                               *)

TypeOf(h, n) == IF IsNil(h, n) THEN Invalid ELSE h[n].token.type
TextOf(h, n) == IF IsNil(h, n) THEN NoText ELSE h[n].token.text

\* create: the nodes of the pattern get the numbers of a new heap.
Made(pattern, nodes) ==
  LET payload(k) ==
        IF PatternType(pattern.tokens, k) = Invalid THEN Nil
        ELSE [type |-> PatternType(pattern.tokens, k), text |-> PatternText(pattern.tokens, k)]
      made(k) == [NewNode(payload(k)) EXCEPT
                    !.children = [i \in DOMAIN pattern.children[k] |->
                                    Place(nodes, pattern.children[k][i])]]
  IN [root |-> Place(nodes, pattern.root),
      heap |-> FoldLeft(LAMBDA h, n : Freshen(h, n, 0),
                        [i \in DOMAIN nodes |-> made(nodes[i])], [i \in DOMAIN nodes |-> i])]
Create(tokens) ==
  LET pattern == Pattern(tokens)
  IN IF pattern = None THEN None ELSE Made(pattern, SetToSeq(DOMAIN pattern.children))

\* _visitType: the calls of the visitor.
VisitType(h, root, type) ==
  LET visit[n \in DOMAIN h, parent \in DOMAIN h \cup {None}, childIndex \in Nat] ==
        LET kids == h[n].children
            below == FlattenSeq([i \in DOMAIN kids |-> visit[kids[i], n, i - 1]])
        IN IF TypeOf(h, n) = type
             THEN <<[node |-> n, parent |-> parent, childIndex |-> childIndex]>> \o below
             ELSE below
  IN visit[root, None, 0]

FindTokenType(h, root, type) ==
  LET calls == VisitType(h, root, type) IN [i \in DOMAIN calls |-> calls[i].node]

\* Also _index, a list for every type.
Index(h, root) ==
  LET all == Preorder(h, root)
  IN [type \in {TypeOf(h, n) : n \in Range(all)} |->
        SelectSeq(all, LAMBDA n : TypeOf(h, n) = type)]

\* Mutated: text arguments are overlooked.
SameType(h, t, tokens, k) == PatternType(tokens, k) \in {Wildcard, TypeOf(h, t)}

\* Of the roots: a wildcard has any type, and text counts if it was given.
SameRoot(h, t, tokens, k) ==
  \/ PatternType(tokens, k) = Wildcard
  \/ /\ TypeOf(h, t) = PatternType(tokens, k)
     /\ HasTextArg(tokens, k) => TextOf(h, t) = PatternText(tokens, k)

\* _parse: whether the tree has the form of the pattern, and the nodes that got a
\* label, the last of a label in it; those compared before a failure keep theirs.
\* A wildcard, too, has to have the children the pattern gives it, mostly none.
Match(h, root, pattern) ==
  LET match[t \in DOMAIN h, k \in DOMAIN pattern.children] ==
        LET kids == h[t].children
            sub(i) == match[kids[i], pattern.children[k][i]]
            same == SameRoot(h, t, pattern.tokens, k)
            compared == IF same /\ Len(kids) = Len(pattern.children[k])
                          THEN {i \in DOMAIN kids : \A j \in 1 .. i - 1 : sub(j).ok} ELSE {}
            label == Label(pattern.tokens, k)
        IN [ok |-> /\ same /\ Len(kids) = Len(pattern.children[k])
                   /\ \A i \in compared : sub(i).ok,
            labels |-> FoldLeft(LAMBDA acc, i : sub(i).labels @@ acc,
                                IF same /\ label # NoLabel THEN label :> t ELSE <<>>,
                                [i \in 1 .. Cardinality(compared) |-> i])]
  IN match[root, pattern.root]

\* Whether _visitPattern and _findPattern take a pattern.
Searchable(pattern) ==
  pattern # None /\ PatternType(pattern.tokens, pattern.root) \notin {Invalid, Wildcard}

\* _visitPattern: the calls of the visitor.
VisitPattern(h, root, pattern) ==
  LET visited(c) == LET m == Match(h, c.node, pattern)
                    IN IF m.ok THEN <<[labels |-> m.labels] @@ c>> ELSE <<>>
      all(calls) == FlattenSeq([i \in DOMAIN calls |-> visited(calls[i])])
  IN IF Searchable(pattern)
       THEN all(VisitType(h, root, PatternType(pattern.tokens, pattern.root))) ELSE <<>>

FindPattern(h, root, pattern) ==
  LET nodes(calls) == [i \in DOMAIN calls |-> calls[i].node]
  IN IF Searchable(pattern) THEN nodes(VisitPattern(h, root, pattern)) ELSE None

\* _equals
Equals(h, t1, t2) ==
  LET equal[m \in DOMAIN h, n \in DOMAIN h] ==
        /\ TypeOf(h, m) = TypeOf(h, n) /\ TextOf(h, m) = TextOf(h, n)
        /\ Len(h[m].children) = Len(h[n].children)
        /\ \A i \in DOMAIN h[m].children : equal[h[m].children[i], h[n].children[i]]
  IN equal[t1, t2]
=============================================================================
