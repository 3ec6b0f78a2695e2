---------------------------- MODULE TokenRewrite ----------------------------
(***************************************************************************)
(* TokenRewriteStream of the ANTLR runtime (antlr3/streams.py): the user   *)
(* adds instructions to a program and may take the last ones back; when    *)
(* the text is asked for, the program is reduced, in place, to one         *)
(* operation per token, and executed on the tokens.                        *)
(*                                                                         *)
(* One program over tokens that are already buffered (TokenStream fills    *)
(* the buffer).  A text is a sequence of pieces: tokens, and the numbers   *)
(* of the instructions that brought them.                                  *)
(***************************************************************************)
EXTENDS Integers, Sequences, SequencesExt, FiniteSetsExt

CONSTANTS
  NTokens,   \* tokens in the buffer
  MaxOps,    \* bound: instructions given, those taken back included
  Error, None

Token == 0 .. NTokens - 1
Op == [kind : {"insert", "replace"}, first : 0 .. NTokens, last : 0 .. NTokens,
       text : Seq([op : 1 .. MaxOps])]

ASSUME TokenRewriteAssumption ==
  NTokens \in Nat \ {0} /\ MaxOps \in Nat /\ None \notin Op

Piece(p) == <<[token |-> p]>>

VARIABLES
  program,   \* programs["default"]; None where an operation was dropped
  given,     \* instructions given so far
  output,    \* what toString has just returned
  asked,     \* the instructions as they were given; forgotten once open
  rendered,  \* toString has reduced the program
  open       \* instructions were rolled back after that
vars == <<program, given, output, asked, rendered, open>>

Init == /\ program = <<>> /\ given = 0 /\ output = <<>>
        /\ asked = <<>> /\ rendered = FALSE /\ open = FALSE

----------------------------------------------------------------------------
(* The instructions                                                         *)

Add(op) ==
  /\ given < MaxOps
  /\ given' = given + 1
  /\ program' = Append(program, op)
  /\ asked' = IF open THEN asked ELSE Append(asked, op)
  /\ output' = <<>>
  /\ UNCHANGED <<rendered, open>>

NewText == <<[op |-> given + 1]>>

\* insertAfter is insertBefore of the next index, even past the end.
InsertBefore ==
  \E i \in 0 .. NTokens :
    Add([kind |-> "insert", first |-> i, last |-> i, text |-> NewText])

\* delete is a replace with no text.  Another range is refused.
Replace ==
  \E i, j \in Token :
    /\ i <= j
    /\ \E text \in {NewText, <<>>} :
         Add([kind |-> "replace", first |-> i, last |-> j, text |-> text])

\* Mutated: the indicated instruction stays.
RollbackKeepsOne ==
  \E n \in 0 .. Len(program) - 1 :
    /\ program' = SubSeq(program, 1, n + 1)
    /\ open' = (open \/ rendered)
    /\ asked' = IF open' THEN <<>> ELSE SubSeq(asked, 1, n)
    /\ output' = <<>>
    /\ UNCHANGED <<given, rendered>>

\* rollback, and with 0 deleteProgram.
Rollback ==
  \E n \in 0 .. Len(program) - 1 :
    /\ program' = SubSeq(program, 1, n)
    /\ open' = (open \/ rendered)
    /\ asked' = IF open' THEN <<>> ELSE SubSeq(asked, 1, n)
    /\ output' = <<>>
    /\ UNCHANGED <<given, rendered>>

----------------------------------------------------------------------------
(* reduceToSingleOperationPerIndex                                          *)

\* The walks: a pass over the program that may stop with an error.
IsKind(op, kind) == op # None /\ op.kind = kind
Drop(p, dropped) == [k \in DOMAIN p |-> IF k \in dropped THEN None ELSE p[k]]
Prior(p, i, kind) == {j \in 1 .. i - 1 : IsKind(p[j], kind)}

\* Mutated: a replace that is covered exactly is not dropped.
WalkReplaceKeeps(s, i) ==
  LET p == s.p
      r == p[i]
      wiped == {j \in Prior(p, i, "insert") : r.first <= p[j].first /\ p[j].first <= r.last}
      covered == {j \in Prior(p, i, "replace") : r.first < p[j].first /\ p[j].last <= r.last}
  IN IF s.error \/ ~IsKind(r, "replace") THEN s
     ELSE [p |-> Drop(p, wiped \cup covered), error |-> FALSE]

\* Of the replace at i: inserts before it in its range and replaces it covers
\* are dropped, up to the first it cuts.
WalkReplace(s, i) ==
  LET p == s.p
      r == p[i]
      inserts == {j \in Prior(p, i, "insert") : r.first <= p[j].first /\ p[j].first <= r.last}
      covered == {j \in Prior(p, i, "replace") : r.first <= p[j].first /\ p[j].last <= r.last}
      cut == {j \in Prior(p, i, "replace") \ covered :
                ~(p[j].last < r.first \/ p[j].first > r.last)}
  IN IF s.error \/ ~IsKind(r, "replace") THEN s
     ELSE IF cut = {} THEN [p |-> Drop(p, inserts \cup covered), error |-> FALSE]
     ELSE [p |-> Drop(p, inserts \cup {j \in covered : j < Min(cut)}), error |-> TRUE]

\* Mutated: the texts of two inserts are joined in the order given.
WalkInsertInOrder(s, i) ==
  LET p == s.p
      same == {j \in Prior(p, i, "insert") : p[j].first = p[i].first}
      text == p[CHOOSE j \in same : TRUE].text \o p[i].text
  IN IF s.error \/ ~IsKind(p[i], "insert") \/ same = {} THEN s
     ELSE [p |-> [Drop(p, same) EXCEPT ![i].text = text], error |-> FALSE]

\* Of the insert at i: it takes the text of an earlier one at its index, and
\* gives its own to an earlier replace that starts there; inside one it is an
\* error.
WalkInsert(s, i) ==
  LET p == s.p
      o == p[i]
      same == {j \in Prior(p, i, "insert") : p[j].first = o.first}
      text == o.text \o IF same = {} THEN <<>> ELSE p[CHOOSE j \in same : TRUE].text
      left == {j \in Prior(p, i, "replace") : p[j].first = o.first}
      hit == {j \in Prior(p, i, "replace") : p[j].first < o.first /\ o.first <= p[j].last}
      q == [Drop(p, same) EXCEPT ![i].text = text]
  IN IF s.error \/ ~IsKind(o, "insert") THEN s
     ELSE IF left # {}
       THEN LET j == CHOOSE j \in left : TRUE
            IN [p |-> Drop([q EXCEPT ![j].text = text \o @], {i}), error |-> FALSE]
     ELSE [p |-> q, error |-> hit # {}]

Reduce(p) ==
  LET upTo == [i \in DOMAIN p |-> i]
      replaced == FoldLeft(WalkReplace, [p |-> p, error |-> FALSE], upTo)
  IN FoldLeft(WalkInsert, replaced, upTo)

----------------------------------------------------------------------------
(* toString                                                                 *)

\* indexToOp: the operation left at an index, if any.
OpAt(p, i) ==
  LET ops == {k \in DOMAIN p : p[k] # None /\ p[k].first = i}
  IN IF ops = {} THEN None ELSE p[CHOOSE k \in ops : TRUE]

\* One turn of the loop over the tokens; replaced tokens are skipped.
Execute(p, s, i) ==
  LET op == OpAt(p, i) IN
  IF i < s.next THEN s
  ELSE IF op = None THEN [buf |-> s.buf \o Piece(i), next |-> i + 1]
  ELSE IF op.kind = "insert" THEN [buf |-> s.buf \o op.text \o Piece(i), next |-> i + 1]
  ELSE [buf |-> s.buf \o op.text, next |-> op.last + 1]

\* Behind the last token come the inserts at the index after it.
Execution(p, start, end) ==
  LET walked == FoldLeft(LAMBDA s, i : Execute(p, s, i), [buf |-> <<>>, next |-> start],
                         [k \in 1 .. end - start + 1 |-> start + k - 1])
      op == OpAt(p, NTokens)
  IN walked.buf \o IF end = NTokens - 1 /\ op # None THEN op.text ELSE <<>>

\* The program stays reduced, as far as the reduction came if it failed.
Render ==
  \E start \in Token : \E end \in start .. NTokens - 1 :
    LET r == Reduce(program) IN
    /\ program' = r.p
    /\ output' = IF r.error THEN Error ELSE Execution(r.p, start, end)
    /\ rendered' = (rendered \/ program # <<>>)
    /\ UNCHANGED <<given, asked, open>>

Next == InsertBefore \/ Replace \/ Rollback \/ Render

Spec == Init /\ [][Next]_vars

----------------------------------------------------------------------------
(* Properties                                                               *)

TypeOK ==
  /\ Len(program) <= given /\ given <= MaxOps /\ (~open => Len(asked) = Len(program))
  /\ \A k \in DOMAIN program : program[k] \in Op \cup {None}
  /\ \A k \in DOMAIN asked : asked[k] \in Op
  /\ output = Error \/ output \in Seq([op : 1 .. MaxOps] \cup [token : Token])
  /\ {rendered, open} \subseteq BOOLEAN

\* What toString returns is what the instructions given so far say, whatever
\* renderings, with an error or without, have reduced the program before:
\* each reduction, which drops operations and joins texts in place, means the
\* same as the program it replaces, now and together with all that may be
\* added later.  Only a rollback after a rendering escapes it.
Lazy == INSTANCE LazyRewrite
RendersLazily == Lazy!Spec

\* At most one operation per index is left for the loop, in a program whose
\* reduction did not fail ("should only be one op per index").
OnePerIndex ==
  LET r == Reduce(program) IN
  /\ TypeOK
  /\ ~r.error => \A j, k \in DOMAIN r.p :
       r.p[j] # None /\ r.p[k] # None /\ r.p[j].first = r.p[k].first => j = k
=============================================================================
