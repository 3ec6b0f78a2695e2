---------------------------- MODULE LazyRewrite ----------------------------
(***************************************************************************)
(* What TokenRewriteStream of the ANTLR runtime promises (the case table   *)
(* of reduceToSingleOperationPerIndex and the comment of the class): the   *)
(* instructions change nothing until the text is asked for, and then each  *)
(* token is left alone, replaced, or preceded by what was inserted, as the *)
(* list of instructions alone says.  Rendering forgets none of them; only  *)
(* a rollback after a rendering is left open.                              *)
(***************************************************************************)
EXTENDS Integers, Sequences, SequencesExt

CONSTANTS NTokens, Error

VARIABLES asked,   \* the instructions, in the order in which they were given
          output,  \* what a rendering has just returned
          rendered, \* there has been a rendering of a program
          open     \* instructions were rolled back after a rendering
abstract == <<asked, output, rendered, open>>

Token == 0 .. NTokens - 1
Covers(r, o) == r.first <= o.first /\ o.last <= r.last
Apart(r, o)  == r.last < o.first \/ o.last < r.first

Live(is, k) == \A j \in DOMAIN is : is[j].kind = "replace" /\ k < j => ~Covers(is[j], is[k])

\* A replace that cuts an earlier one, an insert inside an earlier replace.
Invalid(is) ==
  \E j, k \in DOMAIN is :
    /\ k < j /\ is[k].kind = "replace"
    /\ ~Apart(is[k], is[j])
    /\ \/ /\ is[j].kind = "replace" /\ ~Covers(is[j], is[k])
          /\ \A m \in k + 1 .. j - 1 : is[m].kind = "replace" => ~Covers(is[m], is[k])
       \/ /\ is[j].kind = "insert" /\ is[j].first # is[k].first
          /\ Live(is, j) /\ Live(is, k)

\* What stands for token p: the later of two inserts comes first.
At(is, p) ==
  LET here    == {k \in DOMAIN is : is[k].first = p /\ Live(is, k)}
      replace == {k \in here : is[k].kind = "replace"}
      inserted[k \in 0 .. Len(is)] ==
        IF k = 0 THEN <<>>
        ELSE (IF k \in here \ replace THEN is[k].text ELSE <<>>) \o inserted[k - 1]
  IN inserted[Len(is)]
       \o IF replace # {} THEN is[CHOOSE k \in replace : TRUE].text
          ELSE IF p \in Token THEN <<[token |-> p]>> ELSE <<>>

\* Tokens behind the first of a live replace are gone.
Gone(is, p, start) ==
  \E k \in DOMAIN is : /\ is[k].kind = "replace" /\ Live(is, k)
                       /\ start <= is[k].first
                       /\ is[k].first < p /\ p <= is[k].last

Text(is, start, end) ==
  IF Invalid(is) THEN Error
  ELSE LET tail == IF end = NTokens - 1 THEN NTokens ELSE end
           text[p \in start - 1 .. tail] ==
             IF p < start THEN <<>>
             ELSE text[p - 1] \o IF Gone(is, p, start) THEN <<>> ELSE At(is, p)
       IN text[tail]

Init == asked = <<>> /\ output = <<>> /\ rendered = FALSE /\ open = FALSE

Ask == /\ Len(asked') = Len(asked) + 1 /\ IsPrefix(asked, asked')
       /\ output' = <<>> /\ UNCHANGED <<rendered, open>>

Rollback == /\ IF rendered THEN open' = TRUE
                           ELSE /\ asked' # asked /\ IsPrefix(asked', asked)
                                /\ UNCHANGED open
            /\ output' = <<>> /\ UNCHANGED rendered

Render == /\ \E start \in Token : \E end \in start .. NTokens - 1 :
               output' = Text(asked, start, end)
          /\ rendered' = (rendered \/ asked # <<>>)
          /\ UNCHANGED <<asked, open>>

Spec == Init /\ [][open \/ Ask \/ Rollback \/ Render]_abstract
=============================================================================
