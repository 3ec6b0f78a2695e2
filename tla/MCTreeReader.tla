---------------------------- MODULE MCTreeReader ----------------------------
\* Trees of up to three nodes of two types, one with a text of its own, chains of
\* four, and all patterns of up to three nodes of seven kinds.
EXTENDS TreeReader

Other == [type |-> "A", text |-> "x"]
MCToken == {[type |-> "A", text |-> "A"], Other, [type |-> "B", text |-> "B"]}

\* Trees as the parents of the nodes but the first.
Parents(n) == {f \in [2 .. n -> 1 .. n] : \A i \in 2 .. n : f[i] < i}
Grow(h, f, n) ==
  LET grow[i \in 1 .. n] == IF i = 1 THEN h ELSE AddChild(grow[i - 1], f[i], i) IN grow[n]
MCTree ==
  UNION {{Grow([i \in 1 .. n |-> NewNode(tokens[i])], f, n) :
            f \in Parents(n),
            tokens \in {t \in [1 .. n -> MCToken \cup {Nil}] :
                         /\ \A i \in 2 .. n : t[i] # Nil
                         /\ Cardinality({i \in 1 .. n : t[i] = Other}) <= 1}}
          : n \in 1 .. 3}
  \cup {Grow([i \in 1 .. 4 |-> NewNode(tokens[i])], [i \in 2 .. 4 |-> i - 1], 4) :
          tokens \in {t \in [1 .. 4 -> MCToken \ {Other}] : t[1] # t[4]}}

Asked(name, arg, label) == [name |-> name, arg |-> arg, label |-> label]
Names == {Asked("A", NoText, NoLabel), Asked("A", "x", NoLabel), Asked("B", NoText, "l"),
          Asked("A", "A", "m"), Asked(".", NoText, NoLabel), Asked(".", NoText, "m"),
          Asked("nil", NoText, NoLabel)}
MCQuery ==
  UNION {{Grow([i \in 1 .. n |-> NewNode(names[i])], f, n) :
            f \in Parents(n), names \in [1 .. n -> Names]} : n \in 1 .. 3}

MCContext == {<<"A">>, <<"B", "A">>, <<"A", "...", "B">>, <<"B", "...", "A", "A">>}
=============================================================================
