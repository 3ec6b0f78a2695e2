----------------------------- MODULE MCPeekPoke -----------------------------
\* PeekPoke with two variables, the second at the address of the second
\* element of the first, and a name with an offset that is no number.
EXTENDS PeekPoke
MCBase  == [v \in Numbered |-> IF v = "v" THEN 0 ELSE 1]
MCSize  == [t \in Type |-> IF t = "int" THEN 1 ELSE 0]
MCKinds == <<"gnuplot">>
MCFile  == {<<[name |-> "v", n |-> 2, type |-> "int"], [name |-> "w", n |-> 1, type |-> "int"]>>}
=============================================================================
