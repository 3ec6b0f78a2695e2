--------------------------- MODULE MCDebugEvents ----------------------------
\* DebugEvents with tokens on and off the parser's channel.
EXTENDS DebugEvents

MCToken == {[type |-> "A", channel |-> 0], [type |-> "WS", channel |-> 99]}
=============================================================================
