----------------------------- MODULE MCStreams ------------------------------
\* A lexer over a letter and the newline, and a TokenRewriteStream over what it
\* makes of three letters: three tokens, read with no look ahead and no reset.
EXTENDS Lexer, TokenRewrite

Untouched == given = 0 /\ output = <<>>
Buffered ==
  /\ pc = "end" /\ markers = <<>> /\ resets = 0
  /\ data = [i \in 1 .. NTokens |-> "a"] /\ Len(tokens) = NTokens

StreamsInit == LexInit /\ Init

StreamsNext ==
  \/ Untouched /\ LexNext /\ UNCHANGED vars
  \/ Buffered /\ Next /\ UNCHANGED lexVars

StreamsSpec ==
  StreamsInit /\ [][StreamsNext]_<<lexVars, vars>> /\ WF_lexVars(Lex)
=============================================================================
