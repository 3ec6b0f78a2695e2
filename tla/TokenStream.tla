---------------------------- MODULE TokenStream ----------------------------
(***************************************************************************)
(* The token stream of the ANTLR runtime (CommonTokenStream in             *)
(* antlr3/streams.py) as a value, a record of                              *)
(*   source    the tokens the lexer has not returned yet                   *)
(*   tokens    the buffer; p points into it from 0, and is -1 until the    *)
(*             first look ahead fills it                                   *)
(* and the operations on it.  How the stream filters is told by a record   *)
(*   discards  the types of discardTokenType                               *)
(*   override  the channels of setTokenTypeChannel, of some types          *)
(*   only      discardOffChannelTokens                                     *)
(* A token is its type and its channel.                                    *)
(***************************************************************************)
EXTENDS Integers, Sequences, FiniteSets, SequencesExt, Functions

CONSTANTS
  Type,       \* token types but EOF
  EOF,
  Channel,
  Default     \* the channel the parser listens to

ASSUME TokenAssumption == EOF \notin Type /\ Default \in Channel

TokenOf == [type : Type, channel : Channel]

NewStream(source) == [source |-> source, tokens |-> <<>>, p |-> -1]

\* The loop of fillBuffer for one token: discarded for its type or for its
\* channel, and then the override: one to another channel discards the token,
\* one to this channel puts it there, unless it was discarded before.
Kept(t, filter) ==
  LET overridden == t.type \in DOMAIN filter.override
      discard == \/ t.type \in filter.discards
                 \/ filter.only /\ t.channel # Default
                 \/ overridden /\ filter.override[t.type] # Default
  IN IF discard THEN <<>>
     ELSE <<[t EXCEPT !.channel = IF overridden THEN Default ELSE @]>>

\* The first index from i on of a token on the channel; past the buffer i
\* stays what it is.
SkipOffTokenChannels(tokens, i) ==
  IF \E j \in i .. Len(tokens) - 1 : tokens[j + 1].channel = Default
    THEN CHOOSE j \in i .. Len(tokens) - 1 :
           /\ tokens[j + 1].channel = Default
           /\ \A n \in i .. j - 1 : tokens[n + 1].channel # Default
    ELSE IF i > Len(tokens) THEN i ELSE Len(tokens)

FillBuffer(s, filter) ==
  LET tokens == s.tokens \o FlattenSeq([i \in DOMAIN s.source |-> Kept(s.source[i], filter)])
  IN [source |-> <<>>, tokens |-> tokens, p |-> SkipOffTokenChannels(tokens, 0)]

\* What LT, LB and getTokens begin with.
Filled(s, filter) == IF s.p = -1 THEN FillBuffer(s, filter) ELSE s

\* Mutated: consume leaves p on whatever comes next.
ConsumeOne(s) ==
  IF s.p < Len(s.tokens) THEN [s EXCEPT !.p = @ + 1] ELSE s

Consume(s) ==
  IF s.p < Len(s.tokens) THEN [s EXCEPT !.p = SkipOffTokenChannels(s.tokens, @ + 1)] ELSE s

\* The index LT(k) reads, k > 0.
LookAhead(s, k) ==
  FoldLeft(LAMBDA i, n : SkipOffTokenChannels(s.tokens, i + 1), s.p, [n \in 1 .. k - 1 |-> n])

\* The index LT(-k) reads, k > 0, -1 if there is none.
LookBack(s, k) ==
  LET SkipOffReverse(i) ==
        LET on == {j \in 0 .. i : s.tokens[j + 1].channel = Default}
        IN IF on = {} THEN -1 ELSE CHOOSE j \in on : \A n \in on : n <= j
  IN IF s.p - k < 0 THEN -1
     ELSE FoldLeft(LAMBDA i, n : SkipOffReverse(i - 1), s.p, [n \in 1 .. k |-> n])

\* The type of LT(k) of a stream that has been filled.
LA(s, k) ==
  LET i == LookAhead(s, k)
  IN IF i < Len(s.tokens) THEN s.tokens[i + 1].type ELSE EOF

\* Also rewind: the index is taken as it is.
Seek(s, index) == [s EXCEPT !.p = index]
=============================================================================
