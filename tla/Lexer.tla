------------------------------- MODULE Lexer -------------------------------
(***************************************************************************)
(* The character stream and the lexer base class of the ANTLR runtime      *)
(* (ANTLRStringStream in antlr3/streams.py, Lexer in antlr3/               *)
(* recognizers.py).  nextToken calls the rules of the generated lexer      *)
(* until one makes a token; a rule looks ahead by marking the stream,      *)
(* consuming and rewinding, consumes what it matches, and may fail, which  *)
(* costs at least the character at fault.                                  *)
(*                                                                         *)
(* The grammar is left open: a rule may match any characters but none, its *)
(* predictions and syntactic predicates may look ahead as far as they      *)
(* like, once at each place, and it may fail in each of the ways generated *)
(* code can.  Of a character it matters whether it is a newline.           *)
(***************************************************************************)
EXTENDS Integers, Sequences, FiniteSets, FiniteSetsExt, SequencesExt

CONSTANTS
  Char, Newline,  \* the characters
  MaxLength,      \* bound: of the input
  MaxDepth,       \* bound: marks that are open at a time
  MaxResets,      \* bound: calls of Lexer.reset
  EmptyLoops      \* whether a (...)+ loop may fail where its rule begins

ASSUME LexerAssumption ==
  /\ Newline \in Char /\ EmptyLoops \in BOOLEAN
  /\ {MaxLength, MaxDepth, MaxResets} \subseteq Nat

VARIABLES
  data,       \* the characters of the input
  input,      \* p, line and charPositionInLine of the stream
  markers,    \* _markers
  markDepth,
  pc,         \* outside nextToken, at the head of its loop, in a rule, or at
              \* the end of the input
  start,      \* tokenStartCharIndex, tokenStartLine, tokenStartCharPosition...
  decided,    \* the decision at this place has been made
  tokens,     \* the tokens returned
  spent,      \* characters of skipped tokens and of errors
  resets      \* calls of Lexer.reset
streamVars == <<input, markers, markDepth>>
lexVars == <<data, streamVars, pc, start, decided, tokens, spent, resets>>

Beginning == [p |-> 0, line |-> 1, col |-> 0]

LexInit ==
  /\ data \in UNION {[1 .. n -> Char] : n \in 0 .. MaxLength}
  /\ input = Beginning /\ markers = <<>> /\ markDepth = 0
  /\ pc = "idle" /\ start = Beginning /\ decided = FALSE
  /\ tokens = <<>> /\ spent = {} /\ resets = 0

----------------------------------------------------------------------------
(* ANTLRStringStream                                                        *)

AtEnd(s) == s.p >= Len(data)

Consume(s) ==
  IF AtEnd(s) THEN s
  ELSE IF data[s.p + 1] = Newline THEN [p |-> s.p + 1, line |-> s.line + 1, col |-> 0]
  ELSE [p |-> s.p + 1, line |-> s.line, col |-> s.col + 1]

\* A jump back leaves the line and the column alone.
Seek(s, index) ==
  IF index <= s.p THEN [s EXCEPT !.p = index]
  ELSE FoldLeft(LAMBDA t, i : Consume(t), s, [i \in 1 .. index - s.p |-> i])

\* A mark takes the slot of one that was released, if there is one.
Mark ==
  /\ pc = "rule" /\ ~decided
  /\ markDepth < MaxDepth
  /\ markers' = IF markDepth < Len(markers)
                  THEN [markers EXCEPT ![markDepth + 1] = input]
                  ELSE Append(markers, input)
  /\ markDepth' = markDepth + 1
  /\ UNCHANGED <<data, input, pc, start, decided, tokens, spent, resets>>

\* Mutated: rewind is no more than a seek.
RewindSeeks ==
  /\ pc = "rule" /\ markDepth > 0
  /\ input' = Seek(input, markers[markDepth].p)
  /\ markDepth' = markDepth - 1
  /\ decided' = TRUE
  /\ UNCHANGED <<data, markers, pc, start, tokens, spent, resets>>

\* The end of a look ahead, however it ends: rewind to the last mark, which
\* releases it.
Rewind ==
  /\ pc = "rule" /\ markDepth > 0
  /\ input' = [p |-> Seek(input, markers[markDepth].p).p,
               line |-> markers[markDepth].line, col |-> markers[markDepth].col]
  /\ markDepth' = markDepth - 1
  /\ decided' = TRUE
  /\ UNCHANGED <<data, markers, pc, start, tokens, spent, resets>>

----------------------------------------------------------------------------
(* Lexer                                                                    *)

Call ==
  /\ pc = "idle"
  /\ pc' = "loop"
  /\ UNCHANGED <<data, streamVars, start, decided, tokens, spent, resets>>

\* Mutated: what a token starts with is noted before the loop only.
NextTokenLate ==
  /\ pc = "loop"
  /\ start' = IF tokens = <<>> \/ Last(tokens).to = input.p - 1 THEN input ELSE start
  /\ pc' = IF AtEnd(input) THEN "end" ELSE "rule"
  /\ decided' = FALSE
  /\ UNCHANGED <<data, streamVars, tokens, spent, resets>>

\* The head of the loop of nextToken.
NextToken ==
  /\ pc = "loop"
  /\ start' = input
  /\ pc' = IF AtEnd(input) THEN "end" ELSE "rule"
  /\ decided' = FALSE
  /\ UNCHANGED <<data, streamVars, tokens, spent, resets>>

\* match, matchRange and matchAny of a character that is there.
Match ==
  /\ pc = "rule" /\ ~AtEnd(input)
  /\ input' = Consume(input)
  /\ decided' = FALSE
  /\ UNCHANGED <<data, markers, markDepth, pc, start, tokens, spent, resets>>

Spend(p) == spent \cup (start.p .. p - 1)

\* A rule that makes its token: emit.
Emit ==
  /\ pc = "rule" /\ markDepth = 0 /\ input.p > start.p
  /\ tokens' = Append(tokens, [from |-> start.p, to |-> input.p - 1,
                               line |-> start.line, col |-> start.col])
  /\ pc' = "idle"
  /\ UNCHANGED <<data, streamVars, start, decided, spent, resets>>

\* A rule that calls skip: nextToken goes on.
Skip ==
  /\ pc = "rule" /\ markDepth = 0 /\ input.p > start.p
  /\ pc' = "loop"
  /\ spent' = Spend(input.p)
  /\ UNCHANGED <<data, streamVars, start, decided, tokens, resets>>

\* Mutated: a mismatch leaves the character where it is.
FailKeepsChar ==
  /\ pc = "rule" /\ markDepth = 0
  /\ pc' = "loop" /\ UNCHANGED <<streamVars, spent>>
  /\ UNCHANGED <<data, start, decided, tokens, resets>>

\* A mismatch, where match calls recover itself, or NoViableAltException, where
\* nextToken does: the character at hand is thrown away.
Fail ==
  /\ pc = "rule" /\ markDepth = 0
  /\ input' = Consume(input)
  /\ pc' = "loop"
  /\ spent' = Spend(input'.p)
  /\ UNCHANGED <<data, markers, markDepth, start, decided, tokens, resets>>

\* EarlyExitException, for a (...)+ loop that matched nothing, comes from the
\* generated code, and nobody calls recover for it.
EarlyExit ==
  /\ pc = "rule" /\ markDepth = 0
  /\ EmptyLoops \/ input.p > start.p
  /\ pc' = "loop"
  /\ spent' = Spend(input.p)
  /\ UNCHANGED <<data, streamVars, start, decided, tokens, resets>>

\* Lexer.reset: the stream is sent back by a seek, which leaves the line.
Reset ==
  /\ pc \in {"idle", "end"} /\ resets < MaxResets
  /\ resets' = resets + 1
  /\ input' = Seek(input, 0)
  /\ pc' = "idle" /\ tokens' = <<>> /\ spent' = {}
  /\ UNCHANGED <<data, markers, markDepth, start, decided>>

Rule == Mark \/ Rewind \/ Match \/ Emit \/ Skip \/ Fail \/ EarlyExit
Lex == NextToken \/ Rule
LexNext == Call \/ Lex \/ Reset

LexSpec == LexInit /\ [][LexNext]_lexVars
\* nextToken runs until it returns.
FairSpec == LexSpec /\ WF_lexVars(Lex)

----------------------------------------------------------------------------
(* Properties                                                               *)

\* After a reset the line and the column go on from where they were.
Place == [p : 0 .. MaxLength, line : 1 .. (MaxResets + 1) * MaxLength + 1,
          col : 0 .. (MaxResets + 1) * MaxLength]
LexToken == [from : 0 .. MaxLength, to : 0 .. MaxLength - 1,
          line : 1 .. (MaxResets + 1) * MaxLength + 1, col : 0 .. (MaxResets + 1) * MaxLength]

LexTypeOK ==
  /\ data \in Seq(Char) /\ Len(data) <= MaxLength
  /\ input \in Place /\ start \in Place
  /\ markers \in Seq(Place) /\ Len(markers) <= MaxDepth
  /\ markDepth \in 0 .. Len(markers)
  /\ pc \in {"idle", "loop", "rule", "end"}
  /\ (pc # "rule" => markDepth = 0)
  /\ decided \in BOOLEAN
  /\ tokens \in Seq(LexToken)
  /\ spent \subseteq 0 .. MaxLength - 1
  /\ resets \in 0 .. MaxResets

\* Where index p of the data is.
PlaceOf(p) ==
  LET breaks == {i \in 1 .. p : data[i] = Newline}
  IN [p |-> p, line |-> 1 + Cardinality(breaks), col |-> p - Max(breaks \cup {0})]

\* Between two rules every character before the stream is in exactly one
\* token, or was skipped or thrown away in an error: none is dropped or
\* matched twice, whatever was looked at ahead.  And line and column are at any
\* time those of the index, also after any nesting of marks that were made and
\* rewound, unless Lexer.reset has sent the stream back from elsewhere: nothing
\* then restores them.
TokensTile ==
  /\ LexTypeOK
  /\ pc \in {"idle", "loop", "end"} =>
    LET range(i) == tokens[i].from .. tokens[i].to IN
    /\ \A i, j \in DOMAIN tokens : i < j => tokens[i].to < tokens[j].from
    /\ \A i \in DOMAIN tokens : range(i) # {} /\ range(i) \cap spent = {}
    /\ (UNION {range(i) : i \in DOMAIN tokens}) \cup spent = 0 .. input.p - 1
  /\ resets = 0 =>
    /\ input = PlaceOf(input.p)
    /\ \A i \in 1 .. markDepth : markers[i] = PlaceOf(markers[i].p)
    /\ \A i \in DOMAIN tokens : LET t == tokens[i] IN
         [p |-> t.from, line |-> t.line, col |-> t.col] = PlaceOf(t.from)

\* nextToken returns, a token or EOF: each turn of its loop that makes no token
\* has consumed something, if EmptyLoops is FALSE.
NextTokenReturns == pc = "loop" ~> pc \in {"idle", "end"}
=============================================================================
