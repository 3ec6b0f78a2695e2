---------------------------- MODULE Recognizer -----------------------------
(***************************************************************************)
(* The parser base classes of the ANTLR runtime (BaseRecognizer and Parser *)
(* in antlr3/recognizers.py, DFA in antlr3/dfa.py) under a generated       *)
(* parser: prediction, syntactic predicates that parse ahead with          *)
(* backtracking > 0, memoized rules, and recovery from errors by deleting  *)
(* a token, by inserting one, or by skipping to a token that may follow.   *)
(*                                                                         *)
(* The generated code (external) is an interpreter of a grammar: Body has  *)
(* the alternatives of every rule and of every syntactic predicate, each a *)
(* sequence of elements, a token, a rule, or a loop over a rule; Decision  *)
(* says how a rule chooses, by the first token, by a DFA, or by trying     *)
(* predicates in turn.                                                     *)
(***************************************************************************)
EXTENDS TokenStream, FiniteSetsExt

CONSTANTS
  Rule, Predicate, Start,
  Body, Decision,
  EOR,           \* EOR_TOKEN_TYPE, the end of a rule in a follow set
  Token,         \* tokens a source may return
  Filter,        \* ways the stream may be told to filter
  MaxTokens,     \* bound: of the tokens of the source
  MaxResets      \* bound: calls of Parser.reset

ASSUME GrammarAssumption ==
  /\ Start \in Rule /\ Rule \cap Predicate = {}
  /\ DOMAIN Body = Rule \cup Predicate /\ DOMAIN Decision = Rule
  /\ EOR \notin Type \cup {EOF} /\ Token \subseteq TokenOf
  /\ {MaxTokens, MaxResets} \subseteq Nat

MEMO_RULE_FAILED == -2

VARIABLES
  origin,          \* the tokens the source had in the beginning
  filter, stream,
  following, errorRecovery, lastErrorIndex, backtracking, ruleMemo,
  syntaxErrors,    \* of RecognizerSharedState
  stack,           \* rules and predicates that run, with the place in each
  raised,          \* the exception under way: none, BacktrackingFailed or a
                   \* RecognitionException
  done,            \* the start rule has returned
  resets
state == <<following, errorRecovery, lastErrorIndex, backtracking, ruleMemo, syntaxErrors>>
vars == <<origin, filter, stream, state, stack, raised, done, resets>>

NoMemo == [r \in Rule |-> <<>>]

Init ==
  /\ origin \in UNION {[1 .. n -> Token] : n \in 0 .. MaxTokens}
  /\ filter \in Filter
  /\ stream = NewStream(origin)
  /\ following = <<>> /\ errorRecovery = FALSE /\ lastErrorIndex = -1
  /\ backtracking = 0 /\ ruleMemo = NoMemo /\ syntaxErrors = 0
  /\ stack = <<>> /\ raised = "none" /\ done = FALSE /\ resets = 0

----------------------------------------------------------------------------
(* The grammar                                                              *)

\* FIRST of a rule; no rule is empty or left recursive.
First[r \in Rule] ==
  UNION {LET e == Body[r][i][1] IN IF e.is = "token" THEN {e.type} ELSE First[e.rule]
           : i \in DOMAIN Body[r]}

\* The local follow set of an element: FIRST of the rest of its alternative.
Follow(alternative, dot) ==
  LET after[i \in 1 .. Len(alternative)] ==
        IF i = Len(alternative) THEN {EOR}
        ELSE LET e == alternative[i + 1] IN
             IF e.is = "token" THEN {e.type}
             ELSE IF e.is = "rule" THEN First[e.rule]
             ELSE First[e.rule] \cup after[i + 1]
      own == IF alternative[dot].is = "loop" THEN First[alternative[dot].rule] ELSE {}
  IN own \cup after[dot]

Frame(rule) ==
  [rule |-> rule, at |-> "entry", alt |-> 1, dot |-> 1, start |-> stream.p, tried |-> 0]

Top == Last(stack)
SetTop(frame) == Append(Front(stack), frame)
Alternative == Body[Top.rule][Top.alt]
Element == Alternative[Top.dot]
Running(at) == stack # <<>> /\ raised = "none" /\ Top.at = at
AtElement(kind) == Running("body") /\ Top.dot <= Len(Alternative) /\ Element.is = kind

Step(frame) == [frame EXCEPT !.dot = @ + 1]

\* The stack when a rule has returned to the reference to it: a loop goes back
\* to its decision.
Returned ==
  LET rest == Front(stack)
      caller == Last(rest)
  IN IF rest = <<>> THEN <<>>
     ELSE IF Body[caller.rule][caller.alt][caller.dot].is = "loop" THEN rest
     ELSE Append(Front(rest), Step(caller))

\* What the generated code does behind a call that returned.
Return ==
  /\ stack' = Returned
  /\ following' = IF Len(stack) > 1 THEN Front(following) ELSE following
  /\ done' = (Len(stack) = 1)

\* What is raised for what cannot be matched or predicted.
Fail == IF backtracking > 0 THEN "BacktrackingFailed" ELSE "RecognitionException"

----------------------------------------------------------------------------
(* Errors                                                                   *)

ReportError ==
  /\ syntaxErrors' = IF errorRecovery THEN syntaxErrors ELSE syntaxErrors + 1
  /\ errorRecovery' = TRUE

\* combineFollows(False)
ErrorRecoverySet == UNION Range(following)

\* combineFollows(True): from the top of the stack down to the first local
\* follow set that does not see the end of its rule.
ContextSensitiveRuleFOLLOW ==
  LET blind == {i \in DOMAIN following : EOR \notin following[i]}
      bottom == Max({1} \cup blind)
      union == UNION {following[i] : i \in bottom .. Len(following)}
  IN IF EOR \in following[bottom] THEN union ELSE union \ {EOR}

MismatchIsUnwantedToken(type) == LA(stream, 2) = type

MismatchIsMissingToken(follow) ==
  LET viable ==
        IF EOR \notin follow THEN follow
        ELSE IF following = <<>> THEN follow
        ELSE (follow \cup ContextSensitiveRuleFOLLOW) \ {EOR}
  IN LA(stream, 1) \in viable \/ EOR \in viable

\* The input at the first token from here on of one of the types, or at its end.
ConsumeUntil(s, types) ==
  LET visited == {s.p} \cup {SkipOffTokenChannels(s.tokens, i) : i \in s.p + 1 .. Len(s.tokens)}
      stops(i) == LA(Seek(s, i), 1) \in types \cup {EOF}
  IN Seek(s, Min({i \in visited : stops(i)}))

\* Mutated: without the failsafe.
RecoverAnywhere ==
  /\ lastErrorIndex' = stream.p
  /\ stream' = ConsumeUntil(stream, ErrorRecoverySet)

\* A second error at one index costs a token: LT(1) is in the recovery set, and
\* nothing else would be consumed.
Recover ==
  LET s == IF lastErrorIndex = stream.p THEN Consume(stream) ELSE stream IN
  /\ lastErrorIndex' = s.p
  /\ stream' = ConsumeUntil(s, ErrorRecoverySet)

\* The handler of a rule: the rule then ends as if it had been parsed.
Catch ==
  /\ raised = "RecognitionException"
  /\ raised' = "none"
  /\ ReportError /\ Recover /\ Return
  /\ UNCHANGED <<origin, filter, backtracking, ruleMemo, resets>>

----------------------------------------------------------------------------
(* match                                                                    *)

Matched ==
  /\ AtElement("token") /\ LA(stream, 1) = Element.type
  /\ stream' = Consume(stream)
  /\ errorRecovery' = FALSE
  /\ stack' = SetTop(Step(Top))
  /\ UNCHANGED <<origin, filter, following, lastErrorIndex, backtracking, ruleMemo,
                 syntaxErrors, raised, done, resets>>

Mismatch == AtElement("token") /\ LA(stream, 1) # Element.type

\* recoverFromMismatchedToken, by deleting the token before the one wanted: that
\* one is consumed without leaving the recovery.
DeleteUnwanted ==
  /\ Mismatch /\ backtracking = 0 /\ MismatchIsUnwantedToken(Element.type)
  /\ stream' = Consume(Consume(stream))
  /\ ReportError
  /\ stack' = SetTop(Step(Top))
  /\ UNCHANGED <<origin, filter, following, lastErrorIndex, backtracking, ruleMemo,
                 raised, done, resets>>

InsertMissing ==
  /\ Mismatch /\ backtracking = 0 /\ ~MismatchIsUnwantedToken(Element.type)
  /\ MismatchIsMissingToken(Follow(Alternative, Top.dot))
  /\ ReportError
  /\ stack' = SetTop(Step(Top))
  /\ UNCHANGED <<origin, filter, stream, following, lastErrorIndex, backtracking,
                 ruleMemo, raised, done, resets>>

Mismatched ==
  /\ Mismatch
  /\ \/ backtracking > 0
     \/ /\ ~MismatchIsUnwantedToken(Element.type)
        /\ ~MismatchIsMissingToken(Follow(Alternative, Top.dot))
  /\ raised' = Fail
  /\ UNCHANGED <<origin, filter, stream, state, stack, done, resets>>

----------------------------------------------------------------------------
(* Rules                                                                    *)

\* The start rule is called; its first look ahead fills the stream.
Parse ==
  /\ stack = <<>> /\ ~done
  /\ stack' = <<Frame(Start)>>
  /\ stream' = Filled(stream, filter)
  /\ UNCHANGED <<origin, filter, state, raised, done, resets>>

Call(rule) ==
  /\ following' = Append(following, Follow(Alternative, Top.dot))
  /\ stack' = Append(stack, Frame(rule))
  /\ UNCHANGED <<origin, filter, stream, errorRecovery, lastErrorIndex, backtracking,
                 ruleMemo, syntaxErrors, raised, done, resets>>

CallRule == AtElement("rule") /\ Call(Element.rule)
EnterLoop == AtElement("loop") /\ LA(stream, 1) \in First[Element.rule] /\ Call(Element.rule)
LeaveLoop ==
  /\ AtElement("loop") /\ LA(stream, 1) \notin First[Element.rule]
  /\ stack' = SetTop(Step(Top))
  /\ UNCHANGED <<origin, filter, stream, state, raised, done, resets>>

Remembers == backtracking > 0 /\ Top.start \in DOMAIN ruleMemo[Top.rule]

\* alreadyParsedRule has nothing.
EnterRule ==
  /\ Running("entry") /\ ~Remembers
  /\ stack' = SetTop([Top EXCEPT !.at = "decision"])
  /\ UNCHANGED <<origin, filter, stream, state, raised, done, resets>>

\* alreadyParsedRule: behind what was parsed then, or the failure again.
AlreadyParsed ==
  /\ Running("entry") /\ Remembers
  /\ LET stop == ruleMemo[Top.rule][Top.start] IN
     IF stop = MEMO_RULE_FAILED
       THEN /\ raised' = "BacktrackingFailed"
            /\ UNCHANGED <<stream, following, stack, done>>
       ELSE stream' = Seek(stream, stop + 1) /\ Return /\ UNCHANGED raised
  /\ UNCHANGED <<origin, filter, errorRecovery, lastErrorIndex, backtracking, ruleMemo,
                 syntaxErrors, resets>>

\* Mutated: a failure is remembered as success.
MemoizeAlways(success) ==
  ruleMemo' = IF backtracking = 0 THEN ruleMemo
              ELSE [ruleMemo EXCEPT ![Top.rule] = (Top.start :> stream.p - 1) @@ @]

Memoize(success) ==
  ruleMemo' = IF backtracking = 0 THEN ruleMemo
              ELSE [ruleMemo EXCEPT ![Top.rule] =
                      (Top.start :> IF success THEN stream.p - 1 ELSE MEMO_RULE_FAILED) @@ @]

EndRule ==
  /\ Running("body") /\ Top.dot > Len(Alternative) /\ Top.rule \in Rule
  /\ Memoize(TRUE) /\ Return
  /\ UNCHANGED <<origin, filter, stream, errorRecovery, lastErrorIndex, backtracking,
                 syntaxErrors, raised, resets>>

\* BacktrackingFailed leaves a rule, past the pop of the follow set.
LeaveRule ==
  /\ raised = "BacktrackingFailed" /\ Top.rule \in Rule
  /\ Memoize(FALSE)
  /\ stack' = Front(stack)
  /\ UNCHANGED <<origin, filter, stream, following, errorRecovery, lastErrorIndex,
                 backtracking, syntaxErrors, raised, done, resets>>

----------------------------------------------------------------------------
(* Prediction                                                               *)

\* DFA.predict, 0 for noViableAlt; the input is rewound to where it was.
DfaAlternative(dfa) ==
  LET walk[s \in Nat, p \in Nat] ==
        LET at == Seek(stream, p)
            c == LA(at, 1)
            beyond == Consume(at).p
        IN IF dfa.accept[s] >= 1 THEN dfa.accept[s]
           ELSE IF c \in DOMAIN dfa.next[s] THEN walk[dfa.next[s][c], beyond]
           ELSE IF dfa.eot[s] >= 0 THEN walk[dfa.eot[s], beyond]
           ELSE IF c = EOF /\ dfa.eof[s] >= 0 THEN dfa.accept[dfa.eof[s]]
           ELSE 0
  IN walk[0, stream.p]

\* The alternative a rule decides for, 0 if none is viable, where no predicate
\* has to be tried.
Predicted ==
  LET d == Decision[Top.rule] IN
  IF d.by = "dfa" THEN DfaAlternative(d.dfa)
  ELSE IF d.by = "nothing" THEN 1
  ELSE IF LA(stream, 1) \notin First[Top.rule] THEN 0
  ELSE IF d.by = "predicates" THEN Top.tried + 1
  ELSE CHOOSE i \in DOMAIN Body[Top.rule] :
         LET e == Body[Top.rule][i][1] IN
         LA(stream, 1) \in IF e.is = "token" THEN {e.type} ELSE First[e.rule]

Tries ==
  LET d == Decision[Top.rule]
  IN d.by = "predicates" /\ Predicted # 0 /\ Top.tried < Len(d.predicates)

Decide ==
  /\ Running("decision") /\ ~Tries
  /\ IF Predicted = 0
       THEN raised' = Fail /\ UNCHANGED stack
       ELSE stack' = SetTop([Top EXCEPT !.at = "body", !.alt = Predicted]) /\ UNCHANGED raised
  /\ UNCHANGED <<origin, filter, stream, state, done, resets>>

\* A syntactic predicate: mark, and parse ahead.
TryPredicate ==
  /\ Running("decision") /\ Tries
  /\ LET predicate == Decision[Top.rule].predicates[Top.tried + 1] IN
     stack' = Append(SetTop([Top EXCEPT !.tried = @ + 1]),
                     [Frame(predicate) EXCEPT !.at = "body"])
  /\ backtracking' = backtracking + 1
  /\ UNCHANGED <<origin, filter, stream, following, errorRecovery, lastErrorIndex,
                 ruleMemo, syntaxErrors, raised, done, resets>>

\* Its end: rewind, and the alternative is taken or the next one tried.
EndPredicate ==
  /\ stack # <<>> /\ Top.rule \in Predicate
  /\ \/ raised = "BacktrackingFailed"
     \/ Running("body") /\ Top.dot > Len(Alternative)
  /\ LET rest == Front(stack)
         decider == Last(rest)
         taken == [decider EXCEPT !.at = "body", !.alt = decider.tried]
     IN stack' = IF raised = "none" THEN Append(Front(rest), taken) ELSE rest
  /\ stream' = Seek(stream, Top.start)
  /\ backtracking' = backtracking - 1
  /\ raised' = "none"
  /\ UNCHANGED <<origin, filter, following, errorRecovery, lastErrorIndex, ruleMemo,
                 syntaxErrors, done, resets>>

\* BaseRecognizer.reset
ResetState ==
  /\ following' = <<>> /\ errorRecovery' = FALSE /\ lastErrorIndex' = -1
  /\ syntaxErrors' = 0 /\ backtracking' = 0 /\ ruleMemo' = NoMemo

\* Parser.reset: the stream is sought to 0, on whatever channel the token there
\* is, and also when it was never filled.
Reset ==
  /\ stack = <<>> /\ resets < MaxResets
  /\ ResetState
  /\ stream' = Seek(stream, 0)
  /\ done' = FALSE /\ resets' = resets + 1
  /\ UNCHANGED <<origin, filter, stack, raised>>

Match == Matched \/ DeleteUnwanted \/ InsertMissing \/ Mismatched
Run == \/ Parse \/ CallRule \/ EnterLoop \/ LeaveLoop \/ EnterRule \/ AlreadyParsed
       \/ EndRule \/ LeaveRule \/ Decide \/ TryPredicate \/ EndPredicate
       \/ Match \/ Catch
Next == Run \/ Reset

Spec == Init /\ [][Next]_vars
\* The parser runs until its start rule returns.
FairSpec == Spec /\ WF_vars(Run)

----------------------------------------------------------------------------
(* Properties                                                               *)

TypeOK ==
  /\ stream.p \in -1 .. Len(stream.tokens)
  /\ stream.tokens \in Seq(TokenOf)
  /\ \A i \in DOMAIN following : following[i] \subseteq Type \cup {EOF, EOR}
  /\ errorRecovery \in BOOLEAN /\ done \in BOOLEAN
  /\ lastErrorIndex \in -1 .. Len(stream.tokens)
  /\ backtracking = Cardinality({i \in DOMAIN stack : stack[i].rule \in Predicate})
  /\ raised \in {"none", "BacktrackingFailed", "RecognitionException"}
  /\ (raised = "RecognitionException" => backtracking = 0)
  /\ (stack = <<>> => raised = "none")

\* What the parser should see of the source, and the number of its tokens the
\* buffer has before an index.
Wanted(t) ==
  /\ t.type \notin filter.discards
  /\ t.type \in DOMAIN filter.override => filter.override[t.type] = Default
  /\ t.channel = Default \/ (t.type \in DOMAIN filter.override /\ ~filter.only)
Words == [i \in DOMAIN SelectSeq(origin, Wanted) |-> SelectSeq(origin, Wanted)[i].type]
Position(index) == Cardinality({i \in 1 .. index : stream.tokens[i].channel = Default})

\* The places where a rule that begins at place i of the words may end.
Ends ==
  LET words == Append(Words, EOF)
      ends[r \in Rule, i \in Nat] ==
        UNION {LET to[n \in 0 .. Len(Body[r][a])] ==
                     IF n = 0 THEN {i}
                     ELSE LET e == Body[r][a][n]
                              from == to[n - 1] IN
                          IF e.is = "token"
                            THEN {j + 1 : j \in {k \in from : k < Len(words) /\ words[k + 1] = e.type}}
                          ELSE IF e.is = "rule" THEN UNION {ends[e.rule, j] : j \in from}
                          ELSE LET loop[d \in 0 .. Len(words)] ==
                                     IF d = 0 THEN from
                                     ELSE LET before == loop[d - 1] IN
                                          before \cup UNION {ends[e.rule, j] : j \in before}
                               IN loop[Len(words)]
               IN to[Len(Body[r][a])] : a \in DOMAIN Body[r]}
  IN ends

\* The parser is silent exactly for the sentences of the grammar: however it
\* predicts, tries predicates and remembers what they parsed, it finds a
\* sentence's derivation without an error, and nothing else passes; tokens on
\* other channels make no difference.  Not so after a reset that has put the
\* parser on a token off its channel, or on a stream that was never filled.
SilentIffSentence ==
  done /\ (resets > 0 => stream.tokens # <<>> /\ stream.tokens[1].channel = Default) =>
    ((syntaxErrors = 0) <=> (Ends[Start, 0] # {}))

\* What is remembered of a rule is what parsing it there gives, at every index
\* and under every predicate it was remembered for.
MemoIsParse ==
  /\ TypeOK
  /\ \A r \in Rule : \A i \in DOMAIN ruleMemo[r] :
       LET stop == ruleMemo[r][i] IN
       IF stop = MEMO_RULE_FAILED THEN Ends[r, Position(i)] = {}
       ELSE Position(stop + 1) \in Ends[r, Position(i)]

\* The parser comes to the end of every input.
ParserReturns == (stack # <<>>) ~> done
=============================================================================
