---------------------------- MODULE DebugEvents -----------------------------
(***************************************************************************)
(* Remote debugging of a generated parser (antlr3/debug.py).  The parser   *)
(* reads its tokens through a DebugTokenStream, which turns every look     *)
(* ahead, consumed token, mark and rewind into events; DebugParser adds    *)
(* those of the rules and of error recovery, and DebugTreeAdaptor those of *)
(* the tree it builds.  DebugEventSocketProxy sends them to a debugger,    *)
(* one line each, and waits for its answer before the parser goes on.      *)
(*                                                                         *)
(* External are the generated parser, which uses stream and adaptor as it  *)
(* likes, and the debugger: it answers each line but the first, takes      *)
(* tokens for consumed that it is told of, and for not consumed those      *)
(* behind the index of a mark when that, or the last mark, is rewound to,  *)
(* and builds the tree again.  It may hang up.                             *)
(***************************************************************************)
EXTENDS TokenStream, Tree

CONSTANTS
  SourceToken,  \* tokens a source may return
  MaxTokens,    \* bound: of the tokens of the source
  MaxMarks,     \* bound: marks at a time
  MaxNodes,     \* bound: nodes ever made
  MaxHeld,      \* bound: trees in hand at a time
  TreeTokens    \* bound: trees are built of no longer sources

ASSUME DebugAssumption ==
  SourceToken \subseteq TokenOf /\ {MaxTokens, MaxMarks, MaxNodes, MaxHeld, TreeTokens} \subseteq Nat

VARIABLES
  stream,              \* what DebugTokenStream wraps
  initialStreamState,
  lastMarker, \* the mark that was made last, rewound to or not
  marks,      \* those the parser will rewind to
  resync,     \* the parser throws tokens away
  thrown,     \* the indexes of those it has thrown away
  heap, held, \* the nodes made, and the roots of the trees the parser has in hand
  todo,       \* events of the operation under way that are not yet sent
  proxy,      \* listening, greeting, ready, waiting for an answer, closed, or failed
  over,       \* the parser has told that it has ended
  wire, acks, \* lines and answers on their way
  debugger    \* away, there or gone; the tokens it shows as consumed and thrown away, and the nodes
trees == <<heap, held>>
parserVars == <<stream, initialStreamState, lastMarker, marks, resync, thrown, over, trees>>
vars == <<parserVars, todo, proxy, wire, acks, debugger>>

NoFilter == [discards |-> {}, override |-> <<>>, only |-> FALSE]

\* DebugTokenStream.__init__ fills the stream.
Init ==
  /\ \E source \in UNION {[1 .. n -> SourceToken] : n \in 0 .. MaxTokens} :
       stream = Filled(NewStream(source), NoFilter)
  /\ initialStreamState = TRUE
  /\ lastMarker = 0 /\ marks = <<>> /\ resync = FALSE /\ thrown = {} /\ over = FALSE
  /\ heap = <<>> /\ held = {}
  /\ todo = <<>> /\ proxy = "listening" /\ wire = <<>> /\ acks = 0
  /\ debugger = [is |-> "away", lastMarker |-> 0, consumed |-> {}, resync |-> FALSE, thrown |-> {},
                 nodes |-> <<>>]

Event(name) == [is |-> name]
At(name, index) == [is |-> name, index |-> index]
Made(n, token) == [is |-> "createNode", node |-> n, token |-> token]
Joined(name, t, child) == [is |-> name, node |-> t, child |-> child]

----------------------------------------------------------------------------
(* DebugTokenStream and DebugParser, used by the parser                     *)

Parsing == proxy = "ready" /\ todo = <<>> /\ ~over

\* consumeHiddenToken for the tokens from a up to b.
Hidden(a, b) == [i \in 1 .. b - a |-> At("consumeHiddenToken", a + i - 1)]

\* An operation that reads the stream: what is hidden at the beginning comes
\* first.
Reads(events) ==
  /\ todo' = (IF initialStreamState THEN Hidden(0, stream.p) ELSE <<>>) \o events
  /\ initialStreamState' = FALSE

\* Of no token there is no event.
LookedAt(index) == IF index = -1 THEN <<>> ELSE <<At("LT", index)>>

\* LT and LA
Look ==
  /\ Parsing
  /\ \E index \in {LookAhead(stream, 1), LookAhead(stream, 2), LookBack(stream, 1)} :
       Reads(LookedAt(index))
  /\ UNCHANGED <<stream, lastMarker, marks, resync, thrown, over, trees, proxy, wire, acks, debugger>>

\* One event for the token, at the end for EOF, and one for each of the hidden
\* ones behind it.
ConsumeToken ==
  /\ Parsing
  /\ stream' = Consume(stream)
  /\ Reads(<<At("consumeToken", stream.p)>> \o Hidden(stream.p + 1, stream'.p))
  /\ thrown' = IF resync THEN thrown \cup (stream.p .. stream'.p - 1) ELSE thrown
  /\ UNCHANGED <<lastMarker, marks, resync, over, trees, proxy, wire, acks, debugger>>

MarkHere ==
  /\ Parsing /\ ~resync /\ Len(marks) < MaxMarks
  /\ marks' = Append(marks, stream.p) /\ lastMarker' = stream.p
  /\ todo' = <<At("mark", stream.p)>>
  /\ UNCHANGED <<stream, initialStreamState, resync, thrown, over, trees, proxy, wire, acks, debugger>>

RewindHere ==
  /\ Parsing /\ marks # <<>>
  /\ stream' = Seek(stream, Last(marks))
  /\ todo' = <<At("rewind", Last(marks))>>
  /\ marks' = Front(marks)
  /\ UNCHANGED <<initialStreamState, lastMarker, resync, thrown, over, trees, proxy, wire, acks, debugger>>

\* rewind without a marker, before the predicates of a decision are tried: the
\* line names no index.
RewindToLast ==
  /\ Parsing /\ marks # <<>>
  /\ stream' = Seek(stream, lastMarker)
  /\ todo' = <<Event("rewindLast")>>
  /\ UNCHANGED <<initialStreamState, lastMarker, marks, resync, thrown, over, trees, proxy, wire, acks, debugger>>

\* A memoized rule is leapt over, of which the debugger is not told; there are
\* such only while the parser backtracks.
SeekAhead ==
  /\ Parsing /\ marks # <<>> /\ ~initialStreamState
  /\ \E index \in stream.p + 1 .. Len(stream.tokens) :
       /\ SkipOffTokenChannels(stream.tokens, index) = index
       /\ stream' = Seek(stream, index)
  /\ UNCHANGED <<initialStreamState, lastMarker, marks, resync, thrown, over, trees, todo, proxy, wire, acks, debugger>>

\* beginResync and endResync; errors are recovered from where nothing is marked.
Resync ==
  /\ Parsing /\ marks = <<>> /\ ~initialStreamState
  /\ resync' = ~resync
  /\ todo' = <<Event(IF resync THEN "endResync" ELSE "beginResync")>>
  /\ UNCHANGED <<stream, initialStreamState, lastMarker, marks, thrown, over, trees, proxy, wire, acks, debugger>>

\* Rules, decisions, places in the grammar, and errors that are reported.
Tell ==
  /\ Parsing
  /\ todo' = <<Event("location")>>
  /\ UNCHANGED <<parserVars, proxy, wire, acks, debugger>>

\* The start rule ends.
Terminate ==
  /\ Parsing /\ marks = <<>> /\ ~resync
  /\ over' = TRUE
  /\ todo' = <<Event("terminate")>>
  /\ UNCHANGED <<stream, initialStreamState, lastMarker, marks, resync, thrown, trees, proxy, wire, acks, debugger>>

----------------------------------------------------------------------------
(* DebugTreeAdaptor: the events come after the adaptor has done its work     *)

\* A node created with a token, or the token's type and text, and a nil.
Create(token) ==
  /\ heap' = Append(heap, NewNode(token))
  /\ held' = held \cup {Len(heap')}
  /\ todo' = <<Made(Len(heap'), token)>>

AddChildTo(t, child) ==
  /\ heap' = AddChild(heap, t, child)
  /\ held' = held \ {child}
  /\ todo' = <<Joined("addChild", t, child)>>

\* The event names new, where the child of ^(nil x) becomes the root also
\* (README, 6): new is a node here.
BecomeRootOf(new, old) ==
  /\ ~IsNil(heap, new)
  /\ heap' = BecomeRoot(heap, new, old)
  /\ held' = held \ {old}
  /\ todo' = <<Joined("becomeRoot", new, old)>>

\* Of this there is no event.
PostProcess(t) ==
  /\ heap' = RulePostProcessing(heap, t)
  /\ held' = (held \ {t}) \cup ({PostProcessed(heap, t)} \ {None})
  /\ UNCHANGED todo

\* Mutated: of the copy's nodes only the root is told of.
SimulateRoot(h, t) == <<Made(t, h[t].token)>>

\* simulateTreeConstruction: what dupTree has done, as if the parser had done it.
SimulateTreeConstruction(h, t) ==
  LET told[n \in DOMAIN h] ==
        <<Made(n, h[n].token)>> \o
          FlattenSeq([i \in DOMAIN h[n].children |->
            told[h[n].children[i]] \o <<Joined("addChild", n, h[n].children[i])>>])
  IN told[t]

DupTreeOf(t) ==
  /\ heap' = DupTree(heap, t)
  /\ held' = held \cup {Len(heap) + 1}
  /\ todo' = SimulateTreeConstruction(heap', Len(heap) + 1)

DupNodeOf(t) ==
  /\ heap' = DupNode(heap, t)
  /\ held' = held \cup {Len(heap')}
  /\ todo' = <<Made(Len(heap'), heap[t].token)>>

Build ==
  /\ Parsing /\ marks = <<>> /\ ~resync /\ Len(stream.tokens) <= TreeTokens
  /\ \/ \E token \in Token \cup {Nil} : Create(token)
     \/ \E t \in held : PostProcess(t) \/ DupTreeOf(t) \/ DupNodeOf(t)
     \/ \E t \in held : \E u \in held \ {t} : AddChildTo(t, u) \/ BecomeRootOf(t, u)
  /\ Len(heap') <= MaxNodes /\ Cardinality(held') <= MaxHeld
  /\ UNCHANGED <<stream, initialStreamState, lastMarker, marks, resync, thrown, over, proxy, wire, acks, debugger>>

Parser ==
  \/ Build \/ Look \/ ConsumeToken \/ MarkHere \/ RewindHere \/ RewindToLast \/ SeekAhead
  \/ Resync \/ Tell \/ Terminate

----------------------------------------------------------------------------
(* DebugEventSocketProxy                                                    *)

\* accept returns; two lines are sent.
Handshake ==
  /\ proxy = "listening" /\ debugger.is # "away"
  /\ \/ /\ wire' = IF debugger.is = "there" THEN <<Event("ANTLR"), Event("grammar")>> ELSE <<>>
        /\ proxy' = "greeting"
     \/ debugger.is = "gone" /\ proxy' = "failed" /\ UNCHANGED wire
  /\ UNCHANGED <<parserVars, todo, acks, debugger>>

\* transmit up to the answer.  Once the debugger is gone a write may still go
\* through, into the void.
Transmit ==
  /\ proxy = "ready" /\ todo # <<>>
  /\ \/ /\ wire' = IF debugger.is = "there" THEN Append(wire, Head(todo)) ELSE <<>>
        /\ todo' = Tail(todo)
        /\ proxy' = "waiting"
     \/ debugger.is = "gone" /\ proxy' = "failed" /\ UNCHANGED <<wire, todo>>
  /\ UNCHANGED <<parserVars, acks, debugger>>

Answered == IF over /\ todo = <<>> THEN "closed" ELSE "ready"

\* Mutated: each line of the greeting is to be answered.
AckTwice ==
  /\ proxy \in {"greeting", "waiting"}
  /\ acks >= (IF proxy = "greeting" THEN 2 ELSE 1) \/ debugger.is = "gone"
  /\ acks' = 0
  /\ proxy' = Answered
  /\ UNCHANGED <<parserVars, todo, wire, debugger>>

\* ack: a line, or nothing, or an exception if the debugger is gone.
Ack ==
  /\ proxy \in {"greeting", "waiting"}
  /\ acks > 0 \/ debugger.is = "gone"
  /\ acks' = IF acks > 0 THEN acks - 1 ELSE 0
  /\ \/ proxy' = Answered
     \/ debugger.is = "gone" /\ proxy' = "failed"
  /\ UNCHANGED <<parserVars, todo, wire, debugger>>

Proxy == Handshake \/ Transmit \/ Ack

----------------------------------------------------------------------------
(* The debugger                                                             *)

Connect ==
  /\ debugger.is = "away"
  /\ debugger' = [debugger EXCEPT !.is = "there"]
  /\ UNCHANGED <<parserVars, todo, proxy, wire, acks>>

\* What the debugger shows after an event; the EOF token has no index.
Shown(d, e) ==
  IF e.is \in {"consumeToken", "consumeHiddenToken"} /\ e.index < Len(stream.tokens)
    THEN [d EXCEPT !.consumed = @ \cup {e.index},
                   !.thrown = IF d.resync THEN @ \cup {e.index} ELSE @]
  ELSE IF e.is = "mark" THEN [d EXCEPT !.lastMarker = e.index]
  ELSE IF e.is = "rewindLast" THEN [d EXCEPT !.consumed = {i \in @ : i < d.lastMarker}]
  ELSE IF e.is = "rewind" THEN [d EXCEPT !.consumed = {i \in @ : i < e.index}]
  ELSE IF e.is \in {"beginResync", "endResync"} THEN [d EXCEPT !.resync = e.is = "beginResync"]
  ELSE IF e.is = "createNode" THEN [d EXCEPT !.nodes = (e.node :> NewNode(e.token)) @@ @]
  ELSE IF e.is \in {"addChild", "becomeRoot"} /\ {e.node, e.child} \subseteq DOMAIN d.nodes
    THEN [d EXCEPT !.nodes = AddChild(@, e.node, e.child)]
  ELSE d

Hear ==
  /\ debugger.is = "there" /\ wire # <<>>
  /\ wire' = Tail(wire)
  /\ acks' = IF Head(wire).is = "ANTLR" THEN acks ELSE acks + 1
  /\ debugger' = Shown(debugger, Head(wire))
  /\ UNCHANGED <<parserVars, todo, proxy>>

HangUp ==
  /\ debugger.is = "there"
  /\ debugger' = [debugger EXCEPT !.is = "gone"]
  /\ wire' = <<>>
  /\ UNCHANGED <<parserVars, todo, proxy, acks>>

Debugger == Connect \/ Hear \/ HangUp

Next == Parser \/ Proxy \/ Debugger

Spec == Init /\ [][Next]_vars
\* The parser's process runs, and a debugger that is there answers or hangs up.
FairSpec == Spec /\ WF_vars(Proxy) /\ WF_vars(Hear)

----------------------------------------------------------------------------
(* Properties                                                               *)

TypeOK ==
  /\ stream.p \in 0 .. Len(stream.tokens)
  /\ Range(marks) \subseteq 0 .. Len(stream.tokens)
  /\ proxy \in {"listening", "greeting", "ready", "waiting", "closed", "failed"}
  /\ Len(wire) <= 2 /\ acks \in 0 .. 1
  /\ debugger.is \in {"away", "there", "gone"}
  /\ debugger.consumed \cup thrown \subseteq 0 .. Len(stream.tokens) - 1

\* Whenever the parser takes a step of its own, the debugger shows exactly the
\* tokens before the parser's as consumed, the hidden ones with them, and those
\* as thrown away that are: whatever the parser looked at, marked, and leapt
\* over before.  Only while it backtracks the debugger may be behind.  And it
\* knows every node of the trees the parser has in hand, by its token and with
\* the same children: of lists that were dissolved, copies, and roots that were
\* put over others.
DebuggerFollows ==
  /\ TypeOK
  /\ Parsing /\ debugger.is = "there" /\ marks = <<>> /\ ~initialStreamState =>
       /\ debugger.consumed = 0 .. stream.p - 1
       /\ debugger.thrown = thrown
  /\ Parsing /\ debugger.is = "there" =>
       \A root \in held : \A n \in Range(Preorder(heap, root)) :
         /\ n \in DOMAIN debugger.nodes
         /\ debugger.nodes[n].token = heap[n].token
         /\ debugger.nodes[n].children = heap[n].children

\* The parser is never left hanging: each event is answered, or the parser
\* notices that the debugger is gone.
ParserGoesOn ==
  (debugger.is # "away" /\ proxy # "ready") ~> (proxy \in {"closed", "failed"} \/ Parsing)
=============================================================================
