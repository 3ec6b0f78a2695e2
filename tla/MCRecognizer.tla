---------------------------- MODULE MCRecognizer ----------------------------
(***************************************************************************)
(* Recognizer for the grammar                                              *)
(*   prog : stat* EOF ;                                                    *)
(*   stat : A B e | A C ;                            by a DFA of depth 2   *)
(*   e : (f B)=> f B | (f C)=> f C | f ;             by predicates         *)
(*   f : C | B f ;                                   by the first token    *)
(* with white space on a channel of its own.                               *)
(***************************************************************************)
EXTENDS Recognizer

T(type) == [is |-> "token", type |-> type]
R(rule) == [is |-> "rule", rule |-> rule]
L(rule) == [is |-> "loop", rule |-> rule]

MCRule == {"prog", "stat", "e", "f"}
MCPredicate == {"synpred1", "synpred2"}

MCBody ==
  [prog |-> << <<L("stat"), T("EOF")>> >>,
   stat |-> << <<T("A"), T("B"), R("e")>>, <<T("A"), T("C")>> >>,
   e |-> << <<R("f"), T("B")>>, <<R("f"), T("C")>>, <<R("f")>> >>,
   f |-> << <<T("C")>>, <<T("B"), R("f")>> >>,
   synpred1 |-> << <<R("f"), T("B")>> >>,
   synpred2 |-> << <<R("f"), T("C")>> >>]

StatDfa ==
  LET none == <<>> IN
  [next |-> 0 :> [A |-> 1] @@ 1 :> [B |-> 2, C |-> 3] @@ 2 :> none @@ 3 :> none,
   accept |-> 0 :> -1 @@ 1 :> -1 @@ 2 :> 1 @@ 3 :> 2,
   eot |-> [s \in 0 .. 3 |-> -1],
   eof |-> [s \in 0 .. 3 |-> -1]]

MCDecision ==
  [prog |-> [by |-> "nothing"],
   stat |-> [by |-> "dfa", dfa |-> StatDfa],
   e |-> [by |-> "predicates", predicates |-> <<"synpred1", "synpred2">>],
   f |-> [by |-> "first"]]

MCToken == {[type |-> t, channel |-> 0] : t \in {"A", "B", "C"}}
             \cup {[type |-> "WS", channel |-> 99]}

MCFilter ==
  {[discards |-> {}, override |-> <<>>, only |-> FALSE],
   [discards |-> {}, override |-> ("WS" :> 0), only |-> FALSE],
   [discards |-> {"C"}, override |-> ("B" :> 99), only |-> TRUE]}
=============================================================================
