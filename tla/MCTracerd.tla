----------------------------- MODULE MCTracerd -----------------------------
(***************************************************************************)
(* Tracerd with two time stamps, of which the later one is the lower       *)
(* string, in three instances: a client on the control connection beside   *)
(* one on the data connection, where SIGINT comes; and more of the lines   *)
(* of the one and of the records of the other, where it does not.          *)
(* An instance leaves out only connections, reports and signals, which     *)
(* nothing is fair to: the fairness of Tracerd is that of each instance.   *)
(***************************************************************************)
EXTENDS Tracerd

Strings == 9 :> 2 @@ 10 :> 1

Both  == [clients |-> {"a", "b"}, stamps |-> {9},     events |-> 1, signals |-> 1]
Lines == [clients |-> {"a"},      stamps |-> {9, 10}, events |-> 2, signals |-> 0]
Log   == [clients |-> {"b"},      stamps |-> {9, 10}, events |-> 2, signals |-> 0]

VARIABLE instance

Within ==
  /\ signals' <= instance.signals
  /\ \A c \in Client \ instance.clients :
       control'[c] = "connecting" /\ data'[c] = "connecting" /\ stamp'[c] = <<>>
  /\ \A c \in instance.clients :
       /\ Len(stamp'[c]) <= instance.events
       /\ Range(stamp'[c]) \subseteq instance.stamps
       /\ Len(out'[c]) <= Len(out[c]) + 3   \* one new task at a message

MCInit == Init /\ instance \in {Both, Lines, Log}

MCSpec ==
  /\ MCInit
  /\ [][Next /\ Within /\ UNCHANGED instance]_<<vars, instance>>
  /\ Fairness
=============================================================================
