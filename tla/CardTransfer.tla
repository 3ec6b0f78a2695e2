---------------------------- MODULE CardTransfer ----------------------------
(***************************************************************************)
(* What a transfer to or from the ZestSC1 card promises its caller,        *)
(* whatever URBs it uses: while a card is trusted, one on which nothing    *)
(* has failed since it was opened, the card moves chunks of the buffer,    *)
(* each once and in the order of the buffer, and the call reports success  *)
(* only when it has moved them all.  A failure may come at any time, and   *)
(* costs the trust until the card is opened again; but the call does not   *)
(* time out before it has waited.                                          *)
(***************************************************************************)
EXTENDS Integers

CONSTANTS
  MaxChunks,   \* bound: chunks of a transfer
  Patience     \* ticks to wait at the least before a timeout

VARIABLES
  busy,      \* a transfer is under way
  size,      \* chunks of its buffer
  moved,     \* those the card has moved without an error
  trusted,
  elapsed,   \* ticks since the call
  outcome    \* of the last transfer

vars == <<busy, size, moved, trusted, elapsed, outcome>>

Init ==
  /\ busy = FALSE /\ size = 0 /\ moved = {}
  /\ trusted = TRUE /\ elapsed = 0 /\ outcome = "none"

Begin ==
  /\ ~busy
  /\ busy' = TRUE /\ size' \in 0 .. MaxChunks /\ moved' = {}
  /\ elapsed' = 0 /\ outcome' = "none"
  /\ UNCHANGED trusted

\* The card moves a chunk behind those it has moved.
Move(c) ==
  /\ busy /\ trusted
  /\ \A m \in moved : m < c
  /\ moved' = moved \cup {c}
  /\ UNCHANGED <<busy, size, trusted, elapsed, outcome>>

Ends == busy /\ busy' = FALSE /\ moved' = {} /\ UNCHANGED <<size, elapsed>>

Succeed ==
  /\ Ends
  /\ trusted => moved = 0 .. size - 1
  /\ outcome' = "success"
  /\ UNCHANGED trusted

GiveUp ==
  /\ Ends
  /\ outcome' = "internal" \/ (outcome' = "timeout" /\ elapsed >= Patience)
  /\ trusted' = FALSE

Reopen ==
  /\ ~busy
  /\ trusted' = TRUE
  /\ UNCHANGED <<busy, size, moved, elapsed, outcome>>

Tick ==
  /\ busy
  /\ elapsed' = elapsed + 1
  /\ UNCHANGED <<busy, size, moved, trusted, outcome>>

Next ==
  \/ Begin \/ Succeed \/ GiveUp \/ Reopen \/ Tick
  \/ \E c \in 0 .. size - 1 : Move(c)

Spec == Init /\ [][Next]_vars
=============================================================================
