---------------------------- MODULE SpwTransmit ----------------------------
(***************************************************************************)
(* What the transmit side of the SpaceWire application promises, one       *)
(* device at a time: the transmit buffers of a device circulate through    *)
(* three FIFO stages.  A free buffer is given to a packet and queued       *)
(* (command X of test_app), a whole queue is handed to the hardware at a   *)
(* time (grspw_dma_tx_send), and the buffers the hardware is done with     *)
(* come back, oldest first (grspw_dma_tx_reclaim).  No buffer is lost, no  *)
(* buffer is sent twice, and packets leave in the order they were queued.  *)
(***************************************************************************)
EXTENDS Naturals, Sequences

CONSTANTS
  Dev,       \* the entries of devs[]
  Buffers    \* the sequence of transmit buffers each entry starts with

VARIABLES
  free,      \* per device, the buffers no packet uses
  queue,     \* per device, the packets waiting for the DMA task
  wire       \* per device, the packets the driver owns, oldest first

vars == <<free, queue, wire>>

Init ==
  /\ free  = [d \in Dev |-> Buffers]
  /\ queue = [d \in Dev |-> <<>>]
  /\ wire  = [d \in Dev |-> <<>>]

\* A packet is put in the oldest free buffer and queued behind the others.
Submit(d) ==
  /\ free[d] # <<>>
  /\ queue' = [queue EXCEPT ![d] = Append(@, Head(free[d]))]
  /\ free'  = [free EXCEPT ![d] = Tail(@)]
  /\ UNCHANGED wire

\* The whole queue is handed to the hardware, order kept.
Hand(d) ==
  /\ queue[d] # <<>>
  /\ wire'  = [wire EXCEPT ![d] = @ \o queue[d]]
  /\ queue' = [queue EXCEPT ![d] = <<>>]
  /\ UNCHANGED free

\* The n oldest packets of the hardware are done: their buffers are free.
Reclaim(d, n) ==
  /\ free' = [free EXCEPT ![d] = @ \o SubSeq(wire[d], 1, n)]
  /\ wire' = [wire EXCEPT ![d] = SubSeq(@, n + 1, Len(@))]
  /\ UNCHANGED queue

Next ==
  \E d \in Dev :
    \/ Submit(d)
    \/ Hand(d)
    \/ \E n \in 1..Len(wire[d]) : Reclaim(d, n)

Spec == Init /\ [][Next]_vars
=============================================================================
