----------------------------- MODULE SpwPackets -----------------------------
(***************************************************************************)
(* The packet path of misc/HW_experiments/GR740_SPW/src/test.c: test_app   *)
(* executes commands, dma_task runs dma_process on every open device, and  *)
(* the two share the packet lists of devs[] under the semaphore dma_sem.   *)
(* The GRSPW driver and the links are the environment.                     *)
(*                                                                         *)
(* Every rtems_semaphore_obtain, rtems_task_wake_after, console write and  *)
(* driver call may let the other task run, so one step goes from one of    *)
(* them to the next.  Time is left out: a task that sleeps may wake at any *)
(* moment (SpwLifecycle has the ticks).  A packet is its index in the row   *)
(* of pkts[][] that belongs to its device.                                 *)
(***************************************************************************)
EXTENDS Integers, Sequences

CONSTANTS
  NoSpw,     \* nospw, the number of GRSPW devices found
  DevsMax,   \* DEVS_MAX, the length of devs[]
  NRx,       \* receive buffers per device (120 + 8 in init_pkts)
  NTx        \* transmit buffers per device (8 in init_pkts)

\* nospw is limited to DEVS_MAX and may be that.
ASSUME SpwAssumption ==
  /\ NoSpw \in Nat \ {0}
  /\ DevsMax \in Nat
  /\ NoSpw <= DevsMax
  /\ NRx \in Nat \ {0}
  /\ NTx \in Nat \ {0}

Dev   == 0 .. DevsMax - 1
RxPkt == 1 .. NRx
TxPkt == NRx + 1 .. NRx + NTx
NULL  == 0

RxBuffers == [j \in 1..NRx |-> j]
TxBuffers == [j \in 1..NTx |-> NRx + j]

VARIABLES
  rx_list, tx_list, tx_buf_list,              \* struct grspw_list, as sequences
  rx_list_cnt, tx_list_cnt, tx_buf_list_cnt,  \* the counters kept beside them
  rxSched, rxRecv,   \* driver: buffers awaiting a packet, received packets
  txSched, txSent,   \* driver: packets awaiting the link, sent packets
  chan,              \* "running", "stopped" or "closed" (dh = NULL)
  dma_sem,           \* count of the simple binary semaphore
  tasks_stop,
  appPc, devno, pkt, \* test_app: where it is, the device, the packet in hand
  dmaPc, dmaDev, lst, \* dma_task: where it is, the device, dma_process's lst
  halted             \* exit(0) was called, or the program has gone astray

lists    == <<rx_list, rx_list_cnt, tx_list, tx_list_cnt,
              tx_buf_list, tx_buf_list_cnt>>
driver   == <<rxSched, rxRecv, txSched, txSent, chan>>
appVars  == <<appPc, devno, pkt, tasks_stop>>
dmaVars  == <<dmaPc, dmaDev, lst>>
vars     == <<lists, driver, dma_sem, appVars, dmaVars, halted>>

(***************************************************************************)
(* dev_init, init_pkts and grspw_start have run for every device.          *)
(***************************************************************************)
Init ==
  /\ rx_list         = [d \in Dev |-> RxBuffers]
  /\ rx_list_cnt     = [d \in Dev |-> NRx]
  /\ tx_list         = [d \in Dev |-> <<>>]
  /\ tx_list_cnt     = [d \in Dev |-> 0]
  /\ tx_buf_list     = [d \in Dev |-> TxBuffers]
  /\ tx_buf_list_cnt = [d \in Dev |-> NTx]
  /\ rxSched = [d \in Dev |-> <<>>]
  /\ rxRecv  = [d \in Dev |-> <<>>]
  /\ txSched = [d \in Dev |-> <<>>]
  /\ txSent  = [d \in Dev |-> <<>>]
  /\ chan    = [d \in Dev |-> IF d < NoSpw THEN "running" ELSE "closed"]
  /\ dma_sem = 1
  /\ tasks_stop = 0
  /\ appPc = "read" /\ devno = 0 /\ pkt = NULL
  /\ dmaPc = "loop" /\ dmaDev = 0 /\ lst = <<>>
  /\ halted = FALSE

----------------------------------------------------------------------------
(* test_app *)

\* The check every command makes on the device number it is given.
ValidDevno(n) == ~ (n < 0 \/ n > NoSpw)

\* Commands C, I, L, S and T only call the driver on the device.
ReadQuery ==
  /\ appPc = "read"
  /\ \E n \in -1 .. NoSpw + 1 :
       /\ ValidDevno(n)
       /\ n \in Dev
       /\ devno' = n
  /\ appPc' = "query"
  /\ UNCHANGED <<lists, driver, dma_sem, pkt, tasks_stop, dmaVars, halted>>

Query ==
  /\ appPc = "query"
  /\ appPc' = "read"
  /\ UNCHANGED <<lists, driver, dma_sem, devno, pkt, tasks_stop, dmaVars, halted>>

\* The check lets nospw pass.  With devs[] full that names memory behind it: what
\* the command does there is undefined, and nothing is said of what follows.
ReadAstray ==
  /\ appPc = "read"
  /\ \E n \in -1 .. NoSpw + 1 :
       /\ ValidDevno(n)
       /\ n \notin Dev
       /\ devno' = n
  /\ appPc' = "astray"
  /\ halted' = TRUE
  /\ UNCHANGED <<lists, driver, dma_sem, pkt, tasks_stop, dmaVars>>

\* Command X, up to its rtems_semaphore_obtain.
ReadXmit ==
  /\ appPc = "read"
  /\ \E n \in -1 .. NoSpw + 1 :
       /\ ValidDevno(n)
       /\ n \in Dev
       /\ devno' = n
  /\ appPc' = "obtain"
  /\ UNCHANGED <<lists, driver, dma_sem, pkt, tasks_stop, dmaVars, halted>>

\* Mutated: obtained without waiting, the result ignored.
XmitObtainNoWait ==
  /\ appPc = "obtain"
  /\ dma_sem' = 0
  /\ appPc' = "take"
  /\ UNCHANGED <<lists, driver, devno, pkt, tasks_stop, dmaVars, halted>>

XmitObtain ==
  /\ appPc = "obtain"
  /\ dma_sem = 1
  /\ dma_sem' = 0
  /\ appPc' = "take"
  /\ UNCHANGED <<lists, driver, devno, pkt, tasks_stop, dmaVars, halted>>

\* "No free transmit buffers available", then continue.
XmitNoBuffer ==
  /\ appPc = "take"
  /\ tx_buf_list[devno] = <<>>
  /\ appPc' = "read"
  /\ UNCHANGED <<lists, driver, dma_sem, devno, pkt, tasks_stop, dmaVars, halted>>

XmitTake ==
  /\ appPc = "take"
  /\ tx_buf_list[devno] # <<>>
  /\ pkt' = Head(tx_buf_list[devno])
  /\ tx_buf_list' = [tx_buf_list EXCEPT ![devno] = Tail(@)]
  /\ tx_buf_list_cnt' = [tx_buf_list_cnt EXCEPT ![devno] = @ - 1]
  /\ appPc' = "schedule"
  /\ UNCHANGED <<rx_list, rx_list_cnt, tx_list, tx_list_cnt, driver, dma_sem,
                 devno, tasks_stop, dmaVars, halted>>

\* Mutated: the packet is queued before the others.
XmitScheduleFirst ==
  /\ appPc = "schedule"
  /\ tx_list' = [tx_list EXCEPT ![devno] = <<pkt>> \o @]
  /\ tx_list_cnt' = [tx_list_cnt EXCEPT ![devno] = @ + 1]
  /\ pkt' = NULL
  /\ dma_sem' = 1
  /\ appPc' = "read"
  /\ UNCHANGED <<rx_list, rx_list_cnt, tx_buf_list, tx_buf_list_cnt, driver,
                 devno, tasks_stop, dmaVars, halted>>

XmitSchedule ==
  /\ appPc = "schedule"
  /\ tx_list' = [tx_list EXCEPT ![devno] = Append(@, pkt)]
  /\ tx_list_cnt' = [tx_list_cnt EXCEPT ![devno] = @ + 1]
  /\ pkt' = NULL
  /\ dma_sem' = 1
  /\ appPc' = "read"
  /\ UNCHANGED <<rx_list, rx_list_cnt, tx_buf_list, tx_buf_list_cnt, driver,
                 devno, tasks_stop, dmaVars, halted>>

Quit ==
  /\ appPc = "read"
  /\ tasks_stop' = 1
  /\ devno' = 0
  /\ appPc' = "stop"
  /\ UNCHANGED <<lists, driver, dma_sem, pkt, dmaVars, halted>>

\* dev_cleanup: grspw_stop makes the driver give up what it has scheduled.
CleanupStop ==
  /\ appPc = "stop"
  /\ devno < NoSpw
  /\ chan' = [chan EXCEPT ![devno] = "stopped"]
  /\ rxRecv' = [rxRecv EXCEPT ![devno] = @ \o rxSched[devno]]
  /\ rxSched' = [rxSched EXCEPT ![devno] = <<>>]
  /\ txSent' = [txSent EXCEPT ![devno] = @ \o txSched[devno]]
  /\ txSched' = [txSched EXCEPT ![devno] = <<>>]
  /\ appPc' = "close"
  /\ UNCHANGED <<lists, dma_sem, devno, pkt, tasks_stop, dmaVars, halted>>

CleanupClose ==
  /\ appPc = "close"
  /\ chan' = [chan EXCEPT ![devno] = "closed"]
  /\ devno' = devno + 1
  /\ appPc' = "stop"
  /\ UNCHANGED <<lists, rxSched, rxRecv, txSched, txSent, dma_sem, pkt,
                 tasks_stop, dmaVars, halted>>

Exit ==
  /\ appPc = "stop"
  /\ devno = NoSpw
  /\ appPc' = "exited"
  /\ halted' = TRUE
  /\ UNCHANGED <<lists, driver, dma_sem, devno, pkt, tasks_stop, dmaVars>>

App ==
  \/ ReadQuery \/ Query \/ ReadAstray \/ ReadXmit \/ XmitObtain \/ XmitNoBuffer
  \/ XmitTake \/ XmitSchedule \/ Quit \/ CleanupStop \/ CleanupClose \/ Exit

----------------------------------------------------------------------------
(* dma_task and dma_process *)

\* A call on a channel that is not running may be refused.
MayFail(d) == chan[d] # "running"

DmaLoop ==
  /\ dmaPc = "loop"
  /\ dmaPc' = IF tasks_stop = 0 THEN "obtain" ELSE "deleted"
  /\ UNCHANGED <<lists, driver, dma_sem, appVars, dmaDev, lst, halted>>

\* Mutated: the loop starts behind the first device.
DmaObtainFromOne ==
  /\ dmaPc = "obtain"
  /\ dma_sem = 1
  /\ dma_sem' = 0
  /\ dmaDev' = 1
  /\ dmaPc' = "device"
  /\ UNCHANGED <<lists, driver, appVars, lst, halted>>

DmaObtain ==
  /\ dmaPc = "obtain"
  /\ dma_sem = 1
  /\ dma_sem' = 0
  /\ dmaDev' = 0
  /\ dmaPc' = "device"
  /\ UNCHANGED <<lists, driver, appVars, lst, halted>>

\* The for loop over the devices: skip one that is not open.
DmaDevice ==
  /\ dmaPc = "device"
  /\ dmaDev < NoSpw
  /\ IF chan[dmaDev] = "closed"
       THEN dmaDev' = dmaDev + 1 /\ UNCHANGED dmaPc
       ELSE dmaPc' = "rx_prepare" /\ UNCHANGED dmaDev
  /\ UNCHANGED <<lists, driver, dma_sem, appVars, lst, halted>>

DmaRelease ==
  /\ dmaPc = "device"
  /\ dmaDev = NoSpw
  /\ dma_sem' = 1
  /\ dmaPc' = "loop"
  /\ UNCHANGED <<lists, driver, appVars, dmaDev, lst, halted>>

\* dma_process returns: on to the next device.
Return == dmaPc' = "device" /\ dmaDev' = dmaDev + 1

RxPrepare ==
  /\ dmaPc = "rx_prepare"
  /\ IF rx_list_cnt[dmaDev] > 0
       THEN /\ rxSched' = [rxSched EXCEPT ![dmaDev] = @ \o rx_list[dmaDev]]
            /\ rx_list' = [rx_list EXCEPT ![dmaDev] = <<>>]
            /\ rx_list_cnt' = [rx_list_cnt EXCEPT ![dmaDev] = 0]
       ELSE UNCHANGED <<rxSched, rx_list, rx_list_cnt>>
  /\ dmaPc' = "rx_recv"
  /\ UNCHANGED <<tx_list, tx_list_cnt, tx_buf_list, tx_buf_list_cnt, rxRecv,
                 txSched, txSent, chan, dma_sem, appVars, dmaDev, lst, halted>>

\* Mutated: the list is cleared although the driver refused it.
RxFailClears ==
  /\ \/ dmaPc = "rx_prepare" /\ rx_list_cnt[dmaDev] > 0
     \/ dmaPc = "rx_recv"
  /\ MayFail(dmaDev)
  /\ rx_list' = [rx_list EXCEPT ![dmaDev] = <<>>]
  /\ rx_list_cnt' = [rx_list_cnt EXCEPT ![dmaDev] = 0]
  /\ Return
  /\ UNCHANGED <<tx_list, tx_list_cnt, tx_buf_list, tx_buf_list_cnt, driver,
                 dma_sem, appVars, lst, halted>>

\* "rx_prep failed" or "rx_recv failed": return -1, the TX part is skipped.
RxFail ==
  /\ \/ dmaPc = "rx_prepare" /\ rx_list_cnt[dmaDev] > 0
     \/ dmaPc = "rx_recv"
  /\ MayFail(dmaDev)
  /\ Return
  /\ UNCHANGED <<lists, driver, dma_sem, appVars, lst, halted>>

RxReceive ==
  /\ dmaPc = "rx_recv"
  /\ lst' = rxRecv[dmaDev]
  /\ rxRecv' = [rxRecv EXCEPT ![dmaDev] = <<>>]
  /\ dmaPc' = "rx_append"
  /\ UNCHANGED <<lists, rxSched, txSched, txSent, chan, dma_sem, appVars,
                 dmaDev, halted>>

RxAppend ==
  /\ dmaPc = "rx_append"
  /\ rx_list' = [rx_list EXCEPT ![dmaDev] = @ \o lst]
  /\ rx_list_cnt' = [rx_list_cnt EXCEPT ![dmaDev] = @ + Len(lst)]
  /\ lst' = <<>>
  /\ dmaPc' = "tx_reclaim"
  /\ UNCHANGED <<tx_list, tx_list_cnt, tx_buf_list, tx_buf_list_cnt, driver,
                 dma_sem, appVars, dmaDev, halted>>

TxReclaim ==
  /\ dmaPc = "tx_reclaim"
  /\ lst' = txSent[dmaDev]
  /\ txSent' = [txSent EXCEPT ![dmaDev] = <<>>]
  /\ dmaPc' = "tx_append"
  /\ UNCHANGED <<lists, rxSched, rxRecv, txSched, chan, dma_sem, appVars,
                 dmaDev, halted>>

\* "tx_reclaim failed" or "tx_send failed": exit(0), the semaphore still taken.
TxFail ==
  /\ \/ dmaPc = "tx_reclaim"
     \/ dmaPc = "tx_send" /\ tx_list_cnt[dmaDev] > 0
  /\ MayFail(dmaDev)
  /\ halted' = TRUE
  /\ UNCHANGED <<lists, driver, dma_sem, appVars, dmaVars>>

\* Mutated: reclaimed packets are sent again, as the comment above the code says.
TxAppendResend ==
  /\ dmaPc = "tx_append"
  /\ tx_list' = [tx_list EXCEPT ![dmaDev] = @ \o lst]
  /\ tx_list_cnt' = [tx_list_cnt EXCEPT ![dmaDev] = @ + Len(lst)]
  /\ lst' = <<>>
  /\ dmaPc' = "tx_send"
  /\ UNCHANGED <<rx_list, rx_list_cnt, tx_buf_list, tx_buf_list_cnt, driver,
                 dma_sem, appVars, dmaDev, halted>>

\* Mutated: one buffer counted, however many came back.
TxAppendCountsOne ==
  /\ dmaPc = "tx_append"
  /\ tx_buf_list' = [tx_buf_list EXCEPT ![dmaDev] = @ \o lst]
  /\ tx_buf_list_cnt' = [tx_buf_list_cnt EXCEPT
                          ![dmaDev] = IF lst = <<>> THEN @ ELSE @ + 1]
  /\ lst' = <<>>
  /\ dmaPc' = "tx_send"
  /\ UNCHANGED <<rx_list, rx_list_cnt, tx_list, tx_list_cnt, driver, dma_sem,
                 appVars, dmaDev, halted>>

TxAppend ==
  /\ dmaPc = "tx_append"
  /\ tx_buf_list' = [tx_buf_list EXCEPT ![dmaDev] = @ \o lst]
  /\ tx_buf_list_cnt' = [tx_buf_list_cnt EXCEPT ![dmaDev] = @ + Len(lst)]
  /\ lst' = <<>>
  /\ dmaPc' = "tx_send"
  /\ UNCHANGED <<rx_list, rx_list_cnt, tx_list, tx_list_cnt, driver, dma_sem,
                 appVars, dmaDev, halted>>

TxSend ==
  /\ dmaPc = "tx_send"
  /\ IF tx_list_cnt[dmaDev] > 0
       THEN /\ txSched' = [txSched EXCEPT ![dmaDev] = @ \o tx_list[dmaDev]]
            /\ tx_list' = [tx_list EXCEPT ![dmaDev] = <<>>]
            /\ tx_list_cnt' = [tx_list_cnt EXCEPT ![dmaDev] = 0]
       ELSE UNCHANGED <<txSched, tx_list, tx_list_cnt>>
  /\ Return
  /\ UNCHANGED <<rx_list, rx_list_cnt, tx_buf_list, tx_buf_list_cnt, rxSched,
                 rxRecv, txSent, chan, dma_sem, appVars, lst, halted>>

Dma ==
  \/ DmaLoop \/ DmaObtain \/ DmaDevice \/ DmaRelease
  \/ RxPrepare \/ RxFail \/ RxReceive \/ RxAppend
  \/ TxReclaim \/ TxFail \/ TxAppend \/ TxSend

----------------------------------------------------------------------------
(* The links: a packet arrives in the oldest prepared buffer, the oldest   *)
(* scheduled packet leaves.                                                *)
LinkReceive(d) ==
  /\ chan[d] = "running"
  /\ rxSched[d] # <<>>
  /\ rxRecv' = [rxRecv EXCEPT ![d] = Append(@, Head(rxSched[d]))]
  /\ rxSched' = [rxSched EXCEPT ![d] = Tail(@)]
  /\ UNCHANGED <<lists, txSched, txSent, chan, dma_sem, appVars, dmaVars, halted>>

LinkTransmit(d) ==
  /\ chan[d] = "running"
  /\ txSched[d] # <<>>
  /\ txSent' = [txSent EXCEPT ![d] = Append(@, Head(txSched[d]))]
  /\ txSched' = [txSched EXCEPT ![d] = Tail(@)]
  /\ UNCHANGED <<lists, rxSched, rxRecv, chan, dma_sem, appVars, dmaVars, halted>>

Link == \E d \in Dev : LinkReceive(d) \/ LinkTransmit(d)

Next == ~halted /\ (App \/ Dma \/ Link)

Spec == Init /\ [][Next]_vars

(***************************************************************************)
(* Scheduling.  Both tasks have priority 10 and run whenever they are not  *)
(* waiting, so neither stops for ever between two of its steps; the        *)
(* semaphore is RTEMS_FIFO, so a waiter gets it if it keeps being given    *)
(* back.  Nothing is assumed of the user or of the links.                  *)
(***************************************************************************)
Running(A) == ~halted /\ A

AppSection ==
  \/ Query \/ XmitNoBuffer \/ XmitTake \/ XmitSchedule
  \/ CleanupStop \/ CleanupClose \/ Exit

Fairness ==
  /\ WF_vars(Running(AppSection))
  /\ WF_vars(Running(Dma))
  /\ SF_vars(Running(XmitObtain))
  /\ SF_vars(Running(DmaObtain))

FairSpec == Spec /\ Fairness

----------------------------------------------------------------------------
(* Properties *)

AppInside == appPc \in {"take", "schedule"}
DmaInside == dmaPc \in {"device", "rx_prepare", "rx_recv", "rx_append",
                        "tx_reclaim", "tx_append", "tx_send"}

\* No command gets at anything behind devs[] unless devs[] is full and the command
\* names device nospw.
DevnoOK ==
  /\ devno \in 0 .. NoSpw
  /\ appPc \in {"query", "obtain", "take", "schedule"} => devno \in Dev
  /\ appPc = "close" => devno < NoSpw
  /\ appPc = "astray" => NoSpw = DevsMax /\ devno = NoSpw /\ halted

TypeOK ==
  /\ rx_list \in [Dev -> Seq(RxPkt)]
  /\ tx_list \in [Dev -> Seq(TxPkt)]
  /\ tx_buf_list \in [Dev -> Seq(TxPkt)]
  /\ rx_list_cnt \in [Dev -> Nat]
  /\ tx_list_cnt \in [Dev -> Nat]
  /\ tx_buf_list_cnt \in [Dev -> Int]
  /\ rxSched \in [Dev -> Seq(RxPkt)]
  /\ rxRecv \in [Dev -> Seq(RxPkt)]
  /\ txSched \in [Dev -> Seq(TxPkt)]
  /\ txSent \in [Dev -> Seq(TxPkt)]
  /\ chan \in [Dev -> {"running", "stopped", "closed"}]
  /\ dma_sem \in {0, 1}
  /\ tasks_stop \in {0, 1}
  /\ appPc \in {"read", "query", "astray", "obtain", "take", "schedule", "stop",
                "close", "exited"}
  /\ DevnoOK
  /\ appPc = "schedule" => pkt \in TxPkt
  /\ appPc # "schedule" => pkt = NULL
  /\ dmaPc \in {"loop", "obtain", "device", "rx_prepare", "rx_recv",
                "rx_append", "tx_reclaim", "tx_append", "tx_send", "deleted"}
  /\ dmaDev \in 0 .. NoSpw
  /\ DmaInside /\ dmaPc # "device" => dmaDev < NoSpw
  /\ dmaPc = "rx_append" => lst \in Seq(RxPkt)
  /\ dmaPc = "tx_append" => lst \in Seq(TxPkt)
  /\ dmaPc \notin {"rx_append", "tx_append"} => lst = <<>>
  /\ halted \in BOOLEAN

\* The packet lists are touched by one task at a time: test_app between its
\* obtain and release, dma_task between its own, never both.
ListsExclusive ==
  /\ ~ (AppInside /\ DmaInside)
  /\ AppInside \/ DmaInside => dma_sem = 0

\* Every list agrees with the counter kept beside it, whose value, and not the
\* list, decides whether dma_process calls the driver and with how many packets.
CountersMatch ==
  \A d \in Dev :
    /\ rx_list_cnt[d] = Len(rx_list[d])
    /\ tx_list_cnt[d] = Len(tx_list[d])
    /\ tx_buf_list_cnt[d] = Len(tx_buf_list[d])

\* The buffers of a device, oldest use first, over the places they can be in.
RxLst(d) == IF dmaPc = "rx_append" /\ dmaDev = d THEN lst ELSE <<>>
TxLst(d) == IF dmaPc = "tx_append" /\ dmaDev = d THEN lst ELSE <<>>
InHand(d) == IF appPc = "schedule" /\ devno = d THEN <<pkt>> ELSE <<>>

RxOrder(d) == RxLst(d) \o (rxRecv[d] \o (rxSched[d] \o rx_list[d]))
TxWire(d)  == TxLst(d) \o (txSent[d] \o txSched[d])
TxFree(d)  == InHand(d) \o tx_buf_list[d]
TxOrder(d) == TxWire(d) \o (tx_list[d] \o TxFree(d))

\* s is <<lo, ..., lo + n - 1>> rotated.
IsRing(s, lo, n) ==
  /\ Len(s) = n
  /\ \A i \in 1..n :
       /\ s[i] \in lo .. lo + n - 1
       /\ s[IF i = n THEN 1 ELSE i + 1] = IF s[i] = lo + n - 1 THEN lo ELSE s[i] + 1

\* No receive buffer is lost or used twice, whatever fails and whenever the
\* program quits: they go round in their first order, from rx_list to the
\* driver and back.
RxRing == \A d \in Dev : IsRing(RxOrder(d), 1, NRx)

\* The same of the transmit buffers: from tx_buf_list through command X, the
\* DMA task, the driver and back.  As the order is kept, packets leave in the
\* order of the commands.
TxRing == \A d \in Dev : IsRing(TxOrder(d), NRx + 1, NTx)

\* The transmit side is the three-stage circulation of SpwTransmit.
Transmit ==
  INSTANCE SpwTransmit WITH
    Buffers <- TxBuffers,
    free  <- [d \in Dev |-> TxFree(d)],
    queue <- [d \in Dev |-> tx_list[d]],
    wire  <- [d \in Dev |-> TxWire(d)]
TransmitSpec == Transmit!Spec

\* test_app went back to its loop without giving the semaphore back.
SemaphoreLost == dma_sem = 0 /\ ~AppInside /\ ~DmaInside
Over == tasks_stop = 1 \/ halted

\* A packet queued on a device that is served is handed to the driver, and a
\* transmit command, once typed, comes back to the command loop, unless the
\* program ends or the semaphore is lost.
WorkIsDone ==
  /\ \A d \in 0 .. NoSpw - 1 :
       tx_list[d] # <<>> ~> tx_list[d] = <<>> \/ Over \/ SemaphoreLost
  /\ appPc = "obtain" ~> appPc = "read" \/ Over \/ SemaphoreLost
=============================================================================
