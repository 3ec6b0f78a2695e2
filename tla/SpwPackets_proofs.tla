-------------------------- MODULE SpwPackets_proofs --------------------------
(* Proofs about SpwPackets, for every number of devices and of buffers. *)
EXTENDS SpwPackets, SequenceTheorems, TLAPS

USE SpwAssumption

LEMMA BuffersType ==
  /\ RxBuffers \in Seq(RxPkt) /\ Len(RxBuffers) = NRx
  /\ TxBuffers \in Seq(TxPkt) /\ Len(TxBuffers) = NTx
BY DEF RxBuffers, TxBuffers, RxPkt, TxPkt

\* The sequence operations the actions apply to a list.
LEMMA ListOps ==
  ASSUME NEW S, NEW s \in Seq(S), NEW t \in Seq(S)
  PROVE  /\ s \o t \in Seq(S)
         /\ Len(s \o t) = Len(s) + Len(t)
         /\ Len(s) \in Nat
         /\ \A x \in S : Append(s, x) \in Seq(S) /\ Len(Append(s, x)) = Len(s) + 1
         /\ s # <<>> => /\ Head(s) \in S
                       /\ Tail(s) \in Seq(S)
                       /\ Len(Tail(s)) = Len(s) - 1
         /\ <<>> \in Seq(S)
OBVIOUS

LEMMA DevType == NoSpw \in Nat \ {0} /\ 0 .. NoSpw - 1 \subseteq Dev /\ 0 \in Dev
BY DEF Dev

\* Both tasks stay within devs[], test_app between a command and its end, dma_task
\* in dma_process.
AppCalls == Query \/ XmitObtain \/ XmitNoBuffer \/ XmitTake \/ XmitSchedule \/ CleanupClose
DmaCalls ==
  \/ RxPrepare \/ RxFail \/ RxReceive \/ RxAppend
  \/ TxReclaim \/ TxFail \/ TxAppend \/ TxSend

LEMMA InDev ==
  ASSUME TypeOK
  PROVE  /\ AppCalls \/ CleanupStop => devno \in Dev
         /\ DmaCalls => dmaDev \in Dev
         /\ RxAppend => lst \in Seq(RxPkt)
         /\ TxAppend => lst \in Seq(TxPkt)
<1>1. DevnoOK /\ DevsMax \in Nat BY DEF TypeOK
<1>2. AppCalls => appPc \in {"query", "obtain", "take", "schedule", "close"}
  BY DEF AppCalls, Query, XmitObtain, XmitNoBuffer, XmitTake, XmitSchedule, CleanupClose
<1>3. CleanupStop => devno < NoSpw BY DEF CleanupStop
<1>4. AppCalls \/ CleanupStop => devno \in Dev
  BY <1>1, <1>2, <1>3, DevType DEF DevnoOK, Dev
<1>5. DmaCalls => DmaInside /\ dmaPc # "device"
  BY DEF DmaCalls, RxPrepare, RxFail, RxReceive, RxAppend, TxReclaim, TxFail, TxAppend,
         TxSend, DmaInside
<1>6. dmaDev \in 0 .. NoSpw /\ (DmaInside /\ dmaPc # "device" => dmaDev < NoSpw)
  BY DEF TypeOK
<1>7. DmaCalls => dmaDev \in Dev BY <1>5, <1>6, DevType DEF Dev
<1>8. (RxAppend => lst \in Seq(RxPkt)) /\ (TxAppend => lst \in Seq(TxPkt))
  BY DEF TypeOK, RxAppend, TxAppend
<1>9. QED BY <1>4, <1>7, <1>8

\* The actions that change a list and its counter keep their types.
LEMMA XmitTakeTypes ==
  ASSUME TypeOK, XmitTake
  PROVE  /\ pkt' \in TxPkt
         /\ tx_buf_list' \in [Dev -> Seq(TxPkt)]
         /\ tx_buf_list_cnt' \in [Dev -> Int]
<1>1. /\ tx_buf_list \in [Dev -> Seq(TxPkt)]
      /\ tx_buf_list_cnt \in [Dev -> Int]
      /\ devno \in Dev
  BY InDev DEF TypeOK, AppCalls, DmaCalls
<1>2. /\ tx_buf_list[devno] # <<>>
      /\ pkt' = Head(tx_buf_list[devno])
      /\ tx_buf_list' = [tx_buf_list EXCEPT ![devno] = Tail(@)]
      /\ tx_buf_list_cnt' = [tx_buf_list_cnt EXCEPT ![devno] = @ - 1]
  BY DEF XmitTake
<1>3. tx_buf_list[devno] \in Seq(TxPkt) BY <1>1
<1>4. /\ Head(tx_buf_list[devno]) \in TxPkt
      /\ Tail(tx_buf_list[devno]) \in Seq(TxPkt)
  BY <1>2, <1>3
<1>5. QED BY <1>1, <1>2, <1>4

LEMMA XmitScheduleTypes ==
  ASSUME TypeOK, XmitSchedule
  PROVE  tx_list' \in [Dev -> Seq(TxPkt)] /\ tx_list_cnt' \in [Dev -> Nat]
<1>1. /\ tx_list \in [Dev -> Seq(TxPkt)]
      /\ tx_list_cnt \in [Dev -> Nat]
      /\ devno \in Dev
      /\ pkt \in TxPkt
  <2>1. devno \in Dev BY InDev DEF AppCalls
  <2>2. pkt \in TxPkt BY DEF TypeOK, XmitSchedule
  <2>3. QED BY <2>1, <2>2 DEF TypeOK
<1>2. /\ tx_list' = [tx_list EXCEPT ![devno] = Append(@, pkt)]
      /\ tx_list_cnt' = [tx_list_cnt EXCEPT ![devno] = @ + 1]
  BY DEF XmitSchedule
<1>3. Append(tx_list[devno], pkt) \in Seq(TxPkt) BY <1>1
<1>4. QED BY <1>1, <1>2, <1>3

LEMMA RxPrepareTypes ==
  ASSUME TypeOK, RxPrepare
  PROVE  /\ rxSched' \in [Dev -> Seq(RxPkt)]
         /\ rx_list' \in [Dev -> Seq(RxPkt)]
         /\ rx_list_cnt' \in [Dev -> Nat]
<1>1. /\ rxSched \in [Dev -> Seq(RxPkt)]
      /\ rx_list \in [Dev -> Seq(RxPkt)]
      /\ rx_list_cnt \in [Dev -> Nat]
      /\ dmaDev \in Dev
  BY InDev DEF TypeOK, AppCalls, DmaCalls
<1>2. \/ UNCHANGED <<rxSched, rx_list, rx_list_cnt>>
      \/ /\ rxSched' = [rxSched EXCEPT ![dmaDev] = @ \o rx_list[dmaDev]]
         /\ rx_list' = [rx_list EXCEPT ![dmaDev] = <<>>]
         /\ rx_list_cnt' = [rx_list_cnt EXCEPT ![dmaDev] = 0]
  BY DEF RxPrepare
<1>3. rxSched[dmaDev] \o rx_list[dmaDev] \in Seq(RxPkt) /\ <<>> \in Seq(RxPkt)
  BY <1>1, ListOps
<1>4. CASE UNCHANGED <<rxSched, rx_list, rx_list_cnt>> BY <1>1, <1>4
<1>5. CASE rx_list' = [rx_list EXCEPT ![dmaDev] = <<>>] /\
          rxSched' = [rxSched EXCEPT ![dmaDev] = @ \o rx_list[dmaDev]] /\
          rx_list_cnt' = [rx_list_cnt EXCEPT ![dmaDev] = 0]
  BY <1>1, <1>3, <1>5
<1>6. QED BY <1>2, <1>4, <1>5

LEMMA TxSendTypes ==
  ASSUME TypeOK, TxSend
  PROVE  /\ txSched' \in [Dev -> Seq(TxPkt)]
         /\ tx_list' \in [Dev -> Seq(TxPkt)]
         /\ tx_list_cnt' \in [Dev -> Nat]
<1>1. /\ txSched \in [Dev -> Seq(TxPkt)]
      /\ tx_list \in [Dev -> Seq(TxPkt)]
      /\ tx_list_cnt \in [Dev -> Nat]
      /\ dmaDev \in Dev
  BY InDev DEF TypeOK, AppCalls, DmaCalls
<1>2. \/ UNCHANGED <<txSched, tx_list, tx_list_cnt>>
      \/ /\ txSched' = [txSched EXCEPT ![dmaDev] = @ \o tx_list[dmaDev]]
         /\ tx_list' = [tx_list EXCEPT ![dmaDev] = <<>>]
         /\ tx_list_cnt' = [tx_list_cnt EXCEPT ![dmaDev] = 0]
  BY DEF TxSend
<1>3. txSched[dmaDev] \o tx_list[dmaDev] \in Seq(TxPkt) /\ <<>> \in Seq(TxPkt)
  BY <1>1, ListOps
<1>4. CASE UNCHANGED <<txSched, tx_list, tx_list_cnt>> BY <1>1, <1>4
<1>5. CASE tx_list' = [tx_list EXCEPT ![dmaDev] = <<>>] /\
          txSched' = [txSched EXCEPT ![dmaDev] = @ \o tx_list[dmaDev]] /\
          tx_list_cnt' = [tx_list_cnt EXCEPT ![dmaDev] = 0]
  BY <1>1, <1>3, <1>5
<1>6. QED BY <1>2, <1>4, <1>5

LEMMA RxAppendTypes ==
  ASSUME TypeOK, RxAppend
  PROVE  rx_list' \in [Dev -> Seq(RxPkt)] /\ rx_list_cnt' \in [Dev -> Nat]
<1>1. /\ rx_list \in [Dev -> Seq(RxPkt)]
      /\ rx_list_cnt \in [Dev -> Nat]
      /\ dmaDev \in Dev
      /\ lst \in Seq(RxPkt)
  BY InDev DEF TypeOK, DmaCalls
<1>2. /\ rx_list' = [rx_list EXCEPT ![dmaDev] = @ \o lst]
      /\ rx_list_cnt' = [rx_list_cnt EXCEPT ![dmaDev] = @ + Len(lst)]
  BY DEF RxAppend
<1>3. rx_list[dmaDev] \o lst \in Seq(RxPkt) /\ Len(lst) \in Nat
  BY <1>1, ListOps
<1>4. QED BY <1>1, <1>2, <1>3

LEMMA TxAppendTypes ==
  ASSUME TypeOK, TxAppend
  PROVE  tx_buf_list' \in [Dev -> Seq(TxPkt)] /\ tx_buf_list_cnt' \in [Dev -> Int]
<1>1. /\ tx_buf_list \in [Dev -> Seq(TxPkt)]
      /\ tx_buf_list_cnt \in [Dev -> Int]
      /\ dmaDev \in Dev
      /\ lst \in Seq(TxPkt)
  BY InDev DEF TypeOK, DmaCalls
<1>2. /\ tx_buf_list' = [tx_buf_list EXCEPT ![dmaDev] = @ \o lst]
      /\ tx_buf_list_cnt' = [tx_buf_list_cnt EXCEPT ![dmaDev] = @ + Len(lst)]
  BY DEF TxAppend
<1>3. tx_buf_list[dmaDev] \o lst \in Seq(TxPkt) /\ Len(lst) \in Nat
  BY <1>1, ListOps
<1>4. QED BY <1>1, <1>2, <1>3

\* What test_app works on is in devs[].
LEMMA DevnoKept == ASSUME TypeOK, [Next]_vars PROVE DevnoOK'
<1>1. DevnoOK /\ DevsMax \in Nat BY DEF TypeOK
<1> USE DEF DevnoOK, Dev
<1>2. CASE UNCHANGED <<appPc, devno, halted>> BY <1>1, <1>2
<1>3. CASE ReadQuery \/ ReadXmit BY <1>1, <1>3 DEF ReadQuery, ReadXmit, ValidDevno
<1>4. CASE ReadAstray BY <1>1, <1>4 DEF ReadAstray, ValidDevno
<1>5. CASE XmitObtain \/ XmitTake \/ XmitSchedule \/ XmitNoBuffer \/ Query
  BY <1>1, <1>5 DEF XmitObtain, XmitTake, XmitSchedule, XmitNoBuffer, Query
<1>6. CASE Quit \/ CleanupStop \/ CleanupClose \/ Exit
  <2>1. CASE Quit BY <1>1, <2>1 DEF Quit
  <2>2. CASE CleanupStop BY <1>1, <2>2 DEF CleanupStop
  <2>3. CASE CleanupClose BY <1>1, <2>3 DEF CleanupClose
  <2>4. CASE Exit BY <1>1, <2>4 DEF Exit
  <2>5. QED BY <1>6, <2>1, <2>2, <2>3, <2>4
<1>7. CASE ~halted /\ (Dma \/ Link)
  <2>1. UNCHANGED <<appPc, devno>> BY <1>7 DEF Dma, DmaLoop, DmaObtain, DmaDevice,
     DmaRelease, RxPrepare, RxFail, RxReceive, RxAppend, TxReclaim, TxFail, TxAppend,
     TxSend, Link, LinkReceive, LinkTransmit, appVars
  <2>2. appPc # "astray" BY <1>1, <1>7
  <2>3. QED BY <1>1, <2>1, <2>2
<1>8. QED BY <1>2, <1>3, <1>4, <1>5, <1>6, <1>7 DEF Next, App, vars, appVars

\* Every variable keeps its type, and a list its kind of packet.
THEOREM TypeCorrect == Spec => []TypeOK
<1>1. Init => TypeOK
  <2> SUFFICES ASSUME Init PROVE TypeOK
    OBVIOUS
  <2>1. <<>> \in Seq(RxPkt) /\ <<>> \in Seq(TxPkt) /\ NRx \in Nat /\ NTx \in Nat
    OBVIOUS
  <2>2. DevnoOK BY DEF Init, DevnoOK
  <2>3. dmaDev \in 0 .. NoSpw BY DevType DEF Init
  <2>4. /\ rx_list \in [Dev -> Seq(RxPkt)] /\ rx_list_cnt \in [Dev -> Nat]
        /\ tx_list \in [Dev -> Seq(TxPkt)] /\ tx_list_cnt \in [Dev -> Nat]
        /\ tx_buf_list \in [Dev -> Seq(TxPkt)] /\ tx_buf_list_cnt \in [Dev -> Int]
    BY <2>1, BuffersType DEF Init
  <2>5. /\ rxSched \in [Dev -> Seq(RxPkt)] /\ rxRecv \in [Dev -> Seq(RxPkt)]
        /\ txSched \in [Dev -> Seq(TxPkt)] /\ txSent \in [Dev -> Seq(TxPkt)]
        /\ chan \in [Dev -> {"running", "stopped", "closed"}]
    BY <2>1 DEF Init
  <2>6. QED BY <2>2, <2>3, <2>4, <2>5 DEF Init, TypeOK, DmaInside
<1>2. TypeOK /\ [Next]_vars => TypeOK'
  <2> SUFFICES ASSUME TypeOK, [Next]_vars PROVE TypeOK'
    OBVIOUS
  <2>0. DevnoOK' BY DevnoKept
  <2> USE <2>0 DEF TypeOK, DmaInside, lists, driver, appVars, dmaVars
  <2>1. CASE ReadQuery BY <2>1 DEF ReadQuery
  <2>2. CASE Query BY <2>2 DEF Query
  <2>3. CASE ReadXmit \/ ReadAstray BY <2>3 DEF ReadXmit, ReadAstray
  <2>4. CASE XmitObtain BY <2>4 DEF XmitObtain
  <2>5. CASE XmitNoBuffer BY <2>5 DEF XmitNoBuffer
  <2>6. CASE XmitTake BY <2>6, XmitTakeTypes DEF XmitTake
  <2>7. CASE XmitSchedule BY <2>7, XmitScheduleTypes DEF XmitSchedule, NULL
  <2>8. CASE Quit BY <2>8 DEF Quit
  <2>9. CASE CleanupStop
    <3>1. devno \in Dev BY <2>9, InDev
    <3>2. /\ rxRecv[devno] \o rxSched[devno] \in Seq(RxPkt)
          /\ txSent[devno] \o txSched[devno] \in Seq(TxPkt)
      BY <3>1, ListOps
    <3>3. QED BY <2>9, <3>1, <3>2 DEF CleanupStop
  <2>10. CASE CleanupClose BY <2>10 DEF CleanupClose, Dev
  <2>11. CASE Exit BY <2>11 DEF Exit
  <2>12. CASE DmaLoop BY <2>12 DEF DmaLoop
  <2>13. CASE DmaObtain BY <2>13 DEF DmaObtain
  <2>14. CASE DmaDevice BY <2>14 DEF DmaDevice
  <2>15. CASE DmaRelease BY <2>15 DEF DmaRelease
  <2>16. CASE RxPrepare BY <2>16, RxPrepareTypes DEF RxPrepare
  <2>17. CASE RxFail BY <2>17 DEF RxFail, Return
  <2>18. CASE RxReceive
    <3>1. dmaDev \in Dev BY <2>18, InDev DEF DmaCalls
    <3>2. QED BY <2>18, <3>1, ListOps DEF RxReceive
  <2>19. CASE RxAppend BY <2>19, RxAppendTypes DEF RxAppend
  <2>20. CASE TxReclaim
    <3>1. dmaDev \in Dev BY <2>20, InDev DEF DmaCalls
    <3>2. QED BY <2>20, <3>1, ListOps DEF TxReclaim
  <2>21. CASE TxFail BY <2>21 DEF TxFail
  <2>22. CASE TxAppend BY <2>22, TxAppendTypes DEF TxAppend
  <2>23. CASE TxSend
    <3>1. dmaPc' = "device" /\ dmaDev' \in 0 .. NoSpw
      BY <2>23, DevType DEF TxSend, Return
    <3>2. QED BY <2>23, <3>1, TxSendTypes DEF TxSend
  <2>24. ASSUME NEW d \in Dev, LinkReceive(d) PROVE TypeOK'
    <3>1. /\ Append(rxRecv[d], Head(rxSched[d])) \in Seq(RxPkt)
          /\ Tail(rxSched[d]) \in Seq(RxPkt)
      BY <2>24, ListOps DEF LinkReceive
    <3>2. rxRecv' \in [Dev -> Seq(RxPkt)] /\ rxSched' \in [Dev -> Seq(RxPkt)]
      BY <2>24, <3>1 DEF LinkReceive
    <3>3. UNCHANGED <<lists, txSched, txSent, chan, dma_sem, appVars, dmaVars, halted>>
      BY <2>24 DEF LinkReceive
    <3>4. QED BY <3>2, <3>3, SMTT(30)
  <2>25. ASSUME NEW d \in Dev, LinkTransmit(d) PROVE TypeOK'
    <3>1. /\ Append(txSent[d], Head(txSched[d])) \in Seq(TxPkt)
          /\ Tail(txSched[d]) \in Seq(TxPkt)
      BY <2>25, ListOps DEF LinkTransmit
    <3>2. txSent' \in [Dev -> Seq(TxPkt)] /\ txSched' \in [Dev -> Seq(TxPkt)]
      BY <2>25, <3>1 DEF LinkTransmit
    <3>3. UNCHANGED <<lists, rxSched, rxRecv, chan, dma_sem, appVars, dmaVars, halted>>
      BY <2>25 DEF LinkTransmit
    <3>4. QED BY <3>2, <3>3, SMTT(30)
  <2>26. CASE UNCHANGED vars BY <2>26 DEF vars
  <2>27. QED
    BY <2>1, <2>2, <2>3, <2>4, <2>5, <2>6, <2>7, <2>8, <2>9, <2>10, <2>11,
       <2>12, <2>13, <2>14, <2>15, <2>16, <2>17, <2>18, <2>19, <2>20, <2>21,
       <2>22, <2>23, <2>24, <2>25, <2>26 DEF Next, App, Dma, Link
<1>3. QED BY <1>1, <1>2, PTL DEF Spec

\* test_app and dma_task are never both between obtain and release.
THEOREM Exclusion == Spec => []ListsExclusive
<1>1. Init => ListsExclusive
  BY DEF Init, ListsExclusive, AppInside, DmaInside
<1>2. ListsExclusive /\ [Next]_vars => ListsExclusive'
  <2> SUFFICES ASSUME ListsExclusive, [Next]_vars PROVE ListsExclusive'
    OBVIOUS
  <2> USE DEF ListsExclusive, AppInside, DmaInside, appVars, dmaVars
  <2>1. CASE App
    <3>1. CASE ReadQuery BY <3>1 DEF ReadQuery
    <3>2. CASE Query BY <3>2 DEF Query
    <3>3. CASE ReadXmit \/ ReadAstray BY <3>3 DEF ReadXmit, ReadAstray
    <3>4. CASE XmitObtain BY <3>4 DEF XmitObtain
    <3>5. CASE XmitNoBuffer BY <3>5 DEF XmitNoBuffer
    <3>6. CASE XmitTake BY <3>6 DEF XmitTake
    <3>7. CASE XmitSchedule BY <3>7 DEF XmitSchedule
    <3>8. CASE Quit BY <3>8 DEF Quit
    <3>9. CASE CleanupStop BY <3>9 DEF CleanupStop
    <3>10. CASE CleanupClose BY <3>10 DEF CleanupClose
    <3>11. CASE Exit BY <3>11 DEF Exit
    <3>12. QED
      BY <2>1, <3>1, <3>2, <3>3, <3>4, <3>5, <3>6, <3>7, <3>8, <3>9, <3>10,
         <3>11 DEF App
  <2>2. CASE Dma
    <3>1. CASE DmaLoop BY <3>1 DEF DmaLoop, Return
    <3>2. CASE DmaObtain BY <3>2 DEF DmaObtain, Return
    <3>3. CASE DmaDevice BY <3>3 DEF DmaDevice, Return
    <3>4. CASE DmaRelease BY <3>4 DEF DmaRelease, Return
    <3>5. CASE RxPrepare BY <3>5 DEF RxPrepare, Return
    <3>6. CASE RxFail BY <3>6 DEF RxFail, Return
    <3>7. CASE RxReceive BY <3>7 DEF RxReceive, Return
    <3>8. CASE RxAppend BY <3>8 DEF RxAppend, Return
    <3>9. CASE TxReclaim BY <3>9 DEF TxReclaim, Return
    <3>10. CASE TxFail BY <3>10 DEF TxFail, Return
    <3>11. CASE TxAppend BY <3>11 DEF TxAppend, Return
    <3>12. CASE TxSend BY <3>12 DEF TxSend, Return
    <3>13. QED
      BY <2>2, <3>1, <3>2, <3>3, <3>4, <3>5, <3>6, <3>7, <3>8, <3>9, <3>10,
         <3>11, <3>12 DEF Dma
  <2>3. CASE Link BY <2>3 DEF Link, LinkReceive, LinkTransmit
  <2>4. CASE UNCHANGED vars BY <2>4 DEF vars
  <2>5. QED BY <2>1, <2>2, <2>3, <2>4 DEF Next
<1>3. QED BY <1>1, <1>2, PTL DEF Spec

\* A list and its counter that are updated together stay in agreement.
LEMMA CounterUpdates ==
  ASSUME NEW S, NEW l \in [Dev -> Seq(S)], NEW c \in [Dev -> Int], NEW x \in Dev,
         \A d \in Dev : c[d] = Len(l[d])
  PROVE  /\ \A p \in S, d \in Dev :
              [c EXCEPT ![x] = @ + 1][d] = Len([l EXCEPT ![x] = Append(@, p)][d])
         /\ \A t \in Seq(S), d \in Dev :
              [c EXCEPT ![x] = @ + Len(t)][d] = Len([l EXCEPT ![x] = @ \o t][d])
         /\ \A d \in Dev : [c EXCEPT ![x] = 0][d] = Len([l EXCEPT ![x] = <<>>][d])
         /\ l[x] # <<>> =>
              \A d \in Dev : [c EXCEPT ![x] = @ - 1][d] = Len([l EXCEPT ![x] = Tail(@)][d])
<1>1. \A p \in S : Len(Append(l[x], p)) = Len(l[x]) + 1 OBVIOUS
<1>2. \A t \in Seq(S) : Len(l[x] \o t) = Len(l[x]) + Len(t) OBVIOUS
<1>3. l[x] # <<>> => Len(Tail(l[x])) = Len(l[x]) - 1 OBVIOUS
<1>4. Len(<<>>) = 0 OBVIOUS
<1>5. QED BY <1>1, <1>2, <1>3, <1>4

LEMMA CountersInductive ==
  ASSUME TypeOK, CountersMatch, [Next]_vars
  PROVE  CountersMatch'
<1> DEFINE RxOK == \A d \in Dev : rx_list_cnt[d] = Len(rx_list[d])
           TxOK == \A d \in Dev : tx_list_cnt[d] = Len(tx_list[d])
           BufOK == \A d \in Dev : tx_buf_list_cnt[d] = Len(tx_buf_list[d])
<1>1. RxOK /\ TxOK /\ BufOK BY DEF CountersMatch
<1>2. /\ rx_list \in [Dev -> Seq(RxPkt)] /\ rx_list_cnt \in [Dev -> Int]
      /\ tx_list \in [Dev -> Seq(TxPkt)] /\ tx_list_cnt \in [Dev -> Int]
      /\ tx_buf_list \in [Dev -> Seq(TxPkt)] /\ tx_buf_list_cnt \in [Dev -> Int]
  <2>1. rx_list_cnt \in [Dev -> Nat] /\ tx_list_cnt \in [Dev -> Nat] BY DEF TypeOK
  <2>2. rx_list_cnt \in [Dev -> Int] /\ tx_list_cnt \in [Dev -> Int] BY <2>1
  <2>3. QED BY <2>2 DEF TypeOK
<1>3. CASE XmitTake
  <2>0. devno \in Dev BY <1>3, InDev DEF AppCalls
  <2>1. BufOK' BY <1>1, <1>2, <2>0, <1>3, CounterUpdates DEF XmitTake
  <2>2. RxOK' /\ TxOK' BY <1>1, <1>3 DEF XmitTake
  <2>3. QED BY <2>1, <2>2 DEF CountersMatch
<1>4. CASE XmitSchedule
  <2>0. devno \in Dev BY <1>4, InDev DEF AppCalls
  <2>1. pkt \in TxPkt BY <1>4 DEF XmitSchedule, TypeOK
  <2>2. TxOK' BY <1>1, <1>2, <2>0, <1>4, <2>1, CounterUpdates DEF XmitSchedule
  <2>3. RxOK' /\ BufOK' BY <1>1, <1>4 DEF XmitSchedule
  <2>4. QED BY <2>2, <2>3 DEF CountersMatch
<1>5. CASE RxPrepare
  <2>0. dmaDev \in Dev BY <1>5, InDev DEF DmaCalls
  <2>1. RxOK'
    <3>1. CASE UNCHANGED <<rx_list, rx_list_cnt>> BY <1>1, <3>1
    <3>2. CASE /\ rx_list' = [rx_list EXCEPT ![dmaDev] = <<>>]
               /\ rx_list_cnt' = [rx_list_cnt EXCEPT ![dmaDev] = 0]
      BY <1>1, <1>2, <2>0, <3>2, CounterUpdates
    <3>3. QED BY <1>5, <3>1, <3>2 DEF RxPrepare
  <2>2. TxOK' /\ BufOK' BY <1>1, <1>5 DEF RxPrepare
  <2>3. QED BY <2>1, <2>2 DEF CountersMatch
<1>6. CASE RxAppend
  <2>0. dmaDev \in Dev BY <1>6, InDev DEF DmaCalls
  <2>1. lst \in Seq(RxPkt) BY <1>6 DEF RxAppend, TypeOK
  <2>2. RxOK' BY <1>1, <1>2, <2>0, <1>6, <2>1, CounterUpdates DEF RxAppend
  <2>3. TxOK' /\ BufOK' BY <1>1, <1>6 DEF RxAppend
  <2>4. QED BY <2>2, <2>3 DEF CountersMatch
<1>7. CASE TxAppend
  <2>0. dmaDev \in Dev BY <1>7, InDev DEF DmaCalls
  <2>1. lst \in Seq(TxPkt) BY <1>7 DEF TxAppend, TypeOK
  <2>2. BufOK' BY <1>1, <1>2, <2>0, <1>7, <2>1, CounterUpdates DEF TxAppend
  <2>3. RxOK' /\ TxOK' BY <1>1, <1>7 DEF TxAppend
  <2>4. QED BY <2>2, <2>3 DEF CountersMatch
<1>8. CASE TxSend
  <2>0. dmaDev \in Dev BY <1>8, InDev DEF DmaCalls
  <2>1. TxOK'
    <3>1. CASE UNCHANGED <<tx_list, tx_list_cnt>> BY <1>1, <3>1
    <3>2. CASE /\ tx_list' = [tx_list EXCEPT ![dmaDev] = <<>>]
               /\ tx_list_cnt' = [tx_list_cnt EXCEPT ![dmaDev] = 0]
      BY <1>1, <1>2, <2>0, <3>2, CounterUpdates
    <3>3. QED BY <1>8, <3>1, <3>2 DEF TxSend
  <2>2. RxOK' /\ BufOK' BY <1>1, <1>8 DEF TxSend
  <2>3. QED BY <2>1, <2>2 DEF CountersMatch
<1>9. CASE UNCHANGED lists BY <1>9 DEF lists, CountersMatch
<1>10. (App /\ ~XmitTake /\ ~XmitSchedule) => UNCHANGED lists
  BY DEF App, ReadQuery, Query, ReadAstray, ReadXmit, XmitObtain, XmitNoBuffer, Quit,
         CleanupStop, CleanupClose, Exit
<1>11. (Dma /\ ~RxPrepare /\ ~RxAppend /\ ~TxAppend /\ ~TxSend) => UNCHANGED lists
  BY DEF Dma, DmaLoop, DmaObtain, DmaDevice, DmaRelease, RxFail, RxReceive,
         TxReclaim, TxFail
<1>12. Link \/ UNCHANGED vars => UNCHANGED lists
  BY DEF Link, LinkReceive, LinkTransmit, vars
<1>13. QED
  BY <1>3, <1>4, <1>5, <1>6, <1>7, <1>8, <1>9, <1>10, <1>11, <1>12 DEF Next

\* The counters dma_process trusts always agree with the lists.
THEOREM Counters == Spec => []CountersMatch
<1>1. Init => CountersMatch
  <2>1. Len(RxBuffers) = NRx /\ Len(TxBuffers) = NTx /\ Len(<<>>) = 0
    BY BuffersType
  <2>2. QED BY <2>1 DEF Init, CountersMatch
<1>2. TypeOK /\ CountersMatch /\ [Next]_vars => CountersMatch'
  BY CountersInductive
<1>3. QED BY <1>1, <1>2, TypeCorrect, PTL DEF Spec

----------------------------------------------------------------------------
(* The circulation of the buffers: the transmit side implements            *)
(* SpwTransmit, and no buffer is lost, duplicated or overtaken.            *)

HIDE SpwAssumption

LEMMA HeadTailConcat ==
  ASSUME NEW S, NEW s \in Seq(S), s # <<>>
  PROVE  <<Head(s)>> \o Tail(s) = s
<1>1. /\ Head(s) \in S /\ Tail(s) \in Seq(S)
      /\ Len(Tail(s)) = Len(s) - 1
      /\ \A i \in 1 .. Len(Tail(s)) : Tail(s)[i] = s[i + 1]
  BY HeadTailProperties
<1>2. <<Head(s)>> \in Seq(S) /\ Len(<<Head(s)>>) = 1 /\ Len(s) \in Nat \ {0}
  BY <1>1, EmptySeq
<1>3. DEFINE t == <<Head(s)>> \o Tail(s)
<1>4. /\ t \in Seq(S) /\ Len(t) = Len(s)
      /\ \A i \in 1 .. Len(s) : t[i] = IF i <= 1 THEN <<Head(s)>>[i] ELSE Tail(s)[i - 1]
  BY <1>1, <1>2, ConcatProperties
<1>5. \A i \in 1 .. Len(s) : t[i] = s[i]
  <2> TAKE i \in 1 .. Len(s)
  <2>1. CASE i = 1 BY <2>1, <1>4, <1>2
  <2>2. CASE i # 1
    <3>1. i - 1 \in 1 .. Len(Tail(s)) BY <2>2, <1>1, <1>2
    <3>2. Tail(s)[i - 1] = s[(i - 1) + 1] BY <3>1, <1>1
    <3>3. QED BY <3>2, <2>2, <1>4
  <2>3. QED BY <2>1, <2>2
<1>6. QED BY <1>4, <1>5, SeqEqual

\* The library's facts on \o, for the lists of one set of packets.
LEMMA Concat ==
  ASSUME NEW S
  PROVE  /\ \A s, t \in Seq(S) :
              s \o t \in Seq(S) /\ Len(s \o t) = Len(s) + Len(t)
         /\ \A s \in Seq(S) : s \o <<>> = s /\ <<>> \o s = s
         /\ \A s, t, u \in Seq(S) : (s \o t) \o u = s \o (t \o u)
BY ConcatProperties, ConcatEmptySeq, ConcatAssociative

LEMMA TxAssoc ==
  \A s, t, u \in Seq(TxPkt) : (s \o t) \o u = s \o (t \o u)
BY Concat

\* A concatenation is cut where its first part ends.
LEMMA Cut ==
  ASSUME NEW S, NEW s \in Seq(S), NEW t \in Seq(S), s # <<>>
  PROVE  /\ Len(s) \in 1 .. Len(s \o t)
         /\ SubSeq(s \o t, 1, Len(s)) = s
         /\ SubSeq(s \o t, Len(s) + 1, Len(s \o t)) = t
<1>1. /\ Len(s) \in Nat \ {0} /\ Len(t) \in Nat /\ Len(s \o t) = Len(s) + Len(t)
      /\ \A i \in 1 .. Len(s) + Len(t) :
           (s \o t)[i] = IF i <= Len(s) THEN s[i] ELSE t[i - Len(s)]
  BY ConcatProperties, LenProperties, EmptySeq
<1>2. SubSeq(s \o t, 1, Len(s)) = s
  BY <1>1, SubSeqOfConcat1, SubSeqFull
<1>3. SubSeq(s \o t, Len(s) + 1, Len(s \o t)) = t
  <2>1. CASE Len(t) = 0
    BY <1>1, <2>1, SubSeqEmpty, EmptySeq
  <2>2. CASE Len(t) > 0
    <3>1. SubSeq(s \o t, Len(s) + 1, Len(s) + Len(t))
            = SubSeq(t, (Len(s) + 1) - Len(s), (Len(s) + Len(t)) - Len(s))
      BY <1>1, <2>2, SubSeqOfConcat2
    <3>2. (Len(s) + 1) - Len(s) = 1 /\ (Len(s) + Len(t)) - Len(s) = Len(t)
      BY <1>1
    <3>3. QED BY <1>1, <3>1, <3>2, SubSeqFull
  <2>3. QED BY <1>1, <2>1, <2>2
<1>4. QED BY <1>1, <1>2, <1>3

\* Moving the head of one stage to the end of the one before it.
LEMMA MoveHead ==
  ASSUME NEW S, NEW s \in Seq(S), NEW t \in Seq(S), t # <<>>
  PROVE  Append(s, Head(t)) \o Tail(t) = s \o t
<1>1. Head(t) \in S /\ Tail(t) \in Seq(S) /\ <<Head(t)>> \in Seq(S)
  BY HeadTailProperties
<1>2. Append(s, Head(t)) = s \o <<Head(t)>> BY <1>1, AppendIsConcat
<1>3. (s \o <<Head(t)>>) \o Tail(t) = s \o (<<Head(t)>> \o Tail(t))
  BY <1>1, ConcatAssociative
<1>4. QED BY <1>2, <1>3, HeadTailConcat

\* A rotation of a ring is a ring.
LEMMA RingRotates ==
  ASSUME NEW S, NEW s \in Seq(S), NEW t \in Seq(S), NEW lo \in Nat, NEW n \in Nat,
         IsRing(s \o t, lo, n)
  PROVE  IsRing(t \o s, lo, n)
<1> DEFINE a == Len(s)
           b == Len(t)
           st == s \o t
           ts == t \o s
<1>1. a \in Nat /\ b \in Nat /\ Len(st) = a + b /\ Len(ts) = a + b /\ n = a + b
  BY ConcatProperties, LenProperties DEF IsRing
<1>2. \A i \in 1 .. n : st[i] = IF i <= a THEN s[i] ELSE t[i - a]
  BY <1>1, ConcatProperties
<1>3. \A i \in 1 .. n : ts[i] = IF i <= b THEN t[i] ELSE s[i - b]
  BY <1>1, ConcatProperties
<1> DEFINE at(i) == IF i <= b THEN i + a ELSE i - b
<1>4. \A i \in 1 .. n : at(i) \in 1 .. n /\ ts[i] = st[at(i)]
  BY <1>1, <1>2, <1>3
<1>5. ASSUME NEW i \in 1 .. n
      PROVE  at(IF i = n THEN 1 ELSE i + 1) = IF at(i) = n THEN 1 ELSE at(i) + 1
  BY <1>1, <1>5
<1>6. \A i \in 1 .. n :
        /\ st[i] \in lo .. lo + n - 1
        /\ st[IF i = n THEN 1 ELSE i + 1] = IF st[i] = lo + n - 1 THEN lo ELSE st[i] + 1
  BY DEF IsRing
<1>7. ASSUME NEW i \in 1 .. n
      PROVE  /\ ts[i] \in lo .. lo + n - 1
             /\ ts[IF i = n THEN 1 ELSE i + 1] = IF ts[i] = lo + n - 1 THEN lo ELSE ts[i] + 1
  <2>1. (IF i = n THEN 1 ELSE i + 1) \in 1 .. n BY <1>1, <1>7
  <2>2. ts[IF i = n THEN 1 ELSE i + 1] = st[at(IF i = n THEN 1 ELSE i + 1)]
    BY <2>1, <1>4
  <2>3. ts[i] = st[at(i)] /\ at(i) \in 1 .. n BY <1>4
  <2>4. st[at(IF i = n THEN 1 ELSE i + 1)] = st[IF at(i) = n THEN 1 ELSE at(i) + 1]
    BY <1>5
  <2> HIDE DEF at, st, ts
  <2>5. QED BY <2>2, <2>3, <2>4, <1>6
<1>8. QED BY <1>1, <1>7 DEF IsRing
-----------------------------------------------------------------------------
(* What a step does to the transmit stages of one device: a step of        *)
(* SpwTransmit there, or nothing.                                          *)

Same(d) ==
  TxFree(d)' = TxFree(d) /\ tx_list'[d] = tx_list[d] /\ TxWire(d)' = TxWire(d)

Submits(d) ==
  /\ TxFree(d) # <<>>
  /\ tx_list'[d] = Append(tx_list[d], Head(TxFree(d)))
  /\ TxFree(d)' = Tail(TxFree(d))
  /\ TxWire(d)' = TxWire(d)

Hands(d) ==
  /\ tx_list[d] # <<>>
  /\ TxWire(d)' = TxWire(d) \o tx_list[d]
  /\ tx_list'[d] = <<>>
  /\ TxFree(d)' = TxFree(d)

Reclaims(d) ==
  \E n \in 1 .. Len(TxWire(d)) :
    /\ TxFree(d)' = TxFree(d) \o SubSeq(TxWire(d), 1, n)
    /\ TxWire(d)' = SubSeq(TxWire(d), n + 1, Len(TxWire(d)))
    /\ tx_list'[d] = tx_list[d]

AllSame == \A d \in Dev : Same(d)
OthersSame(x) == \A d \in Dev \ {x} : Same(d)

LEMMA StageTypes ==
  ASSUME TypeOK, NEW d \in Dev
  PROVE  /\ TxFree(d) \in Seq(TxPkt) /\ TxWire(d) \in Seq(TxPkt)
         /\ tx_list[d] \in Seq(TxPkt)
         /\ TxLst(d) \in Seq(TxPkt) /\ InHand(d) \in Seq(TxPkt)
         /\ tx_buf_list[d] \in Seq(TxPkt)
         /\ txSent[d] \in Seq(TxPkt) /\ txSched[d] \in Seq(TxPkt)
<1>1. /\ tx_list[d] \in Seq(TxPkt) /\ tx_buf_list[d] \in Seq(TxPkt)
      /\ txSent[d] \in Seq(TxPkt) /\ txSched[d] \in Seq(TxPkt)
  BY DEF TypeOK
<1>2. TxLst(d) \in Seq(TxPkt) BY EmptySeq DEF TypeOK, TxLst
<1>3. InHand(d) \in Seq(TxPkt) BY EmptySeq DEF TypeOK, InHand
<1>4. QED BY <1>1, <1>2, <1>3, ConcatProperties DEF TxFree, TxWire

LEMMA StagesAssoc ==
  ASSUME TypeOK, NEW d \in Dev
  PROVE  /\ txSent[d] \o (txSched[d] \o tx_list[d]) = (txSent[d] \o txSched[d]) \o tx_list[d]
         /\ \A s \in Seq(TxPkt) :
              (InHand(d) \o tx_buf_list[d]) \o s = InHand(d) \o (tx_buf_list[d] \o s)
<1>1. /\ InHand(d) \in Seq(TxPkt) /\ tx_buf_list[d] \in Seq(TxPkt)
      /\ txSent[d] \in Seq(TxPkt) /\ txSched[d] \in Seq(TxPkt)
      /\ tx_list[d] \in Seq(TxPkt)
  BY StageTypes
<1>2. QED BY <1>1, TxAssoc

\* The actions that touch no transmit stage.
LEMMA OtherActions ==
  ASSUME TypeOK,
         \/ ReadQuery \/ Query \/ ReadAstray \/ ReadXmit \/ XmitObtain \/ XmitNoBuffer
         \/ Quit \/ CleanupClose \/ Exit \/ DmaLoop \/ DmaObtain \/ DmaDevice \/ DmaRelease
         \/ RxPrepare \/ RxFail \/ RxReceive \/ RxAppend \/ TxFail
         \/ \E d \in Dev : LinkReceive(d)
         \/ UNCHANGED vars
  PROVE  AllSame
<1> USE DEF AllSame, Same, TxFree, TxWire, TxLst, InHand, lists, driver, appVars,
            dmaVars, Return
<1>1. CASE ReadQuery BY <1>1 DEF ReadQuery
<1>2. CASE Query BY <1>2 DEF Query
<1>3. CASE ReadXmit \/ ReadAstray BY <1>3 DEF ReadXmit, ReadAstray
<1>4. CASE XmitObtain BY <1>4 DEF XmitObtain
<1>5. CASE XmitNoBuffer BY <1>5 DEF XmitNoBuffer
<1>6. CASE Quit BY <1>6 DEF Quit
<1>7. CASE CleanupClose BY <1>7 DEF CleanupClose
<1>8. CASE Exit BY <1>8 DEF Exit
<1>9. CASE DmaLoop BY <1>9 DEF DmaLoop
<1>10. CASE DmaObtain BY <1>10 DEF DmaObtain
<1>11. CASE DmaDevice BY <1>11 DEF DmaDevice
<1>12. CASE DmaRelease BY <1>12 DEF DmaRelease
<1>13. CASE RxPrepare BY <1>13 DEF RxPrepare
<1>14. CASE RxFail BY <1>14 DEF RxFail
<1>15. CASE RxReceive BY <1>15 DEF RxReceive
<1>16. CASE RxAppend BY <1>16 DEF RxAppend
<1>17. CASE TxFail BY <1>17 DEF TxFail
<1>18. CASE \E d \in Dev : LinkReceive(d) BY <1>18 DEF LinkReceive
<1>19. CASE UNCHANGED vars BY <1>19 DEF vars
<1>20. QED
  BY <1>1, <1>2, <1>3, <1>4, <1>5, <1>6, <1>7, <1>8, <1>9, <1>10, <1>11, <1>12,
     <1>13, <1>14, <1>15, <1>16, <1>17, <1>18, <1>19

\* A packet in hand still counts as free.
LEMMA XmitTakeStep == ASSUME TypeOK, XmitTake PROVE AllSame
<1> SUFFICES ASSUME NEW d \in Dev PROVE Same(d)
  BY DEF AllSame
<1>1. TxWire(d)' = TxWire(d) /\ tx_list'[d] = tx_list[d]
  BY DEF XmitTake, TxWire, TxLst, driver, dmaVars
<1>2. CASE d # devno
  BY <1>1, <1>2 DEF XmitTake, Same, TxFree, InHand, TypeOK
<1>3. CASE d = devno
  <2>1. TxFree(d) = <<>> \o tx_buf_list[d] BY DEF XmitTake, TxFree, InHand
  <2>2. TxFree(d)' = <<Head(tx_buf_list[d])>> \o Tail(tx_buf_list[d])
    BY <1>3 DEF XmitTake, TxFree, InHand, TypeOK
  <2>3. tx_buf_list[d] \in Seq(TxPkt) /\ tx_buf_list[d] # <<>>
    BY <1>3, StageTypes DEF XmitTake
  <2>4. TxFree(d)' = TxFree(d)
    BY <2>1, <2>2, <2>3, HeadTailConcat, ConcatEmptySeq
  <2>5. QED BY <1>1, <2>4 DEF Same
<1>4. QED BY <1>2, <1>3

LEMMA XmitScheduleStep ==
  ASSUME TypeOK, XmitSchedule, NEW x \in Dev, x = devno
  PROVE  Submits(x) /\ OthersSame(x)
<1>1. pkt \in TxPkt BY DEF TypeOK, XmitSchedule
<1>2. TxFree(x) = <<pkt>> \o tx_buf_list[x]
  BY DEF XmitSchedule, TxFree, InHand
<1>3. tx_buf_list[x] \in Seq(TxPkt) BY StageTypes
<1>4. TxFree(x)' = tx_buf_list[x]
  <2>1. TxFree(x)' = <<>> \o tx_buf_list[x]
    BY DEF XmitSchedule, TxFree, InHand
  <2>2. QED BY <2>1, <1>3, ConcatEmptySeq
<1>5. /\ TxFree(x) # <<>>
      /\ Head(TxFree(x)) = pkt
      /\ Tail(TxFree(x)) = tx_buf_list[x]
  BY <1>1, <1>2, <1>3
<1>6. tx_list'[x] = Append(tx_list[x], pkt)
  BY DEF XmitSchedule, TypeOK
<1>7. \A d \in Dev : TxWire(d)' = TxWire(d)
  BY DEF XmitSchedule, TxWire, TxLst, driver, dmaVars
<1>8. Submits(x) BY <1>4, <1>5, <1>6, <1>7 DEF Submits
<1>9. OthersSame(x)
  BY <1>7 DEF XmitSchedule, OthersSame, Same, TxFree, InHand, TypeOK
<1>10. QED BY <1>8, <1>9

\* What a stopped channel gives up, and what the link sends, stays in order.
LEMMA WireSteps ==
  ASSUME TypeOK, CleanupStop \/ TxReclaim \/ \E d \in Dev : LinkTransmit(d)
  PROVE  AllSame
<1> SUFFICES ASSUME NEW d \in Dev PROVE Same(d)
  BY DEF AllSame
<1>1. TxFree(d)' = TxFree(d) /\ tx_list'[d] = tx_list[d]
  BY DEF CleanupStop, TxReclaim, LinkTransmit, TxFree, InHand, lists, appVars
<1>2. CASE CleanupStop
  <2>1. TxLst(d)' = TxLst(d) BY <1>2 DEF CleanupStop, TxLst, dmaVars
  <2>2. \/ txSent'[d] = txSent[d] /\ txSched'[d] = txSched[d]
        \/ txSent'[d] = txSent[d] \o txSched[d] /\ txSched'[d] = <<>>
    BY <1>2 DEF CleanupStop, TypeOK
  <2>3. txSent'[d] \o txSched'[d] = txSent[d] \o txSched[d]
    BY <2>2, StageTypes, ConcatProperties, ConcatEmptySeq
  <2>4. QED BY <1>1, <2>1, <2>3 DEF Same, TxWire
<1>3. CASE TxReclaim
  <2>1. CASE d # dmaDev
    BY <1>1, <1>3, <2>1 DEF TxReclaim, Same, TxWire, TxLst, TypeOK
  <2>2. CASE d = dmaDev
    <3>1. TxWire(d) = <<>> \o (txSent[d] \o txSched[d])
      BY <1>3 DEF TxReclaim, TxWire, TxLst
    <3>2. TxWire(d)' = txSent[d] \o (<<>> \o txSched[d])
      BY <1>3, <2>2 DEF TxReclaim, TxWire, TxLst, TypeOK
    <3>3. txSent[d] \o txSched[d] \in Seq(TxPkt)
      BY StageTypes, ConcatProperties
    <3>4. TxWire(d)' = TxWire(d)
      BY <3>1, <3>2, <3>3, StageTypes, ConcatEmptySeq
    <3>5. QED BY <1>1, <3>4 DEF Same
  <2>3. QED BY <2>1, <2>2
<1>4. ASSUME NEW e \in Dev, LinkTransmit(e) PROVE Same(d)
  <2>1. TxLst(d)' = TxLst(d) BY <1>4 DEF LinkTransmit, TxLst, dmaVars
  <2>2. CASE d # e
    BY <1>1, <2>1, <1>4, <2>2 DEF LinkTransmit, Same, TxWire, TypeOK
  <2>3. CASE d = e
    <3>1. /\ txSent'[d] = Append(txSent[d], Head(txSched[d]))
          /\ txSched'[d] = Tail(txSched[d])
          /\ txSched[d] # <<>>
      BY <1>4, <2>3 DEF LinkTransmit, TypeOK
    <3>2. txSent'[d] \o txSched'[d] = txSent[d] \o txSched[d]
      BY <3>1, StageTypes, MoveHead
    <3>3. QED BY <1>1, <2>1, <3>2 DEF Same, TxWire
  <2>4. QED BY <2>2, <2>3
<1>5. QED BY <1>2, <1>3, <1>4

LEMMA TxSendStep ==
  ASSUME TypeOK, CountersMatch, TxSend, NEW x \in Dev, x = dmaDev
  PROVE  AllSame \/ (Hands(x) /\ OthersSame(x))
<1>1. \A d \in Dev : TxFree(d)' = TxFree(d) /\ TxLst(d) = <<>> /\ TxLst(d)' = <<>>
  BY DEF TxSend, TxFree, TxLst, InHand, appVars, Return
<1>2. CASE tx_list_cnt[dmaDev] > 0
  <2>1. tx_list[x] # <<>>
    BY <1>2, EmptySeq DEF CountersMatch
  <2>2. tx_list'[x] = <<>> /\ txSched'[x] = txSched[x] \o tx_list[x] /\ txSent' = txSent
    BY <1>2 DEF TxSend, TypeOK
  <2>3. /\ txSent[x] \in Seq(TxPkt) /\ txSched[x] \in Seq(TxPkt)
        /\ tx_list[x] \in Seq(TxPkt)
        /\ txSent[x] \o txSched[x] \in Seq(TxPkt)
    BY StageTypes, ConcatProperties
  <2>4. TxWire(x)' = <<>> \o (txSent[x] \o (txSched[x] \o tx_list[x]))
    BY <1>1, <2>2 DEF TxWire
  <2>5. TxWire(x) = <<>> \o (txSent[x] \o txSched[x])
    BY <1>1 DEF TxWire
  <2>6. txSent[x] \o (txSched[x] \o tx_list[x]) = (txSent[x] \o txSched[x]) \o tx_list[x]
    BY StagesAssoc
  <2>7. TxWire(x)' = TxWire(x) \o tx_list[x]
    <3>1. (txSent[x] \o txSched[x]) \o tx_list[x] \in Seq(TxPkt)
      BY <2>3, ConcatProperties
    <3>2. QED BY <2>3, <2>4, <2>5, <2>6, <3>1, ConcatEmptySeq
  <2>8. Hands(x) BY <1>1, <2>1, <2>2, <2>7 DEF Hands
  <2>9. OthersSame(x)
    BY <1>1, <1>2 DEF TxSend, OthersSame, Same, TxWire, TypeOK
  <2>10. QED BY <2>8, <2>9
<1>3. CASE ~(tx_list_cnt[dmaDev] > 0)
  BY <1>1, <1>3 DEF TxSend, AllSame, Same, TxWire
<1>4. QED BY <1>2, <1>3

LEMMA TxAppendStep ==
  ASSUME TypeOK, TxAppend, NEW x \in Dev, x = dmaDev
  PROVE  AllSame \/ (Reclaims(x) /\ OthersSame(x))
<1>1. \A d \in Dev : InHand(d)' = InHand(d) /\ tx_list'[d] = tx_list[d]
  BY DEF TxAppend, InHand, appVars
<1>2. OthersSame(x)
  BY <1>1 DEF TxAppend, OthersSame, Same, TxFree, TxWire, TxLst, driver, TypeOK
<1> DEFINE rest == txSent[x] \o txSched[x]
<1>3. lst \in Seq(TxPkt) /\ rest \in Seq(TxPkt) /\ TxLst(x) = lst /\ TxWire(x) = lst \o rest
  BY StageTypes, ConcatProperties DEF TxAppend, TxLst, TypeOK, TxWire
<1>4. TxWire(x)' = rest
  <2>1. TxWire(x)' = <<>> \o rest
    BY DEF TxAppend, TxWire, TxLst, driver
  <2>2. QED BY <2>1, <1>3, ConcatEmptySeq
<1>5. TxFree(x)' = TxFree(x) \o lst
  <2>1. tx_buf_list'[x] = tx_buf_list[x] \o lst BY DEF TxAppend, TypeOK
  <2>2. TxFree(x)' = InHand(x) \o (tx_buf_list[x] \o lst)
    BY <1>1, <2>1 DEF TxFree
  <2>3. QED BY <2>2, <1>3, StagesAssoc DEF TxFree
<1>6. CASE lst = <<>>
  <2>1. TxFree(x)' = TxFree(x) /\ TxWire(x)' = TxWire(x)
    BY <1>3, <1>4, <1>5, <1>6, StageTypes, ConcatEmptySeq
  <2>2. QED BY <1>1, <1>2, <2>1 DEF AllSame, OthersSame, Same
<1>7. CASE lst # <<>>
  <2>1. /\ Len(lst) \in 1 .. Len(TxWire(x))
        /\ SubSeq(TxWire(x), 1, Len(lst)) = lst
        /\ SubSeq(TxWire(x), Len(lst) + 1, Len(TxWire(x))) = rest
    <3> HIDE DEF rest
    <3>1. QED BY <1>3, <1>7, Cut
  <2>2. Reclaims(x) BY <1>1, <1>4, <1>5, <2>1 DEF Reclaims
  <2>3. QED BY <1>2, <2>2
<1>8. QED BY <1>6, <1>7

-----------------------------------------------------------------------------
\* Every step is a step of SpwTransmit at one device, or leaves its state alone.
LEMMA EveryStep ==
  ASSUME TypeOK, CountersMatch, [Next]_vars
  PROVE  AllSame \/ \E x \in Dev : (Submits(x) \/ Hands(x) \/ Reclaims(x)) /\ OthersSame(x)
<1>1. (AppCalls => devno \in Dev) /\ (DmaCalls => dmaDev \in Dev) BY InDev
<1>2. CASE XmitTake BY <1>2, XmitTakeStep
<1>3. CASE XmitSchedule
  <2>1. PICK x \in Dev : x = devno BY <1>1, <1>3 DEF AppCalls
  <2>2. Submits(x) /\ OthersSame(x) BY <1>3, <2>1, XmitScheduleStep
  <2>3. QED BY <2>2
<1>4. CASE CleanupStop \/ TxReclaim \/ \E d \in Dev : LinkTransmit(d)
  BY <1>4, WireSteps
<1>5. CASE TxAppend
  <2>1. PICK x \in Dev : x = dmaDev BY <1>1, <1>5 DEF DmaCalls
  <2>2. AllSame \/ (Reclaims(x) /\ OthersSame(x)) BY <1>5, <2>1, TxAppendStep
  <2>3. QED BY <2>2
<1>6. CASE TxSend
  <2>1. PICK x \in Dev : x = dmaDev BY <1>1, <1>6 DEF DmaCalls
  <2>2. AllSame \/ (Hands(x) /\ OthersSame(x)) BY <1>6, <2>1, TxSendStep
  <2>3. QED BY <2>2
<1>7. QED
  BY <1>2, <1>3, <1>4, <1>5, <1>6, OtherActions DEF Next, App, Dma, Link

\* The two tasks, the driver and the links, as far as the transmit buffers are
\* concerned, do nothing but the three steps of SpwTransmit.
THEOREM Implementation == Spec => TransmitSpec
<1>1. Init => Transmit!Init
  <2> SUFFICES ASSUME Init, NEW d \in Dev
               PROVE  TxFree(d) = TxBuffers /\ tx_list[d] = <<>> /\ TxWire(d) = <<>>
    BY DEF Transmit!Init, Init
  <2>1. TxFree(d) = <<>> \o TxBuffers /\ TxWire(d) = <<>> \o (<<>> \o <<>>)
    BY DEF Init, TxFree, InHand, TxWire, TxLst
  <2>2. <<>> \in Seq(TxPkt) BY EmptySeq
  <2>3. QED BY <2>1, <2>2, BuffersType, ConcatEmptySeq DEF Init
<1>2. TypeOK /\ CountersMatch /\ [Next]_vars => [Transmit!Next]_Transmit!vars
  <2> SUFFICES ASSUME TypeOK, CountersMatch, [Next]_vars
               PROVE  [Transmit!Next]_Transmit!vars
    OBVIOUS
  <2> DEFINE free  == [d \in Dev |-> TxFree(d)]
             queue == [d \in Dev |-> tx_list[d]]
             wire  == [d \in Dev |-> TxWire(d)]
  <2>1. CASE AllSame
    BY <2>1 DEF AllSame, Same, Transmit!vars
  <2>2. ASSUME NEW x \in Dev, Submits(x), OthersSame(x) PROVE Transmit!Submit(x)
    BY <2>2 DEF Submits, OthersSame, Same, Transmit!Submit
  <2>3. ASSUME NEW x \in Dev, Hands(x), OthersSame(x) PROVE Transmit!Hand(x)
    BY <2>3 DEF Hands, OthersSame, Same, Transmit!Hand
  <2>4. ASSUME NEW x \in Dev, Reclaims(x), OthersSame(x)
        PROVE  \E n \in 1 .. Len(wire[x]) : Transmit!Reclaim(x, n)
    <3>1. PICK n \in 1 .. Len(TxWire(x)) :
            /\ TxFree(x)' = TxFree(x) \o SubSeq(TxWire(x), 1, n)
            /\ TxWire(x)' = SubSeq(TxWire(x), n + 1, Len(TxWire(x)))
            /\ tx_list'[x] = tx_list[x]
      BY <2>4 DEF Reclaims
    <3>2. Transmit!Reclaim(x, n)
      BY <2>4, <3>1 DEF OthersSame, Same, Transmit!Reclaim
    <3>3. QED BY <3>1, <3>2
  <2>5. QED BY EveryStep, <2>1, <2>2, <2>3, <2>4 DEF Transmit!Next
<1>3. QED
  BY <1>1, <1>2, TypeCorrect, Counters, PTL DEF Spec, TransmitSpec, Transmit!Spec

-----------------------------------------------------------------------------
\* The first order of the buffers is a ring.
LEMMA InitialRings == IsRing(RxBuffers, 1, NRx) /\ IsRing(TxBuffers, NRx + 1, NTx)
<1>1. \A i \in 1 .. NRx : RxBuffers[i] = i BY DEF RxBuffers
<1>2. \A i \in 1 .. NTx : TxBuffers[i] = NRx + i BY DEF TxBuffers
<1>3. IsRing(RxBuffers, 1, NRx) BY <1>1, BuffersType DEF IsRing
<1>4. IsRing(TxBuffers, NRx + 1, NTx) BY <1>2, BuffersType DEF IsRing
<1>5. QED BY <1>3, <1>4

\* The three steps turn the ring or leave it alone.
LEMMA TxRingStep ==
  ASSUME TypeOK, TypeOK', NEW d \in Dev, IsRing(TxOrder(d), NRx + 1, NTx),
         Same(d) \/ Submits(d) \/ Hands(d) \/ Reclaims(d)
  PROVE  IsRing(TxOrder(d)', NRx + 1, NTx)
<1> DEFINE w == TxWire(d)
           q == tx_list[d]
           f == TxFree(d)
<1>1. w \in Seq(TxPkt) /\ q \in Seq(TxPkt) /\ f \in Seq(TxPkt)
  BY StageTypes
<1>2. TxOrder(d) = w \o (q \o f) /\ TxOrder(d)' = TxWire(d)' \o (tx_list'[d] \o TxFree(d)')
  BY DEF TxOrder
<1>3. CASE Same(d) BY <1>2, <1>3 DEF Same
<1>4. CASE Submits(d)
  <2>1. Append(q, Head(f)) \o Tail(f) = q \o f
    BY <1>1, <1>4, MoveHead DEF Submits
  <2>2. QED BY <1>2, <1>4, <2>1 DEF Submits
<1>5. CASE Hands(d)
  <2>1. TxOrder(d)' = (w \o q) \o (<<>> \o f) BY <1>2, <1>5 DEF Hands
  <2> HIDE DEF w, q, f
  <2>2. <<>> \o f = f /\ (w \o q) \o f = w \o (q \o f)
    BY <1>1, Concat, TxAssoc
  <2>3. QED BY <1>2, <2>1, <2>2
<1>6. CASE Reclaims(d)
  <2>1. PICK n \in 1 .. Len(w) :
          /\ TxFree(d)' = f \o SubSeq(w, 1, n)
          /\ TxWire(d)' = SubSeq(w, n + 1, Len(w))
          /\ tx_list'[d] = q
    BY <1>6 DEF Reclaims
  <2> DEFINE w1 == SubSeq(w, 1, n)
             w2 == SubSeq(w, n + 1, Len(w))
  <2>2. TxOrder(d)' = w2 \o (q \o (f \o w1)) BY <1>2, <2>1
  <2> HIDE DEF w, q, f
  <2>3. Len(w) \in Nat BY <1>1, LenProperties
  <2>4. w1 \in Seq(TxPkt) /\ w2 \in Seq(TxPkt)
    BY <1>1, <2>3, SubSeqProperties, LenProperties
  <2>5. w = w1 \o w2
    BY <1>1, <2>3, ConcatAdjacentSubSeq, SubSeqFull
  <2> HIDE DEF w1, w2
  <2>6. q \o f \in Seq(TxPkt) /\ w2 \o (q \o f) \in Seq(TxPkt)
    BY <1>1, <2>4, Concat
  <2>7. w \o (q \o f) = w1 \o (w2 \o (q \o f))
    BY <2>4, <2>5, <2>6, TxAssoc
  <2>8. w2 \o (q \o (f \o w1)) = (w2 \o (q \o f)) \o w1
    <3>1. q \o (f \o w1) = (q \o f) \o w1 BY <1>1, <2>4, TxAssoc
    <3>2. w2 \o ((q \o f) \o w1) = (w2 \o (q \o f)) \o w1
      BY <2>4, <2>6, TxAssoc
    <3>3. QED BY <3>1, <3>2
  <2>9. IsRing(w1 \o (w2 \o (q \o f)), NRx + 1, NTx) BY <1>2, <2>7
  <2>10. IsRing((w2 \o (q \o f)) \o w1, NRx + 1, NTx)
    <3>1. NRx + 1 \in Nat /\ NTx \in Nat BY SpwAssumption
    <3>2. QED BY <2>4, <2>6, <2>9, <3>1, RingRotates
  <2>11. QED BY <2>2, <2>8, <2>10
<1>7. QED BY <1>3, <1>4, <1>5, <1>6

\* No transmit buffer is lost, used twice or overtaken, whatever the tasks, the
\* driver and the links do and whenever the program quits.
THEOREM TransmitRing == Spec => []TxRing
<1>1. Init => TxRing
  <2> SUFFICES ASSUME Init, NEW d \in Dev PROVE TxOrder(d) = TxBuffers
    BY InitialRings DEF TxRing
  <2>1. TxOrder(d) = (<<>> \o (<<>> \o <<>>)) \o (<<>> \o (<<>> \o TxBuffers))
    BY DEF Init, TxOrder, TxWire, TxFree, InHand, TxLst
  <2>2. <<>> \in Seq(TxPkt) BY EmptySeq
  <2>3. QED BY <2>1, <2>2, BuffersType, ConcatEmptySeq
<1>2. TypeOK /\ TypeOK' /\ CountersMatch /\ TxRing /\ [Next]_vars => TxRing'
  <2> SUFFICES ASSUME TypeOK, TypeOK', CountersMatch, TxRing, [Next]_vars, NEW d \in Dev
               PROVE  IsRing(TxOrder(d)', NRx + 1, NTx)
    BY DEF TxRing
  <2>1. Same(d) \/ Submits(d) \/ Hands(d) \/ Reclaims(d)
    BY EveryStep DEF AllSame, OthersSame
  <2>2. QED BY <2>1, TxRingStep DEF TxRing
<1>3. QED BY <1>1, <1>2, TypeCorrect, Counters, PTL DEF Spec

-----------------------------------------------------------------------------
(* The receive buffers                                                      *)

RxSame(d) == RxOrder(d)' = RxOrder(d)

\* What dma_process has collected goes behind everything else.
RxTurns(d) ==
  \E s, t \in Seq(RxPkt) : RxOrder(d) = s \o t /\ RxOrder(d)' = t \o s

LEMMA RxTypes ==
  ASSUME TypeOK, NEW d \in Dev
  PROVE  /\ RxLst(d) \in Seq(RxPkt) /\ rxRecv[d] \in Seq(RxPkt)
         /\ rxSched[d] \in Seq(RxPkt) /\ rx_list[d] \in Seq(RxPkt)
         /\ rxSched[d] \o rx_list[d] \in Seq(RxPkt)
         /\ rxRecv[d] \o (rxSched[d] \o rx_list[d]) \in Seq(RxPkt)
<1>1. /\ rxRecv[d] \in Seq(RxPkt) /\ rxSched[d] \in Seq(RxPkt) /\ rx_list[d] \in Seq(RxPkt)
  BY DEF TypeOK
<1>2. RxLst(d) \in Seq(RxPkt) BY EmptySeq DEF TypeOK, RxLst
<1>3. QED BY <1>1, <1>2, Concat

LEMMA RxAssoc ==
  \A s, t, u \in Seq(RxPkt) : (s \o t) \o u = s \o (t \o u)
BY Concat

\* The actions that touch no receive stage.
LEMMA RxOtherActions ==
  ASSUME TypeOK,
         \/ App /\ ~CleanupStop
         \/ DmaLoop \/ DmaObtain \/ DmaDevice \/ DmaRelease \/ RxFail
         \/ TxReclaim \/ TxFail \/ TxAppend \/ TxSend
         \/ \E d \in Dev : LinkTransmit(d)
         \/ UNCHANGED vars
  PROVE  \A d \in Dev : RxSame(d)
<1> USE DEF RxSame, RxOrder, RxLst, lists, driver, appVars, dmaVars, Return
<1>1. CASE App /\ ~CleanupStop
  <2>1. UNCHANGED <<rxRecv, rxSched, rx_list, dmaPc, dmaDev, lst>>
    BY <1>1 DEF App, ReadQuery, Query, ReadAstray, ReadXmit, XmitObtain, XmitNoBuffer, XmitTake,
                XmitSchedule, Quit, CleanupClose, Exit
  <2>2. QED BY <2>1
<1>2. CASE DmaLoop BY <1>2 DEF DmaLoop
<1>3. CASE DmaObtain BY <1>3 DEF DmaObtain
<1>4. CASE DmaDevice BY <1>4 DEF DmaDevice
<1>5. CASE DmaRelease BY <1>5 DEF DmaRelease
<1>6. CASE RxFail BY <1>6 DEF RxFail
<1>7. CASE TxReclaim BY <1>7 DEF TxReclaim
<1>8. CASE TxFail BY <1>8 DEF TxFail
<1>9. CASE TxAppend BY <1>9 DEF TxAppend
<1>10. CASE TxSend BY <1>10 DEF TxSend
<1>11. CASE \E d \in Dev : LinkTransmit(d) BY <1>11 DEF LinkTransmit
<1>12. CASE UNCHANGED vars BY <1>12 DEF vars
<1>13. QED
  BY <1>1, <1>2, <1>3, <1>4, <1>5, <1>6, <1>7, <1>8, <1>9, <1>10, <1>11, <1>12

\* A stopped channel gives up what it has, behind what it has received.
LEMMA RxStopStep == ASSUME TypeOK, CleanupStop PROVE \A d \in Dev : RxSame(d)
<1> SUFFICES ASSUME NEW d \in Dev PROVE RxSame(d)
  OBVIOUS
<1>1. RxLst(d)' = RxLst(d) /\ rx_list'[d] = rx_list[d]
  BY DEF CleanupStop, RxLst, lists, dmaVars
<1>2. CASE d # devno
  BY <1>1, <1>2 DEF CleanupStop, RxSame, RxOrder, TypeOK
<1>3. CASE d = devno
  <2>1. rxRecv'[d] = rxRecv[d] \o rxSched[d] /\ rxSched'[d] = <<>>
    BY <1>3 DEF CleanupStop, TypeOK
  <2>2. <<>> \o rx_list[d] = rx_list[d] BY RxTypes, Concat
  <2>3. (rxRecv[d] \o rxSched[d]) \o rx_list[d] = rxRecv[d] \o (rxSched[d] \o rx_list[d])
    BY RxTypes, RxAssoc
  <2>4. QED BY <1>1, <2>1, <2>2, <2>3 DEF RxSame, RxOrder
<1>4. QED BY <1>2, <1>3

\* The driver takes the whole list, or nothing.
LEMMA RxPrepareStep == ASSUME TypeOK, RxPrepare PROVE \A d \in Dev : RxSame(d)
<1> SUFFICES ASSUME NEW d \in Dev PROVE RxSame(d)
  OBVIOUS
<1>1. RxLst(d)' = RxLst(d) /\ rxRecv'[d] = rxRecv[d]
  BY DEF RxPrepare, RxLst
<1>2. CASE UNCHANGED <<rxSched, rx_list>> BY <1>1, <1>2 DEF RxSame, RxOrder
<1>3. CASE /\ rxSched' = [rxSched EXCEPT ![dmaDev] = @ \o rx_list[dmaDev]]
           /\ rx_list' = [rx_list EXCEPT ![dmaDev] = <<>>]
  <2>1. CASE d # dmaDev BY <1>1, <1>3, <2>1 DEF RxSame, RxOrder, TypeOK
  <2>2. CASE d = dmaDev
    <3>1. rxSched'[d] = rxSched[d] \o rx_list[d] /\ rx_list'[d] = <<>>
      BY <1>3, <2>2 DEF TypeOK
    <3>2. (rxSched[d] \o rx_list[d]) \o <<>> = rxSched[d] \o rx_list[d]
      BY RxTypes, Concat
    <3>3. QED BY <1>1, <3>1, <3>2 DEF RxSame, RxOrder
  <2>3. QED BY <2>1, <2>2
<1>4. QED BY <1>2, <1>3 DEF RxPrepare

LEMMA RxReceiveStep == ASSUME TypeOK, RxReceive PROVE \A d \in Dev : RxSame(d)
<1> SUFFICES ASSUME NEW d \in Dev PROVE RxSame(d)
  OBVIOUS
<1>1. rxSched'[d] = rxSched[d] /\ rx_list'[d] = rx_list[d] /\ RxLst(d) = <<>>
  BY DEF RxReceive, RxLst, lists
<1>2. CASE d # dmaDev
  BY <1>1, <1>2 DEF RxReceive, RxSame, RxOrder, RxLst, TypeOK
<1>3. CASE d = dmaDev
  <2>1. RxLst(d)' = rxRecv[d] /\ rxRecv'[d] = <<>>
    BY <1>3 DEF RxReceive, RxLst, TypeOK
  <2> DEFINE rest == rxSched[d] \o rx_list[d]
  <2>2. RxOrder(d) = <<>> \o (rxRecv[d] \o rest) BY <1>1 DEF RxOrder
  <2>3. RxOrder(d)' = rxRecv[d] \o (<<>> \o rest) BY <1>1, <2>1 DEF RxOrder
  <2>4. rest \in Seq(RxPkt) /\ rxRecv[d] \o rest \in Seq(RxPkt) BY RxTypes
  <2>5. QED BY <2>2, <2>3, <2>4, Concat DEF RxSame
<1>4. QED BY <1>2, <1>3

LEMMA LinkReceiveStep ==
  ASSUME TypeOK, NEW e \in Dev, LinkReceive(e)
  PROVE  \A d \in Dev : RxSame(d)
<1> SUFFICES ASSUME NEW d \in Dev PROVE RxSame(d)
  OBVIOUS
<1>1. RxLst(d)' = RxLst(d) /\ rx_list'[d] = rx_list[d]
  BY DEF LinkReceive, RxLst, lists, dmaVars
<1>2. CASE d # e
  BY <1>1, <1>2 DEF LinkReceive, RxSame, RxOrder, TypeOK
<1>3. CASE d = e
  <2>1. /\ rxRecv'[d] = Append(rxRecv[d], Head(rxSched[d]))
        /\ rxSched'[d] = Tail(rxSched[d])
        /\ rxSched[d] # <<>>
    BY <1>3 DEF LinkReceive, TypeOK
  <2>2. Append(rxRecv[d], Head(rxSched[d])) \in Seq(RxPkt) /\ Tail(rxSched[d]) \in Seq(RxPkt)
    BY <2>1, RxTypes, HeadTailProperties, AppendProperties
  <2>3. rxRecv'[d] \o rxSched'[d] = rxRecv[d] \o rxSched[d]
    BY <2>1, RxTypes, MoveHead
  <2>4. rxRecv'[d] \o (rxSched'[d] \o rx_list[d]) = (rxRecv'[d] \o rxSched'[d]) \o rx_list[d]
    <3>1. rx_list[d] \in Seq(RxPkt) BY RxTypes
    <3>2. rxRecv'[d] \in Seq(RxPkt) /\ rxSched'[d] \in Seq(RxPkt) BY <2>1, <2>2
    <3>3. QED BY <3>1, <3>2, RxAssoc
  <2>5. rxRecv[d] \o (rxSched[d] \o rx_list[d]) = (rxRecv[d] \o rxSched[d]) \o rx_list[d]
    <3>1. rx_list[d] \in Seq(RxPkt) /\ rxRecv[d] \in Seq(RxPkt) /\ rxSched[d] \in Seq(RxPkt)
      BY RxTypes
    <3>2. QED BY <3>1, RxAssoc
  <2>6. QED BY <1>1, <2>3, <2>4, <2>5 DEF RxSame, RxOrder
<1>4. QED BY <1>2, <1>3

LEMMA RxAppendStep ==
  ASSUME TypeOK, RxAppend, NEW d \in Dev
  PROVE  RxSame(d) \/ RxTurns(d)
<1>1. rxSched'[d] = rxSched[d] /\ rxRecv'[d] = rxRecv[d] /\ RxLst(d)' = <<>>
  BY DEF RxAppend, RxLst, driver
<1>2. CASE d # dmaDev
  BY <1>1, <1>2 DEF RxAppend, RxSame, RxOrder, RxLst, TypeOK
<1>3. CASE d = dmaDev
  <2> DEFINE rest == rxRecv[d] \o (rxSched[d] \o rx_list[d])
  <2>1. RxLst(d) = lst /\ rx_list'[d] = rx_list[d] \o lst
    BY <1>3 DEF RxAppend, RxLst, TypeOK
  <2>2. RxOrder(d)' = <<>> \o (rxRecv[d] \o (rxSched[d] \o (rx_list[d] \o lst)))
    BY <1>1, <2>1 DEF RxOrder
  <2>3. lst \in Seq(RxPkt) BY RxTypes, <2>1
  <2>4. rxSched[d] \o (rx_list[d] \o lst) = (rxSched[d] \o rx_list[d]) \o lst
    <3>1. rxSched[d] \in Seq(RxPkt) /\ rx_list[d] \in Seq(RxPkt) BY RxTypes
    <3>2. QED BY <2>3, <3>1, RxAssoc
  <2>5. rxRecv[d] \o ((rxSched[d] \o rx_list[d]) \o lst) = rest \o lst
    <3>1. rxRecv[d] \in Seq(RxPkt) /\ rxSched[d] \o rx_list[d] \in Seq(RxPkt) BY RxTypes
    <3>2. QED BY <2>3, <3>1, RxAssoc
  <2>6. rest \in Seq(RxPkt) /\ <<>> \o (rest \o lst) = rest \o lst
    BY <2>3, RxTypes, Concat
  <2>7. RxOrder(d) = lst \o rest /\ RxOrder(d)' = rest \o lst
    BY <2>1, <2>2, <2>4, <2>5, <2>6 DEF RxOrder
  <2> HIDE DEF rest
  <2>8. QED BY <2>3, <2>6, <2>7 DEF RxTurns
<1>4. QED BY <1>2, <1>3

LEMMA RxEveryStep ==
  ASSUME TypeOK, [Next]_vars, NEW d \in Dev
  PROVE  RxSame(d) \/ RxTurns(d)
<1>1. CASE CleanupStop BY <1>1, RxStopStep
<1>2. CASE RxPrepare BY <1>2, RxPrepareStep
<1>3. CASE RxReceive BY <1>3, RxReceiveStep
<1>4. CASE RxAppend BY <1>4, RxAppendStep
<1>5. ASSUME NEW e \in Dev, LinkReceive(e) PROVE RxSame(d)
  BY <1>5, LinkReceiveStep
<1>6. QED
  BY <1>1, <1>2, <1>3, <1>4, <1>5, RxOtherActions DEF Next, Dma, Link

\* No receive buffer is lost or used twice, whatever the driver refuses and
\* whenever the program quits.
THEOREM ReceiveRing == Spec => []RxRing
<1>1. Init => RxRing
  <2> SUFFICES ASSUME Init, NEW d \in Dev PROVE RxOrder(d) = RxBuffers
    BY InitialRings DEF RxRing
  <2>1. RxOrder(d) = <<>> \o (<<>> \o (<<>> \o RxBuffers))
    BY DEF Init, RxOrder, RxLst
  <2>2. QED BY <2>1, BuffersType, ConcatEmptySeq
<1>2. TypeOK /\ RxRing /\ [Next]_vars => RxRing'
  <2> SUFFICES ASSUME TypeOK, RxRing, [Next]_vars, NEW d \in Dev
               PROVE  IsRing(RxOrder(d)', 1, NRx)
    BY DEF RxRing
  <2>1. IsRing(RxOrder(d), 1, NRx) BY DEF RxRing
  <2>2. CASE RxSame(d) BY <2>1, <2>2 DEF RxSame
  <2>3. CASE RxTurns(d)
    <3>1. PICK s, t \in Seq(RxPkt) : RxOrder(d) = s \o t /\ RxOrder(d)' = t \o s
      BY <2>3 DEF RxTurns
    <3>2. 1 \in Nat /\ NRx \in Nat BY SpwAssumption
    <3>3. IsRing(t \o s, 1, NRx) BY <2>1, <3>1, <3>2, RingRotates
    <3>4. QED BY <3>1, <3>3
  <2>4. QED BY <2>2, <2>3, RxEveryStep
<1>3. QED BY <1>1, <1>2, TypeCorrect, PTL DEF Spec
=============================================================================
