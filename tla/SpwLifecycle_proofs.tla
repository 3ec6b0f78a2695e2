------------------------ MODULE SpwLifecycle_proofs ------------------------
(***************************************************************************)
(* Proofs about SpwLifecycle, for every number of devices and channels and *)
(* however long the console keeps a task.                                  *)
(***************************************************************************)
EXTENDS SpwLifecycle, TLAPS

USE LifecycleAssumption DEF Dev, Chan

SettingUp == appPc \in {"router", "ports", "init", "start"}
Closing   == appPc \in {"stop", "close"}
InRound   == dmaPc = "device" \/ InDriver

Word(i) == IF i <= router_hw.spw THEN "0x0100002e" ELSE "0x00000028"

\* The ports have their control words up to the next one to activate.
RouterInv ==
  /\ control[0] = "reset"
  /\ \A i \in 1 .. NPorts : i < port => control[i] = Word(i)
  /\ router_present = 1 => port = NPorts + 1

\* What the application has made of the devices, from what it is at.
Stages ==
  /\ SettingUp => tasks_stop = 0 /\ dmaPc = "dormant"
  /\ appPc = "command" <=> ~SettingUp /\ tasks_stop = 0
  /\ appPc \in {"router", "ports"} =>
       dev = 0 /\ dh = {} /\ \A d \in Dev : dma[d] = Opened({})
  /\ appPc = "init" /\ ~halted =>
       /\ dh = {d \in Dev : d < dev}
       /\ \A d \in Dev : dma[d] = Opened(IF d < dev THEN ChanMask ELSE {})
  /\ appPc = "start" /\ ~halted =>
       /\ dh = Dev
       /\ \A d \in Dev : dma[d] = IF d < dev THEN Started(Opened(ChanMask), Chan)
                                             ELSE Opened(ChanMask)
  /\ appPc = "command" =>
       dh = Dev /\ \A d \in Dev : dma[d] = Started(Opened(ChanMask), Chan)
  /\ Closing => dh = {d \in Dev : d >= dev} /\ \A d \in dh : dma[d][0] # "closed"
  /\ appPc \in {"end", "completed"} =>
       dh = {} /\ \A d \in Dev : \A c \in Chan : dma[d][c] # "running"

\* The ticks until test_app, at pc and waiting for wait, closes device d, and at
\* most those until dma_task, likewise, has left it.
CloseIn(pc, wait, from, d) ==
  wait + CleanupWait * (d - from + IF pc = "stop" THEN 1 ELSE 0)

LeaveIn(pc, wait, from, d) ==
  wait + 3 * WriteTicks * (d - from)
       + (CASE pc \in {"device", "count"} -> 3 * WriteTicks
            [] pc = "receive" -> 2 * WriteTicks
            [] pc = "reclaim" -> WriteTicks
            [] pc = "send" -> 0)

\* How long dma_task, at device n, may have to wait for the console: it writes
\* and does not sleep in a round, and comes to the first device without writing.
Waits(pc, wait, n) ==
  /\ wait \in 0 .. WriteTicks
  /\ pc = "count" \/ (pc = "device" /\ n = 0) => wait = 0

Pace == InRound => Waits(dmaPc, dmaWait, dmaDev)

\* The round is ahead of the shutdown.
Ahead ==
  /\ InDriver => dmaDev \in dh
  /\ Closing /\ InRound =>
       \A d \in dmaDev .. NoSpw - 1 : d >= dev =>
         LeaveIn(dmaPc, dmaWait, dmaDev, d) < CloseIn(appPc, appWait, dev, d)

IInv ==
  /\ TypeOK
  /\ RouterInv
  /\ Stages
  /\ NoneLeftRunning
  /\ Pace
  /\ RoundFits => Ahead

----------------------------------------------------------------------------
(* What the calls of the driver make of the channels of a device *)

ChanState == {"closed", "open", "running"}

LEMMA ChanTypes ==
  /\ \A cs : Opened(cs) \in [Chan -> ChanState]
  /\ \A chans \in [Chan -> ChanState] :
       /\ \A cs : Started(chans, cs) \in [Chan -> ChanState]
       /\ Stopped(chans) \in [Chan -> ChanState]
       /\ \A n : ClosedUpTo(chans, n) \in [Chan -> ChanState]
BY DEF ChanState, Opened, Started, Stopped, ClosedUpTo

LEMMA StoppedNone ==
  \A chans \in [Chan -> ChanState] : \A c \in Chan : Stopped(chans)[c] # "running"
BY DEF ChanState, Stopped

\* The parts of the state that the actions type separately.
RouterType ==
  /\ router_hw \in [spw : 1..2, amba : 1..2, fifo : 0..1]
  /\ port \in 0 .. NPorts + 1
  /\ control \in [Ports -> {"reset", "0x0100002e", "0x00000028"}]
  /\ router_present \in {0, 1}

AppType ==
  /\ appPc \in {"router", "ports", "init", "start", "command", "stop", "close",
                "end", "completed"}
  /\ dev \in 0 .. NoSpw
  /\ appPc = "close" => dev < NoSpw
  /\ appWait \in 0 .. StartWait
  /\ tasks_stop \in {0, 1}

DevType == dh \subseteq Dev /\ dma \in [Dev -> [Chan -> ChanState]]

DmaType ==
  /\ dmaPc \in {"dormant", "loop", "device", "count", "receive", "reclaim", "send",
                "exit", "deleted"}
  /\ dmaDev \in 0 .. NoSpw
  /\ InDriver => dmaDev < NoSpw
  /\ dmaWait \in 0 .. Period \/ dmaWait \in 0 .. WriteTicks

LEMMA TypeParts ==
  TypeOK <=> RouterType /\ AppType /\ DevType /\ DmaType /\ halted \in BOOLEAN
BY DEF TypeOK, RouterType, AppType, DevType, DmaType, ChanState

LEMMA TypePartsNext ==
  TypeOK' <=> /\ RouterType' /\ AppType' /\ DevType' /\ DmaType'
              /\ halted' \in BOOLEAN
BY DEF TypeOK, RouterType, AppType, DevType, DmaType, ChanState

LEMMA TypeInit == Init => TypeOK
<1> SUFFICES ASSUME Init PROVE TypeOK
  OBVIOUS
<1>1. \A h \in [spw : 1..2, amba : 1..2, fifo : 0..1] :
        h.spw + h.amba + h.fifo \in Nat
  OBVIOUS
<1>2. NPorts \in Nat BY <1>1 DEF Init, NPorts
<1>3. port \in 0 .. NPorts + 1 /\ control \in [Ports -> {"reset", "0x0100002e", "0x00000028"}]
  BY <1>2 DEF Init, Ports
<1>4. dma \in [Dev -> [Chan -> {"closed", "open", "running"}]] BY DEF Init
<1>5. dev \in 0 .. NoSpw /\ dmaDev \in 0 .. NoSpw /\ dmaWait \in 0 .. WriteTicks
  BY DEF Init
<1>6. RouterType BY <1>3 DEF Init, RouterType
<1>7. AppType BY <1>5 DEF Init, AppType, StartWait
<1>8. DevType BY <1>4 DEF Init, DevType, ChanState
<1>9. DmaType BY <1>5 DEF Init, DmaType, InDriver
<1>10. QED BY <1>6, <1>7, <1>8, <1>9, TypeParts DEF Init

LEMMA PortsNat ==
  ASSUME RouterType
  PROVE  /\ router_hw.spw \in 1 .. 2 /\ router_hw.amba \in 1 .. 2
         /\ router_hw.fifo \in 0 .. 1
         /\ NPorts = router_hw.spw + router_hw.amba + router_hw.fifo
         /\ NPorts \in Nat /\ port \in Nat
BY DEF RouterType, NPorts

\* What router_configure writes to a port.
LEMMA PortWord ==
  ASSUME RouterType, port <= NPorts
  PROVE  /\ PortType(port) = "cfg" <=> port = 0
         /\ port > 0 => ControlWord[PortType(port)] = Word(port)
<1>1. CASE port = 0 BY <1>1, PortsNat DEF PortType
<1>2. CASE port \in 1 .. router_hw.spw
  <2>1. PortType(port) = "spw" BY <1>2, PortsNat DEF PortType
  <2>2. QED BY <1>2, <2>1, PortsNat DEF ControlWord, Word
<1>3. CASE port > router_hw.spw /\ port <= router_hw.spw + router_hw.amba
  <2>1. PortType(port) = "amba" BY <1>3, PortsNat DEF PortType
  <2>2. QED BY <1>3, <2>1, PortsNat DEF ControlWord, Word
<1>4. CASE port > router_hw.spw + router_hw.amba
  <2>1. PortType(port) = "fifo" BY <1>4, PortsNat DEF PortType
  <2>2. QED BY <1>4, <2>1, PortsNat DEF ControlWord, Word
<1>5. QED BY <1>1, <1>2, <1>3, <1>4, PortsNat

----------------------------------------------------------------------------
(* The router *)

LEMMA RouterStep ==
  ASSUME TypeOK, RouterInv, [Next]_vars
  PROVE  RouterType' /\ RouterInv'
<1>1. RouterType BY TypeParts
<1>2. CASE UNCHANGED routerVars
  <2>1. UNCHANGED <<router_hw, port, control, router_present>> BY <1>2 DEF routerVars
  <2>2. NPorts' = NPorts /\ Ports' = Ports /\ \A i : Word(i)' = Word(i)
    BY <2>1 DEF NPorts, Ports, Word
  <2>3. QED BY <1>1, <2>1, <2>2 DEF RouterType, RouterInv
<1>3. CASE RouterPort
  <2>1. /\ router_hw' = router_hw /\ router_present' = router_present
        /\ port' = port + 1 /\ port <= NPorts
    BY <1>3 DEF RouterPort
  <2>2. NPorts' = NPorts /\ Ports' = Ports /\ \A i : Word(i)' = Word(i)
    BY <2>1 DEF NPorts, Ports, Word
  <2>3. port \in Ports /\ port \in Nat /\ NPorts \in Nat /\ 0 \in Ports
    BY <1>1, <2>1, PortsNat DEF Ports
  <2>4. CASE port = 0
    <3>1. control' = control BY <1>1, <1>3, <2>1, <2>4, PortWord DEF RouterPort
    <3>2. QED BY <1>1, <2>1, <2>2, <2>3, <2>4, <3>1 DEF RouterType, RouterInv
  <2>5. CASE port > 0
    <3>1. control' = [control EXCEPT ![port] = Word(port)]
      <4>1. PortType(port) # "cfg" /\ ControlWord[PortType(port)] = Word(port)
        BY <1>1, <2>1, <2>3, <2>5, PortWord
      <4>2. QED BY <1>3, <4>1 DEF RouterPort
    <3>2. Word(port) \in {"reset", "0x0100002e", "0x00000028"} BY DEF Word
    <3>3. control' \in [Ports -> {"reset", "0x0100002e", "0x00000028"}]
      BY <1>1, <3>1, <3>2 DEF RouterType
    <3>4. RouterType' BY <1>1, <2>1, <2>2, <2>3, <3>3 DEF RouterType
    <3>5. control'[0] = "reset" BY <1>1, <2>3, <2>5, <3>1 DEF RouterType, RouterInv
    <3>6. ASSUME NEW i \in 1 .. NPorts, i < port + 1 PROVE control'[i] = Word(i)
      BY <1>1, <2>3, <3>1, <3>6 DEF RouterType, RouterInv, Ports
    <3>7. QED BY <2>1, <2>2, <2>3, <3>4, <3>5, <3>6 DEF RouterInv
  <2>6. QED BY <2>3, <2>4, <2>5
<1>4. CASE RouterDone
  <2>1. /\ UNCHANGED <<router_hw, port, control>> /\ router_present' = 1
        /\ port > NPorts
    BY <1>4 DEF RouterDone
  <2>2. NPorts' = NPorts /\ Ports' = Ports /\ \A i : Word(i)' = Word(i)
    BY <2>1 DEF NPorts, Ports, Word
  <2>3. port = NPorts + 1 BY <1>1, <2>1, PortsNat DEF RouterType
  <2>4. QED BY <1>1, <2>1, <2>2, <2>3 DEF RouterType, RouterInv
<1>5. QED
  <2>1. TestApp => UNCHANGED routerVars \/ RouterPort \/ RouterDone
    BY DEF TestApp, RouterOpen, RouterTooSmall, RouterFails, DevInit, DevInitFails,
           DevInitOnePort, DevInitDone, DevStart, DevStartFails, StartDma, Quit,
           CleanupStop, CleanupClose, CleanupDone, Exit, Fail
  <2>2. DmaTask \/ Tick => UNCHANGED routerVars
    BY DEF DmaTask, DmaLoop, DmaDevice, DmaSleep, Count, Receive, ReceiveFails, Reclaim,
           Send, TransmitFails, DmaExit, Fail, Tick
  <2>3. QED BY <1>2, <1>3, <1>4, <2>1, <2>2 DEF Next, vars

----------------------------------------------------------------------------
(* Types *)

LEMMA AppStep == ASSUME TypeOK, TestApp PROVE AppType' /\ DevType'
<1> USE DEF AppType, DevType
<1>1. AppType /\ DevType /\ DmaType BY TypeParts
<1>2. CASE RouterOpen \/ RouterPort \/ RouterDone \/ RouterTooSmall \/ RouterFails
  BY <1>1, <1>2 DEF RouterOpen, RouterPort, RouterDone, RouterTooSmall,
     RouterFails, Fail, appVars, devVars
<1>3. CASE DevInit
  <2>1. dma' \in [Dev -> [Chan -> ChanState]] BY <1>1, <1>3, ChanTypes DEF DevInit
  <2>2. QED BY <1>1, <1>3, <2>1 DEF DevInit, App
<1>4. CASE DevInitFails \/ DevInitOnePort
  <2>1. dma' \in [Dev -> [Chan -> ChanState]]
    BY <1>1, <1>4, ChanTypes DEF DevInitFails, DevInitOnePort
  <2>2. dh' = dh \/ (dh' = dh \cup {dev} /\ dev \in Dev)
    BY <1>1, <1>4 DEF DevInitFails, DevInitOnePort
  <2>3. QED BY <1>1, <1>4, <2>1, <2>2 DEF DevInitFails, DevInitOnePort, Fail, appVars
<1>5. CASE DevInitDone BY <1>1, <1>5 DEF DevInitDone, devVars
<1>6. CASE DevStart
  <2>1. dma' \in [Dev -> [Chan -> ChanState]] BY <1>1, <1>6, ChanTypes DEF DevStart
  <2>2. QED BY <1>1, <1>6, <2>1 DEF DevStart, App
<1>7. CASE DevStartFails
  <2>1. dma' \in [Dev -> [Chan -> ChanState]]
    <3>1. PICK c \in Chan :
            dma' = [dma EXCEPT ![dev] = Stopped(Started(@, 0 .. c - 1))]
      BY <1>7 DEF DevStartFails
    <3>2. dma[dev] \in [Chan -> ChanState] BY <1>1, <1>7 DEF DevStartFails
    <3>3. Stopped(Started(dma[dev], 0 .. c - 1)) \in [Chan -> ChanState]
      BY <3>2, ChanTypes
    <3>4. QED BY <1>1, <3>1, <3>3
  <2>2. QED BY <1>1, <1>7, <2>1 DEF DevStartFails, Fail, appVars
<1>8. CASE StartDma BY <1>1, <1>8 DEF StartDma, devVars, StartWait
<1>9. CASE Quit BY <1>1, <1>9 DEF Quit, devVars, StartWait, StopWait
<1>10. CASE CleanupStop
  <2>1. dma' \in [Dev -> [Chan -> ChanState]] BY <1>1, <1>10, ChanTypes DEF CleanupStop
  <2>2. QED BY <1>1, <1>10, <2>1 DEF CleanupStop, StartWait, CleanupWait
<1>11. CASE CleanupClose
  <2>1. dma' \in [Dev -> [Chan -> ChanState]]
    <3>1. PICK n \in 0 .. NChans : dma' = [dma EXCEPT ![dev] = ClosedUpTo(@, n)]
      BY <1>11 DEF CleanupClose
    <3>2. dma[dev] \in [Chan -> ChanState] BY <1>1, <1>11 DEF CleanupClose, App
    <3>3. ClosedUpTo(dma[dev], n) \in [Chan -> ChanState] BY <3>2, ChanTypes
    <3>4. QED BY <1>1, <3>1, <3>3
  <2>2. QED BY <1>1, <1>11, <2>1 DEF CleanupClose, App
<1>12. CASE CleanupDone BY <1>1, <1>12 DEF CleanupDone, devVars, StartWait, EndWait
<1>13. CASE Exit BY <1>1, <1>13 DEF Exit, devVars
<1>14. QED
  BY <1>2, <1>3, <1>4, <1>5, <1>6, <1>7, <1>8, <1>9, <1>10, <1>11, <1>12, <1>13
     DEF TestApp

LEMMA AppLeavesDma ==
  ASSUME TestApp
  PROVE  /\ dmaDev' = dmaDev
         /\ \/ UNCHANGED <<dmaPc, dmaWait>>
            \/ StartDma /\ dmaPc' = "loop" /\ dmaWait' \in 0 .. WriteTicks
BY DEF TestApp, RouterOpen, RouterPort, RouterDone, RouterTooSmall, RouterFails,
       DevInit, DevInitFails, DevInitOnePort, DevInitDone, DevStart, DevStartFails,
       StartDma, Quit, CleanupStop, CleanupClose, CleanupDone, Exit, Fail, dmaVars

LEMMA DmaLeavesApp ==
  ASSUME DmaTask
  PROVE  UNCHANGED <<appVars, devVars>> /\ dmaPc # "dormant"
BY DEF DmaTask, DmaLoop, DmaDevice, DmaSleep, Count, Receive, ReceiveFails, Reclaim, Send,
       TransmitFails, DmaExit, Fail, Task

LEMMA DmaStep == ASSUME TypeOK, DmaTask PROVE DmaType'
<1> USE DEF DmaType, InDriver, Task
<1>1. DmaType /\ DevType BY TypeParts
<1>2. CASE DmaLoop BY <1>1, <1>2 DEF DmaLoop
<1>3. CASE DmaDevice BY <1>1, <1>3 DEF DmaDevice, DevType
<1>4. CASE DmaSleep BY <1>1, <1>4 DEF DmaSleep, Period
<1>5. CASE Count \/ Receive \/ Reclaim BY <1>1, <1>5 DEF Count, Receive, Reclaim
<1>6. CASE ReceiveFails \/ Send BY <1>1, <1>6 DEF ReceiveFails, Send
<1>7. CASE TransmitFails \/ DmaExit
  BY <1>1, <1>7 DEF TransmitFails, DmaExit, Fail, dmaVars
<1>8. QED BY <1>2, <1>3, <1>4, <1>5, <1>6, <1>7 DEF DmaTask

LEMMA TypeStep == ASSUME TypeOK, RouterInv, [Next]_vars PROVE TypeOK'
<1>1. RouterType' BY RouterStep
<1>2. halted' \in BOOLEAN
  <2>1. TestApp \/ DmaTask \/ Tick => halted' = halted \/ halted' = TRUE
    BY DEF TestApp, RouterOpen, RouterPort, RouterDone, RouterTooSmall, RouterFails,
       DevInit, DevInitFails, DevInitOnePort, DevInitDone, DevStart, DevStartFails,
       StartDma, Quit, CleanupStop, CleanupClose, CleanupDone, Exit, Fail,
       DmaTask, DmaLoop, DmaDevice, DmaSleep, Count, Receive, ReceiveFails, Reclaim, Send,
       TransmitFails, DmaExit, Tick
  <2>2. QED BY <2>1, TypeParts DEF Next, vars
<1>3. CASE TestApp
  <2>1. DmaType'
    <3>1. DmaType BY TypeParts
    <3>2. QED BY <1>3, <3>1, AppLeavesDma DEF DmaType, InDriver
  <2>2. QED BY <1>1, <1>2, <1>3, <2>1, AppStep, TypePartsNext
<1>4. CASE DmaTask
  <2>1. AppType' /\ DevType'
    BY <1>4, DmaLeavesApp, TypeParts DEF AppType, DevType, appVars, devVars
  <2>2. QED BY <1>1, <1>2, <1>4, <2>1, DmaStep, TypePartsNext
<1>5. CASE Tick
  <2>1. AppType /\ DevType /\ DmaType BY TypeParts
  <2>2. AppType' /\ DevType'
    BY <1>5, <2>1 DEF Tick, AppType, DevType, devVars, StartWait
  <2>3. DmaType'
    BY <1>5, <2>1 DEF Tick, DmaType, InDriver, Period
  <2>4. QED BY <1>1, <1>2, <2>2, <2>3, TypePartsNext
<1>6. CASE UNCHANGED vars
  <2>1. AppType' /\ DevType' /\ DmaType'
    BY <1>6, TypeParts DEF vars, appVars, devVars, dmaVars, AppType, DevType, DmaType,
                           InDriver
  <2>2. QED BY <1>1, <1>2, <2>1, TypePartsNext
<1>7. QED BY <1>3, <1>4, <1>5, <1>6 DEF Next

----------------------------------------------------------------------------
(* What the application has made of the devices *)

LEMMA StagesInit == Init => Stages
<1> SUFFICES ASSUME Init PROVE Stages
  OBVIOUS
<1>1. \A d \in Dev : dma[d] = Opened({}) BY DEF Init, Opened
<1>2. QED BY <1>1 DEF Init, Stages, SettingUp, Closing

LEMMA StagesKept ==
  ASSUME Stages, UNCHANGED <<appPc, dev, tasks_stop, dh, dma>>,
         dmaPc' = dmaPc \/ dmaPc # "dormant", halted => halted'
  PROVE  Stages'
BY DEF Stages, SettingUp, Closing

LEMMA OpenChannels ==
  /\ Started(Opened(ChanMask), Chan) =
       [c \in Chan |-> IF c \in ChanMask THEN "running" ELSE "closed"]
  /\ \A cs \in SUBSET Chan : \A c \in Chan : Opened(cs)[c] # "running"
BY DEF Started, Opened

LEMMA StagesApp ==
  ASSUME TypeOK, Stages, NoneLeftRunning, ~halted, TestApp
  PROVE  Stages'
<1> USE DEF App, SettingUp, Closing
<1>1. AppType /\ DevType BY TypeParts
<1>2. CASE RouterOpen \/ RouterPort \/ RouterDone \/ RouterTooSmall \/ RouterFails
  <2>1. /\ dev = 0 /\ dh = {} /\ \A d \in Dev : dma[d] = Opened({})
        /\ tasks_stop = 0 /\ dmaPc = "dormant"
        /\ UNCHANGED <<dev, dh, dma, tasks_stop, dmaPc>>
        /\ appPc' \in {"router", "ports", "init"}
    BY <1>2 DEF RouterOpen, RouterPort, RouterDone, RouterTooSmall, RouterFails,
       Fail, appVars, devVars, dmaVars, Stages
  <2>2. QED BY <2>1 DEF Stages
<1>3. CASE DevInit
  <2>1. /\ dev \in Dev /\ dev' = dev + 1
        /\ UNCHANGED <<appPc, tasks_stop, dmaPc, halted>>
        /\ appPc = "init"
    BY <1>1, <1>3 DEF DevInit, dmaVars, AppType
  <2>2. dh' = {d \in Dev : d < dev + 1}
    BY <1>3, <2>1 DEF DevInit, Stages
  <2>3. ASSUME NEW d \in Dev
        PROVE  dma'[d] = Opened(IF d < dev + 1 THEN ChanMask ELSE {})
    <3>1. dma'[d] = IF d = dev THEN Opened(ChanMask) ELSE dma[d]
      BY <1>1, <1>3, <2>1 DEF DevInit, DevType
    <3>2. dma[d] = Opened(IF d < dev THEN ChanMask ELSE {})
      BY <1>3, <2>1 DEF Stages
    <3>3. CASE d = dev BY <2>1, <3>1, <3>3
    <3>4. CASE d # dev
      <4>1. d < dev + 1 <=> d < dev BY <2>1, <3>4
      <4>2. QED BY <3>1, <3>2, <3>4, <4>1
    <3>5. QED BY <3>3, <3>4
  <2>4. QED BY <2>1, <2>2, <2>3 DEF Stages
<1>4. CASE DevInitFails \/ DevInitOnePort
  BY <1>4 DEF DevInitFails, DevInitOnePort, Fail, appVars, dmaVars, Stages
<1>5. CASE DevInitDone
  <2>1. /\ dev = NoSpw /\ dev' = 0 /\ appPc = "init" /\ appPc' = "start"
        /\ UNCHANGED <<tasks_stop, dmaPc, dh, dma, halted>>
    BY <1>5 DEF DevInitDone, devVars, dmaVars
  <2>2. /\ dh = {d \in Dev : d < dev}
        /\ \A d \in Dev : dma[d] = Opened(IF d < dev THEN ChanMask ELSE {})
    BY <2>1 DEF Stages
  <2>3. \A d \in Dev : d < dev /\ ~(d < 0) BY <2>1
  <2>4. dh = Dev /\ \A d \in Dev : dma[d] = Opened(ChanMask) BY <2>2, <2>3
  <2>5. tasks_stop = 0 /\ dmaPc = "dormant" BY <2>1 DEF Stages
  <2>6. QED BY <2>1, <2>3, <2>4, <2>5 DEF Stages
<1>6. CASE DevStart
  <2>1. /\ dev \in Dev /\ dev' = dev + 1
        /\ UNCHANGED <<appPc, tasks_stop, dmaPc, dh, halted>>
        /\ appPc = "start"
    BY <1>1, <1>6 DEF DevStart, dmaVars, AppType
  <2>2. ASSUME NEW d \in Dev
        PROVE  dma'[d] = IF d < dev + 1 THEN Started(Opened(ChanMask), Chan)
                                        ELSE Opened(ChanMask)
    <3>1. dma'[d] = IF d = dev THEN Started(dma[dev], Chan) ELSE dma[d]
      BY <1>1, <1>6, <2>1 DEF DevStart, DevType
    <3>2. \A e \in Dev : dma[e] = IF e < dev THEN Started(Opened(ChanMask), Chan)
                                             ELSE Opened(ChanMask)
      BY <2>1 DEF Stages
    <3>3. CASE d = dev BY <2>1, <3>1, <3>2, <3>3
    <3>4. CASE d # dev
      <4>1. d < dev + 1 <=> d < dev BY <2>1, <3>4
      <4>2. QED BY <3>1, <3>2, <3>4, <4>1
    <3>5. QED BY <3>3, <3>4
  <2>3. dh = Dev BY <2>1 DEF Stages
  <2>4. QED BY <2>1, <2>2, <2>3 DEF Stages
<1>7. CASE DevStartFails
  BY <1>7 DEF DevStartFails, Fail, appVars, dmaVars, Stages
<1>8. CASE StartDma
  <2>1. /\ dev = NoSpw /\ appPc = "start" /\ appPc' = "command"
        /\ UNCHANGED <<tasks_stop, dh, dma>>
    BY <1>8 DEF StartDma, devVars
  <2>2. dh = Dev /\ \A d \in Dev : dma[d] = Started(Opened(ChanMask), Chan)
    BY <2>1 DEF Stages
  <2>3. tasks_stop = 0 BY <2>1 DEF Stages
  <2>4. QED BY <2>1, <2>2, <2>3 DEF Stages
<1>9. CASE Quit
  <2>1. /\ dev' = 0 /\ appPc = "command" /\ appPc' = "stop" /\ tasks_stop' = 1
        /\ UNCHANGED <<dh, dma>>
    BY <1>9 DEF Quit, devVars
  <2>2. dh = Dev /\ \A d \in Dev : dma[d] = Started(Opened(ChanMask), Chan)
    BY <2>1 DEF Stages
  <2>3. \A d \in Dev : dma[d][0] # "closed" BY <2>2, OpenChannels
  <2>4. QED BY <2>1, <2>2, <2>3 DEF Stages
<1>10. CASE CleanupStop
  <2>1. /\ dev \in Dev /\ appPc = "stop" /\ appPc' = "close"
        /\ UNCHANGED <<dev, tasks_stop, dh>>
        /\ dma' = [dma EXCEPT ![dev] = Stopped(@)]
    BY <1>1, <1>10 DEF CleanupStop, AppType
  <2>2. dh = {d \in Dev : d >= dev} /\ \A d \in dh : dma[d][0] # "closed"
    BY <2>1 DEF Stages
  <2>3. ASSUME NEW d \in dh PROVE dma'[d][0] # "closed"
    <3>1. d \in Dev /\ 0 \in Chan BY <2>2
    <3>2. dma'[d] = IF d = dev THEN Stopped(dma[d]) ELSE dma[d]
      BY <1>1, <2>1, <3>1 DEF DevType
    <3>3. Stopped(dma[d])[0] # "closed" BY <2>2, <3>1 DEF Stopped
    <3>4. QED BY <2>2, <3>2, <3>3
  <2>4. tasks_stop # 0 BY <2>1 DEF Stages
  <2>5. QED BY <2>1, <2>2, <2>3, <2>4 DEF Stages
<1>11. CASE CleanupClose
  <2>1. /\ dev \in Dev /\ dev' = dev + 1 /\ appPc = "close" /\ appPc' = "stop"
        /\ dh' = dh \ {dev}
        /\ UNCHANGED tasks_stop
    BY <1>1, <1>11 DEF CleanupClose, AppType
  <2>2. \A d \in Dev \ {dev} : dma'[d] = dma[d]
    BY <1>1, <1>11 DEF CleanupClose, DevType
  <2>3. dh = {d \in Dev : d >= dev} /\ \A d \in dh : dma[d][0] # "closed"
    BY <2>1 DEF Stages
  <2>4. dh' = {d \in Dev : d >= dev + 1} BY <2>1, <2>3
  <2>5. \A d \in dh' : dma'[d][0] # "closed" BY <2>1, <2>2, <2>3
  <2>6. tasks_stop # 0 BY <2>1 DEF Stages
  <2>7. QED BY <2>1, <2>4, <2>5, <2>6 DEF Stages
<1>12. CASE CleanupDone \/ Exit
  <2>1. /\ appPc \in {"stop", "end"} /\ appPc' \in {"end", "completed"}
        /\ appPc = "stop" => dev = NoSpw
        /\ UNCHANGED <<tasks_stop, dh, dma>>
    BY <1>12 DEF CleanupDone, Exit, devVars
  <2>2. dh = {} BY <2>1 DEF Stages
  <2>3. tasks_stop # 0 BY <2>1 DEF Stages
  <2>4. \A d \in Dev : \A c \in Chan : dma[d][c] # "running"
    BY <2>1 DEF Stages, NoneLeftRunning
  <2>5. QED BY <2>1, <2>2, <2>3, <2>4 DEF Stages
<1>13. QED
  BY <1>2, <1>3, <1>4, <1>5, <1>6, <1>7, <1>8, <1>9, <1>10, <1>11, <1>12 DEF TestApp

----------------------------------------------------------------------------
(* Nothing is left running *)

LEMMA NoneLeftKept ==
  ASSUME NoneLeftRunning, UNCHANGED <<appPc, dev, dma, dh>>,
         halted' = halted \/ appPc # "start"
  PROVE  NoneLeftRunning'
BY DEF NoneLeftRunning

LEMMA NoneLeftApp ==
  ASSUME TypeOK, Stages, NoneLeftRunning, ~halted, TestApp
  PROVE  NoneLeftRunning'
<1> USE DEF App
<1>1. AppType /\ DevType BY TypeParts
<1>2. CASE RouterOpen \/ RouterPort \/ RouterDone \/ RouterTooSmall \/ RouterFails
           \/ DevInit \/ DevInitFails \/ DevInitOnePort \/ StartDma
  <2>1. appPc' \in {"router", "ports", "init", "command"}
    BY <1>2 DEF RouterOpen, RouterPort, RouterDone, RouterTooSmall, RouterFails,
       DevInit, DevInitFails, DevInitOnePort, StartDma, Fail, appVars
  <2>2. QED BY <2>1 DEF NoneLeftRunning
<1>3. CASE DevInitDone \/ DevStart
  <2>1. appPc' = "start" /\ ~halted' BY <1>3 DEF DevInitDone, DevStart
  <2>2. QED BY <2>1 DEF NoneLeftRunning
<1>4. CASE DevStartFails
  <2>1. appPc' = "start" /\ dev' = dev /\ dev \in Dev
    BY <1>1, <1>4 DEF DevStartFails, Fail, appVars, AppType
  <2>2. PICK n \in Chan :
          dma' = [dma EXCEPT ![dev] = Stopped(Started(@, 0 .. n - 1))]
    BY <1>4 DEF DevStartFails
  <2>3. Started(dma[dev], 0 .. n - 1) \in [Chan -> ChanState]
    BY <1>1, <2>1, ChanTypes DEF DevType
  <2>4. dma'[dev] = Stopped(Started(dma[dev], 0 .. n - 1))
    BY <1>1, <2>1, <2>2 DEF DevType
  <2>5. \A c \in Chan : dma'[dev][c] # "running" BY <2>3, <2>4, StoppedNone
  <2>6. QED BY <2>1, <2>5 DEF NoneLeftRunning
<1>5. CASE Quit
  <2>1. appPc' = "stop" /\ dev' = 0 BY <1>5 DEF Quit
  <2>2. QED BY <2>1 DEF NoneLeftRunning
<1>6. CASE CleanupStop
  <2>1. /\ appPc = "stop" /\ appPc' = "close" /\ dev' = dev /\ dev \in Dev
        /\ dma' = [dma EXCEPT ![dev] = Stopped(@)]
    BY <1>1, <1>6 DEF CleanupStop, AppType
  <2>2. ASSUME NEW d \in Dev, d <= dev, NEW c \in Chan PROVE dma'[d][c] # "running"
    <3>1. CASE d = dev
      <4>1. dma'[d] = Stopped(dma[d]) /\ dma[d] \in [Chan -> ChanState]
        BY <1>1, <2>1, <3>1 DEF DevType
      <4>2. QED BY <4>1, StoppedNone
    <3>2. CASE d < dev
      BY <1>1, <2>1, <3>2 DEF DevType, NoneLeftRunning
    <3>3. QED BY <2>1, <2>2, <3>1, <3>2
  <2>3. QED BY <2>1, <2>2 DEF NoneLeftRunning
<1>7. CASE CleanupClose
  <2>1. /\ appPc = "close" /\ appPc' = "stop" /\ dev' = dev + 1 /\ dev \in Dev
    BY <1>1, <1>7 DEF CleanupClose, AppType
  <2>2. PICK n \in 0 .. NChans : dma' = [dma EXCEPT ![dev] = ClosedUpTo(@, n)]
    BY <1>7 DEF CleanupClose
  <2>3. ASSUME NEW d \in Dev, d <= dev, NEW c \in Chan PROVE dma'[d][c] # "running"
    <3>1. dma[d][c] # "running" BY <2>1, <2>3 DEF NoneLeftRunning
    <3>2. dma'[d] = IF d = dev THEN ClosedUpTo(dma[d], n) ELSE dma[d]
      BY <1>1, <2>2 DEF DevType
    <3>3. ClosedUpTo(dma[d], n)[c] # "running" BY <3>1 DEF ClosedUpTo
    <3>4. QED BY <3>1, <3>2, <3>3
  <2>4. \A d \in Dev : d < dev + 1 => d <= dev BY <2>1
  <2>5. QED BY <2>1, <2>3, <2>4 DEF NoneLeftRunning
<1>8. CASE CleanupDone
  <2>1. appPc' = "end" BY <1>8 DEF CleanupDone
  <2>2. QED BY <2>1 DEF NoneLeftRunning
<1>9. CASE Exit
  <2>1. appPc = "end" /\ UNCHANGED <<dh, dma>> BY <1>9 DEF Exit, devVars
  <2>2. QED BY <2>1 DEF Stages, NoneLeftRunning
<1>10. QED
  BY <1>2, <1>3, <1>4, <1>5, <1>6, <1>7, <1>8, <1>9 DEF TestApp

----------------------------------------------------------------------------
(* Time *)

LEMMA PaceStep ==
  ASSUME TypeOK, Stages, Pace, [Next]_vars
  PROVE  Pace'
<1>1. CASE TestApp
  BY <1>1, AppLeavesDma DEF Pace, InRound, InDriver
<1>2. CASE DmaTask
  <2> USE DEF Task, Pace, InRound, InDriver, Waits
  <2>1. CASE DmaLoop \/ DmaDevice \/ DmaSleep
    BY <2>1 DEF DmaLoop, DmaDevice, DmaSleep
  <2>2. CASE Count \/ Receive \/ Reclaim
    BY <2>2 DEF Count, Receive, Reclaim
  <2>3. CASE ReceiveFails \/ Send
    <3>1. dmaDev + 1 # 0 BY TypeParts DEF DmaType
    <3>2. QED BY <2>3, <3>1 DEF ReceiveFails, Send
  <2>4. CASE TransmitFails \/ DmaExit
    BY <2>4 DEF TransmitFails, DmaExit, Fail, dmaVars
  <2>5. QED BY <1>2, <2>1, <2>2, <2>3, <2>4 DEF DmaTask
<1>3. CASE Tick
  BY <1>3, TypeParts DEF Tick, Pace, DmaReady, InRound, InDriver, Waits, DmaType
<1>4. CASE UNCHANGED vars
  BY <1>4 DEF vars, dmaVars, Pace, InRound, InDriver, Waits
<1>5. QED BY <1>1, <1>2, <1>3, <1>4 DEF Next

LEMMA Ticks ==
  ASSUME NEW n \in Int
  PROVE  /\ 3 * WriteTicks * n \in Int
         /\ 3 * WriteTicks * (n - 1) = 3 * WriteTicks * n - 3 * WriteTicks
         /\ \A m \in Int : m <= n => 3 * WriteTicks * m <= 3 * WriteTicks * n
<1>1. \A m \in Int : m <= n => WriteTicks * m <= WriteTicks * n OBVIOUS
<1>2. \A m \in Int : 3 * WriteTicks * m = 3 * (WriteTicks * m) /\ WriteTicks * m \in Int
  OBVIOUS
<1>3. QED BY <1>1, <1>2

LEMMA Shorter ==
  ASSUME NEW w \in 0 .. WriteTicks, NEW n \in Nat, NEW m \in Int, n + WriteTicks < m
  PROVE  w + n < m
OBVIOUS

LEMMA LaterTicks ==
  ASSUME NEW from \in Nat, NEW d \in Nat, from <= d
  PROVE  /\ 3 * WriteTicks * (d - from) \in Nat
         /\ 3 * WriteTicks * (d - from) <= 3 * WriteTicks * d
<1>1. 3 * WriteTicks * 0 <= 3 * WriteTicks * (d - from) BY Ticks
<1>2. QED BY <1>1, Ticks

\* A round cannot be longer than the pauses of dev_cleanup when it starts before
\* the quit.
LEMMA RoundFitsAtQuit ==
  ASSUME RoundFits, NEW d \in Dev, NEW from \in 0 .. d, NEW wait \in Nat,
         NEW pc \in {"device", "count", "receive", "reclaim", "send"},
         Waits(pc, wait, from)
  PROVE  LeaveIn(pc, wait, from, d) < CloseIn("stop", StopWait, 0, d)
<1> DEFINE later == 3 * WriteTicks * (d - from)
           most  == 3 * WriteTicks * d
<1>1. later \in Nat /\ later <= most /\ most \in Int
  BY LaterTicks, Ticks
<1>2. most + 3 * WriteTicks < StopWait + CleanupWait * (d + 1)
  <2>1. 3 * WriteTicks * (d + 1) < StopWait + CleanupWait * (d + 1)
    BY DEF RoundFits
  <2>2. 3 * WriteTicks * (d + 1 - 1) = 3 * WriteTicks * (d + 1) - 3 * WriteTicks
    BY Ticks
  <2>3. d + 1 - 1 = d OBVIOUS
  <2>4. 3 * WriteTicks * (d + 1) \in Int BY Ticks
  <2>5. QED BY <2>1, <2>2, <2>3, <2>4 DEF StopWait, CleanupWait
<1>3. LeaveIn(pc, wait, from, d) <= most + 3 * WriteTicks /\ LeaveIn(pc, wait, from, d) \in Int
  <2>1. /\ pc \in {"device", "count"} =>
             LeaveIn(pc, wait, from, d) = wait + later + 3 * WriteTicks
        /\ pc = "receive" => LeaveIn(pc, wait, from, d) = wait + later + 2 * WriteTicks
        /\ pc = "reclaim" => LeaveIn(pc, wait, from, d) = wait + later + WriteTicks
        /\ pc = "send" => LeaveIn(pc, wait, from, d) = wait + later
    BY <1>1 DEF LeaveIn
  <2>2. from > 0 => later + 3 * WriteTicks <= most
    <3>1. ASSUME from > 0 PROVE 3 * WriteTicks * (d - from) <= 3 * WriteTicks * (d - 1)
      <4>1. d - from <= d - 1 /\ d - from \in Int /\ d - 1 \in Int BY <3>1
      <4>2. QED BY <4>1, Ticks
    <3>2. 3 * WriteTicks * (d - 1) = 3 * WriteTicks * d - 3 * WriteTicks BY Ticks
    <3>3. later \in Int /\ most \in Int BY <1>1
    <3>4. QED BY <3>1, <3>2, <3>3
  <2>3. wait <= WriteTicks /\ (pc = "count" \/ (pc = "device" /\ from = 0) => wait = 0)
    BY DEF Waits
  <2> HIDE DEF later, most
  <2>4. QED BY <1>1, <2>1, <2>2, <2>3
<1>4. CloseIn("stop", StopWait, 0, d) = StopWait + CleanupWait * (d + 1)
  BY DEF CloseIn
<1> HIDE DEF later, most
<1>5. QED BY <1>1, <1>2, <1>3, <1>4 DEF StopWait, CleanupWait

\* dma_task comes no later to the end of a device by working at it.
LEMMA AheadDma ==
  ASSUME TypeOK, Stages, Pace, Ahead, DmaTask
  PROVE  Ahead'
<1> USE DEF Task
<1>1. DmaType /\ AppType /\ DevType BY TypeParts
<1>2. UNCHANGED <<dh, appPc, appWait, dev>> BY DmaLeavesApp DEF appVars, devVars
<1>3. InDriver' => dmaDev' \in dh'
  <2>1. CASE DmaLoop BY <2>1 DEF DmaLoop, InDriver
  <2>2. CASE DmaDevice BY <1>2, <2>2 DEF DmaDevice, InDriver
  <2>3. CASE DmaSleep \/ ReceiveFails \/ Send
    BY <2>3 DEF DmaSleep, ReceiveFails, Send, InDriver
  <2>4. CASE Count \/ Receive \/ Reclaim
    BY <1>2, <2>4 DEF Count, Receive, Reclaim, InDriver, Ahead
  <2>5. CASE TransmitFails \/ DmaExit
    BY <1>2, <2>5 DEF TransmitFails, DmaExit, Fail, dmaVars, InDriver
  <2>6. QED BY <2>1, <2>2, <2>3, <2>4, <2>5 DEF DmaTask
<1>4. ASSUME Closing, InRound', NEW d \in dmaDev' .. NoSpw - 1, d >= dev
      PROVE  LeaveIn(dmaPc', dmaWait', dmaDev', d) < CloseIn(appPc, appWait, dev, d)
  <2> DEFINE close == CloseIn(appPc, appWait, dev, d)
             leave == LeaveIn(dmaPc, dmaWait, dmaDev, d)
             later == 3 * WriteTicks * (d - dmaDev)
  <2>1. tasks_stop # 0 BY <1>4 DEF Stages, Closing, SettingUp
  <2>2. close \in Int BY <1>1, <1>4 DEF AppType, CloseIn, CleanupWait
  <2>3. ~DmaLoop /\ ~DmaSleep /\ ~TransmitFails /\ ~DmaExit
    BY <1>4, <2>1 DEF DmaLoop, DmaSleep, TransmitFails, DmaExit, Fail, dmaVars,
                      InRound, InDriver
  <2>4. InRound BY <2>3 DEF DmaTask, DmaDevice, Count, Receive, ReceiveFails, Reclaim,
                           Send, InRound, InDriver
  <2>5. dmaDev' \in {dmaDev, dmaDev + 1} /\ dmaDev \in Nat
    BY <1>1, <2>3 DEF DmaTask, DmaDevice, Count, Receive, ReceiveFails, Reclaim, Send,
                      DmaType
  <2>6. d \in dmaDev .. NoSpw - 1 /\ dmaDev \in Nat /\ d \in Nat BY <2>5
  <2>7. leave < close BY <1>4, <2>4, <2>6 DEF Ahead
  <2>8. dmaWait \in Nat BY <1>1 DEF DmaType
  <2>9. /\ later \in Nat
        /\ \A pc \in {"device", "count"}, w \in Nat :
             LeaveIn(pc, w, dmaDev, d) = w + later + 3 * WriteTicks
        /\ \A w \in Nat :
             LeaveIn("receive", w, dmaDev, d) = w + later + 2 * WriteTicks
        /\ \A w \in Nat : LeaveIn("reclaim", w, dmaDev, d) = w + later + WriteTicks
        /\ \A w \in Nat : LeaveIn("send", w, dmaDev, d) = w + later
    <3>1. dmaDev <= d BY <2>6
    <3>2. later \in Nat BY <2>6, <3>1, LaterTicks
    <3>3. ASSUME NEW pc \in {"device", "count"}, NEW w \in Nat
          PROVE  LeaveIn(pc, w, dmaDev, d) = w + later + 3 * WriteTicks
      BY <3>2 DEF LeaveIn
    <3>4. ASSUME NEW w \in Nat
          PROVE  /\ LeaveIn("receive", w, dmaDev, d) = w + later + 2 * WriteTicks
                 /\ LeaveIn("reclaim", w, dmaDev, d) = w + later + WriteTicks
                 /\ LeaveIn("send", w, dmaDev, d) = w + later
      BY <3>2 DEF LeaveIn
    <3>5. QED BY <3>2, <3>3, <3>4
  <2>10. dmaDev' = dmaDev + 1 =>
           \A w \in Nat : LeaveIn("device", w, dmaDev', d) = w + later
    <3> SUFFICES ASSUME dmaDev' = dmaDev + 1, NEW w \in Nat
                 PROVE  LeaveIn("device", w, dmaDev', d) = w + later
      OBVIOUS
    <3>1. LeaveIn("device", w, dmaDev', d)
            = w + 3 * WriteTicks * (d - (dmaDev + 1)) + 3 * WriteTicks
      <4>1. 3 * WriteTicks * (d - (dmaDev + 1)) \in Nat
        BY <2>5, <2>6, LaterTicks
      <4>2. QED BY <4>1 DEF LeaveIn
    <3>2. d - (dmaDev + 1) = d - dmaDev - 1 BY <2>6
    <3>3. 3 * WriteTicks * (d - dmaDev - 1) = later - 3 * WriteTicks
      BY <2>6, Ticks
    <3>4. QED BY <2>9, <3>1, <3>2, <3>3
  <2> HIDE DEF close, later
  <2>11. CASE DmaDevice
    <3>1. dmaPc = "device" /\ dmaWait = 0 /\ dmaWait' = 0 /\ 0 \in Nat
      BY <2>11 DEF DmaDevice
    <3>2. leave = later + 3 * WriteTicks BY <2>9, <3>1
    <3>3. CASE dmaPc' = "count" /\ dmaDev' = dmaDev
      <4>1. LeaveIn(dmaPc', dmaWait', dmaDev', d) = later + 3 * WriteTicks
        BY <2>9, <3>1, <3>3
      <4>2. QED BY <2>7, <3>2, <4>1 DEF close
    <3>4. CASE dmaPc' = "device" /\ dmaDev' = dmaDev + 1
      <4>1. LeaveIn(dmaPc', dmaWait', dmaDev', d) = 0 + later
        BY <2>10, <3>1, <3>4
      <4>2. 0 + later < close BY <2>2, <2>7, <2>9, <3>2
      <4>3. QED BY <4>1, <4>2 DEF close
    <3>5. QED BY <2>11, <3>1, <3>3, <3>4 DEF DmaDevice
  <2>12. CASE Count
    <3>1. /\ dmaPc = "count" /\ dmaWait = 0 /\ dmaPc' = "receive"
          /\ dmaWait' \in 0 .. WriteTicks /\ dmaDev' = dmaDev
      BY <2>12 DEF Count
    <3>2. leave = later + 3 * WriteTicks BY <2>9, <3>1
    <3>3. LeaveIn(dmaPc', dmaWait', dmaDev', d) = dmaWait' + later + 2 * WriteTicks
      BY <2>9, <3>1
    <3>4. dmaWait' + later + 2 * WriteTicks < close
      <4>1. (later + 2 * WriteTicks) + WriteTicks < close BY <2>2, <2>7, <2>9, <3>2
      <4>2. later + 2 * WriteTicks \in Nat BY <2>9
      <4>3. dmaWait' + (later + 2 * WriteTicks) < close
        BY <2>2, <3>1, <4>1, <4>2, Shorter
      <4>4. QED BY <2>9, <3>1, <4>3
    <3>5. QED BY <3>3, <3>4 DEF close
  <2>13. CASE Receive
    <3>1. /\ dmaPc = "receive" /\ dmaWait = 0 /\ dmaPc' = "reclaim"
          /\ dmaWait' \in 0 .. WriteTicks /\ dmaDev' = dmaDev
      BY <2>13 DEF Receive
    <3>2. leave = later + 2 * WriteTicks BY <2>9, <3>1
    <3>3. LeaveIn(dmaPc', dmaWait', dmaDev', d) = dmaWait' + later + WriteTicks
      BY <2>9, <3>1
    <3>4. dmaWait' + later + WriteTicks < close
      <4>1. later + WriteTicks + WriteTicks < close BY <2>2, <2>7, <2>9, <3>2
      <4>2. later + WriteTicks \in Nat BY <2>9
      <4>3. dmaWait' + (later + WriteTicks) < close
        BY <2>2, <3>1, <4>1, <4>2, Shorter
      <4>4. QED BY <2>9, <3>1, <4>3
    <3>5. QED BY <3>3, <3>4 DEF close
  <2>14. CASE Reclaim
    <3>1. /\ dmaPc = "reclaim" /\ dmaWait = 0 /\ dmaPc' = "send"
          /\ dmaWait' \in 0 .. WriteTicks /\ dmaDev' = dmaDev
      BY <2>14 DEF Reclaim
    <3>2. leave = later + WriteTicks BY <2>9, <3>1
    <3>3. LeaveIn(dmaPc', dmaWait', dmaDev', d) = dmaWait' + later
      BY <2>9, <3>1
    <3>4. dmaWait' + later < close
      <4>1. later + WriteTicks < close BY <2>7, <3>2
      <4>2. later \in Nat BY <2>9
      <4>3. QED BY <2>2, <3>1, <4>1, <4>2, Shorter
    <3>5. QED BY <3>3, <3>4 DEF close
  <2>15. CASE ReceiveFails \/ Send
    <3>1. /\ \/ dmaPc = "receive" /\ dmaWait' \in 0 .. WriteTicks
             \/ dmaPc = "send" /\ dmaWait' = 0
          /\ dmaWait = 0 /\ dmaPc' = "device" /\ dmaDev' = dmaDev + 1
      BY <2>15 DEF ReceiveFails, Send
    <3>2. LeaveIn(dmaPc', dmaWait', dmaDev', d) = dmaWait' + later BY <2>10, <3>1
    <3>3. dmaWait' + later <= leave BY <2>9, <3>1
    <3>4. dmaWait' + later < close BY <2>2, <2>7, <2>9, <3>1, <3>3
    <3>5. QED BY <3>2, <3>4 DEF close
  <2>16. QED BY <2>3, <2>11, <2>13, <2>14, <2>15, <2>12 DEF DmaTask
<1>5. QED BY <1>2, <1>3, <1>4 DEF Ahead, Closing

LEMMA AheadApp ==
  ASSUME TypeOK, Stages, Pace, RoundFits, Ahead, ~halted, TestApp
  PROVE  Ahead'
<1> USE DEF App
<1>1. DmaType /\ AppType BY TypeParts
<1>2. CASE dmaPc = "dormant"
  <2>1. dmaPc' \in {"dormant", "loop"} BY <1>2, AppLeavesDma
  <2>2. QED BY <2>1 DEF Ahead, InRound, InDriver
<1>3. CASE dmaPc # "dormant" /\ ~Quit /\ ~CleanupStop /\ ~CleanupClose
  <2>1. CleanupDone \/ Exit
    <3>1. ~SettingUp BY <1>3 DEF Stages
    <3>2. QED BY <1>3, <3>1 DEF TestApp, RouterOpen, RouterPort, RouterDone,
       RouterTooSmall, RouterFails, DevInit, DevInitFails, DevInitOnePort, DevInitDone,
       DevStart, DevStartFails, StartDma, SettingUp
  <2>2. UNCHANGED <<dh, dmaPc, dmaDev>> /\ ~Closing'
    BY <2>1 DEF CleanupDone, Exit, devVars, dmaVars, Closing
  <2>3. QED BY <2>2 DEF Ahead, InDriver
<1>4. CASE Quit
  <2>1. /\ UNCHANGED <<dh, dmaPc, dmaDev, dmaWait>>
        /\ dev' = 0 /\ appPc' = "stop" /\ appWait' = StopWait
    BY <1>4 DEF Quit, devVars, dmaVars
  <2>2. ASSUME InRound, NEW d \in dmaDev .. NoSpw - 1
        PROVE  LeaveIn(dmaPc, dmaWait, dmaDev, d) < CloseIn("stop", StopWait, 0, d)
    <3>1. d \in Dev /\ dmaDev \in 0 .. d /\ dmaWait \in Nat BY <1>1 DEF DmaType
    <3>2. /\ dmaPc \in {"device", "count", "receive", "reclaim", "send"}
          /\ Waits(dmaPc, dmaWait, dmaDev)
      BY <2>2 DEF InRound, InDriver, Pace
    <3>3. QED BY <3>1, <3>2, RoundFitsAtQuit
  <2>3. QED BY <2>1, <2>2 DEF Ahead, InRound, InDriver
<1>5. CASE CleanupStop
  <2>1. /\ UNCHANGED <<dh, dmaPc, dmaDev, dmaWait, dev>>
        /\ appPc = "stop" /\ appWait = 0
        /\ appPc' = "close" /\ appWait' = CleanupWait
    BY <1>5 DEF CleanupStop, dmaVars
  <2>2. ASSUME NEW d \in Int
        PROVE  CloseIn("close", CleanupWait, dev, d) = CloseIn("stop", 0, dev, d)
    BY <1>1 DEF CloseIn, CleanupWait, AppType
  <2>3. QED BY <2>1, <2>2 DEF Ahead, InRound, InDriver, Closing
<1>6. CASE CleanupClose
  <2>1. /\ UNCHANGED <<dmaPc, dmaDev, dmaWait, appWait>>
        /\ dh' = dh \ {dev} /\ dev' = dev + 1
        /\ appPc = "close" /\ appWait = 0 /\ appPc' = "stop"
    BY <1>6 DEF CleanupClose, dmaVars
  <2>2. ASSUME NEW d \in Int
        PROVE  CloseIn("stop", 0, dev + 1, d) = CloseIn("close", 0, dev, d)
    BY <1>1 DEF CloseIn, CleanupWait, AppType
  <2>3. ASSUME InDriver PROVE dmaDev # dev
    <3> SUFFICES ASSUME dmaDev = dev PROVE FALSE
      OBVIOUS
    <3>1. dev \in dmaDev .. NoSpw - 1 /\ dev \in Nat BY <1>1, <2>1 DEF AppType
    <3>2. LeaveIn(dmaPc, dmaWait, dev, dev) < CloseIn("close", 0, dev, dev)
      BY <2>1, <2>3, <3>1 DEF Ahead, Closing, InRound
    <3>3. CloseIn("close", 0, dev, dev) = 0 BY <3>1 DEF CloseIn, CleanupWait
    <3>4. LeaveIn(dmaPc, dmaWait, dev, dev) \in Nat
      <4>1. dmaWait \in Nat BY <1>1 DEF DmaType
      <4>2. 3 * WriteTicks * (dev - dev) \in Nat BY <3>1, LaterTicks
      <4>3. QED BY <2>3, <4>1, <4>2 DEF LeaveIn, InDriver
    <3>5. QED BY <3>2, <3>3, <3>4
  <2>4. InDriver' => dmaDev' \in dh'
    BY <2>1, <2>3 DEF Ahead, InDriver
  <2>5. ASSUME InRound, NEW d \in dmaDev .. NoSpw - 1, d >= dev + 1
        PROVE  LeaveIn(dmaPc, dmaWait, dmaDev, d) < CloseIn("stop", 0, dev + 1, d)
    <3>1. d >= dev /\ d \in Int BY <1>1, <2>5 DEF AppType, DmaType
    <3>2. QED BY <2>1, <2>2, <2>5, <3>1 DEF Ahead, Closing
  <2>6. QED BY <2>1, <2>4, <2>5 DEF Ahead, InRound, InDriver
<1>7. QED BY <1>2, <1>3, <1>4, <1>5, <1>6

LEMMA AheadTick ==
  ASSUME TypeOK, Pace, Ahead, Tick
  PROVE  Ahead'
<1>1. DmaType /\ AppType BY TypeParts
<1>2. UNCHANGED <<dh, appPc, dev, dmaPc, dmaDev>> BY DEF Tick, devVars
<1>3. ASSUME Closing, InRound, NEW d \in dmaDev .. NoSpw - 1, d >= dev
      PROVE  LeaveIn(dmaPc, dmaWait', dmaDev, d) < CloseIn(appPc, appWait', dev, d)
  <2>1. appWait' = appWait - 1 /\ dmaWait' = dmaWait - 1
    BY <1>1, <1>3 DEF Tick, AppReady, DmaReady, Closing, InRound, InDriver, AppType,
                      DmaType
  <2>2. /\ appWait \in Int /\ dmaWait \in Int /\ dev \in Int /\ dmaDev \in Int
        /\ dmaPc \in {"device", "count", "receive", "reclaim", "send"}
    BY <1>1, <1>3 DEF AppType, DmaType, InRound, InDriver
  <2>3. CloseIn(appPc, appWait - 1, dev, d) = CloseIn(appPc, appWait, dev, d) - 1
        /\ CloseIn(appPc, appWait, dev, d) \in Int
    BY <2>2 DEF CloseIn, CleanupWait
  <2>4. LeaveIn(dmaPc, dmaWait - 1, dmaDev, d) = LeaveIn(dmaPc, dmaWait, dmaDev, d) - 1
        /\ LeaveIn(dmaPc, dmaWait, dmaDev, d) \in Int
    <3>1. 3 * WriteTicks * (d - dmaDev) \in Int BY <2>2, Ticks
    <3>2. QED BY <2>2, <3>1 DEF LeaveIn
  <2>5. LeaveIn(dmaPc, dmaWait, dmaDev, d) < CloseIn(appPc, appWait, dev, d)
    BY <1>3 DEF Ahead
  <2>6. QED BY <2>1, <2>3, <2>4, <2>5
<1>4. QED BY <1>2, <1>3 DEF Ahead, InRound, InDriver, Closing

LEMMA AheadStep ==
  ASSUME TypeOK, Stages, Pace, RoundFits, Ahead, [Next]_vars
  PROVE  Ahead'
<1>1. CASE UNCHANGED vars
  BY <1>1 DEF vars, appVars, devVars, dmaVars, Ahead, Closing, InRound, InDriver
<1>2. QED BY <1>1, AheadDma, AheadApp, AheadTick DEF Next

----------------------------------------------------------------------------
(* The theorems *)

\* Each stage of the set-up has left the devices up to it open and started as it
\* means to, and where a round fits in the pauses dma_task is ahead of the cleanup.
THEOREM Inductive == Spec => []IInv
<1>1. Init => IInv
  <2> SUFFICES ASSUME Init PROVE IInv
    OBVIOUS
  <2>1. TypeOK /\ Stages BY TypeInit, StagesInit
  <2>2. RouterInv BY PortsNat, TypeParts, <2>1 DEF Init, RouterInv, Ports
  <2>3. NoneLeftRunning BY DEF Init, NoneLeftRunning
  <2>4. Pace /\ Ahead BY DEF Init, Pace, Ahead, InRound, InDriver
  <2>5. QED BY <2>1, <2>2, <2>3, <2>4 DEF IInv
<1>2. IInv /\ [Next]_vars => IInv'
  <2> SUFFICES ASSUME IInv, [Next]_vars PROVE IInv'
    OBVIOUS
  <2> USE DEF IInv
  <2>1. TypeOK' /\ RouterInv' BY TypeStep, RouterStep
  <2>2. CASE ~halted /\ TestApp
    BY <2>1, <2>2, StagesApp, NoneLeftApp, PaceStep, AheadStep DEF RoundFits
  <2>3. CASE ~(~halted /\ TestApp)
    <3>1. /\ UNCHANGED <<appPc, dev, tasks_stop, dh, dma>>
          /\ dmaPc' = dmaPc \/ dmaPc # "dormant"
          /\ halted' = halted \/ (halted' /\ dmaPc # "dormant")
      BY <2>3, DmaLeavesApp DEF Next, Tick, vars, appVars, devVars, dmaVars, DmaTask,
         DmaLoop, DmaDevice, DmaSleep, Count, Receive, ReceiveFails, Reclaim, Send,
         TransmitFails, DmaExit, Fail
    <3>2. Stages' BY <3>1, StagesKept
    <3>3. NoneLeftRunning' BY <3>1, NoneLeftKept DEF Stages, SettingUp
    <3>4. QED BY <2>1, <3>2, <3>3, PaceStep, AheadStep DEF RoundFits
  <2>4. QED BY <2>2, <2>3
<1>3. QED BY <1>1, <1>2, PTL DEF Spec

\* The variables of both tasks have their types: no device out of range is used.
THEOREM TypeCorrect == Spec => []TypeOK
<1>1. IInv => TypeOK BY DEF IInv
<1>2. QED BY <1>1, Inductive, PTL

\* No failure of the set-up gets past test_app: dma_task serves only devices whose
\* configured channels all run.
THEOREM OnlyRunningServed == Spec => []ServedIsRunning
<1>1. IInv => ServedIsRunning
  <2> SUFFICES ASSUME IInv PROVE ServedIsRunning
    OBVIOUS
  <2>1. TypeOK /\ RouterInv /\ Stages BY DEF IInv
  <2>2. ASSUME router_present = 1
        PROVE  /\ control[0] = "reset"
               /\ \A n \in 1 .. NPorts :
                    control[n] = IF n <= router_hw.spw THEN "0x0100002e" ELSE "0x00000028"
    <3>1. NPorts \in Nat /\ port = NPorts + 1
      BY <2>1, <2>2, PortsNat, TypeParts DEF RouterInv
    <3>2. \A n \in 1 .. NPorts : n < port BY <3>1
    <3>3. QED BY <2>1, <3>2 DEF RouterInv, Word
  <2>3. ASSUME dmaPc # "dormant", tasks_stop = 0, NEW d \in Dev
        PROVE  /\ d \in dh
               /\ \A c \in Chan : dma[d][c] = IF c \in ChanMask THEN "running" ELSE "closed"
    <3>1. appPc = "command" BY <2>1, <2>3 DEF Stages
    <3>2. d \in dh /\ dma[d] = Started(Opened(ChanMask), Chan) BY <2>1, <3>1 DEF Stages
    <3>3. QED BY <3>2, OpenChannels
  <2>4. QED BY <2>1, <2>2, <2>3 DEF ServedIsRunning
<1>2. QED BY <1>1, Inductive, PTL

\* A failed start and a finished shutdown leave no channel running.
THEOREM NothingLeftRunning == Spec => []NoneLeftRunning
<1>1. IInv => NoneLeftRunning BY DEF IInv
<1>2. QED BY <1>1, Inductive, PTL

\* Nothing but the pauses keeps dev_cleanup and dma_task apart, and they do: a round
\* that fits in them is through with a device before the device is closed.
THEOREM DriverNotCalledOnClosed == Spec => []NoCallOnClosed
<1>1. IInv => NoCallOnClosed
  <2> SUFFICES ASSUME IInv, RoundFits, InDriver PROVE dma[dmaDev][0] # "closed"
    BY DEF NoCallOnClosed
  <2>1. dmaDev \in dh /\ dmaDev \in Dev BY TypeParts DEF IInv, Ahead, DevType
  <2>2. ~SettingUp BY DEF IInv, Stages, InDriver
  <2>3. CASE appPc = "command"
    BY <2>1, <2>3, OpenChannels DEF IInv, Stages
  <2>4. CASE Closing BY <2>1, <2>4 DEF IInv, Stages
  <2>5. CASE appPc \in {"end", "completed"} BY <2>1, <2>5 DEF IInv, Stages
  <2>6. QED BY <2>2, <2>3, <2>4, <2>5, TypeParts DEF IInv, AppType, SettingUp, Closing
<1>2. QED BY <1>1, Inductive, PTL
=============================================================================
