---------------------------- MODULE SpwLifecycle ----------------------------
(***************************************************************************)
(* From power-up to "EXAMPLE COMPLETED" in the GR740 application: the      *)
(* router set-up of spwrouter_custom_config.c, dev_init and grspw_start    *)
(* for every device, and the shutdown, which closes the devices while      *)
(* dma_task may still be in its round.  Nothing but the ticks the two      *)
(* tasks sleep keeps them apart, so time is counted here: a step takes no  *)
(* time, except writing to the console, and the clock ticks when no task   *)
(* is ready.  What test_app writes itself only puts the closing off, and   *)
(* is left out.  What the commands do meanwhile is in SpwPackets.          *)
(***************************************************************************)
EXTENDS Integers, FiniteSets

CONSTANTS
  NoSpw,        \* nospw
  NChans,       \* hwsup.ndma_chans
  ChanMask,     \* the channels in enable_chan_mask ({0} in dev_def_cfg)
  WriteTicks    \* most ticks a task waits for the console to take its lines

Dev   == 0 .. NoSpw - 1
Chan  == 0 .. NChans - 1

StartWait   == 12    \* the arguments of rtems_task_wake_after
StopWait    == 8
CleanupWait == 4
EndWait     == 8
Period      == 20

\* dma_process waits for the console up to three times for a device.  A round
\* that starts just before the quit is through with every device before
\* dev_cleanup closes it.
RoundFits ==
  \A d \in Dev : 3 * WriteTicks * (d + 1) < StopWait + CleanupWait * (d + 1)

ASSUME LifecycleAssumption ==
  /\ NoSpw \in Nat \ {0}
  /\ NChans \in Nat \ {0}
  /\ 0 \in ChanMask
  /\ ChanMask \subseteq Chan
  /\ WriteTicks \in Nat

VARIABLES
  router_hw,      \* number of SpW, AMBA and FIFO ports the router reports
  port,           \* router_configure: the next port to activate
  control,        \* the control word written to each port
  router_present,
  appPc, dev,     \* test_app: where it is, its device
  appWait,        \* ticks test_app still sleeps
  dh,             \* the open devices
  dma,            \* the state of each DMA channel of each device
  tasks_stop,
  dmaPc, dmaDev,  \* dma_task: where it is, its device
  dmaWait,        \* ticks dma_task still sleeps or waits for the console
  halted

routerVars == <<router_hw, port, control, router_present>>
appVars    == <<appPc, dev, appWait, tasks_stop>>
devVars    == <<dh, dma>>
dmaVars    == <<dmaPc, dmaDev, dmaWait>>
vars       == <<routerVars, appVars, devVars, dmaVars, halted>>

NPorts == router_hw.spw + router_hw.amba + router_hw.fifo
Ports  == 0 .. NPorts

Init ==
  /\ router_hw \in [spw : 1..2, amba : 1..2, fifo : 0..1]
  /\ port = 0
  /\ control = [i \in Ports |-> "reset"]
  /\ router_present = 0
  /\ appPc = "router" /\ dev = 0 /\ appWait = 0 /\ tasks_stop = 0
  /\ dh = {}
  /\ dma = [d \in Dev |-> [c \in Chan |-> "closed"]]
  /\ dmaPc = "dormant" /\ dmaDev = 0 /\ dmaWait = 0
  /\ halted = FALSE

App(pc) == appPc = pc /\ appWait = 0

\* exit(0): nothing is undone.
Fail ==
  /\ halted' = TRUE
  /\ UNCHANGED <<routerVars, appVars, dmaVars>>

----------------------------------------------------------------------------
(* router_configure.  A step that fails leaves the ones before it done.     *)

PortType(i) ==
  CASE i = 0                                       -> "cfg"
    [] i \in 1 .. router_hw.spw                    -> "spw"
    [] i > router_hw.spw /\ i <= router_hw.spw + router_hw.amba -> "amba"
    [] i > router_hw.spw + router_hw.amba          -> "fifo"

ControlWord ==
  [spw |-> "0x0100002e", amba |-> "0x00000028", fifo |-> "0x00000028"]

\* router_open to the first status loop.
RouterOpen ==
  /\ App("router")
  /\ appPc' = "ports"
  /\ UNCHANGED <<routerVars, dev, appWait, tasks_stop, devVars, dmaVars, halted>>

RouterPort ==
  /\ App("ports")
  /\ port <= NPorts
  /\ control' = IF PortType(port) = "cfg" THEN control
                ELSE [control EXCEPT ![port] = ControlWord[PortType(port)]]
  /\ port' = port + 1
  /\ UNCHANGED <<router_hw, router_present, appVars, devVars, dmaVars, halted>>

RouterDone ==
  /\ App("ports")
  /\ port > NPorts
  /\ router_hw.amba >= 2
  /\ router_present' = 1
  /\ appPc' = "init"
  /\ UNCHANGED <<router_hw, port, control, dev, appWait, tasks_stop, devVars,
                 dmaVars, halted>>

\* "Router with less than 2 AMBA ports not supported"
RouterTooSmall ==
  /\ App("ports")
  /\ port > NPorts
  /\ router_hw.amba < 2
  /\ Fail
  /\ UNCHANGED devVars

\* "Failed router initialization, assuming that it does not exists"
RouterFails ==
  /\ App("router") \/ App("ports")
  /\ appPc' = "init"
  /\ UNCHANGED <<routerVars, dev, appWait, tasks_stop, devVars, dmaVars, halted>>

----------------------------------------------------------------------------
(* dev_init, with grspw_cfg_set: the channels in the mask are opened, and   *)
(* one that cannot be does not keep the others closed.                      *)

Opened(cs) == [c \in Chan |-> IF c \in cs THEN "open" ELSE "closed"]

\* Mutated: grspw_cfg_set returns 0 whatever could not be opened.
DevInitIgnores ==
  /\ App("init") /\ dev < NoSpw
  /\ dh' = dh \cup {dev}
  /\ \E cs \in SUBSET ChanMask : dma' = [dma EXCEPT ![dev] = Opened(cs)]
  /\ dev' = dev + 1
  /\ UNCHANGED <<routerVars, appPc, appWait, tasks_stop, dmaVars, halted>>

DevInit ==
  /\ App("init") /\ dev < NoSpw
  /\ dh' = dh \cup {dev}
  /\ dma' = [dma EXCEPT ![dev] = Opened(ChanMask)]
  /\ dev' = dev + 1
  /\ UNCHANGED <<routerVars, appPc, appWait, tasks_stop, dmaVars, halted>>

\* grspw_open or grspw_rmap_ctrl failed, or a channel did: the device is closed
\* again, its channels are not.
DevInitFails ==
  /\ App("init") /\ dev < NoSpw
  /\ \E cs \in SUBSET ChanMask :
       cs # ChanMask /\ dma' = [dma EXCEPT ![dev] = Opened(cs)]
  /\ Fail
  /\ UNCHANGED dh

\* "Succeeded to select port1, however only one PORT": left open.
DevInitOnePort ==
  /\ App("init") /\ dev < NoSpw
  /\ dh' = dh \cup {dev}
  /\ dma' = [dma EXCEPT ![dev] = Opened(ChanMask)]
  /\ Fail

DevInitDone ==
  /\ App("init") /\ dev = NoSpw
  /\ dev' = 0
  /\ appPc' = "start"
  /\ UNCHANGED <<routerVars, appWait, tasks_stop, devVars, dmaVars, halted>>

----------------------------------------------------------------------------
(* grspw_start, grspw_stop and the start of dma_task                        *)

Started(chans, cs) ==
  [c \in Chan |-> IF chans[c] # "closed" /\ c \in cs THEN "running" ELSE chans[c]]

\* Mutated: no channel is stopped.
StoppedNot(chans) == chans

Stopped(chans) ==
  [c \in Chan |-> IF chans[c] = "running" THEN "open" ELSE chans[c]]

DevStart ==
  /\ App("start") /\ dev < NoSpw
  /\ dma' = [dma EXCEPT ![dev] = Started(@, Chan)]
  /\ dev' = dev + 1
  /\ UNCHANGED <<routerVars, appPc, appWait, tasks_stop, dh, dmaVars, halted>>

\* Channel c does not start: grspw_stop stops the ones before it.
DevStartFails ==
  /\ App("start") /\ dev < NoSpw
  /\ \E c \in Chan :
       /\ dma[dev][c] # "closed"
       /\ dma' = [dma EXCEPT ![dev] = Stopped(Started(@, 0 .. c - 1))]
  /\ Fail
  /\ UNCHANGED dh

\* dma_task begins with a line of its own.
StartDma ==
  /\ App("start") /\ dev = NoSpw
  /\ dmaPc' = "loop"
  /\ dmaWait' \in 0 .. WriteTicks
  /\ appWait' = StartWait
  /\ appPc' = "command"
  /\ UNCHANGED <<routerVars, dev, tasks_stop, devVars, dmaDev, halted>>

----------------------------------------------------------------------------
(* Command q and dev_cleanup                                                *)

\* Mutated: without the pause after tasks_stop is set.
QuitAtOnce ==
  /\ App("command")
  /\ tasks_stop' = 1
  /\ appWait' = 0
  /\ dev' = 0
  /\ appPc' = "stop"
  /\ UNCHANGED <<routerVars, devVars, dmaVars, halted>>

Quit ==
  /\ App("command")
  /\ tasks_stop' = 1
  /\ appWait' = StopWait
  /\ dev' = 0
  /\ appPc' = "stop"
  /\ UNCHANGED <<routerVars, devVars, dmaVars, halted>>

CleanupStop ==
  /\ App("stop") /\ dev < NoSpw
  /\ dma' = [dma EXCEPT ![dev] = Stopped(@)]
  /\ appWait' = CleanupWait
  /\ appPc' = "close"
  /\ UNCHANGED <<routerVars, dev, tasks_stop, dh, dmaVars, halted>>

ClosedUpTo(chans, n) == [c \in Chan |-> IF c < n THEN "closed" ELSE chans[c]]

\* Mutated: the loop of test_app does not advance.
CleanupCloseStuck ==
  /\ App("close")
  /\ dma' = [dma EXCEPT ![dev] = ClosedUpTo(@, NChans)]
  /\ dh' = dh \ {dev}
  /\ appPc' = "stop"
  /\ UNCHANGED <<routerVars, dev, appWait, tasks_stop, dmaVars, halted>>

\* dev_dma_close_all stops at the first channel that cannot be closed; the
\* device is closed all the same.
CleanupClose ==
  /\ App("close")
  /\ \E n \in 0 .. NChans : dma' = [dma EXCEPT ![dev] = ClosedUpTo(@, n)]
  /\ dh' = dh \ {dev}
  /\ dev' = dev + 1
  /\ appPc' = "stop"
  /\ UNCHANGED <<routerVars, appWait, tasks_stop, dmaVars, halted>>

CleanupDone ==
  /\ App("stop") /\ dev = NoSpw
  /\ appWait' = EndWait
  /\ appPc' = "end"
  /\ UNCHANGED <<routerVars, dev, tasks_stop, devVars, dmaVars, halted>>

\* "EXAMPLE COMPLETED."
Exit ==
  /\ App("end")
  /\ appPc' = "completed"
  /\ halted' = TRUE
  /\ UNCHANGED <<routerVars, dev, appWait, tasks_stop, devVars, dmaVars>>

TestApp ==
  \/ RouterOpen \/ RouterPort \/ RouterDone \/ RouterTooSmall \/ RouterFails
  \/ DevInit \/ DevInitFails \/ DevInitOnePort \/ DevInitDone
  \/ DevStart \/ DevStartFails \/ StartDma
  \/ Quit \/ CleanupStop \/ CleanupClose \/ CleanupDone \/ Exit

----------------------------------------------------------------------------
(* dma_task                                                                 *)

Task(pc) == dmaPc = pc /\ dmaWait = 0

\* Mutated: tasks_stop is not looked at between the rounds.
DmaLoopOn ==
  /\ Task("loop")
  /\ dmaPc' = "device" /\ dmaDev' = 0
  /\ UNCHANGED <<routerVars, appVars, devVars, dmaWait, halted>>

DmaLoop ==
  /\ Task("loop")
  /\ IF tasks_stop = 0
       THEN dmaPc' = "device" /\ dmaDev' = 0
       ELSE dmaPc' = "deleted" /\ UNCHANGED dmaDev
  /\ UNCHANGED <<routerVars, appVars, devVars, dmaWait, halted>>

DmaDevice ==
  /\ Task("device") /\ dmaDev < NoSpw
  /\ IF dmaDev \in dh
       THEN dmaPc' = "count" /\ UNCHANGED dmaDev
       ELSE dmaDev' = dmaDev + 1 /\ UNCHANGED dmaPc
  /\ UNCHANGED <<routerVars, appVars, devVars, dmaWait, halted>>

DmaSleep ==
  /\ Task("device") /\ dmaDev = NoSpw
  /\ dmaWait' = Period
  /\ dmaPc' = "loop"
  /\ UNCHANGED <<routerVars, appVars, devVars, dmaDev, halted>>

\* grspw_dma_rx_count and grspw_dma_tx_count, then eight lines when the receive
\* ring is full.
Count ==
  /\ Task("count")
  /\ dmaWait' \in 0 .. WriteTicks
  /\ dmaPc' = "receive"
  /\ UNCHANGED <<routerVars, appVars, devVars, dmaDev, halted>>

\* grspw_dma_rx_prepare and grspw_dma_rx_recv, then a line for each packet.
Receive ==
  /\ Task("receive")
  /\ dmaWait' \in 0 .. WriteTicks
  /\ dmaPc' = "reclaim"
  /\ UNCHANGED <<routerVars, appVars, devVars, dmaDev, halted>>

\* "rx_prep failed" or "rx_recv failed"
ReceiveFails ==
  /\ Task("receive")
  /\ dma[dmaDev][0] # "running"
  /\ dmaWait' \in 0 .. WriteTicks
  /\ dmaPc' = "device" /\ dmaDev' = dmaDev + 1
  /\ UNCHANGED <<routerVars, appVars, devVars, halted>>

\* grspw_dma_tx_reclaim, then a line for each packet to send.
Reclaim ==
  /\ Task("reclaim")
  /\ dmaWait' \in 0 .. WriteTicks
  /\ dmaPc' = "send"
  /\ UNCHANGED <<routerVars, appVars, devVars, dmaDev, halted>>

Send ==
  /\ Task("send")
  /\ dmaPc' = "device" /\ dmaDev' = dmaDev + 1
  /\ UNCHANGED <<routerVars, appVars, devVars, dmaWait, halted>>

\* "tx_reclaim failed" or "tx_send failed", and then exit(0).
TransmitFails ==
  /\ Task("reclaim") \/ Task("send")
  /\ dma[dmaDev][0] # "running"
  /\ dmaWait' \in 0 .. WriteTicks
  /\ dmaPc' = "exit"
  /\ UNCHANGED <<routerVars, appVars, devVars, dmaDev, halted>>

DmaExit ==
  /\ Task("exit")
  /\ Fail
  /\ UNCHANGED devVars

DmaTask ==
  \/ DmaLoop \/ DmaDevice \/ DmaSleep \/ Count
  \/ Receive \/ ReceiveFails \/ Reclaim \/ Send \/ TransmitFails \/ DmaExit

----------------------------------------------------------------------------
(* A tick passes when both tasks wait.  At the prompt test_app waits for a  *)
(* command, ready to go on at any moment.                                   *)
AppReady == appWait = 0 /\ appPc # "command"
DmaReady == dmaWait = 0 /\ dmaPc \notin {"dormant", "deleted"}

Tick ==
  /\ ~AppReady /\ ~DmaReady
  /\ appWait > 0 \/ dmaWait > 0
  /\ appWait' = IF appWait > 0 THEN appWait - 1 ELSE 0
  /\ dmaWait' = IF dmaWait > 0 THEN dmaWait - 1 ELSE 0
  /\ UNCHANGED <<routerVars, appPc, dev, tasks_stop, devVars, dmaPc, dmaDev, halted>>

Next == ~halted /\ (TestApp \/ DmaTask \/ Tick)

Spec == Init /\ [][Next]_vars

(***************************************************************************)
(* Every ready task runs and the clock ticks; nothing is assumed of the    *)
(* user, who may never quit.                                               *)
(***************************************************************************)
Fairness == WF_vars(Next /\ ~ (tasks_stop = 0 /\ tasks_stop' = 1))

FairSpec == Spec /\ Fairness

----------------------------------------------------------------------------
(* Properties *)

InDriver == dmaPc \in {"count", "receive", "reclaim", "send"}

TypeOK ==
  /\ router_hw \in [spw : 1..2, amba : 1..2, fifo : 0..1]
  /\ port \in 0 .. NPorts + 1
  /\ control \in [Ports -> {"reset", "0x0100002e", "0x00000028"}]
  /\ router_present \in {0, 1}
  /\ appPc \in {"router", "ports", "init", "start", "command", "stop", "close",
                "end", "completed"}
  /\ dev \in 0 .. NoSpw
  /\ appPc = "close" => dev < NoSpw
  /\ appWait \in 0 .. StartWait
  /\ tasks_stop \in {0, 1}
  /\ dh \subseteq Dev
  /\ dma \in [Dev -> [Chan -> {"closed", "open", "running"}]]
  /\ dmaPc \in {"dormant", "loop", "device", "count", "receive", "reclaim", "send",
                "exit", "deleted"}
  /\ dmaDev \in 0 .. NoSpw
  /\ InDriver => dmaDev < NoSpw
  /\ dmaWait \in 0 .. Period \/ dmaWait \in 0 .. WriteTicks
  /\ halted \in BOOLEAN

\* As long as nobody quits, dma_task finds every device open with exactly the
\* configured channels running: no failure of dev_init gets past test_app.  And
\* the application takes the router for present only if every SpaceWire, AMBA
\* and FIFO port got the control word of its kind, the configuration port none.
ServedIsRunning ==
  /\ TypeOK
  /\ router_present = 1 =>
       /\ control[0] = "reset"
       /\ \A i \in 1 .. NPorts :
            control[i] = IF i <= router_hw.spw THEN "0x0100002e" ELSE "0x00000028"
  /\ dmaPc # "dormant" /\ tasks_stop = 0 =>
       \A d \in Dev :
         d \in dh /\ \A c \in Chan : dma[d][c] = IF c \in ChanMask THEN "running" ELSE "closed"

\* A device whose start failed, and a device that dev_cleanup has passed, has no
\* channel running; "EXAMPLE COMPLETED" is printed with every device closed, even
\* where one of its channels could not be closed.
NoneLeftRunning ==
  /\ \A d \in Dev :
       \/ appPc = "start" /\ halted /\ d = dev
       \/ appPc = "stop" /\ d < dev
       \/ appPc = "close" /\ d <= dev
       \/ appPc = "completed"
       => \A c \in Chan : dma[d][c] # "running"
  /\ appPc = "completed" => dh = {}

\* If its rounds fit in the pauses, dma_task never calls the driver with a
\* channel that dev_cleanup has closed.
NoCallOnClosed == RoundFits => (InDriver => dma[dmaDev][0] # "closed")

\* A quit ends the program, even if dma_task fails on a stopped channel first.
QuitEnds == tasks_stop = 1 ~> halted
=============================================================================
