------------------------------ MODULE PeekPoke ------------------------------
(***************************************************************************)
(* The memory monitor misc/peek-poke/peekpoke.py.  The GTK thread keeps a  *)
(* grid with a row per element of each monitored variable, tells the       *)
(* target what to monitor (telecommands) and starts and kills plotters;    *)
(* the poll thread takes telemetry from a queue, shows it in the grid and  *)
(* writes it to the FIFOs of the plotters.  The GTK lock is held by every  *)
(* callback and around the update of the grid, and by nothing else: only   *)
(* the steps of a callback that touch the plotters, which the poll thread  *)
(* uses without the lock, are steps of their own here.                     *)
(*                                                                         *)
(* A Variable is a row name "symbol(offset)".  The values in the grid,     *)
(* poking, which sends one telecommand and keeps nothing, and the          *)
(* recording to a .csv file are left out.                                  *)
(***************************************************************************)
EXTENDS Integers, Sequences, FiniteSets, SequencesExt

CONSTANTS
  Variable,         \* names the user may enter
  Numbered, Base,   \* those of a known symbol and with a number for offset, and
                    \* the address of each
  Type, Octet,      \* types the user may choose; Octet is shown in one row
  Size,             \* sizePerType
  Kinds,            \* the kinds of plotter, in the order they are served
  Process,          \* bound: plotter processes that can be running
  File,             \* .mon files, as on_SaveAs writes them: variables in order
                    \* (it fails at an offset that is no number)
  MaxElements,      \* bound: elements of a variable (10 in the code)
  MaxQueue,         \* bound: telemetry waiting in the queue
  MaxCalls,         \* bound: what the user does before the end
  None

\* None, as in Python, is no address, name, type, process or plotter.
ASSUME PeekPokeAssumption ==
  /\ Numbered \subseteq Variable /\ Base \in [Numbered -> Nat]
  /\ Size \in [Type -> Nat] /\ Octet \in Type /\ Size[Octet] = 0
  /\ Kinds \in Seq(Range(Kinds)) /\ Kinds # <<>>
  /\ File \subseteq Seq([name : Numbered, n : 1 .. MaxElements, type : Type])
  /\ File # {}
  /\ MaxElements \in Nat \ {0} /\ MaxQueue \in Nat /\ MaxCalls \in Nat
  /\ None \notin Nat
  /\ None \notin Variable \cup Type \cup Process \cup [Range(Kinds) -> Process \cup {None}]

Addresses(v, n, t) == {Base[v] + Size[t] * e : e \in 0 .. n - 1}
Address == UNION {Addresses(v, MaxElements, t) : v \in Numbered, t \in Type}
Kind    == Range(Kinds)

VARIABLES
  grid,        \* listOfMonitoredStore
  typeOf,      \* symbolChosenTypeMap
  nameOf,      \* actualOffsetToFullNameMap, without the element index
  plotted,     \* plottedVariables: the plotter of each kind, at each address
  alive,       \* plotters that are running
  monitored,   \* the target: elements it monitors at each address, or 0
  queue,       \* telemetry on its way: the address and how many elements
  gui,         \* the GTK thread
  job,         \* what its callback is removing or killing
  after,       \* what on_Exit or on_Open does once everything is removed
  loading,     \* what on_Open still has to add of the file
  locked,      \* the GTK thread has left gtk.main with the GTK lock
  bDie,        \* _bDie; None while the thread has no such attribute
  poll,        \* the poll thread
  todo,        \* addresses whose values it has still to show and to plot
  served,      \* the kind of plotter it is at
  held,        \* the PlottedVariable it has if plotted has another one now
  intact,      \* no telecommand failed, no removal found its rows scattered
  disturbed,   \* a plotter has ended of itself
  raced,       \* a callback took a FIFO the poll thread was about to write to
  calls        \* what the user has done but for the end

gridVars == <<grid, typeOf, nameOf>>
plotVars == <<plotted, alive, disturbed, raced>>
pollVars == <<poll, todo, served>>
jobVars  == <<job, after, loading>>
vars == <<gridVars, plotVars, monitored, queue, gui, jobVars, locked,
          bDie, pollVars, held, intact, calls>>

NoPlotters == [k \in Kind |-> None]
NoJob == [rows |-> 0, at |-> 0, offset |-> 0, size |-> 0, name |-> None,
          kinds |-> <<>>, back |-> "ready"]

Init ==
  /\ grid = <<>>
  /\ typeOf = [v \in Variable |-> None]
  /\ nameOf = [a \in Address |-> None]
  /\ plotted = [a \in Address |-> None]
  /\ alive = {}
  /\ monitored = [a \in Address |-> 0]
  /\ queue = <<>>
  /\ gui = "starting" /\ job = NoJob /\ after = "quit"
  /\ loading = <<>>
  /\ locked = FALSE /\ bDie = None
  /\ poll = "new" /\ todo = <<>> /\ served = 1 /\ held = None
  /\ intact = TRUE /\ disturbed = FALSE /\ raced = FALSE /\ calls = 0

----------------------------------------------------------------------------
(* The grid                                                                 *)

Row(v, e) == [name |-> v, element |-> e]
RowAddress(r) == Base[r.name] + Size[typeOf[r.name]] * r.element
RowsOf(v) == {i \in DOMAIN grid : grid[i].name = v}
FirstRow(v) == {i \in RowsOf(v) : grid[i].element = 0}

\* The elements that have no row yet, and the rows AddToMonitorList appends for
\* them, in their order.
NewElements(v, n) == {e \in 0 .. n - 1 : \A i \in RowsOf(v) : grid[i].element # e}

Missing(v, n) ==
  LET new == NewElements(v, n)
  IN [j \in 1 .. Cardinality(new) |->
        Row(v, CHOOSE e \in new : Cardinality({f \in new : f <= e}) = j)]

\* AddVariable.  Every address of the variable is marked as not plotted: a
\* PlottedVariable the poll thread is writing to may be replaced.
AddVariable(v, n, t) ==
  LET rows  == Missing(v, IF t = Octet THEN 1 ELSE n)
      marks == Addresses(v, n, t)
  IN /\ typeOf' = [typeOf EXCEPT ![v] = t]
     /\ grid' = grid \o rows
     /\ nameOf' = [a \in Address |->
          IF \E i \in DOMAIN rows : a = Base[v] + Size[t] * rows[i].element
            THEN v ELSE nameOf[a]]
     /\ \E sent \in BOOLEAN :
          /\ monitored' = IF sent THEN [monitored EXCEPT ![Base[v]] = n]
                                  ELSE monitored
          /\ intact' = (intact /\ sent)
     /\ plotted' = [a \in Address |-> IF a \in marks THEN NoPlotters ELSE plotted[a]]
     /\ held' = IF /\ poll \in {"test", "write"} /\ held = None
                   /\ Head(todo) \in marks
                  THEN plotted[Head(todo)] ELSE held
     /\ UNCHANGED <<alive, disturbed, raced>>

\* The same of a name whose offset is no number: AddToMonitorList appends the
\* first row that is missing before it fails.
AddUnnumbered(v, n, t) ==
  LET rows == Missing(v, IF t = Octet THEN 1 ELSE n)
  IN /\ typeOf' = [typeOf EXCEPT ![v] = t]
     /\ grid' = IF rows = <<>> THEN grid ELSE Append(grid, Head(rows))
     /\ UNCHANGED <<nameOf, plotVars, monitored, held, intact>>

AddToList ==
  /\ gui = "ready"
  /\ \E v \in Variable, n \in 1 .. MaxElements, t \in Type :
       IF v \in Numbered THEN AddVariable(v, n, t) ELSE AddUnnumbered(v, n, t)
  /\ UNCHANGED <<queue, gui, jobVars, locked, bDie, pollVars>>

\* The grid can be reordered with the mouse.
MoveRow ==
  /\ gui = "ready"
  /\ \E i, j \in DOMAIN grid :
       /\ i # j
       /\ grid' = InsertAt(RemoveAt(grid, i), j, grid[i])
  /\ UNCHANGED <<typeOf, nameOf, plotVars, monitored, queue, gui, jobVars,
                 locked, bDie, pollVars, held, intact>>

----------------------------------------------------------------------------
(* Plotters                                                                 *)

Registered == {plotted[a][k] : a \in {b \in Address : plotted[b] # None}, k \in Kind}
                \cup (IF held = None THEN {} ELSE Range(held))
AllNumbered == \A i \in DOMAIN grid : grid[i].name \in Numbered

\* The button idleFunc leaves sensitive for a row, or the callback behind it
\* heeds.  A row without a number ends idleFunc for good when it is selected.
ButtonOf(r, k) ==
  LET a == RowAddress(r) IN
  IF r.name \notin Numbered \/ (typeOf[r.name] = Octet /\ AllNumbered) THEN "none"
  ELSE IF a \in Address /\ plotted[a] # None /\ plotted[a][k] # None THEN "unplot"
  ELSE "plot"

NewProcess == Process \ (alive \cup Registered)

\* Starts a plotter unless there is one.  plottedVariables need not have the
\* address (a row keeps its place when its variable gets another type): then
\* the callback ends with a KeyError.
Plot ==
  /\ gui \in {"ready", "replot"}
  /\ NewProcess # {}
  /\ \E i \in DOMAIN grid, k \in Kind :
       LET a == RowAddress(grid[i]) IN
       /\ ButtonOf(grid[i], k) = "plot"
       /\ a \in Address /\ plotted[a] # None
       /\ LET p == CHOOSE p \in NewProcess : TRUE IN
          /\ plotted' = [plotted EXCEPT ![a][k] = p]
          /\ alive' = alive \cup {p}
  /\ UNCHANGED <<gridVars, disturbed, raced, monitored, queue, gui, jobVars, locked,
                 bDie, pollVars, held, intact>>

\* Unplot and Unmeter: what Kill and Clear do, for the one kind.
Unplot ==
  /\ gui = "ready"
  /\ \E i \in DOMAIN grid, k \in Kind :
       /\ ButtonOf(grid[i], k) = "unplot"
       /\ job' = [NoJob EXCEPT !.offset = RowAddress(grid[i]), !.kinds = <<k>>]
  /\ gui' = "kill"
  /\ UNCHANGED <<gridVars, plotVars, monitored, queue, after, loading,
                 locked, bDie, pollVars, held, intact>>

\* KillTree of the next plotter at this address, if there is one.
Kill ==
  /\ gui = "kill"
  /\ LET a == job.offset
         none == a \notin Address \/ plotted[a] = None IN
     IF none \/ job.kinds = <<>>
       THEN /\ gui' = IF job.name = None THEN "ready" ELSE "delete"
            /\ job' = [job EXCEPT !.kinds = <<>>, !.rows = IF @ = 0 THEN 0 ELSE @ - 1,
                                  !.offset = @ + job.size]
            /\ UNCHANGED alive
       ELSE /\ gui' = IF plotted[a][Head(job.kinds)] = None THEN "kill" ELSE "clear"
            /\ job' = IF gui' = "kill" THEN [job EXCEPT !.kinds = Tail(@)] ELSE job
            /\ alive' = alive \ {plotted[a][Head(job.kinds)]}
  /\ UNCHANGED <<gridVars, plotted, disturbed, raced, monitored, queue, after, loading,
                 locked, bDie, pollVars, held, intact>>

\* The poll thread is at the plotter that is being killed.
AtIt ==
  held = None /\ Head(todo) = job.offset /\ Kinds[served] = Head(job.kinds)

\* The FIFO and the pid of a killed plotter are forgotten.
Clear ==
  /\ gui = "clear"
  /\ raced' = (raced \/ (poll = "write" /\ AtIt))
  /\ plotted' = [plotted EXCEPT ![job.offset][Head(job.kinds)] = None]
  /\ job' = [job EXCEPT !.kinds = Tail(@)]
  /\ gui' = "kill"
  /\ UNCHANGED <<gridVars, alive, disturbed, monitored, queue, after, loading,
                 locked, bDie, pollVars, held, intact>>

\* The user closes the window of a plotter.
PlotterExits ==
  /\ \E p \in alive : alive' = alive \ {p}
  /\ disturbed' = TRUE
  /\ UNCHANGED <<gridVars, plotted, raced, monitored, queue, gui, jobVars,
                 locked, bDie, pollVars, held, intact>>

----------------------------------------------------------------------------
(* Removing                                                                 *)

\* The rows of v stand together, element 0 first.
Together(v) ==
  \A i \in FirstRow(v) : RowsOf(v) = i .. i + Cardinality(RowsOf(v)) - 1

\* Without a row for element 0 the callback ends in a TypeError, without a
\* number for offset in a ValueError.
BeginRemove(v, back) ==
  IF FirstRow(v) = {} \/ v \notin Numbered
    THEN gui' = "ready" /\ job' = NoJob /\ intact' = (intact /\ v \notin Numbered)
    ELSE /\ gui' = "delete"
         /\ job' = [rows |-> Cardinality(RowsOf(v)),
                    at |-> CHOOSE i \in FirstRow(v) : TRUE,
                    offset |-> Base[v], size |-> Size[typeOf[v]],
                    name |-> v, kinds |-> <<>>, back |-> back]
         /\ intact' = (intact /\ Together(v))

RemoveSelected ==
  /\ gui = "ready"
  /\ \E i \in DOMAIN grid : BeginRemove(grid[i].name, "ready")
  /\ UNCHANGED <<gridVars, plotVars, monitored, queue, after, loading,
                 locked, bDie, pollVars, held>>

\* Mutated: each deletion is one row further down.
DeleteRowAdvance ==
  /\ gui = "delete" /\ job.rows > 0
  /\ IF job.at > Len(grid)
       THEN gui' = "ready" /\ job' = NoJob /\ UNCHANGED grid
       ELSE /\ grid' = RemoveAt(grid, job.at)
            /\ job' = [job EXCEPT !.kinds = Kinds, !.at = @ + 1]
            /\ gui' = "kill"
  /\ UNCHANGED <<typeOf, nameOf, plotVars, monitored, queue, after, loading,
                 locked, bDie, pollVars, held, intact>>

\* Deletes the row where the first element stood, or raises when the grid
\* ends before it.
DeleteRow ==
  /\ gui = "delete" /\ job.rows > 0
  /\ IF job.at > Len(grid)
       THEN gui' = "ready" /\ job' = NoJob /\ UNCHANGED grid
       ELSE /\ grid' = RemoveAt(grid, job.at)
            /\ job' = [job EXCEPT !.kinds = Kinds]
            /\ gui' = "kill"
  /\ UNCHANGED <<typeOf, nameOf, plotVars, monitored, queue, after, loading,
                 locked, bDie, pollVars, held, intact>>

\* Mutated: the telecommand is sent with the address of the last element.
RemovedLast ==
  /\ gui = "delete" /\ job.rows = 0
  /\ \E sent \in BOOLEAN :
       /\ monitored' = IF sent /\ job.offset - job.size \in Address
                         THEN [monitored EXCEPT ![job.offset - job.size] = 0] ELSE monitored
       /\ intact' = (intact /\ sent)
  /\ gui' = job.back /\ job' = NoJob
  /\ UNCHANGED <<gridVars, plotVars, queue, after, loading, locked, bDie,
                 pollVars, held>>

\* The telecommand that ends the monitoring.
Removed ==
  /\ gui = "delete" /\ job.rows = 0
  /\ \E sent \in BOOLEAN :
       /\ monitored' = IF sent THEN [monitored EXCEPT ![Base[job.name]] = 0] ELSE monitored
       /\ intact' = (intact /\ sent)
  /\ gui' = job.back /\ job' = NoJob
  /\ UNCHANGED <<gridVars, plotVars, queue, after, loading, locked, bDie,
                 pollVars, held>>

\* RemoveAllMonitorings, as on_Exit and on_Open call it.
Exit ==
  /\ gui = "ready"
  /\ gui' = "removeAll" /\ after' = "quit"
  /\ UNCHANGED <<gridVars, plotVars, monitored, queue, job, loading,
                 locked, bDie, pollVars, held, intact>>

Open ==
  /\ gui = "ready"
  /\ \E file \in File : loading' = file
  /\ gui' = "removeAll" /\ after' = "load"
  /\ UNCHANGED <<gridVars, plotVars, monitored, queue, job, locked, bDie,
                 pollVars, held, intact>>

RemoveAll ==
  /\ gui = "removeAll"
  /\ IF grid = <<>>
       THEN gui' = after /\ UNCHANGED <<job, intact>>
       ELSE BeginRemove(grid[1].name, "removeAll")
  /\ UNCHANGED <<gridVars, plotVars, monitored, queue, after, loading,
                 locked, bDie, pollVars, held>>

\* on_Open adds what the file lists, one variable after the other, and then
\* plots those that were plotted, which are any of them here.
Load ==
  /\ gui = "load"
  /\ IF loading = <<>>
       THEN gui' = "replot" /\ UNCHANGED <<gridVars, plotVars, monitored, held, intact, loading>>
       ELSE /\ AddVariable(Head(loading).name, Head(loading).n, Head(loading).type)
            /\ loading' = Tail(loading)
            /\ gui' = gui
  /\ UNCHANGED <<queue, job, after, locked, bDie, pollVars>>

Loaded ==
  /\ gui = "replot"
  /\ gui' = "ready"
  /\ UNCHANGED <<gridVars, plotVars, monitored, queue, jobVars, locked,
                 bDie, pollVars, held, intact>>

----------------------------------------------------------------------------
(* The main program                                                         *)

Start ==
  /\ gui = "starting"
  /\ gui' = "ready" /\ poll' = "check"
  /\ UNCHANGED <<gridVars, plotVars, monitored, queue, jobVars, locked,
                 bDie, todo, served, held, intact>>

\* gtk.main raises (an interrupt, a display that is lost): the GTK lock is
\* not given back.
Interrupt ==
  /\ gui = "ready"
  /\ gui' = "tell" /\ locked' = TRUE
  /\ UNCHANGED <<gridVars, plotVars, monitored, queue, jobVars, bDie,
                 pollVars, held, intact>>

\* gtk.main returns after main_quit.
Quit ==
  /\ gui = "quit"
  /\ gui' = "tell"
  /\ UNCHANGED <<gridVars, plotVars, monitored, queue, jobVars, locked,
                 bDie, pollVars, held, intact>>

Tell ==
  /\ gui = "tell"
  /\ bDie' = TRUE /\ gui' = "join"
  /\ UNCHANGED <<gridVars, plotVars, monitored, queue, jobVars, locked,
                 pollVars, held, intact>>

Join ==
  /\ gui = "join" /\ poll \in {"ended", "crashed"}
  /\ gui' = "exited"
  /\ UNCHANGED <<gridVars, plotVars, monitored, queue, jobVars, locked,
                 bDie, pollVars, held, intact>>

Callback ==
  \/ /\ calls < MaxCalls
     /\ \/ AddToList \/ MoveRow \/ Plot \/ Unplot \/ RemoveSelected \/ Open
     /\ calls' = calls + 1
  \/ (Exit \/ Interrupt) /\ UNCHANGED calls
Main == \/ Start \/ Kill \/ Clear \/ DeleteRow \/ Removed \/ RemoveAll \/ Load
        \/ Loaded \/ Quit \/ Tell \/ Join

----------------------------------------------------------------------------
(* The poll thread                                                          *)

PollUnchanged == UNCHANGED <<gridVars, plotVars, monitored, gui, jobVars,
                             locked, intact>>

\* The test of _bDie before it is reset ...
Check ==
  /\ poll = "check"
  /\ poll' = IF bDie = TRUE THEN "ended" ELSE "reset"
  /\ PollUnchanged /\ UNCHANGED <<queue, bDie, todo, served, held>>

\* ... and the reset.
Reset ==
  /\ poll = "reset"
  /\ bDie' = FALSE /\ poll' = "open"
  /\ PollUnchanged /\ UNCHANGED <<queue, todo, served, held>>

OpenQueue ==
  /\ \/ poll = "open" /\ poll' \in {"poll", "sleep"}
     \/ poll = "sleep" /\ poll' = IF bDie THEN "ended" ELSE "open"
  /\ PollUnchanged /\ UNCHANGED <<queue, bDie, todo, served, held>>

\* Mutated: the loop of the thread does not look at _bDie.
RetrieveAlways ==
  /\ poll = "poll" /\ queue # <<>>
  /\ queue' = Tail(queue)
  /\ UNCHANGED todo /\ UNCHANGED poll
  /\ PollUnchanged /\ UNCHANGED <<bDie, served, held>>

\* The addresses ProcessTM handles, one for each value of the message: none if
\* the address is unknown, a single one for octets.
Elements(a, n) ==
  IF nameOf[a] = None THEN <<>>
  ELSE LET t == typeOf[nameOf[a]] IN
       IF t = Octet THEN <<a>> ELSE [j \in 1 .. n |-> a + Size[t] * (j - 1)]

\* The loop: takes a message, if there is one.
Retrieve ==
  /\ poll = "poll"
  /\ IF bDie THEN poll' = "ended" /\ UNCHANGED <<queue, todo>>
     ELSE /\ queue # <<>>
          /\ queue' = Tail(queue)
          /\ todo' = Elements(Head(queue).address, Head(queue).n)
          /\ poll' = IF todo' = <<>> THEN "poll" ELSE "show"
  /\ PollUnchanged /\ UNCHANGED <<bDie, served, held>>

LockFree == gui \in {"ready", "starting"} \/ (gui \in {"tell", "join", "exited"} /\ ~locked)

\* A row without a number comes before all rows with the address.
Unreadable(a) ==
  \E i \in DOMAIN grid : /\ grid[i].name \notin Numbered
                         /\ \A j \in 1 .. i - 1 : grid[j].name \in Numbered
                                                 /\ RowAddress(grid[j]) # a

\* UpdateMonitoredVariable, under the GTK lock, changes the value of a row.
Show ==
  /\ poll = "show"
  /\ LockFree
  /\ poll' = IF Unreadable(Head(todo)) THEN "crashed" ELSE "fetch"
  /\ PollUnchanged /\ UNCHANGED <<queue, bDie, todo, served, held>>

\* Without the lock from here on.
Fetch ==
  /\ poll = "fetch"
  /\ IF Head(todo) \in Address /\ plotted[Head(todo)] # None
       THEN poll' = "test" /\ UNCHANGED todo
       ELSE todo' = Tail(todo) /\ poll' = IF todo' = <<>> THEN "poll" ELSE "show"
  /\ PollUnchanged /\ UNCHANGED <<queue, bDie, served, held>>

\* The plotter at hand, as the PlottedVariable has it now.
Plotter == (IF held = None THEN plotted[Head(todo)] ELSE held)[Kinds[served]]

\* To the next kind of plotter, or the next address.
Served ==
  IF served < Len(Kinds)
    THEN served' = served + 1 /\ poll' = "test" /\ UNCHANGED <<todo, held>>
    ELSE /\ served' = 1 /\ held' = None /\ todo' = Tail(todo)
         /\ poll' = IF todo' = <<>> THEN "poll" ELSE "show"

\* Mutated: written without looking whether there is a FIFO.
TestNothing ==
  /\ poll = "test"
  /\ poll' = "write" /\ UNCHANGED <<served, held, todo>>
  /\ PollUnchanged /\ UNCHANGED <<queue, bDie>>

Test ==
  /\ poll = "test"
  /\ IF Plotter = None THEN Served
       ELSE poll' = "write" /\ UNCHANGED <<served, held, todo>>
  /\ PollUnchanged /\ UNCHANGED <<queue, bDie>>

\* Fails if the FIFO is None by now, or nobody reads it any more.
Write ==
  /\ poll = "write"
  /\ IF Plotter \in alive THEN Served
       ELSE poll' = "crashed" /\ UNCHANGED <<served, held, todo>>
  /\ PollUnchanged /\ UNCHANGED <<queue, bDie>>

Poll == Check \/ Reset \/ OpenQueue \/ Retrieve \/ Show \/ Fetch \/ Test \/ Write

\* The target reports what it monitors.
Target ==
  /\ Len(queue) < MaxQueue
  /\ \E a \in Address :
       /\ monitored[a] > 0
       /\ queue' = Append(queue, [address |-> a, n |-> monitored[a]])
  /\ UNCHANGED <<gridVars, plotVars, monitored, gui, jobVars, locked,
                 bDie, pollVars, held, intact>>

Next == \/ Callback
        \/ (Main \/ Poll \/ PlotterExits \/ Target) /\ UNCHANGED calls

Spec == Init /\ [][Next]_vars
\* The threads are scheduled; the user, the plotters and the target owe nothing.
FairSpec == Spec /\ WF_vars(Main /\ UNCHANGED calls) /\ WF_vars(Poll /\ UNCHANGED calls)

----------------------------------------------------------------------------
(* Properties                                                               *)

Plotters == [Kind -> Process \cup {None}] \cup {None}

TypeOK ==
  /\ \A i \in DOMAIN grid : grid[i] \in
       [name : Variable, element : 0 .. MaxElements - 1]
  /\ IsInjective(grid)
  /\ typeOf \in [Variable -> Type \cup {None}]
  /\ nameOf \in [Address -> Variable \cup {None}]
  /\ plotted \in [Address -> Plotters] /\ held \in Plotters
  /\ alive \subseteq Process
  /\ monitored \in [Address -> 0 .. MaxElements]
  /\ Len(queue) <= MaxQueue
  /\ gui \in {"starting", "ready", "delete", "kill", "clear", "removeAll", "load",
              "replot", "quit", "tell", "join", "exited"}
  /\ after \in {"quit", "load"}
  /\ \E f \in File : loading \in Suffixes(f)
  /\ locked \in BOOLEAN /\ bDie \in {None, TRUE, FALSE}
  /\ poll \in {"new", "check", "reset", "open", "sleep", "poll", "show", "fetch",
               "test", "write", "ended", "crashed"}
  /\ served \in DOMAIN Kinds
  /\ {intact, disturbed, raced} \subseteq BOOLEAN /\ calls \in 0 .. MaxCalls

\* As long as every removal found the rows of its variable together, each of
\* the deletions, all at the place of the first, takes a row of that variable,
\* and none is left when the target is told: no other variable loses a row.
RemovesVariable ==
  [][gui = "delete" /\ intact =>
       IF job.rows > 0
         THEN job.at <= Len(grid) /\ grid[job.at].name = job.name
         ELSE \A i \in DOMAIN grid : grid[i].name # job.name]_vars

\* As long as no telecommand failed and every removal found its rows
\* together, whatever the target still monitors has its first row in the
\* grid, but for what is being removed: nothing is monitored that the user
\* cannot remove, and nothing at all once on_Exit has ended the program.
WatchedIsShown ==
  /\ TypeOK
  /\ intact => \A a \in Address : monitored[a] > 0 =>
       \/ job.name # None /\ Base[job.name] = a
       \/ \E i \in DOMAIN grid : /\ grid[i].name \in Numbered /\ grid[i].element = 0
                                  /\ Base[grid[i].name] = a

\* What the poll thread can die of, and nothing else: a plotter that ended of
\* itself, a row whose offset is no number, or the race with a callback for the
\* very plotter it is at, from the kill until the FIFO is off the record, or when
\* the FIFO goes between its test and its write.  No callback leaves a killed
\* plotter on record.
PollSurvives ==
  [][poll # "crashed" /\ poll' = "crashed" =>
       \/ disturbed \/ ~AllNumbered \/ raced
       \/ gui = "clear" /\ AtIt]_vars

\* "When the main thread sets it, we will die" (peekpoke.py:74), and the program
\* ends: if the poll thread has got past its own reset of _bDie, and the main
\* thread has left gtk.main without the GTK lock.
Joins ==
  gui = "tell" /\ ~locked /\ poll \notin {"check", "reset"} ~> gui = "exited"
=============================================================================
