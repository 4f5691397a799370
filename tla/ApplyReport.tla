------------------------------ MODULE ApplyReport -------------------------------
(***************************************************************************)
(* tomei apply around the engine: the event handler that feeds the view    *)
(* and the log store, Ctrl+C, and finishApply.  The engine is what it      *)
(* emits: a layer starts, then each of its nodes that has something to do  *)
(* starts, prints, and completes or fails; the nodes of a layer run        *)
(* concurrently, rebuilds and removals one by one, and nothing starts      *)
(* after a layer with a failure.  Only one apply at a time has the engine  *)
(* (the state's lock), but logs are opened before the lock is taken and    *)
(* written after it is released.                                           *)
(***************************************************************************)
EXTENDS LogStore

CONSTANTS
    Interactive,  \* applies whose standard output is a terminal
    MaxLogLines,
    Plans,      \* Plans[a]: what an apply may have to do, sequences of [phase, nodes]
    Download,   \* resources that are downloaded: they report progress, the others' commands print
    Repository, \* resources that are installer repositories
    MaxOutput,  \* bound: MaxOutput[r], lines that a resource prints
    MaxKills    \* bound: applies that are killed

ASSUME ReportAssumption ==
    /\ Interactive \subseteq Apply
    /\ MaxLogLines \in Nat /\ MaxOutput \in [Resource -> Nat] /\ MaxKills \in Nat

Phases == {"dag", "taint", "remove"}

\* Rebuilds and removals come after the layers of the graph; without a layer
\* there is nothing to rebuild.
ASSUME PlansAssumption ==
    \A a \in Apply : \A p \in Plans[a] :
        /\ p \in Seq([phase : Phases, nodes : SUBSET Resource])
        /\ \E d \in 0 .. Len(p) :
              /\ \A i \in DOMAIN p : p[i].phase = "dag" <=> i <= d
              /\ d = 0 => Len(p) <= 1

VARIABLES
    view, results,  \* of ApplyView
    clock,      \* the second it is
    pc,         \* each apply: "new", "opened", "running", "flush", "cleanup", "close", "over" or "dead"
    locked,     \* the apply that has the engine, or None
    plan,       \* what it has to do
    layer,      \* the layer it is in
    running,    \* the nodes that have started and not ended
    told,       \* history: what the events of each layer said of each resource
    cancelled   \* applies whose context is cancelled

INSTANCE ApplyView

\* What the events of a layer say of a resource.
Said == [lines : Nat, outcome : {"running", "done", "failed"}]

ASSUME NoneAssumption == None \notin Said \cup TaskState

viewVars == <<view, results>>
reportVars == <<clock, pc, locked, plan, layer, running, told, cancelled>>
vars == <<logVars, viewVars, reportVars>>

Init ==
    /\ LogInit /\ ViewInit
    /\ clock \in Second
    /\ \A t \in Second : sessions[t] # None => t < clock
    /\ pc = [a \in Apply |-> "new"]
    /\ locked = None
    /\ plan = [a \in Apply |-> <<>>]
    /\ layer = [a \in Apply |-> 0]
    /\ running = {}
    /\ told = [a \in Apply |-> <<>>]
    /\ cancelled = {}

--------------------------------------------------------------------------------
\* The clock is read by Open only.
Tick ==
    /\ clock < LastSecond
    /\ \E a \in Apply : pc[a] = "new"
    /\ clock' = clock + 1
    /\ UNCHANGED <<logVars, viewVars, pc, locked, plan, layer, running, told, cancelled>>

Goto(a, label) == pc' = [pc EXCEPT ![a] = label]

Open(a) ==
    /\ pc[a] = "new"
    /\ NewStore(a, clock)
    /\ Goto(a, "opened")
    /\ UNCHANGED <<viewVars, clock, locked, plan, layer, running, told, cancelled>>

\* Engine.Apply: without the lock it fails at once.
Begin(a) ==
    /\ pc[a] = "opened"
    /\ IF locked = None
       THEN /\ locked' = a
            /\ \E p \in Plans[a] : plan' = [plan EXCEPT ![a] = p]
            /\ Goto(a, "running")
            /\ UNCHANGED viewVars
       ELSE /\ Goto(a, "flush")
            /\ HandleApplyDone(a)
            /\ UNCHANGED <<locked, plan>>
    /\ UNCHANGED <<logVars, clock, layer, running, told, cancelled>>

Emits(a) == pc[a] = "running"

Heard(a) == told[a][layer[a]]

Failed(a) == layer[a] > 0 /\ \E r \in Resource : Heard(a)[r] # None /\ Heard(a)[r].outcome = "failed"

DagLayers(p) ==
    [i \in 1 .. Cardinality({j \in DOMAIN p : p[j].phase = "dag"}) |-> p[i].nodes]

Event(p, i) == [phase |-> p[i].phase, layer |-> i, nodes |-> p[i].nodes,
                all |-> IF p[i].phase = "dag" THEN DagLayers(p) ELSE <<>>]

LayerStart(a) ==
    /\ Emits(a) /\ running = {} /\ ~Failed(a)
    /\ layer[a] < Len(plan[a])
    /\ layer' = [layer EXCEPT ![a] = @ + 1]
    /\ told' = [told EXCEPT ![a] = Append(@, [r \in Resource |-> None])]
    /\ HandleLayerStart(a, Event(plan[a], layer[a] + 1))
    /\ UNCHANGED <<logVars, clock, pc, locked, plan, running, cancelled>>

Phase(a) == plan[a][layer[a]].phase

Start(a, r) ==
    /\ Emits(a) /\ layer[a] > 0
    /\ r \in plan[a][layer[a]].nodes /\ Heard(a)[r] = None
    /\ Phase(a) # "dag" => running = {} /\ ~Failed(a)
    /\ running' = running \cup {r}
    /\ told' = [told EXCEPT ![a][layer[a]][r] = [lines |-> 0, outcome |-> "running"]]
    /\ HandleStart(a, r)
    /\ RecordStart(a, r)
    /\ UNCHANGED <<clock, pc, locked, plan, layer, cancelled>>

\* buildNodeContext: the engine listens to the tools and runtimes of the graph's
\* layers.  A rebuild, a removal and a repository run without a callback: what
\* their commands print goes to the debug log, and a download is silent.
Heeds(a, r) == Phase(a) = "dag" /\ r \notin Repository

Output(a, r) ==
    /\ Emits(a) /\ r \in running \ Download
    /\ Heeds(a, r)
    /\ Heard(a)[r].lines < MaxOutput[r]
    /\ told' = [told EXCEPT ![a][layer[a]][r].lines = @ + 1]
    /\ HandleOutput(a, r)
    /\ RecordOutput(a, r)
    /\ UNCHANGED <<clock, pc, locked, plan, layer, running, cancelled>>

Progress(a, r) ==
    /\ Emits(a) /\ r \in running \cap Download
    /\ Heeds(a, r)
    /\ HandleProgress(a, r)
    /\ UNCHANGED <<logVars, reportVars>>

Ends(a, r, outcome) ==
    /\ Emits(a) /\ r \in running
    /\ running' = running \ {r}
    /\ told' = [told EXCEPT ![a][layer[a]][r].outcome = outcome]
    /\ UNCHANGED <<clock, pc, locked, plan, layer, cancelled>>

Complete(a, r) ==
    /\ Ends(a, r, "done")
    /\ HandleComplete(a, r, Phase(a))
    /\ RecordComplete(a, r)

Error(a, r) ==
    /\ Ends(a, r, "failed")
    /\ HandleError(a, r)
    /\ RecordError(a, r)

\* Apply returns: after its last layer, after a failure, or cancelled.
Return(a) ==
    /\ Emits(a) /\ running = {}
    /\ (layer[a] = Len(plan[a]) \/ Failed(a) \/ a \in cancelled)
    /\ locked' = None
    /\ Goto(a, "flush")
    /\ HandleApplyDone(a)
    /\ UNCHANGED <<logVars, clock, plan, layer, running, told, cancelled>>

\* Ctrl+C ends the program; runApplyWithTUI cancels the engine.
CtrlC(a) ==
    /\ pc[a] = "running"
    /\ Interrupt(a)
    /\ cancelled' = cancelled \cup {a}
    /\ UNCHANGED <<logVars, clock, pc, locked, plan, layer, running, told>>

--------------------------------------------------------------------------------
\* finishApply, after <-engineDone.
Finish(a) ==
    /\ pc[a] = "flush"
    /\ Flush(a)
    /\ Goto(a, "cleanup")
    /\ UNCHANGED <<viewVars, clock, locked, plan, layer, running, told, cancelled>>

RemoveOld(a) ==
    /\ pc[a] = "cleanup"
    /\ Cleanup(a)
    /\ Goto(a, "close")
    /\ UNCHANGED <<viewVars, clock, locked, plan, layer, running, told, cancelled>>

\* The deferred Close, after the summary is printed.
CloseStore(a) ==
    /\ pc[a] = "close"
    /\ Close(a)
    /\ Goto(a, "over")
    /\ UNCHANGED <<viewVars, clock, locked, plan, layer, running, told, cancelled>>

Dead == {a \in Apply : pc[a] = "dead"}

Kill(a) ==
    /\ pc[a] \in {"running", "flush", "cleanup", "close"}
    /\ Cardinality(Dead) < MaxKills
    /\ Goto(a, "dead")
    /\ locked' = IF locked = a THEN None ELSE locked
    /\ running' = IF locked = a THEN {} ELSE running
    /\ UNCHANGED <<logVars, viewVars, clock, plan, layer, told, cancelled>>

Next ==
    \/ Tick
    \/ \E a \in Apply :
        \/ Open(a) \/ Begin(a) \/ LayerStart(a) \/ Return(a) \/ CtrlC(a)
        \/ Finish(a) \/ RemoveOld(a) \/ CloseStore(a) \/ Kill(a)
        \/ \E r \in Resource :
              Start(a, r) \/ Output(a, r) \/ Progress(a, r) \/ Complete(a, r) \/ Error(a, r)

Spec == Init /\ [][Next]_vars

--------------------------------------------------------------------------------
\* The layers in which the engine has said something of a resource.
Mentions(a, r) == {i \in DOMAIN told[a] : told[a][i][r] # None}

Final(a, r) == told[a][Max(Mentions(a, r))][r]

\* The resources whose last word was an error, with the output events before it.
Failures(a) ==
    {[name |-> r, output |-> Final(a, r).lines] :
        r \in {q \in Resource : Mentions(a, q) # {} /\ Final(a, q).outcome = "failed"}}

Logs(t) == {[name |-> r, output |-> ReadResourceLog(t, r)] : r \in ReadSessionLogs(t)}

OwnSecond(a) == \A b \in Apply \ {a} : pc[b] # "new" => store[b].session # store[a].session

Later(a) == {b \in Apply : pc[b] # "new" /\ store[b].session > store[a].session}

\* Later sessions are of applies that ended well or have said nothing yet, and
\* too few for Cleanup to have removed this one.
IsLatest(a) ==
    /\ Cardinality(Later(a)) < Keep
    /\ \A b \in Later(a) : pc[b] = "opened" \/ (pc[b] = "over" /\ Failures(b) = {})

(***************************************************************************)
(* Every failed resource of an apply has a log, with every line that the   *)
(* engine passed on since the resource was last started, in the apply's    *)
(* session; nothing else has one, an apply without failures leaves no      *)
(* session, and `tomei logs` answers with the failures of the last apply   *)
(* that had some.  It holds whatever another apply opens, flushes, cleans  *)
(* up or closes meanwhile, when the user interrupts the apply, and when a  *)
(* resource is built twice, as long as no other apply began in the same    *)
(* second and none was killed.  A rebuild, a removal or a repository that  *)
(* fails has a log without a line of output (Heeds), also when the first   *)
(* build of the apply printed some.                                        *)
(* (RecordStart, Flush, Cleanup, Close; finishApply after <-engineDone.)   *)
(***************************************************************************)
LogsTellFailures ==
    \A a \in Apply :
        LET t == store[a].session
        IN  (pc[a] = "over" /\ OwnSecond(a)) =>
                IF Failures(a) = {}
                THEN sessions[t] = None
                ELSE /\ sessions[t] = None \/ Logs(t) = Failures(a)
                     /\ IsLatest(a) => LatestLogs = Failures(a)

\* What a task's line should say; a progress bar stands for its output.
RightLine(l, t) ==
    \/ l.shows = t.outcome /\ l.lines = (IF t.outcome # "running" THEN 0
                                         ELSE IF t.lines < MaxLogLines THEN t.lines ELSE MaxLogLines)
    \/ l.shows = "bar" /\ t.outcome = "running"

FrameShowsLayers(a) ==
    LET frame == Frame(view[a])
        begun == layer[a]
        graph == Len(DagLayers(plan[a]))
    IN  /\ Len(frame) = IF begun < graph THEN graph ELSE begun
        /\ \A i \in DOMAIN frame :
              LET started == IF i <= begun THEN {r \in Resource : told[a][i][r] # None} ELSE {}
                  ended == frame[i].lines.ended
                  rest == frame[i].lines.running
                  lines == ToSet(ended) \cup ToSet(rest)
              IN  /\ frame[i].nodes = plan[a][i].nodes
                  /\ frame[i].phase = plan[a][i].phase
                  /\ Len(ended) + Cardinality(DOMAIN rest) = Cardinality(started)
                  /\ {l.task : l \in lines} = started
                  /\ \A l \in lines : RightLine(l, told[a][i][l.task])
                  /\ \A l \in ToSet(ended) : l.shows \in {"done", "failed"}

Outcomes(a, phases, outcome) ==
    {w \in (DOMAIN told[a]) \X Resource :
        /\ plan[a][w[1]].phase \in phases
        /\ told[a][w[1]][w[2]] # None /\ told[a][w[1]][w[2]].outcome = outcome}

(***************************************************************************)
(* At every moment until Ctrl+C the frame shows every layer once, in       *)
(* order, those that have begun with each of their started tasks once and  *)
(* its outcome, and the graph's others as still to come; and the summary   *)
(* counts every outcome once: what the layers of the graph completed (the  *)
(* summary's installs, upgrades and reinstalls of those layers are one     *)
(* number here), the rebuilds, the removals and the failures, also of what *)
(* was installed and then rebuilt.  It holds in an apply of removals only, *)
(* with rebuilds, and after a failure.  (handleLayerStart,                 *)
(* snapshotCurrentLayer, View, updateResults.)                             *)
(***************************************************************************)
ViewTellsTheApply ==
    \A a \in Apply :
        ~view[a].interrupted =>
            /\ (a \in Interactive /\ layer[a] > 0) => FrameShowsLayers(a)
            /\ results[a]["done"] = Cardinality(Outcomes(a, {"dag"}, "done"))
            /\ results[a]["reinstalled"] = Cardinality(Outcomes(a, {"taint"}, "done"))
            /\ results[a]["removed"] = Cardinality(Outcomes(a, {"remove"}, "done"))
            /\ results[a]["failed"] = Cardinality(Outcomes(a, {"dag", "taint", "remove"}, "failed"))

================================================================================
