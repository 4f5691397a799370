------------------------------- MODULE ApplyView --------------------------------
(***************************************************************************)
(* What the user sees of an apply: the Bubble Tea model, which turns the   *)
(* engine's events into a frame with a block per layer, and the counts of  *)
(* the summary.  Without a terminal the events are printed as they come    *)
(* (ProgressManager) and only the counts are kept.                         *)
(***************************************************************************)
EXTENDS Integers, SequencesExt

CONSTANTS
    Apply,
    Resource,
    Interactive,  \* applies whose standard output is a terminal
    MaxLogLines,  \* lines of output shown under a running task
    None

Counts == {"done", "reinstalled", "removed", "failed"}

VARIABLES
    view,      \* each apply's ApplyModel
    results    \* each apply's ApplyResults

TaskState == [status : {"running", "done", "failed"}, lines : Nat, progress : BOOLEAN]

NoTasks == [r \in Resource |-> None]

NewApplyModel ==
    [allLayerNodes |-> <<>>, totalLayers |-> 0, currentLayer |-> 1, currentPhase |-> "dag",
     completedLayers |-> <<>>, tasks |-> NoTasks, taskOrder |-> <<>>, completedOrder |-> <<>>,
     quit |-> FALSE, interrupted |-> FALSE]

ViewInit ==
    /\ view = [a \in Apply |-> NewApplyModel]
    /\ results = [a \in Apply |-> [c \in Counts |-> 0]]

--------------------------------------------------------------------------------
(***************************************************************************)
(* Update.  A program that has quit takes no more messages.                *)
(***************************************************************************)

Takes(a) == a \in Interactive /\ ~view[a].quit

\* snapshotCurrentLayer; nothing was started under a header of no layers.
Snapshot(m) ==
    IF m.totalLayers = 0
    THEN m
    ELSE [m EXCEPT !.completedLayers =
              Append(@, [phase |-> m.currentPhase, tasks |-> m.tasks,
                         taskOrder |-> m.taskOrder, completedOrder |-> m.completedOrder])]

ResetTasks(m) == [m EXCEPT !.tasks = NoTasks, !.taskOrder = <<>>, !.completedOrder = <<>>]

NextHeader_SnapshotAlways(m, e) ==
    IF e.phase # "dag"
    THEN LET s == Snapshot(m)
         IN  [s EXCEPT !.allLayerNodes = Append(@, e.nodes),
                       !.currentLayer = Len(s.allLayerNodes) + 1,
                       !.currentPhase = e.phase]
    ELSE [Snapshot(m) EXCEPT !.currentLayer = e.layer, !.currentPhase = e.phase]

\* The layers of the graph are known from the first event on, that of the
\* rebuilds and that of the removals are appended when they begin.
NextHeader(m, e) ==
    IF e.phase # "dag"
    THEN LET s == Snapshot(m)
         IN  [s EXCEPT !.allLayerNodes = Append(@, e.nodes),
                       !.currentLayer = Len(s.allLayerNodes) + 1,
                       !.currentPhase = e.phase]
    ELSE LET s == IF e.layer > 1 THEN Snapshot(m) ELSE m
         IN  [s EXCEPT !.currentLayer = e.layer, !.currentPhase = e.phase]

IsFirst(m) == m.allLayerNodes = <<>>

HandleLayerStart(a, e) ==
    LET m == view[a]
        known == IF IsFirst(m)
                 THEN [m EXCEPT !.allLayerNodes = e.all, !.totalLayers = Len(e.all)]
                 ELSE m
    IN  /\ view' = IF Takes(a) THEN [view EXCEPT ![a] = ResetTasks(NextHeader(known, e))] ELSE view
        /\ UNCHANGED results

HandleStart(a, r) ==
    /\ view' = IF Takes(a) /\ view[a].tasks[r] = None
               THEN [view EXCEPT ![a].tasks[r] = [status |-> "running", lines |-> 0, progress |-> FALSE],
                                 ![a].taskOrder = Append(@, r)]
               ELSE view
    /\ UNCHANGED results

\* What ThrottledReporter drops, coming too soon after the last, never gets here.
HandleProgress(a, r) ==
    /\ view' = IF Takes(a) /\ view[a].tasks[r] # None
               THEN [view EXCEPT ![a].tasks[r].progress = TRUE]
               ELSE view
    /\ UNCHANGED results

HandleOutput(a, r) ==
    /\ view' = IF Takes(a) /\ view[a].tasks[r] # None
               THEN [view EXCEPT ![a].tasks[r].lines = IF @ < MaxLogLines THEN @ + 1 ELSE @]
               ELSE view
    /\ UNCHANGED results

\* updateResults: a rebuild is counted as one, whatever its action.
Counted(phase) ==
    CASE phase = "taint"  -> "reinstalled"
      [] phase = "remove" -> "removed"
      [] OTHER            -> "done"

\* handleComplete and handleError of the model, which count only what it
\* shows, and of ProgressManager.
HandleEnd(a, r, status, count) ==
    IF a \in Interactive /\ (view[a].quit \/ view[a].tasks[r] = None)
    THEN UNCHANGED <<view, results>>
    ELSE /\ results' = [results EXCEPT ![a][count] = @ + 1]
         /\ view' = IF a \in Interactive
                    THEN [view EXCEPT ![a].tasks[r].status = status,
                                      ![a].completedOrder = Append(@, r)]
                    ELSE view

HandleComplete(a, r, phase) == HandleEnd(a, r, "done", Counted(phase))

HandleError(a, r) == HandleEnd(a, r, "failed", "failed")

HandleApplyDone(a) ==
    /\ view' = IF Takes(a) THEN [view EXCEPT ![a] = [Snapshot(@) EXCEPT !.quit = TRUE]] ELSE view
    /\ UNCHANGED results

\* Ctrl+C.
Interrupt(a) ==
    /\ Takes(a)
    /\ view' = [view EXCEPT ![a].interrupted = TRUE, ![a].quit = TRUE]
    /\ UNCHANGED results

--------------------------------------------------------------------------------
(***************************************************************************)
(* View.                                                                   *)
(***************************************************************************)

\* renderTask: a finished task is a line; a running one is a progress bar or
\* a spinner over the last lines of its output.
Line(r, t) ==
    [task |-> r,
     shows |-> IF t.status = "running" /\ t.progress THEN "bar" ELSE t.status,
     lines |-> IF t.status = "running" /\ ~t.progress THEN t.lines ELSE 0]

\* renderTaskList: first what has ended, in that order, then the rest
\* by their places in the order of the starts.
TaskList(l) ==
    [ended |-> [i \in DOMAIN l.completedOrder |-> Line(l.completedOrder[i], l.tasks[l.completedOrder[i]])],
     running |-> [i \in {j \in DOMAIN l.taskOrder : l.taskOrder[j] \notin ToSet(l.completedOrder)} |->
                     Line(l.taskOrder[i], l.tasks[l.taskOrder[i]])]]

Block(m, i, phase, lines) == [nodes |-> m.allLayerNodes[i], phase |-> phase, lines |-> lines]

Frame(m) ==
    LET shown == Len(m.completedLayers)
        live == m.allLayerNodes # <<>> /\ shown < m.currentLayer
        first == (IF shown < m.currentLayer THEN m.currentLayer ELSE shown) + 1
    IN  [i \in 1 .. shown |->
            Block(m, i, m.completedLayers[i].phase, TaskList(m.completedLayers[i]))]
        \o (IF live THEN <<Block(m, m.currentLayer, m.currentPhase, TaskList(m))>> ELSE <<>>)
        \o [i \in 1 .. (IF m.totalLayers < first THEN 0 ELSE m.totalLayers - first + 1) |->
               Block(m, first + i - 1, "dag", [ended |-> <<>>, running |-> <<>>])]

================================================================================
