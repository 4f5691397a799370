---------------------------- MODULE LayerExecution -----------------------------
(***************************************************************************)
(* The layer loop of Engine.Apply (internal/installer/engine): layers run  *)
(* one after the other, each in three phases (runtimes and installers,     *)
(* then installer repositories, then tools), each phase sequentially or in *)
(* goroutines under a weighted semaphore.  Tools that go through the same  *)
(* package manager form a delegation group: one goroutine runs them one    *)
(* by one.  State is flushed after every layer, also after a failed one.   *)
(*                                                                         *)
(* What a node does is its outcome here; a signal may cancel the context   *)
(* at any time, and a cancelled node may still finish either way.          *)
(***************************************************************************)
EXTENDS Integers, FiniteSets

CONSTANTS
    Node,         \* the nodes of the layers
    Layer,        \* Layer[n] \in 1 .. Layers
    Layers,       \* the number of layers
    Kind,         \* Kind[n]: its resource kind
    RuntimeRef,   \* RuntimeRef[n]: the runtime a tool is installed with, or None
    InstallerRef, \* InstallerRef[n]: the installer a tool is installed with, or None
    Delegating,   \* the installers of type delegation
    None,
    Rank,         \* Rank[n]: the place of n in its sorted layer
    Parallelism   \* engine.parallelism, clamped to at least 1

Kinds == {"Runtime", "Installer", "InstallerRepository", "Tool"}

Outcomes == {"ok", "upgraded", "failed"}

ASSUME ConstAssumption ==
    /\ IsFiniteSet(Node)
    /\ Layers \in Nat
    /\ Layer \in [Node -> 1 .. Layers]
    /\ Kind \in [Node -> Kinds]
    /\ Rank \in [Node -> Nat]
    /\ \A n, m \in Node : Rank[n] = Rank[m] => n = m
    /\ Parallelism \in Nat \ {0}
    \* a delegation key is never the empty string
    /\ \A n \in Node :
          None \notin {<<"runtime", RuntimeRef[n]>>, <<"installer", InstallerRef[n]>>}

VARIABLES
    main,      \* Apply's goroutine: "layer", "phase", "sequential", "launch",
               \* "groups", "wait", "flush" or "returned"
    layer,     \* the current layer
    phase,     \* executeLayer: 1, 2 or 3
    status,    \* status[n]: "idle", "running", "executed", "leaving" or "done"
    outcome,   \* outcome[n]: what executeNode returned, "none" before that
    group,     \* group[k]: "off", "acquire", "run" or "done"
    permits,   \* the semaphore's count of permits in use
    errs,      \* the errors collected in this phase
    updated,   \* updatedRuntimes
    flushed,   \* nodes whose new state is on disk
    cancelled, \* ctx.Err() # nil
    diskError, \* the state could not be flushed
    result     \* what the loop ends with: "none", "ok" or "error"

nodeVars == <<status, outcome>>
sharedVars == <<permits, errs, updated>>
signals == <<cancelled, diskError>>
vars == <<main, layer, phase, nodeVars, group, sharedVars, flushed, signals, result>>

--------------------------------------------------------------------------------
(***************************************************************************)
(* What belongs to the current phase.                                      *)
(***************************************************************************)

PhaseOf_ReposWithTools(n) ==
    IF Kind[n] \in {"Runtime", "Installer"} THEN 1 ELSE 3

PhaseOf(n) ==
    CASE Kind[n] \in {"Runtime", "Installer"} -> 1
      [] Kind[n] = "InstallerRepository" -> 2
      [] OTHER -> 3

DelegationKey_RuntimeForgotten(n) ==
    IF Kind[n] = "Tool" /\ InstallerRef[n] \in Delegating
    THEN <<"installer", InstallerRef[n]>> ELSE None

\* Tools with the same key must not be installed concurrently: the package
\* manager behind them has state of its own.
DelegationKey(n) ==
    CASE Kind[n] # "Tool" -> None
      [] Kind[n] = "Tool" /\ RuntimeRef[n] # None -> <<"runtime", RuntimeRef[n]>>
      [] Kind[n] = "Tool" /\ RuntimeRef[n] = None /\ InstallerRef[n] \in Delegating ->
            <<"installer", InstallerRef[n]>>
      [] OTHER -> None

Keys == {DelegationKey(n) : n \in Node} \ {None}

PhaseNodes == {n \in Node : Layer[n] = layer /\ PhaseOf(n) = phase}

Downloads == {n \in PhaseNodes : DelegationKey(n) = None}

GroupOf(k) == {n \in PhaseNodes : DelegationKey(n) = k}

Groups == {k \in Keys : GroupOf(k) # {}}

\* The fast paths that start no goroutine: at most one node and no group, or
\* nothing but one group.
Sequential ==
    \/ Groups = {} /\ Cardinality(Downloads) <= 1
    \/ Downloads = {} /\ Cardinality(Groups) = 1

Idle(S) == {n \in S : status[n] = "idle"}

\* The next of S in the order of the layer.
IsNextOf(n, S) == n \in Idle(S) /\ \A m \in Idle(S) : Rank[n] <= Rank[m]

--------------------------------------------------------------------------------
(***************************************************************************)
(* Apply: from layer to layer.                                             *)
(***************************************************************************)

Init ==
    /\ main = "layer"
    /\ layer = 1
    /\ phase = 1
    /\ status = [n \in Node |-> "idle"]
    /\ outcome = [n \in Node |-> "none"]
    /\ group = [k \in Keys |-> "off"]
    /\ permits = 0
    /\ errs = {}
    /\ updated = {}
    /\ flushed = {}
    /\ cancelled = FALSE
    /\ diskError = FALSE
    /\ result = "none"

NextLayer_NotRechecked ==
    /\ main = "layer"
    /\ IF layer > Layers
       THEN main' = "returned" /\ result' = "ok"
       ELSE IF cancelled
            THEN main' = "returned" /\ result' = "error"
            ELSE main' = "phase" /\ UNCHANGED result
    /\ phase' = 1
    /\ UNCHANGED <<layer, nodeVars, group, sharedVars, flushed, signals>>

\* ctx.Err() is looked at before each layer, and again after the last one.
NextLayer ==
    /\ main = "layer"
    /\ CASE cancelled -> main' = "returned" /\ result' = "error"
         [] ~cancelled /\ layer > Layers -> main' = "returned" /\ result' = "ok"
         [] OTHER -> main' = "phase" /\ UNCHANGED result
    /\ phase' = 1
    /\ UNCHANGED <<layer, nodeVars, group, sharedVars, flushed, signals>>

\* executeNodeGroup, executeToolNodesWithDelegationSerialization: a fresh
\* semaphore, error list and set of goroutines for each phase.
StartPhase ==
    /\ main = "phase"
    /\ main' = IF Sequential THEN "sequential" ELSE "launch"
    /\ permits' = 0
    /\ errs' = {}
    /\ group' = [k \in Keys |-> "off"]
    /\ UNCHANGED <<layer, phase, nodeVars, updated, flushed, signals, result>>

EndPhase_GoesOn ==
    IF phase < 3
    THEN main' = "phase" /\ phase' = phase + 1
    ELSE main' = "flush" /\ UNCHANGED phase

\* The phase is over: an error ends the layer.
EndPhase ==
    IF errs = {} /\ phase < 3
    THEN main' = "phase" /\ phase' = phase + 1
    ELSE main' = "flush" /\ UNCHANGED phase

Succeeded == {n \in Node : outcome[n] \in {"ok", "upgraded"}}

Flush_SkippedOnError ==
    /\ main = "flush"
    /\ flushed' = IF errs = {} THEN Succeeded ELSE flushed
    /\ IF errs = {}
       THEN layer' = layer + 1 /\ main' = "layer" /\ UNCHANGED result
       ELSE main' = "returned" /\ result' = "error" /\ UNCHANGED layer
    /\ UNCHANGED <<phase, nodeVars, group, sharedVars, signals>>

\* The cache is flushed whether or not the layer failed.
Flush ==
    /\ main = "flush"
    /\ flushed' = Succeeded
    /\ IF errs = {}
       THEN layer' = layer + 1 /\ main' = "layer" /\ UNCHANGED result
       ELSE main' = "returned" /\ result' = "error" /\ UNCHANGED layer
    /\ UNCHANGED <<phase, nodeVars, group, sharedVars, signals>>

\* The state file cannot be written; only a dirty cache is.
FlushFails ==
    /\ main = "flush"
    /\ flushed # Succeeded
    /\ main' = "returned"
    /\ result' = "error"
    /\ diskError' = TRUE
    /\ UNCHANGED <<layer, phase, nodeVars, group, sharedVars, flushed, cancelled>>

--------------------------------------------------------------------------------
(***************************************************************************)
(* A phase without goroutines.  It does not look at the context, and       *)
(* records what a node did right away.                                     *)
(***************************************************************************)

Upgrades(n) == IF outcome[n] = "upgraded" THEN {n} ELSE {}

Failures(n) == IF outcome[n] = "failed" THEN {n} ELSE {}

StartNext(n) ==
    /\ main = "sequential"
    /\ errs = {}
    /\ \A m \in PhaseNodes : status[m] \in {"idle", "done"}
    /\ IsNextOf(n, PhaseNodes)
    /\ status' = [status EXCEPT ![n] = "running"]
    /\ UNCHANGED <<main, layer, phase, outcome, group, sharedVars, flushed, signals, result>>

\* Only a runtime's upgrade is remembered as one.
CanEndIn(n, o) == o = "upgraded" => Kind[n] = "Runtime"

\* executeNode returns.
Execute(n, o) ==
    /\ status[n] = "running"
    /\ CanEndIn(n, o)
    /\ outcome' = [outcome EXCEPT ![n] = o]
    /\ status' = [status EXCEPT ![n] = "executed"]
    /\ UNCHANGED <<main, layer, phase, group, sharedVars, flushed, signals, result>>

\* updatedRuntimes and the list of errors are only touched under the mutex.
Record(n) ==
    /\ errs' = errs \cup Failures(n)
    /\ updated' = updated \cup Upgrades(n)

EndSequential(n) ==
    /\ main = "sequential"
    /\ status[n] = "executed"
    /\ status' = [status EXCEPT ![n] = "done"]
    /\ Record(n)
    /\ UNCHANGED <<main, layer, phase, outcome, group, permits, flushed, signals, result>>

LeaveSequential ==
    /\ main = "sequential"
    /\ \A m \in PhaseNodes : status[m] = "done" \/ (status[m] = "idle" /\ errs # {})
    /\ EndPhase
    /\ UNCHANGED <<layer, nodeVars, group, sharedVars, flushed, signals, result>>

--------------------------------------------------------------------------------
(***************************************************************************)
(* Nodes with a goroutine of their own.                                    *)
(***************************************************************************)

\* The loop acquires a permit before it starts the goroutine.  The semaphore
\* (golang.org/x/sync) prefers the context's error to a free permit.
CanAcquire == ~cancelled /\ permits < Parallelism

Launch(n) ==
    /\ main = "launch"
    /\ IsNextOf(n, Downloads)
    /\ CanAcquire
    /\ permits' = permits + 1
    /\ status' = [status EXCEPT ![n] = "running"]
    /\ UNCHANGED <<main, layer, phase, outcome, group, errs, updated, flushed, signals, result>>

LaunchCancelled ==
    /\ main = "launch"
    /\ cancelled
    /\ Idle(Downloads) # {}
    /\ errs' = errs \cup {"canceled"}
    /\ main' = "groups"
    /\ UNCHANGED <<layer, phase, nodeVars, group, permits, updated, flushed, signals, result>>

LaunchedAll_StopOnError ==
    /\ main = "launch"
    /\ Idle(Downloads) = {} \/ errs # {}
    /\ main' = "groups"
    /\ UNCHANGED <<layer, phase, nodeVars, group, sharedVars, flushed, signals, result>>

LaunchedAll ==
    /\ main = "launch"
    /\ Idle(Downloads) = {}
    /\ main' = "groups"
    /\ UNCHANGED <<layer, phase, nodeVars, group, sharedVars, flushed, signals, result>>

\* The goroutine records its result, then its deferred Release runs.
Merge(n) ==
    /\ main \in {"launch", "groups", "wait"}
    /\ n \in Downloads
    /\ status[n] = "executed"
    /\ status' = [status EXCEPT ![n] = "leaving"]
    /\ Record(n)
    /\ UNCHANGED <<main, layer, phase, outcome, group, permits, flushed, signals, result>>

Release(n) ==
    /\ n \in Downloads
    /\ status[n] = "leaving"
    /\ permits' = permits - 1
    /\ status' = [status EXCEPT ![n] = "done"]
    /\ UNCHANGED <<main, layer, phase, outcome, group, errs, updated, flushed, signals, result>>

--------------------------------------------------------------------------------
(***************************************************************************)
(* Delegation groups: one goroutine each, a permit per tool.               *)
(***************************************************************************)

LaunchGroup(k) ==
    /\ main = "groups"
    /\ ~cancelled
    /\ k \in Groups
    /\ group[k] = "off"
    /\ group' = [group EXCEPT ![k] = "acquire"]
    /\ UNCHANGED <<main, layer, phase, nodeVars, sharedVars, flushed, signals, result>>

\* A cancelled context ends the loop without recording an error.
LaunchedGroups ==
    /\ main = "groups"
    /\ cancelled \/ \A k \in Groups : group[k] # "off"
    /\ main' = "wait"
    /\ UNCHANGED <<layer, phase, nodeVars, group, sharedVars, flushed, signals, result>>

GroupAcquire(k, n) ==
    /\ group[k] = "acquire"
    /\ IsNextOf(n, GroupOf(k))
    /\ CanAcquire
    /\ permits' = permits + 1
    /\ status' = [status EXCEPT ![n] = "running"]
    /\ group' = [group EXCEPT ![k] = "run"]
    /\ UNCHANGED <<main, layer, phase, outcome, errs, updated, flushed, signals, result>>

GroupCancelled(k) ==
    /\ group[k] = "acquire"
    /\ cancelled
    /\ Idle(GroupOf(k)) # {}
    /\ errs' = errs \cup {"canceled"}
    /\ group' = [group EXCEPT ![k] = "done"]
    /\ UNCHANGED <<main, layer, phase, nodeVars, permits, updated, flushed, signals, result>>

\* Here the permit goes back before the result is recorded.
GroupRelease(k, n) ==
    /\ group[k] = "run"
    /\ n \in GroupOf(k)
    /\ status[n] = "executed"
    /\ permits' = permits - 1
    /\ status' = [status EXCEPT ![n] = "leaving"]
    /\ UNCHANGED <<main, layer, phase, outcome, group, errs, updated, flushed, signals, result>>

\* A failed tool ends its group: the package manager may be broken.
AfterTool(n) == IF outcome[n] = "failed" THEN "done" ELSE "acquire"

GroupMerge(k, n) ==
    /\ group[k] = "run"
    /\ n \in GroupOf(k)
    /\ status[n] = "leaving"
    /\ status' = [status EXCEPT ![n] = "done"]
    /\ Record(n)
    /\ group' = [group EXCEPT ![k] = AfterTool(n)]
    /\ UNCHANGED <<main, layer, phase, outcome, permits, flushed, signals, result>>

GroupEnd(k) ==
    /\ group[k] = "acquire"
    /\ Idle(GroupOf(k)) = {}
    /\ group' = [group EXCEPT ![k] = "done"]
    /\ UNCHANGED <<main, layer, phase, nodeVars, sharedVars, flushed, signals, result>>

Wait_ForAllGroups ==
    /\ main = "wait"
    /\ \A n \in Downloads : status[n] \in {"idle", "done"}
    /\ \A k \in Groups : group[k] = "done"
    /\ EndPhase
    /\ UNCHANGED <<layer, nodeVars, group, sharedVars, flushed, signals, result>>

\* wg.Wait(): every goroutine that was started has ended.
Wait ==
    /\ main = "wait"
    /\ \A n \in Downloads : status[n] \in {"idle", "done"}
    /\ \A k \in Groups : group[k] \in {"off", "done"}
    /\ EndPhase
    /\ UNCHANGED <<layer, nodeVars, group, sharedVars, flushed, signals, result>>

--------------------------------------------------------------------------------

\* SIGINT or SIGTERM.
Cancel ==
    /\ ~cancelled
    /\ main # "returned"
    /\ cancelled' = TRUE
    /\ UNCHANGED <<main, layer, phase, nodeVars, group, sharedVars, flushed, diskError, result>>

ApplyNext ==
    \/ NextLayer
    \/ StartPhase
    \/ Flush
    \/ FlushFails

NodeNext(n) ==
    \/ StartNext(n)
    \/ \E o \in Outcomes : Execute(n, o)
    \/ EndSequential(n)
    \/ Launch(n)
    \/ Merge(n)
    \/ Release(n)

GroupNext(k) ==
    \/ LaunchGroup(k)
    \/ \E n \in Node : GroupAcquire(k, n)
    \/ GroupCancelled(k)
    \/ \E n \in Node : GroupRelease(k, n)
    \/ \E n \in Node : GroupMerge(k, n)
    \/ GroupEnd(k)

Progress ==
    \/ ApplyNext
    \/ \E n \in Node : NodeNext(n)
    \/ LeaveSequential
    \/ LaunchCancelled
    \/ LaunchedAll
    \/ \E k \in Keys : GroupNext(k)
    \/ LaunchedGroups
    \/ Wait

Next == Progress \/ Cancel

Spec == Init /\ [][Next]_vars

\* Something that can run does.  Nothing forces a signal, and no fairness
\* between goroutines is needed: none of them can take steps for ever.
FairSpec == Spec /\ WF_vars(Progress)

--------------------------------------------------------------------------------
(***************************************************************************)
(* Properties.                                                             *)
(***************************************************************************)

Running == {n \in Node : status[n] = "running"}

\* Every variable has the type the Go declarations give it.
TypeOK ==
    /\ main \in {"layer", "phase", "sequential", "launch", "groups", "wait", "flush", "returned"}
    /\ layer \in 1 .. Layers + 1
    /\ phase \in 1 .. 3
    /\ status \in [Node -> {"idle", "running", "executed", "leaving", "done"}]
    /\ outcome \in [Node -> Outcomes \cup {"none"}]
    /\ group \in [Keys -> {"off", "acquire", "run", "done"}]
    /\ permits \in Nat
    /\ errs \in SUBSET (Node \cup {"canceled"})
    /\ updated \in SUBSET Node
    /\ flushed \in SUBSET Node
    /\ cancelled \in BOOLEAN
    /\ diskError \in BOOLEAN
    /\ result \in {"none", "ok", "error"}

\* engine.parallelism bounds the installations that run at once, whichever
\* goroutine runs them (the semaphore that the download goroutines and the
\* delegation groups share).
ParallelismBound == Cardinality(Running) <= Parallelism

SamePackageManager(n, m) ==
    \/ RuntimeRef[n] # None /\ RuntimeRef[n] = RuntimeRef[m]
    \/ /\ RuntimeRef[n] = None /\ RuntimeRef[m] = None
       /\ InstallerRef[n] \in Delegating /\ InstallerRef[n] = InstallerRef[m]

\* Two tools that go through the same package manager never run at the same
\* time (delegationKeyForTool: "concurrent package manager invocations
\* corrupting shared state").
DelegationExclusive ==
    \A n, m \in Running :
        n # m /\ Kind[n] = "Tool" /\ Kind[m] = "Tool" => ~SamePackageManager(n, m)

\* Once a tool of a delegation group has failed, the tools after it in that
\* layer's group are never started, not even when the apply goes on elsewhere.
FailFastInGroup ==
    \A n, m \in Node :
        /\ Layer[n] = Layer[m] /\ Kind[n] = "Tool" /\ Kind[m] = "Tool"
        /\ SamePackageManager(n, m)
        /\ outcome[n] = "failed" /\ Rank[m] > Rank[n]
        => status[m] = "idle"

KindOrder == [Runtime |-> 1, Installer |-> 1, InstallerRepository |-> 2, Tool |-> 3]

RunsBefore(m, n) ==
    \/ Layer[m] < Layer[n]
    \/ Layer[m] = Layer[n] /\ KindOrder[Kind[m]] < KindOrder[Kind[n]]

\* A node starts only when everything in earlier layers, and in earlier phases
\* of its own layer, has succeeded and has been recorded: a dependency that
\* failed, was skipped or was cut off by a signal never has its dependents run.
StartsAfterDependencies ==
    \A n \in Node : status[n] # "idle" =>
        \A m \in Node : RunsBefore(m, n) => status[m] = "done" /\ m \in Succeeded

\* A failure in a concurrent phase does not stop the others: without a signal,
\* a node of that phase is left out only behind a failed one of its own group
\* ("continue-on-error semantics").
OthersStillRun ==
    main = "flush" /\ ~cancelled /\ ~Sequential =>
        \A n \in PhaseNodes :
            \/ status[n] = "done"
            \/ \E m \in PhaseNodes : SamePackageManager(m, n) /\ outcome[m] = "failed"

\* When a layer is flushed no goroutine is left that could still change the
\* cache or updatedRuntimes, no permit is leaked, and no upgrade is lost: the
\* runtimes in updatedRuntimes are those that were upgraded.
QuietAtFlush ==
    main \in {"layer", "flush", "returned"} =>
        /\ \A n \in Node : status[n] \in {"idle", "done"}
        /\ permits = 0
        /\ updated = {n \in Node : outcome[n] = "upgraded"}

\* The loop ends without an error only when every node has succeeded and is on
\* disk, even though a cancelled group loop returns no error of its own.
SuccessMeansComplete ==
    result = "ok" => Succeeded = Node /\ flushed = Node

\* What was installed is saved before Apply gives up, also when the layer
\* failed ("persists successfully installed tools for idempotent retries").
FinishedWorkIsSaved == main = "returned" /\ ~diskError => flushed = Succeeded

\* No goroutine waits for ever: the loop ends.
ApplyReturns == <>(main = "returned")

--------------------------------------------------------------------------------
(***************************************************************************)
(* The abstract view.                                                      *)
(***************************************************************************)

ProgressOf(n) ==
    CASE status[n] = "idle" -> "waiting"
      [] status[n] = "running" -> "running"
      [] OTHER -> IF outcome[n] = "failed" THEN "failed" ELSE "ok"

Contract ==
    INSTANCE LayerContract WITH
        Stage <- [n \in Node |-> 3 * Layer[n] + KindOrder[Kind[n]]],
        Group <- [n \in Node |-> DelegationKey(n)],
        NoGroup <- None,
        progress <- [n \in Node |-> ProgressOf(n)],
        interrupted <- cancelled \/ diskError,
        verdict <- result

\* The goroutines, the semaphore and the mutex implement the contract.
ImplementsContract == Contract!Spec

================================================================================
