-------------------------------- MODULE Engine ---------------------------------
(***************************************************************************)
(* Engine.Apply from end to end, apply after apply: a user edits the       *)
(* manifest and applies it; the engine reconciles it with state.json, runs *)
(* the runtimes' layer and then the tools', rebuilds tools whose runtime   *)
(* was upgraded, and removes what the manifest no longer names.            *)
(*                                                                         *)
(* Three things have to be told apart, and properties relate them: what is *)
(* installed (world), what state.json says (disk) and the engine's copy of *)
(* it in memory (cache), which reaches the disk only when it is flushed.   *)
(* Any step may fail, the user may interrupt the apply, and the process    *)
(* may be killed.                                                          *)
(*                                                                         *)
(* The concurrency inside a layer is the subject of LayerExecution, that   *)
(* between commands of StateStore: here a node is one step, in any order   *)
(* within its layer, and an apply has the state file for itself.           *)
(***************************************************************************)
EXTENDS Integers, FiniteSets

CONSTANTS
    Runtime,    \* names of runtimes
    Tool,       \* names of tools
    Version,    \* exact versions
    Latest,     \* a version left to be resolved: "latest" or an alias
    None,       \* not there
    Ref,        \* Ref[t]: the runtimes t may refer to, or None for no runtime
    Bin,        \* Bin[t]: the binary names that t may be given
    Tainting,   \* runtimes with taintOnUpgrade
    Faults,     \* what may go wrong: "install", "cancel", "flush", "remove", "kill"
    Patient,    \* after a crash the user applies the same manifest again
    MaxChanges, \* bound: edits of the manifest and releases upstream
    MaxFaults   \* bound: faults

BinaryNames == UNION {Bin[t] : t \in Tool}

AllFaults == {"install", "cancel", "flush", "remove", "kill"}

ASSUME EngineAssumption ==
    /\ None \notin Runtime \cup Version \cup {Latest}
    /\ Latest \notin Version
    /\ None \notin [spec : Version \cup {Latest}, version : Version, tainted : BOOLEAN]
    /\ None \notin [spec : Version \cup {Latest}, version : Version \cup {Latest},
                   ref : Runtime \cup {None}, bin : BinaryNames, tainted : BOOLEAN]
    /\ None \notin [version : Version, ref : Runtime \cup {None}, built : Version \cup {None}]
    /\ \A t \in Tool : Ref[t] \subseteq Runtime \cup {None}
    /\ Tainting \subseteq Runtime
    /\ Faults \subseteq AllFaults
    /\ Patient \in BOOLEAN
    /\ MaxChanges \in Nat
    /\ MaxFaults \in Nat

VARIABLES
    manifest,  \* what the user wants
    upstream,  \* the version that Latest stands for now
    world,     \* what is installed
    disk,      \* state.json
    cache,     \* StateCache.cache
    pc,        \* "idle", "runtimes", "tools", "taint", "rebuild", "removals",
               \* "remove" or "finish"
    pending,   \* nodes of the layer, or actions of the phase, still to run
    layerErr,  \* a node of the layer has failed
    updated,   \* updatedRuntimes
    result,    \* how the apply of this manifest ended: "none", "ok", "error" or "dead"
    panicked,  \* it ended in a nil dereference
    mustRetry, \* the user owes a retry before the next edit
    changes,   \* edits and releases so far
    faults     \* faults so far

user == <<manifest, upstream, mustRetry, changes>>
engine == <<cache, pc, pending, layerErr, updated, result, panicked>>
vars == <<user, world, disk, engine, faults>>

--------------------------------------------------------------------------------
(***************************************************************************)
(* Data.                                                                   *)
(***************************************************************************)

\* What a manifest says of a tool: a version, the runtime it is built with and
\* the name of its binary.
ToolSpecs(t) == [version : Version \cup {Latest}, ref : Ref[t], bin : Bin[t]] \cup {None}

Manifests ==
    [runtime : [Runtime -> Version \cup {Latest, None}],
     tool : {f \in [Tool -> UNION {ToolSpecs(t) : t \in Tool}] :
                \A t \in Tool : f[t] \in ToolSpecs(t)}]

\* RuntimeState and ToolState: the version asked for, the version installed
\* (what a package manager chose for Latest is not known) and the taint mark;
\* a tool's also has its RuntimeRef and its BinaryName.
RuntimeStates ==
    [spec : Version \cup {Latest}, version : Version, tainted : BOOLEAN] \cup {None}

ToolStates ==
    [spec : Version \cup {Latest}, version : Version \cup {Latest}, ref : Runtime \cup {None},
     bin : BinaryNames, tainted : BOOLEAN] \cup {None}

States == [runtime : [Runtime -> RuntimeStates], tool : [Tool -> ToolStates]]

\* Installed for real: a version and, for a tool, the version of the runtime
\* that built it.
Worlds ==
    [runtime : [Runtime -> Version \cup {None}],
     tool : [Tool -> [version : Version, ref : Runtime \cup {None},
                      built : Version \cup {None}] \cup {None}]]

Nothing == [runtime |-> [r \in Runtime |-> None], tool |-> [t \in Tool |-> None]]

Resolve(v) == IF v = Latest THEN upstream ELSE v

\* buildStateResolved.
RuntimeStateOf(v) == [spec |-> v, version |-> Resolve(v), tainted |-> FALSE]

\* buildState after a download, buildDelegationState after a package manager.
ToolStateOf(s) ==
    [spec |-> s.version,
     version |-> IF s.ref = None THEN Resolve(s.version) ELSE s.version,
     ref |-> s.ref,
     bin |-> s.bin,
     tainted |-> FALSE]

--------------------------------------------------------------------------------
(***************************************************************************)
(* Reconcile: which action a resource needs.                               *)
(***************************************************************************)

SpecVersionChanged_KindIgnored(v, s) == v # s.version

SpecVersionChanged(v, s) == IF s.spec = Latest THEN v # Latest ELSE v # s.version

NeedsUpdate_TaintIgnored(v, s) == SpecVersionChanged(v, s)

\* RuntimeComparator.
NeedsUpdate(v, s) == SpecVersionChanged(v, s) \/ s.tainted

\* ToolComparator.  A changed RuntimeRef is no reason.
ToolNeedsUpdate(spec, s) == NeedsUpdate(spec.version, s) \/ spec.bin # s.bin

RuntimeAction(r, st) ==
    LET v == manifest.runtime[r]
        s == st.runtime[r]
    IN  CASE v # None /\ s = None -> "install"
          [] v # None /\ s # None -> IF NeedsUpdate(v, s) THEN "upgrade" ELSE "none"
          [] v = None /\ s # None -> "remove"
          [] v = None /\ s = None -> "none"

ToolAction(t, st) ==
    LET spec == manifest.tool[t]
        s == st.tool[t]
    IN  CASE spec # None /\ s = None -> "install"
          [] spec # None /\ s # None ->
                IF ToolNeedsUpdate(spec, s) THEN "upgrade" ELSE "none"
          [] spec = None /\ s # None -> "remove"
          [] spec = None /\ s = None -> "none"

Taint(s) == [s EXCEPT !.tainted = TRUE]

\* applyUpdateTaints: --update-tools and --update-runtimes (--update-all is
\* both) mark what has no exact version.
UpdateTaints(st, tools, runtimes) ==
    [runtime |-> [r \in Runtime |->
        IF runtimes /\ st.runtime[r] # None /\ st.runtime[r].spec = Latest
        THEN Taint(st.runtime[r]) ELSE st.runtime[r]],
     tool |-> [t \in Tool |->
        IF tools /\ st.tool[t] # None /\ st.tool[t].spec = Latest
        THEN Taint(st.tool[t]) ELSE st.tool[t]]]

\* taintDependentTools.
TaintDependents(st, runtimes) ==
    [st EXCEPT !.tool = [t \in Tool |->
        IF /\ st.tool[t] # None
           /\ st.tool[t].ref \in runtimes \cap Tainting
           /\ st.runtime[st.tool[t].ref] # None
        THEN Taint(st.tool[t]) ELSE st.tool[t]]]

--------------------------------------------------------------------------------
(***************************************************************************)
(* The user.                                                               *)
(***************************************************************************)

Init ==
    /\ manifest \in Manifests
    /\ upstream \in Version
    /\ world = Nothing
    /\ disk = Nothing
    /\ cache = Nothing
    /\ pc = "idle"
    /\ pending = {}
    /\ layerErr = FALSE
    /\ updated = {}
    /\ result = "none"
    /\ panicked = FALSE
    /\ mustRetry = FALSE
    /\ changes = 0
    /\ faults = 0

MayChange ==
    /\ pc = "idle"
    /\ changes < MaxChanges
    /\ Patient => ~mustRetry
    /\ changes' = changes + 1
    /\ result' = "none"
    /\ UNCHANGED <<world, disk, cache, pc, pending, layerErr, updated, panicked, mustRetry, faults>>

EditRuntime(r) ==
    /\ MayChange
    /\ \E v \in (Version \cup {Latest, None}) \ {manifest.runtime[r]} :
          manifest' = [manifest EXCEPT !.runtime[r] = v]
    /\ UNCHANGED upstream

EditTool(t) ==
    /\ MayChange
    /\ \E s \in ToolSpecs(t) \ {manifest.tool[t]} :
          manifest' = [manifest EXCEPT !.tool[t] = s]
    /\ UNCHANGED upstream

Publish ==
    /\ MayChange
    /\ upstream' \in Version \ {upstream}
    /\ UNCHANGED manifest

--------------------------------------------------------------------------------
(***************************************************************************)
(* Apply begins and ends.                                                  *)
(***************************************************************************)

Fault(f) ==
    /\ f \in Faults
    /\ faults < MaxFaults
    /\ faults' = faults + 1

\* The process ends, and with it what it had in memory.
Return(how) ==
    /\ pc' = "idle"
    /\ result' = how
    /\ pending' = {}
    /\ cache' = Nothing
    /\ layerErr' = FALSE
    /\ updated' = {}

\* Load, applyUpdateTaints, Save (the installers, and the taints with them)
\* and StateCache.Init.
Begin(updateTools, updateRuntimes) ==
    /\ pc = "idle"
    /\ disk' = UpdateTaints(disk, updateTools, updateRuntimes)
    /\ cache' = disk'
    /\ pc' = "runtimes"
    /\ pending' = {r \in Runtime : manifest.runtime[r] # None}
    /\ layerErr' = FALSE
    /\ updated' = {}
    /\ result' = "none"
    /\ panicked' = FALSE
    /\ UNCHANGED <<user, world, faults>>

\* Save fails.
BeginFails ==
    /\ pc = "idle"
    /\ Fault("flush")
    /\ Return("error")
    /\ panicked' = FALSE
    /\ UNCHANGED <<user, world, disk>>

Finish_NotFlushed ==
    /\ pc = "finish"
    /\ Return("ok")
    /\ mustRetry' = FALSE
    /\ UNCHANGED <<manifest, upstream, changes, world, disk, panicked, faults>>

\* The final flush.
Finish ==
    /\ pc = "finish"
    /\ disk' = cache
    /\ Return("ok")
    /\ mustRetry' = FALSE
    /\ UNCHANGED <<manifest, upstream, changes, world, panicked, faults>>

\* A flush that has something to write fails.
FlushFails ==
    /\ \/ pc \in {"runtimes", "tools"} /\ pending = {}
       \/ pc = "finish"
    /\ cache # disk
    /\ Fault("flush")
    /\ Return("error")
    /\ mustRetry' = TRUE
    /\ UNCHANGED <<manifest, upstream, changes, world, disk, panicked>>

Kill ==
    /\ pc # "idle"
    /\ Fault("kill")
    /\ Return("dead")
    /\ mustRetry' = TRUE
    /\ UNCHANGED <<manifest, upstream, changes, world, disk, panicked>>

\* The context is cancelled.  In a layer the nodes that have not started are
\* dropped and the layer ends with an error; elsewhere Apply looks at the
\* context between its phases, and returns without a flush.
Cancel ==
    /\ pc \in {"runtimes", "tools", "taint", "removals"}
    /\ Fault("cancel")
    /\ IF pc \in {"runtimes", "tools"}
       THEN /\ pending' = {}
            /\ layerErr' = TRUE
            /\ UNCHANGED <<cache, pc, updated, result>>
       ELSE Return("error")
    /\ UNCHANGED <<user, world, disk, panicked>>

--------------------------------------------------------------------------------
(***************************************************************************)
(* The layers.                                                             *)
(***************************************************************************)

\* executeRuntimeNode: a new version of a runtime that was there before is an
\* upgrade to remember.
RunRuntime(r) ==
    /\ pc = "runtimes"
    /\ r \in pending
    /\ pending' = pending \ {r}
    /\ IF RuntimeAction(r, cache) = "none"
       THEN UNCHANGED <<world, cache, updated>>
       ELSE LET new == RuntimeStateOf(manifest.runtime[r])
                old == cache.runtime[r]
            IN  /\ world' = [world EXCEPT !.runtime[r] = new.version]
                /\ cache' = [cache EXCEPT !.runtime[r] = new]
                /\ updated' = IF old # None /\ old.version # new.version
                              THEN updated \cup {r} ELSE updated
    /\ UNCHANGED <<user, disk, pc, layerErr, result, panicked, faults>>

\* The installers that the engine has registered runtimes with know those of
\* the state.
KnownRuntime(t) ==
    LET ref == manifest.tool[t].ref
    IN  ref # None => cache.runtime[ref] # None

Installed(t) ==
    LET s == manifest.tool[t]
    IN  [version |-> Resolve(s.version),
         ref |-> s.ref,
         built |-> IF s.ref = None THEN None ELSE world.runtime[s.ref]]

\* executeToolNode; a tool whose runtime is unknown fails.
RunTool(t) ==
    /\ pc = "tools"
    /\ t \in pending
    /\ pending' = pending \ {t}
    /\ CASE ToolAction(t, cache) = "none" -> UNCHANGED <<world, cache, layerErr>>
         [] ToolAction(t, cache) # "none" /\ KnownRuntime(t) ->
               /\ world' = [world EXCEPT !.tool[t] = Installed(t)]
               /\ cache' = [cache EXCEPT !.tool[t] = ToolStateOf(manifest.tool[t])]
               /\ UNCHANGED layerErr
         [] OTHER ->
               /\ layerErr' = TRUE
               /\ UNCHANGED <<world, cache>>
    /\ UNCHANGED <<user, disk, pc, updated, result, panicked, faults>>

\* An install that fails leaves what was there; the layer goes on.
InstallFails(n) ==
    /\ pc \in {"runtimes", "tools"}
    /\ n \in pending
    /\ IF pc = "runtimes" THEN RuntimeAction(n, cache) # "none" ELSE ToolAction(n, cache) # "none"
    /\ Fault("install")
    /\ pending' = pending \ {n}
    /\ layerErr' = TRUE
    /\ UNCHANGED <<user, world, disk, cache, pc, updated, result, panicked>>

EndLayer_ErrorFirst ==
    /\ pc \in {"runtimes", "tools"}
    /\ pending = {}
    /\ IF layerErr
       THEN Return("error") /\ UNCHANGED disk
       ELSE /\ disk' = cache
            /\ pc' = IF pc = "runtimes" THEN "tools" ELSE "taint"
            /\ pending' = IF pc = "runtimes"
                          THEN {t \in Tool : manifest.tool[t] # None} ELSE {}
            /\ UNCHANGED <<cache, layerErr, updated, result>>
    /\ UNCHANGED <<user, world, panicked, faults>>

\* The layer is flushed, and only then its error returned.
EndLayer ==
    /\ pc \in {"runtimes", "tools"}
    /\ pending = {}
    /\ disk' = cache
    /\ IF layerErr
       THEN Return("error")
       ELSE /\ pc' = IF pc = "runtimes" THEN "tools" ELSE "taint"
            /\ pending' = IF pc = "runtimes"
                          THEN {t \in Tool : manifest.tool[t] # None} ELSE {}
            /\ UNCHANGED <<cache, layerErr, updated, result>>
    /\ UNCHANGED <<user, world, panicked, faults>>

--------------------------------------------------------------------------------
(***************************************************************************)
(* handleTaintedTools.                                                     *)
(***************************************************************************)

\* With an upgraded runtime its tools are marked and the marks flushed; then
\* every tool with an action is taken up, the removed ones with the others.
StartRebuild ==
    /\ pc = "taint"
    /\ IF updated = {}
       THEN /\ pc' = "removals"
            /\ UNCHANGED <<cache, disk, pending>>
       ELSE /\ cache' = TaintDependents(cache, updated)
            /\ disk' = cache'
            /\ pending' = {t \in Tool : ToolAction(t, cache') # "none"}
            /\ pc' = "rebuild"
    /\ UNCHANGED <<user, world, layerErr, updated, result, panicked, faults>>

\* An action with no resource, a removal, is a nil dereference.
Rebuild(t) ==
    /\ pc = "rebuild"
    /\ t \in pending
    /\ IF manifest.tool[t] = None
       THEN /\ Return("dead")
            /\ panicked' = TRUE
            /\ mustRetry' = TRUE
            /\ UNCHANGED world
       ELSE /\ KnownRuntime(t)
            /\ world' = [world EXCEPT !.tool[t] = Installed(t)]
            /\ cache' = [cache EXCEPT !.tool[t] = ToolStateOf(manifest.tool[t])]
            /\ pending' = pending \ {t}
            /\ UNCHANGED <<pc, layerErr, updated, result, panicked, mustRetry>>
    /\ UNCHANGED <<manifest, upstream, changes, disk, faults>>

\* The first failure ends the apply.
RebuildFails(t) ==
    /\ pc = "rebuild"
    /\ t \in pending
    /\ manifest.tool[t] # None
    /\ Fault("install") \/ (~KnownRuntime(t) /\ UNCHANGED faults)
    /\ Return("error")
    /\ UNCHANGED <<user, world, disk, panicked>>

EndRebuild ==
    /\ pc = "rebuild"
    /\ pending = {}
    /\ pc' = "removals"
    /\ UNCHANGED <<user, world, disk, cache, pending, layerErr, updated, result, panicked, faults>>

--------------------------------------------------------------------------------
(***************************************************************************)
(* handleRemovals.                                                         *)
(***************************************************************************)

Removals(kind) ==
    IF kind = "tool"
    THEN {t \in Tool : ToolAction(t, cache) = "remove"}
    ELSE {r \in Runtime : RuntimeAction(r, cache) = "remove"}

\* checkRemovalDependencies: tools of the manifest that refer to a runtime
\* that would go.
Blocked ==
    \E t \in Tool :
        manifest.tool[t] # None /\ manifest.tool[t].ref \in Removals("runtime")

StartRemovals ==
    /\ pc = "removals"
    /\ IF Blocked
       THEN Return("error")
       ELSE pc' = "remove" /\ UNCHANGED <<cache, pending, layerErr, updated, result>>
    /\ UNCHANGED <<user, world, disk, panicked, faults>>

\* Tools go first, ...
RemoveTool(t) ==
    /\ pc = "remove"
    /\ t \in Removals("tool")
    /\ world' = [world EXCEPT !.tool[t] = None]
    /\ cache' = [cache EXCEPT !.tool[t] = None]
    /\ UNCHANGED <<user, disk, pc, pending, layerErr, updated, result, panicked, faults>>

RemoveRuntime_AnyTime(r) ==
    /\ pc = "remove"
    /\ r \in Removals("runtime")
    /\ world' = [world EXCEPT !.runtime[r] = None]
    /\ cache' = [cache EXCEPT !.runtime[r] = None]
    /\ UNCHANGED <<user, disk, pc, pending, layerErr, updated, result, panicked, faults>>

\* ... runtimes after them.
RemoveRuntime(r) ==
    /\ pc = "remove"
    /\ Removals("tool") = {}
    /\ r \in Removals("runtime")
    /\ world' = [world EXCEPT !.runtime[r] = None]
    /\ cache' = [cache EXCEPT !.runtime[r] = None]
    /\ UNCHANGED <<user, disk, pc, pending, layerErr, updated, result, panicked, faults>>

\* The first failure ends the apply, without a flush of what is gone.
RemoveFails ==
    /\ pc = "remove"
    /\ Removals("tool") \cup Removals("runtime") # {}
    /\ Fault("remove")
    /\ Return("error")
    /\ mustRetry' = TRUE
    /\ UNCHANGED <<manifest, upstream, changes, world, disk, panicked>>

EndRemovals ==
    /\ pc = "remove"
    /\ Removals("tool") = {}
    /\ Removals("runtime") = {}
    /\ pc' = "finish"
    /\ UNCHANGED <<user, world, disk, cache, pending, layerErr, updated, result, panicked, faults>>

--------------------------------------------------------------------------------

Change ==
    \/ \E r \in Runtime : EditRuntime(r)
    \/ \E t \in Tool : EditTool(t)
    \/ Publish

Trouble ==
    \/ BeginFails
    \/ FlushFails
    \/ Kill
    \/ Cancel
    \/ \E n \in Runtime \cup Tool : InstallFails(n)
    \/ \E t \in Tool : RebuildFails(t)
    \/ RemoveFails

Work ==
    \/ \E r \in Runtime : RunRuntime(r)
    \/ \E t \in Tool : RunTool(t)
    \/ EndLayer
    \/ StartRebuild
    \/ \E t \in Tool : Rebuild(t)
    \/ EndRebuild
    \/ StartRemovals
    \/ \E t \in Tool : RemoveTool(t)
    \/ \E r \in Runtime : RemoveRuntime(r)
    \/ EndRemovals
    \/ Finish

Apply == \E updateTools, updateRuntimes \in BOOLEAN : Begin(updateTools, updateRuntimes)

Next == Change \/ Trouble \/ Work \/ Apply

Spec == Init /\ [][Next]_vars

\* An apply that runs goes on, and the user goes on applying.
FairSpec == Spec /\ WF_vars(Work) /\ WF_vars(Apply)

--------------------------------------------------------------------------------
(***************************************************************************)
(* Properties.                                                             *)
(***************************************************************************)

\* Every variable has the type the Go declarations give it.
TypeOK ==
    /\ manifest \in Manifests
    /\ upstream \in Version
    /\ world \in Worlds
    /\ disk \in States
    /\ cache \in States
    /\ pc \in {"idle", "runtimes", "tools", "taint", "rebuild", "removals", "remove", "finish"}
    /\ pending \subseteq Runtime \cup Tool
    /\ layerErr \in BOOLEAN
    /\ updated \subseteq Runtime
    /\ result \in {"none", "ok", "error", "dead"}
    /\ panicked \in BOOLEAN
    /\ mustRetry \in BOOLEAN
    /\ changes \in 0 .. MaxChanges
    /\ faults \in 0 .. MaxFaults

RuntimeInPlace(r) ==
    IF disk.runtime[r] = None THEN world.runtime[r] = None
    ELSE world.runtime[r] = disk.runtime[r].version

ToolInPlace(t) ==
    IF disk.tool[t] = None THEN world.tool[t] = None
    ELSE /\ world.tool[t] # None
         /\ world.tool[t].ref = disk.tool[t].ref
         /\ disk.tool[t].version \in {world.tool[t].version, Latest}

\* state.json asks for nothing more, and is true of what is installed.
Converged ==
    /\ \A r \in Runtime : RuntimeAction(r, disk) = "none" /\ RuntimeInPlace(r)
    /\ \A t \in Tool : ToolAction(t, disk) = "none" /\ ToolInPlace(t)

\* An apply that returns no error has made the machine what the manifest says,
\* whatever failures and crashes came before it, and the next one has nothing
\* to do (docs/design.md: "running it twice produces no changes the second
\* time").
OkMeansConverged == result = "ok" => Converged

\* Nothing that was installed is forgotten: what is neither in the manifest nor
\* in state.json would never be removed.
NoOrphans ==
    /\ \A r \in Runtime :
          world.runtime[r] # None => disk.runtime[r] # None \/ manifest.runtime[r] # None
    /\ \A t \in Tool :
          world.tool[t] # None => disk.tool[t] # None \/ manifest.tool[t] # None

\* At no time, not even halfway through the removals or after a crash there, is
\* a tool installed whose runtime is gone.
NoToolOutlivesItsRuntime ==
    \A t \in Tool :
        world.tool[t] # None /\ world.tool[t].ref # None =>
            world.runtime[world.tool[t].ref] # None

\* When an apply gets past handleTaintedTools, every tool whose runtime it has
\* upgraded is built with the new version.
RebuiltAfterUpgrade ==
    pc \in {"removals", "remove", "finish"} =>
        \A t \in Tool :
            /\ manifest.tool[t] # None
            /\ cache.tool[t].ref \in updated \cap Tainting
            => world.tool[t].built = world.runtime[cache.tool[t].ref]

WellFormed ==
    \A t \in Tool :
        manifest.tool[t] # None /\ manifest.tool[t].ref # None =>
            manifest.runtime[manifest.tool[t].ref] # None

\* A user who goes on applying a manifest without dangling references gets
\* what it says, once the faults are over.
EventuallyConverges == <>[](pc = "idle" /\ WellFormed => Converged)

--------------------------------------------------------------------------------
(***************************************************************************)
(* What the documentation says.                                            *)
(***************************************************************************)

\* docs/design.md: "tools compiled against a specific runtime version are
\* rebuilt when the runtime changes".
BuiltWithInstalled ==
    result = "ok" =>
        \A t \in Tool :
            world.tool[t] # None /\ world.tool[t].ref \in Tainting =>
                world.tool[t].built = world.runtime[world.tool[t].ref]

\* docs/architecture.md: "State exists, spec doesn't | Remove".  A removal is
\* carried out, or fails with an error.
NoPanic == ~panicked

\* engine.go: "checkRemovalDependencies validates that no remaining tools depend
\* on runtimes being removed".
NoDanglingRef ==
    result = "ok" /\ WellFormed =>
        \A t \in Tool :
            disk.tool[t] # None /\ disk.tool[t].ref # None =>
                disk.runtime[disk.tool[t].ref] # None

================================================================================
