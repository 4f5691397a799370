------------------------------ MODULE EngineProofs ------------------------------
(***************************************************************************)
(* Proofs about Engine: an apply that succeeds has converged, nothing      *)
(* installed is forgotten, no tool outlives its runtime, and an upgrade    *)
(* rebuilds its tools.  They rest on what an apply knows of the things     *)
(* that an earlier one, cut short, has installed or removed without        *)
(* recording it, and on the user's retry: a state that is not true is due  *)
(* for an update or a removal (StaleIsDue) until the retry has succeeded   *)
(* (StaleIsRetried).  Each part of Inv has a lemma, with one step for each *)
(* action.                                                                 *)
(***************************************************************************)
EXTENDS Plan, TLAPS

AfterRuntimes == {"tools", "taint", "rebuild", "removals", "remove", "finish"}

AfterTools == AfterRuntimes \ {"tools"}

\* The user repeats an apply that was cut short, and no tool changes its runtime.
UserAssumption ==
    /\ Patient
    /\ \A t \in Tool : \A a, b \in Ref[t] : a = b

\* Nodes of a layer are what the manifest has.
PendingWanted ==
    /\ pc = "runtimes" => \A r \in pending : r \in Runtime /\ manifest.runtime[r] # None
    /\ pc = "tools" => \A t \in pending : t \in Tool /\ manifest.tool[t] # None

\* A runtime to remember is one of this apply's manifest.
UpdatedKnown ==
    \A r \in updated : pc # "idle" /\ manifest.runtime[r] # None /\ cache.runtime[r] # None

\* A layer that has ended without an error has installed all of its nodes.
LayersComplete ==
    /\ pc \in AfterRuntimes => \A r \in Runtime : manifest.runtime[r] # None => cache.runtime[r] # None
    /\ pc \in AfterTools => \A t \in Tool : manifest.tool[t] # None => cache.tool[t] # None
    /\ pc = "runtimes" /\ ~layerErr =>
          \A r \in Runtime \ pending : manifest.runtime[r] # None => cache.runtime[r] # None
    /\ pc = "tools" /\ ~layerErr =>
          \A t \in Tool \ pending : manifest.tool[t] # None => cache.tool[t] # None

\* What is installed is known to the apply, or will be; and when no retry is
\* owed, state.json knows it between applies.
Tracked ==
    /\ pc # "idle" =>
          /\ \A r \in Runtime :
                world.runtime[r] # None =>
                    cache.runtime[r] # None \/ (mustRetry /\ manifest.runtime[r] # None)
          /\ \A t \in Tool :
                world.tool[t] # None => cache.tool[t] # None \/ (mustRetry /\ manifest.tool[t] # None)
    /\ pc = "idle" /\ ~mustRetry =>
          /\ \A r \in Runtime : world.runtime[r] # None => disk.runtime[r] # None
          /\ \A t \in Tool : world.tool[t] # None => disk.tool[t] # None

\* Where the apply can return without a flush and without owing a retry, it
\* has recorded the same runtimes and tools as state.json.
SameRecorded ==
    pc \in {"taint", "rebuild", "removals"} =>
        /\ \A r \in Runtime : cache.runtime[r] # None <=> disk.runtime[r] # None
        /\ \A t \in Tool : cache.tool[t] # None <=> disk.tool[t] # None

\* Recorded, but not there any more: its removal was cut short.
Ghost(r) == (disk.runtime[r] # None \/ cache.runtime[r] # None) /\ world.runtime[r] = None

\* Such a runtime is wanted by nobody, and its removal is tried again before
\* anything else is wanted.
GhostsUnwanted ==
    \A r \in Runtime : Ghost(r) =>
        /\ manifest.runtime[r] = None
        /\ \A t \in Tool : manifest.tool[t] # None => manifest.tool[t].ref # r
        /\ pc \notin {"remove", "finish"} => mustRetry

\* The removals have been checked, and at the end nothing is left of them.
RemovalsChecked ==
    /\ pc = "remove" =>
          \A t \in Tool, r \in Runtime :
              /\ manifest.tool[t] # None /\ manifest.tool[t].ref = r
              /\ cache.runtime[r] # None
              => manifest.runtime[r] # None
    /\ pc = "finish" => \A r \in Runtime : cache.runtime[r] # None => manifest.runtime[r] # None

\* A tool of an upgraded runtime is up for the rebuild until it is rebuilt.
RebuildsPending ==
    pc = "rebuild" =>
        \A t \in Tool :
            /\ t \notin pending /\ manifest.tool[t] # None
            /\ cache.tool[t].ref \in updated \cap Tainting
            => world.tool[t].built = world.runtime[cache.tool[t].ref]

\* What is installed of a tool was built with a runtime that it may refer to.
BuiltWithOwn == \A t \in Tool : world.tool[t] # None => world.tool[t].ref \in Ref[t]

\* States are those of an install: the version asked for, unless it was left
\* open and the download resolved it.
OfInstalls(st) ==
    /\ \A r \in Runtime : st.runtime[r] # None =>
          st.runtime[r].version = st.runtime[r].spec \/ st.runtime[r].spec = Latest
    /\ \A t \in Tool : st.tool[t] # None =>
          /\ st.tool[t].ref \in Ref[t]
          /\ st.tool[t].version = st.tool[t].spec \/ (st.tool[t].spec = Latest /\ st.tool[t].ref = None)

StatesOfInstalls == OfInstalls(disk) /\ OfInstalls(cache)

\* A layer that has ended without an error has left nothing to update, ...
RuntimesUpToDate ==
    \A r \in Runtime :
        /\ manifest.runtime[r] # None
        /\ pc \in AfterRuntimes \/ (pc = "runtimes" /\ ~layerErr /\ r \notin pending)
        => ~NeedsUpdate(manifest.runtime[r], cache.runtime[r])

\* ... apart from what a rebuild has still to do.
ToolsUpToDate ==
    \A t \in Tool :
        /\ manifest.tool[t] # None
        /\ pc \in AfterTools \/ (pc = "tools" /\ ~layerErr)
        /\ pc \in {"tools", "rebuild"} => t \notin pending
        => ~ToolNeedsUpdate(manifest.tool[t], cache.tool[t])

\* A node is reconciled with what state.json says; a rebuild is of a tool
\* whose version state.json has already.
PendingAsRecorded ==
    /\ pc = "runtimes" => \A r \in pending : cache.runtime[r] = disk.runtime[r]
    /\ pc = "tools" => \A t \in pending : cache.tool[t] = disk.tool[t]
    /\ pc = "rebuild" => \A t \in pending : manifest.tool[t] # None =>
          /\ disk.tool[t] # None /\ disk.tool[t].ref # None
          /\ ~SpecVersionChanged(manifest.tool[t].version, disk.tool[t])

\* A state that is not true of what is installed.
RuntimeStale(r, st) == st.runtime[r] # None /\ world.runtime[r] # st.runtime[r].version

ToolStale(t, st) ==
    /\ st.tool[t] # None
    /\ world.tool[t] # None =>
          ~ /\ world.tool[t].ref = st.tool[t].ref
            /\ st.tool[t].version \in {world.tool[t].version, Latest}

InPlace(st) ==
    /\ \A r \in Runtime : ~RuntimeStale(r, st)
    /\ \A t \in Tool : ~ToolStale(t, st)

\* It is due for an update, or for a removal that was done already, ...
StaleDue(st) ==
    /\ \A r \in Runtime : RuntimeStale(r, st) =>
          /\ manifest.runtime[r] # None => NeedsUpdate(manifest.runtime[r], st.runtime[r])
          /\ manifest.runtime[r] = None => world.runtime[r] = None
    /\ \A t \in Tool : ToolStale(t, st) =>
          /\ manifest.tool[t] # None => ToolNeedsUpdate(manifest.tool[t], st.tool[t])
          /\ manifest.tool[t] = None => world.tool[t] = None

StaleIsDue == StaleDue(disk) /\ (pc # "idle" => StaleDue(cache))

\* ... and the user owes a retry, or the apply that made it so is running.
StaleIsRetried ==
    ~mustRetry =>
        /\ pc \notin {"runtimes", "tools", "remove", "finish"} => InPlace(disk)
        /\ pc # "idle" => InPlace(cache)

\* At the end nothing is left to be removed.
NothingLeft == pc = "finish" => \A t \in Tool : cache.tool[t] # None => manifest.tool[t] # None

\* Success is said only when the apply has ended.
OkAtEnd == result = "ok" => pc = "idle"


Inv ==
    /\ TypeOK /\ PendingWanted /\ UpdatedKnown /\ LayersComplete /\ Tracked /\ SameRecorded
    /\ GhostsUnwanted /\ RemovalsChecked /\ RebuildsPending /\ BuiltWithOwn
    /\ StatesOfInstalls /\ RuntimesUpToDate /\ ToolsUpToDate /\ PendingAsRecorded /\ StaleIsDue
    /\ StaleIsRetried /\ NothingLeft /\ OkAtEnd /\ OkMeansConverged
    /\ NoOrphans /\ NoToolOutlivesItsRuntime /\ RebuiltAfterUpgrade

--------------------------------------------------------------------------------
\* What an action says of the manifest and of the state it was computed from.
LEMMA RuntimeActions ==
    ASSUME NEW r \in Runtime, NEW st
    PROVE  /\ RuntimeAction(r, st) = "none" /\ manifest.runtime[r] # None => st.runtime[r] # None
           /\ RuntimeAction(r, st) = "remove" <=> manifest.runtime[r] = None /\ st.runtime[r] # None
PROOF
  BY DEF RuntimeAction

\* Likewise for a tool, and one that is marked is installed again.
LEMMA ToolActions ==
    ASSUME NEW t \in Tool, NEW st
    PROVE  /\ ToolAction(t, st) = "none" /\ manifest.tool[t] # None => st.tool[t] # None
           /\ ToolAction(t, st) = "remove" <=> manifest.tool[t] = None /\ st.tool[t] # None
           /\ manifest.tool[t] # None /\ st.tool[t] # None /\ st.tool[t].tainted => ToolAction(t, st) # "none"
PROOF
  BY DEF ToolAction, ToolNeedsUpdate, NeedsUpdate

\* A tool of the manifest has a version and one of the runtimes it may refer to.
LEMMA SpecTyped ==
    ASSUME TypeOK, NEW t \in Tool, manifest.tool[t] # None
    PROVE  /\ manifest.tool[t].version \in Version \cup {Latest}
           /\ manifest.tool[t].ref \in Ref[t] /\ Ref[t] \subseteq Runtime \cup {None}
           /\ manifest.tool[t].bin \in BinaryNames
PROOF
<1>1. manifest.tool[t] \in ToolSpecs(t)
  BY DEF TypeOK, Manifests
<1> QED
  BY <1>1, EngineAssumption DEF EngineAssumption, ToolSpecs, BinaryNames

\* What is recorded of an installed runtime is a state.
LEMMA RuntimeStateTyped ==
    ASSUME TypeOK, NEW r \in Runtime, manifest.runtime[r] # None
    PROVE  /\ RuntimeStateOf(manifest.runtime[r]) \in RuntimeStates
           /\ RuntimeStateOf(manifest.runtime[r]) # None
           /\ RuntimeStateOf(manifest.runtime[r]).version \in Version
PROOF
<1>1. manifest.runtime[r] \in Version \cup {Latest}
  BY DEF TypeOK, Manifests
<1>2. Resolve(manifest.runtime[r]) \in Version
  BY <1>1 DEF Resolve, TypeOK
<1>3. RuntimeStateOf(manifest.runtime[r]) \in [spec : Version \cup {Latest}, version : Version, tainted : BOOLEAN]
  BY <1>1, <1>2 DEF RuntimeStateOf
<1> QED
  BY <1>3, EngineAssumption DEF EngineAssumption, RuntimeStates

\* So is what is recorded of an installed tool, with the runtime of its spec.
LEMMA ToolStateTyped ==
    ASSUME TypeOK, NEW t \in Tool, manifest.tool[t] # None
    PROVE  /\ ToolStateOf(manifest.tool[t]) \in ToolStates
           /\ ToolStateOf(manifest.tool[t]) # None
           /\ ToolStateOf(manifest.tool[t]).ref = manifest.tool[t].ref
PROOF
<1>1. Resolve(manifest.tool[t].version) \in Version
  BY SpecTyped DEF Resolve, TypeOK
<1>2. /\ ToolStateOf(manifest.tool[t]) \in [spec : Version \cup {Latest}, version : Version \cup {Latest},
                                         ref : Runtime \cup {None}, bin : BinaryNames, tainted : BOOLEAN]
      /\ ToolStateOf(manifest.tool[t]).ref = manifest.tool[t].ref
  BY <1>1, SpecTyped DEF ToolStateOf
<1> QED
  BY <1>2, EngineAssumption DEF EngineAssumption, ToolStates

\* What is installed of a tool, with the runtime of its spec.
LEMMA InstalledTyped ==
    ASSUME TypeOK, NEW t \in Tool, manifest.tool[t] # None
    PROVE  /\ Installed(t) \in [version : Version, ref : Runtime \cup {None}, built : Version \cup {None}]
           /\ Installed(t).ref = manifest.tool[t].ref /\ Installed(t) # None
           /\ manifest.tool[t].ref # None => Installed(t).built = world.runtime[manifest.tool[t].ref]
PROOF
<1>1. Resolve(manifest.tool[t].version) \in Version
  BY SpecTyped DEF Resolve, TypeOK
<1>2. manifest.tool[t].ref # None => world.runtime[manifest.tool[t].ref] \in Version \cup {None}
  BY SpecTyped DEF TypeOK, Worlds
<1>3. Installed(t) \in [version : Version, ref : Runtime \cup {None}, built : Version \cup {None}]
  BY <1>1, <1>2, SpecTyped DEF Installed
<1>4. Installed(t) # None
  BY <1>3, EngineAssumption DEF EngineAssumption
<1> QED
  BY <1>3, <1>4 DEF Installed

\* Marks change nothing but themselves, and are not taken away.
OnlyMarks(old, new) ==
    /\ new \in States
    /\ \A r \in Runtime :
          /\ new.runtime[r] = None <=> old.runtime[r] = None
          /\ old.runtime[r] # None =>
                /\ new.runtime[r].spec = old.runtime[r].spec /\ new.runtime[r].version = old.runtime[r].version
                /\ \A v : NeedsUpdate(v, old.runtime[r]) => NeedsUpdate(v, new.runtime[r])
    /\ \A t \in Tool :
          /\ new.tool[t] = None <=> old.tool[t] = None
          /\ old.tool[t] # None =>
                /\ new.tool[t].spec = old.tool[t].spec /\ new.tool[t].version = old.tool[t].version
                /\ new.tool[t].ref = old.tool[t].ref
                /\ new.tool[t].bin = old.tool[t].bin
                /\ \A spec : ToolNeedsUpdate(spec, old.tool[t]) => ToolNeedsUpdate(spec, new.tool[t])
                /\ \A v : SpecVersionChanged(v, new.tool[t]) = SpecVersionChanged(v, old.tool[t])

\* A marked runtime is the same but for its mark.
LEMMA TaintedRuntime ==
    ASSUME NEW s \in RuntimeStates, s # None
    PROVE  /\ Taint(s) \in RuntimeStates /\ Taint(s) # None /\ Taint(s).tainted
           /\ Taint(s).spec = s.spec /\ Taint(s).version = s.version
           /\ \A v : NeedsUpdate(v, s) => NeedsUpdate(v, Taint(s))
PROOF
<1>1. s \in [spec : Version \cup {Latest}, version : Version, tainted : BOOLEAN]
  BY DEF RuntimeStates
<1>2. Taint(s) \in [spec : Version \cup {Latest}, version : Version, tainted : BOOLEAN]
      /\ Taint(s).tainted /\ Taint(s).spec = s.spec /\ Taint(s).version = s.version
  BY <1>1 DEF Taint
<1> QED
  BY <1>2, EngineAssumption DEF EngineAssumption, RuntimeStates, NeedsUpdate

\* Likewise a marked tool.
LEMMA TaintedTool ==
    ASSUME NEW s \in ToolStates, s # None
    PROVE  /\ Taint(s) \in ToolStates /\ Taint(s) # None /\ Taint(s).tainted
           /\ Taint(s).spec = s.spec /\ Taint(s).version = s.version /\ Taint(s).ref = s.ref /\ Taint(s).bin = s.bin
           /\ \A spec : ToolNeedsUpdate(spec, s) => ToolNeedsUpdate(spec, Taint(s))
           /\ \A v : SpecVersionChanged(v, Taint(s)) = SpecVersionChanged(v, s)
PROOF
<1>1. s \in [spec : Version \cup {Latest}, version : Version \cup {Latest},
              ref : Runtime \cup {None}, bin : BinaryNames, tainted : BOOLEAN]
  BY DEF ToolStates
<1>2. Taint(s) \in [spec : Version \cup {Latest}, version : Version \cup {Latest},
                    ref : Runtime \cup {None}, bin : BinaryNames, tainted : BOOLEAN]
      /\ Taint(s).tainted /\ Taint(s).spec = s.spec /\ Taint(s).version = s.version /\ Taint(s).ref = s.ref /\ Taint(s).bin = s.bin
  BY <1>1 DEF Taint
<1>3. \A v : SpecVersionChanged(v, Taint(s)) = SpecVersionChanged(v, s)
  BY <1>2 DEF SpecVersionChanged
<1> QED
  BY <1>2, <1>3, EngineAssumption DEF EngineAssumption, ToolStates, ToolNeedsUpdate, NeedsUpdate

\* An update option only marks.
LEMMA UpdateTaintsMark ==
    ASSUME NEW st \in States, NEW tools \in BOOLEAN, NEW runtimes \in BOOLEAN
    PROVE  OnlyMarks(st, UpdateTaints(st, tools, runtimes))
PROOF
<1> DEFINE new == UpdateTaints(st, tools, runtimes)
<1>1. \A r \in Runtime :
          new.runtime[r] = st.runtime[r] \/ (st.runtime[r] # None /\ new.runtime[r] = Taint(st.runtime[r]))
  BY DEF UpdateTaints
<1>2. \A t \in Tool : new.tool[t] = st.tool[t] \/ (st.tool[t] # None /\ new.tool[t] = Taint(st.tool[t]))
  BY DEF UpdateTaints
<1>3. new = [runtime |-> [r \in Runtime |-> new.runtime[r]], tool |-> [t \in Tool |-> new.tool[t]]]
  BY DEF UpdateTaints
<1> HIDE DEF new
<1>4. \A r \in Runtime : st.runtime[r] \in RuntimeStates
  BY DEF States
<1>5. \A t \in Tool : st.tool[t] \in ToolStates
  BY DEF States
<1>6. new \in States
  <2>1. \A r \in Runtime : new.runtime[r] \in RuntimeStates
    BY <1>1, <1>4, TaintedRuntime
  <2>2. \A t \in Tool : new.tool[t] \in ToolStates
    BY <1>2, <1>5, TaintedTool
  <2> QED
    BY <1>3, <2>1, <2>2 DEF States
<1>7. OnlyMarks(st, new)
  BY <1>1, <1>2, <1>4, <1>5, <1>6, TaintedRuntime, TaintedTool DEF OnlyMarks
<1> QED
  BY <1>7 DEF new

\* An apply begins with what state.json has recorded.
LEMMA BeginRecords ==
    ASSUME TypeOK, NEW tools \in BOOLEAN, NEW runtimes \in BOOLEAN, Begin(tools, runtimes)
    PROVE  /\ cache' = disk' /\ disk' \in States
           /\ OnlyMarks(disk, disk')
           /\ \A r \in Runtime : disk'.runtime[r] = None <=> disk.runtime[r] = None
           /\ \A t \in Tool : disk'.tool[t] = None <=> disk.tool[t] = None
PROOF
<1>1. disk \in States /\ disk' = UpdateTaints(disk, tools, runtimes)
  BY DEF TypeOK, Begin
<1>2. OnlyMarks(disk, disk')
  BY <1>1, UpdateTaintsMark
<1> QED
  BY <1>2 DEF Begin, OnlyMarks

\* An ended process knows nothing.
LEMMA NothingTyped == Nothing \in States /\ Nothing \in Worlds
PROOF
  BY DEF Nothing, States, Worlds, RuntimeStates, ToolStates

\* Faults stay within their bound.
LEMMA FaultCounts ==
    ASSUME TypeOK, NEW f, Fault(f)
    PROVE  faults' \in 0 .. MaxFaults
PROOF
  BY EngineAssumption DEF EngineAssumption, TypeOK, Fault

\* An apply that returns has nothing left to do.
LEMMA ReturnTyped ==
    ASSUME NEW how \in {"ok", "error", "dead"}, Return(how)
    PROVE  /\ pc' = "idle" /\ result' \in {"none", "ok", "error", "dead"} /\ layerErr' \in BOOLEAN
           /\ cache' \in States /\ pending' = {} /\ updated' = {}
PROOF
  BY NothingTyped DEF Return

\* The marks of an upgrade are on tools of its runtimes, and only on them.
LEMMA TaintDependentsTyped ==
    ASSUME NEW st \in States, NEW runtimes
    PROVE  /\ TaintDependents(st, runtimes) \in States
           /\ OnlyMarks(st, TaintDependents(st, runtimes))
           /\ TaintDependents(st, runtimes).runtime = st.runtime
           /\ \A t \in Tool :
                 /\ TaintDependents(st, runtimes).tool[t] = None <=> st.tool[t] = None
                 /\ st.tool[t] # None => TaintDependents(st, runtimes).tool[t].ref = st.tool[t].ref
                 /\ /\ st.tool[t] # None
                    /\ st.tool[t].ref \in runtimes \cap Tainting
                    /\ st.runtime[st.tool[t].ref] # None
                    => TaintDependents(st, runtimes).tool[t].tainted
                 /\ TaintDependents(st, runtimes).tool[t] # st.tool[t] =>
                       st.tool[t] # None /\ st.tool[t].ref \in runtimes
PROOF
<1> DEFINE new == TaintDependents(st, runtimes)
<1>1. \A t \in Tool :
          new.tool[t] = IF /\ st.tool[t] # None
                           /\ st.tool[t].ref \in runtimes \cap Tainting
                           /\ st.runtime[st.tool[t].ref] # None
                        THEN Taint(st.tool[t]) ELSE st.tool[t]
  BY DEF TaintDependents, States
<1>2. new = [st EXCEPT !.tool = [t \in Tool |-> new.tool[t]]]
  BY DEF TaintDependents, States
<1> HIDE DEF new
<1>3. \A t \in Tool : st.tool[t] \in ToolStates
  BY DEF States
<1>4. new \in States /\ new.runtime = st.runtime
  <2>1. \A t \in Tool : new.tool[t] \in ToolStates
    BY <1>1, <1>3, TaintedTool
  <2> QED
    BY <1>2, <2>1 DEF States
<1>5. OnlyMarks(st, new)
  BY <1>1, <1>3, <1>4, TaintedTool DEF OnlyMarks
<1>6. \A t \in Tool :
          /\ new.tool[t] = None <=> st.tool[t] = None
          /\ st.tool[t] # None => new.tool[t].ref = st.tool[t].ref
          /\ /\ st.tool[t] # None
             /\ st.tool[t].ref \in runtimes \cap Tainting
             /\ st.runtime[st.tool[t].ref] # None
             => new.tool[t].tainted
          /\ new.tool[t] # st.tool[t] => st.tool[t] # None /\ st.tool[t].ref \in runtimes
  BY <1>1, <1>3, TaintedTool
<1> QED
  BY <1>4, <1>5, <1>6 DEF new

\* What an install records of a runtime is up to date and as the install left it.
LEMMA FreshRuntime ==
    ASSUME TypeOK, NEW r \in Runtime, manifest.runtime[r] # None
    PROVE  LET s == RuntimeStateOf(manifest.runtime[r])
           IN  ~NeedsUpdate(manifest.runtime[r], s) /\ (s.version = s.spec \/ s.spec = Latest)
PROOF
  BY DEF RuntimeStateOf, Resolve, NeedsUpdate, SpecVersionChanged

\* Likewise for a tool.
LEMMA FreshTool ==
    ASSUME TypeOK, NEW t \in Tool, manifest.tool[t] # None
    PROVE  LET s == ToolStateOf(manifest.tool[t])
           IN  /\ ~ToolNeedsUpdate(manifest.tool[t], s)
               /\ s.version = s.spec \/ (s.spec = Latest /\ s.ref = None)
               /\ s.version \in {Installed(t).version, Latest}
PROOF
  BY DEF ToolStateOf, Installed, Resolve, ToolNeedsUpdate, NeedsUpdate, SpecVersionChanged

\* Marks do not make a state untrue, nor one that is no install's.
LEMMA MarksKeep ==
    ASSUME NEW old, NEW new, OnlyMarks(old, new)
    PROVE  /\ OfInstalls(old) => OfInstalls(new)
           /\ StaleDue(old) => StaleDue(new)
           /\ InPlace(old) => InPlace(new)
PROOF
  BY DEF OnlyMarks, OfInstalls, StaleDue, InPlace, RuntimeStale, ToolStale

\* After the install of a runtime its state is true, and no other thing has changed.
LEMMA RuntimePut ==
    ASSUME TypeOK, NEW r \in Runtime, manifest.runtime[r] # None, manifest' = manifest,
           world' = [world EXCEPT !.runtime[r] = RuntimeStateOf(manifest.runtime[r]).version],
           cache' = [cache EXCEPT !.runtime[r] = RuntimeStateOf(manifest.runtime[r])]
    PROVE  /\ world'.tool = world.tool /\ cache'.tool = cache.tool
           /\ \A q \in Runtime \ {r} :
                 world'.runtime[q] = world.runtime[q] /\ cache'.runtime[q] = cache.runtime[q]
           /\ ~RuntimeStale(r, cache)'
PROOF
  BY DEF TypeOK, States, Worlds, RuntimeStale

\* Likewise after that of a tool.
LEMMA ToolPut ==
    ASSUME TypeOK, NEW t \in Tool, manifest.tool[t] # None, manifest' = manifest,
           world' = [world EXCEPT !.tool[t] = Installed(t)],
           cache' = [cache EXCEPT !.tool[t] = ToolStateOf(manifest.tool[t])]
    PROVE  /\ world'.runtime = world.runtime /\ cache'.runtime = cache.runtime
           /\ \A q \in Tool \ {t} : world'.tool[q] = world.tool[q] /\ cache'.tool[q] = cache.tool[q]
           /\ world'.tool[t] = Installed(t)
           /\ ~ToolStale(t, cache)'
PROOF
<1>1. /\ world'.runtime = world.runtime /\ cache'.runtime = cache.runtime
      /\ \A q \in Tool \ {t} : world'.tool[q] = world.tool[q] /\ cache'.tool[q] = cache.tool[q]
      /\ world'.tool[t] = Installed(t) /\ cache'.tool[t] = ToolStateOf(manifest.tool[t])
  BY DEF TypeOK, States, Worlds
<1> QED
  BY <1>1, InstalledTyped, ToolStateTyped, FreshTool DEF ToolStale

--------------------------------------------------------------------------------
\* A step keeps the types.
LEMMA TypeStep ==
    ASSUME TypeOK, PendingWanted, [Next]_vars
    PROVE  TypeOK'
PROOF
<1>1. ASSUME NEW r \in Runtime, EditRuntime(r)
      PROVE  TypeOK'
  <2>1. PICK v \in Version \cup {Latest, None} : manifest' = [manifest EXCEPT !.runtime[r] = v]
    BY <1>1 DEF EditRuntime
  <2>2. manifest' \in Manifests
    BY <2>1 DEF TypeOK, Manifests
  <2> QED
    BY <1>1, <2>2, EngineAssumption DEF EngineAssumption, EditRuntime, MayChange, TypeOK
<1>2. ASSUME NEW t \in Tool, EditTool(t)
      PROVE  TypeOK'
  <2>1. PICK s \in ToolSpecs(t) : manifest' = [manifest EXCEPT !.tool[t] = s]
    BY <1>2 DEF EditTool
  <2>2. manifest' \in Manifests
    BY <2>1 DEF TypeOK, Manifests
  <2> QED
    BY <1>2, <2>2, EngineAssumption DEF EngineAssumption, EditTool, MayChange, TypeOK
<1>3. CASE Publish
  BY <1>3, EngineAssumption DEF Publish, MayChange, TypeOK, EngineAssumption
<1>4. CASE BeginFails
  BY <1>4, ReturnTyped, FaultCounts DEF BeginFails, user, TypeOK
<1>5. CASE FlushFails
  BY <1>5, ReturnTyped, FaultCounts DEF FlushFails, TypeOK
<1>6. CASE Kill
  BY <1>6, ReturnTyped, FaultCounts DEF Kill, TypeOK
<1>7. CASE Cancel
  BY <1>7, ReturnTyped, FaultCounts DEF Cancel, user, TypeOK
<1>8. ASSUME NEW n \in Runtime \cup Tool, InstallFails(n)
      PROVE  TypeOK'
  BY <1>8, FaultCounts DEF InstallFails, user, TypeOK
<1>9. ASSUME NEW t \in Tool, RebuildFails(t)
      PROVE  TypeOK'
  BY <1>9, ReturnTyped, FaultCounts DEF RebuildFails, user, TypeOK
<1>10. CASE RemoveFails
  BY <1>10, ReturnTyped, FaultCounts DEF RemoveFails, TypeOK
<1>11. ASSUME NEW r \in Runtime, RunRuntime(r)
      PROVE  TypeOK'
  BY <1>11, RuntimeStateTyped DEF RunRuntime, user, TypeOK, States, Worlds, PendingWanted
<1>12. ASSUME NEW t \in Tool, RunTool(t)
      PROVE  TypeOK'
  <2>1. CASE UNCHANGED <<world, cache>>
    BY <1>12, <2>1 DEF RunTool, user, TypeOK
  <2>2. ASSUME manifest.tool[t] # None,
               world' = [world EXCEPT !.tool[t] = Installed(t)],
               cache' = [cache EXCEPT !.tool[t] = ToolStateOf(manifest.tool[t])], UNCHANGED layerErr
        PROVE  TypeOK'
    <3>1. world' \in Worlds
      BY <2>2, InstalledTyped DEF TypeOK, Worlds
    <3>2. cache' \in States
      BY <2>2, ToolStateTyped DEF TypeOK, States
    <3> QED
      BY <1>12, <2>2, <3>1, <3>2 DEF RunTool, user, TypeOK
  <2> QED
    BY <1>12, <2>1, <2>2 DEF RunTool, PendingWanted
<1>13. CASE EndLayer
  BY <1>13, ReturnTyped DEF EndLayer, user, TypeOK
<1>14. CASE StartRebuild
  BY <1>14, TaintDependentsTyped DEF StartRebuild, user, TypeOK
<1>15. ASSUME NEW t \in Tool, Rebuild(t)
      PROVE  TypeOK'
  <2>1. CASE manifest.tool[t] = None
    BY <1>15, <2>1, ReturnTyped DEF Rebuild, TypeOK
  <2>2. CASE manifest.tool[t] # None
    <3>1. world' \in Worlds
      BY <1>15, <2>2, InstalledTyped DEF Rebuild, TypeOK, Worlds
    <3>2. cache' \in States
      BY <1>15, <2>2, ToolStateTyped DEF Rebuild, TypeOK, States
    <3> QED
      BY <1>15, <2>2, <3>1, <3>2 DEF Rebuild, TypeOK
  <2> QED
    BY <2>1, <2>2
<1>16. CASE EndRebuild
  BY <1>16 DEF EndRebuild, user, TypeOK
<1>17. CASE StartRemovals
  BY <1>17, ReturnTyped DEF StartRemovals, user, TypeOK
<1>18. ASSUME NEW t \in Tool, RemoveTool(t)
      PROVE  TypeOK'
  BY <1>18 DEF RemoveTool, user, TypeOK, States, Worlds, ToolStates
<1>19. ASSUME NEW r \in Runtime, RemoveRuntime(r)
      PROVE  TypeOK'
  BY <1>19 DEF RemoveRuntime, user, TypeOK, States, Worlds, RuntimeStates
<1>20. CASE EndRemovals
  BY <1>20 DEF EndRemovals, user, TypeOK
<1>21. CASE Finish
  BY <1>21, ReturnTyped DEF Finish, TypeOK
<1>22. ASSUME NEW tools \in BOOLEAN, NEW runtimes \in BOOLEAN, Begin(tools, runtimes)
      PROVE  TypeOK'
  BY <1>22, BeginRecords DEF Begin, user, TypeOK
<1>23. CASE UNCHANGED vars
  BY <1>23 DEF vars, user, engine, TypeOK
<1> QED
  BY <1>1, <1>2, <1>3, <1>4, <1>5, <1>6, <1>7, <1>8, <1>9, <1>10, <1>11, <1>12, <1>13, <1>14, <1>15, <1>16,
     <1>17, <1>18, <1>19, <1>20, <1>21, <1>22, <1>23
     DEF Next, Change, Trouble, Work, Apply

\* A step leaves only nodes of the manifest in a layer.
LEMMA PendingStep ==
    ASSUME TypeOK, PendingWanted, [Next]_vars
    PROVE  PendingWanted'
PROOF
<1>1. ASSUME NEW r \in Runtime, EditRuntime(r)
      PROVE  PendingWanted'
  BY <1>1 DEF EditRuntime, MayChange, TypeOK, PendingWanted
<1>2. ASSUME NEW t \in Tool, EditTool(t)
      PROVE  PendingWanted'
  BY <1>2 DEF EditTool, MayChange, TypeOK, PendingWanted
<1>3. CASE Publish
  BY <1>3 DEF Publish, MayChange, PendingWanted
<1>4. CASE BeginFails
  BY <1>4 DEF BeginFails, Fault, Return, user, PendingWanted
<1>5. CASE FlushFails
  BY <1>5 DEF FlushFails, Fault, Return, PendingWanted
<1>6. CASE Kill
  BY <1>6 DEF Kill, Fault, Return, PendingWanted
<1>7. CASE Cancel
  BY <1>7 DEF Cancel, Fault, Return, user, PendingWanted
<1>8. ASSUME NEW n \in Runtime \cup Tool, InstallFails(n)
      PROVE  PendingWanted'
  BY <1>8 DEF InstallFails, Fault, user, PendingWanted
<1>9. ASSUME NEW t \in Tool, RebuildFails(t)
      PROVE  PendingWanted'
  BY <1>9 DEF RebuildFails, Fault, Return, user, PendingWanted
<1>10. CASE RemoveFails
  BY <1>10 DEF RemoveFails, Fault, Return, PendingWanted
<1>11. ASSUME NEW r \in Runtime, RunRuntime(r)
      PROVE  PendingWanted'
  BY <1>11 DEF RunRuntime, user, TypeOK, PendingWanted
<1>12. ASSUME NEW t \in Tool, RunTool(t)
      PROVE  PendingWanted'
  BY <1>12 DEF RunTool, user, TypeOK, PendingWanted
<1>13. CASE EndLayer
  BY <1>13 DEF EndLayer, Return, user, PendingWanted
<1>14. CASE StartRebuild
  BY <1>14 DEF StartRebuild, user, TypeOK, PendingWanted
<1>15. ASSUME NEW t \in Tool, Rebuild(t)
      PROVE  PendingWanted'
  BY <1>15 DEF Rebuild, Return, TypeOK, PendingWanted
<1>16. CASE EndRebuild
  BY <1>16 DEF EndRebuild, user, PendingWanted
<1>17. CASE StartRemovals
  BY <1>17 DEF StartRemovals, Return, user, PendingWanted
<1>18. ASSUME NEW t \in Tool, RemoveTool(t)
      PROVE  PendingWanted'
  BY <1>18 DEF RemoveTool, user, TypeOK, PendingWanted
<1>19. ASSUME NEW r \in Runtime, RemoveRuntime(r)
      PROVE  PendingWanted'
  BY <1>19 DEF RemoveRuntime, user, TypeOK, PendingWanted
<1>20. CASE EndRemovals
  BY <1>20 DEF EndRemovals, user, PendingWanted
<1>21. CASE Finish
  BY <1>21 DEF Finish, Return, PendingWanted
<1>22. ASSUME NEW tools \in BOOLEAN, NEW runtimes \in BOOLEAN, Begin(tools, runtimes)
      PROVE  PendingWanted'
  BY <1>22 DEF Begin, user, TypeOK, PendingWanted
<1>23. CASE UNCHANGED vars
  BY <1>23 DEF vars, user, engine, TypeOK, PendingWanted
<1> QED
  BY <1>1, <1>2, <1>3, <1>4, <1>5, <1>6, <1>7, <1>8, <1>9, <1>10, <1>11, <1>12, <1>13, <1>14, <1>15, <1>16,
     <1>17, <1>18, <1>19, <1>20, <1>21, <1>22, <1>23
     DEF Next, Change, Trouble, Work, Apply

\* A step remembers no other runtime.
LEMMA UpdatedStep ==
    ASSUME UserAssumption, Inv, [Next]_vars
    PROVE  UpdatedKnown'
PROOF
<1> USE DEF Inv
<1>1. ASSUME NEW r \in Runtime, EditRuntime(r)
      PROVE  UpdatedKnown'
  BY <1>1 DEF EditRuntime, MayChange, TypeOK, UpdatedKnown
<1>2. ASSUME NEW t \in Tool, EditTool(t)
      PROVE  UpdatedKnown'
  BY <1>2 DEF EditTool, MayChange, TypeOK, UpdatedKnown
<1>3. CASE Publish
  BY <1>3 DEF Publish, MayChange, UpdatedKnown
<1>4. CASE BeginFails
  BY <1>4 DEF BeginFails, Fault, Return, user, UpdatedKnown
<1>5. CASE FlushFails
  BY <1>5 DEF FlushFails, Fault, Return, UpdatedKnown
<1>6. CASE Kill
  BY <1>6 DEF Kill, Fault, Return, UpdatedKnown
<1>7. CASE Cancel
  BY <1>7 DEF Cancel, Fault, Return, user, UpdatedKnown
<1>8. ASSUME NEW n \in Runtime \cup Tool, InstallFails(n)
      PROVE  UpdatedKnown'
  BY <1>8 DEF InstallFails, Fault, user, UpdatedKnown
<1>9. ASSUME NEW t \in Tool, RebuildFails(t)
      PROVE  UpdatedKnown'
  BY <1>9 DEF RebuildFails, Fault, Return, user, UpdatedKnown
<1>10. CASE RemoveFails
  BY <1>10 DEF RemoveFails, Fault, Return, UpdatedKnown
<1>11. ASSUME NEW r \in Runtime, RunRuntime(r)
      PROVE  UpdatedKnown'
  BY <1>11, RuntimeStateTyped DEF RunRuntime, user, TypeOK, UpdatedKnown, PendingWanted, States
<1>12. ASSUME NEW t \in Tool, RunTool(t)
      PROVE  UpdatedKnown'
  BY <1>12 DEF RunTool, user, TypeOK, UpdatedKnown, States
<1>13. CASE EndLayer
  BY <1>13 DEF EndLayer, Return, user, UpdatedKnown
<1>14. CASE StartRebuild
  BY <1>14, TaintDependentsTyped DEF StartRebuild, user, TypeOK, UpdatedKnown
<1>15. ASSUME NEW t \in Tool, Rebuild(t)
      PROVE  UpdatedKnown'
  BY <1>15 DEF Rebuild, Return, TypeOK, UpdatedKnown, States
<1>16. CASE EndRebuild
  BY <1>16 DEF EndRebuild, user, UpdatedKnown
<1>17. CASE StartRemovals
  BY <1>17 DEF StartRemovals, Return, user, UpdatedKnown
<1>18. ASSUME NEW t \in Tool, RemoveTool(t)
      PROVE  UpdatedKnown'
  BY <1>18 DEF RemoveTool, user, TypeOK, UpdatedKnown, States
<1>19. ASSUME NEW r \in Runtime, RemoveRuntime(r)
      PROVE  UpdatedKnown'
  BY <1>19, RuntimeActions DEF RemoveRuntime, user, TypeOK, UpdatedKnown, States, Removals
<1>20. CASE EndRemovals
  BY <1>20 DEF EndRemovals, user, UpdatedKnown
<1>21. CASE Finish
  BY <1>21 DEF Finish, Return, UpdatedKnown
<1>22. ASSUME NEW tools \in BOOLEAN, NEW runtimes \in BOOLEAN, Begin(tools, runtimes)
      PROVE  UpdatedKnown'
  BY <1>22 DEF Begin, user, TypeOK, UpdatedKnown
<1>23. CASE UNCHANGED vars
  BY <1>23 DEF vars, user, engine, TypeOK, UpdatedKnown
<1> QED
  BY <1>1, <1>2, <1>3, <1>4, <1>5, <1>6, <1>7, <1>8, <1>9, <1>10, <1>11, <1>12, <1>13, <1>14, <1>15, <1>16,
     <1>17, <1>18, <1>19, <1>20, <1>21, <1>22, <1>23
     DEF Next, Change, Trouble, Work, Apply

\* A step leaves no gap in a layer that is complete.
LEMMA LayersStep ==
    ASSUME UserAssumption, Inv, [Next]_vars
    PROVE  LayersComplete'
PROOF
<1> USE DEF Inv
<1>1. ASSUME NEW r \in Runtime, EditRuntime(r)
      PROVE  LayersComplete'
  BY <1>1 DEF EditRuntime, MayChange, TypeOK, AfterRuntimes, AfterTools, LayersComplete
<1>2. ASSUME NEW t \in Tool, EditTool(t)
      PROVE  LayersComplete'
  BY <1>2 DEF EditTool, MayChange, TypeOK, AfterRuntimes, AfterTools, LayersComplete
<1>3. CASE Publish
  BY <1>3 DEF Publish, MayChange, AfterRuntimes, AfterTools, LayersComplete
<1>4. CASE BeginFails
  BY <1>4 DEF BeginFails, Fault, Return, user, AfterRuntimes, AfterTools, LayersComplete
<1>5. CASE FlushFails
  BY <1>5 DEF FlushFails, Fault, Return, AfterRuntimes, AfterTools, LayersComplete
<1>6. CASE Kill
  BY <1>6 DEF Kill, Fault, Return, AfterRuntimes, AfterTools, LayersComplete
<1>7. CASE Cancel
  BY <1>7 DEF Cancel, Fault, Return, user, AfterRuntimes, AfterTools, LayersComplete
<1>8. ASSUME NEW n \in Runtime \cup Tool, InstallFails(n)
      PROVE  LayersComplete'
  BY <1>8 DEF InstallFails, Fault, user, AfterRuntimes, AfterTools, LayersComplete
<1>9. ASSUME NEW t \in Tool, RebuildFails(t)
      PROVE  LayersComplete'
  BY <1>9 DEF RebuildFails, Fault, Return, user, AfterRuntimes, AfterTools, LayersComplete
<1>10. CASE RemoveFails
  BY <1>10 DEF RemoveFails, Fault, Return, AfterRuntimes, AfterTools, LayersComplete
<1>11. ASSUME NEW r \in Runtime, RunRuntime(r)
      PROVE  LayersComplete'
  BY <1>11, RuntimeStateTyped, RuntimeActions DEF RunRuntime, user, TypeOK, AfterRuntimes, AfterTools,
     LayersComplete, PendingWanted, States
<1>12. ASSUME NEW t \in Tool, RunTool(t)
      PROVE  LayersComplete'
  BY <1>12, ToolStateTyped, ToolActions DEF RunTool, user, TypeOK, AfterRuntimes, AfterTools,
     LayersComplete, States, PendingWanted
<1>13. CASE EndLayer
  BY <1>13 DEF EndLayer, Return, user, AfterRuntimes, AfterTools, LayersComplete
<1>14. CASE StartRebuild
  BY <1>14, TaintDependentsTyped DEF StartRebuild, user, TypeOK, AfterRuntimes, AfterTools, LayersComplete
<1>15. ASSUME NEW t \in Tool, Rebuild(t)
      PROVE  LayersComplete'
  BY <1>15, ToolStateTyped DEF Rebuild, Return, TypeOK, AfterRuntimes, AfterTools, LayersComplete, States
<1>16. CASE EndRebuild
  BY <1>16 DEF EndRebuild, user, AfterRuntimes, AfterTools, LayersComplete
<1>17. CASE StartRemovals
  BY <1>17 DEF StartRemovals, Return, user, AfterRuntimes, AfterTools, LayersComplete
<1>18. ASSUME NEW t \in Tool, RemoveTool(t)
      PROVE  LayersComplete'
  BY <1>18, ToolActions DEF RemoveTool, user, TypeOK, AfterRuntimes, AfterTools, LayersComplete, States,
     Removals
<1>19. ASSUME NEW r \in Runtime, RemoveRuntime(r)
      PROVE  LayersComplete'
  BY <1>19, RuntimeActions DEF RemoveRuntime, user, TypeOK, AfterRuntimes, AfterTools, LayersComplete,
     States, Removals
<1>20. CASE EndRemovals
  BY <1>20 DEF EndRemovals, user, AfterRuntimes, AfterTools, LayersComplete
<1>21. CASE Finish
  BY <1>21 DEF Finish, Return, AfterRuntimes, AfterTools, LayersComplete
<1>22. ASSUME NEW tools \in BOOLEAN, NEW runtimes \in BOOLEAN, Begin(tools, runtimes)
      PROVE  LayersComplete'
  BY <1>22 DEF Begin, user, TypeOK, AfterRuntimes, AfterTools, LayersComplete
<1>23. CASE UNCHANGED vars
  BY <1>23 DEF vars, user, engine, TypeOK, AfterRuntimes, AfterTools, LayersComplete
<1> QED
  BY <1>1, <1>2, <1>3, <1>4, <1>5, <1>6, <1>7, <1>8, <1>9, <1>10, <1>11, <1>12, <1>13, <1>14, <1>15, <1>16,
     <1>17, <1>18, <1>19, <1>20, <1>21, <1>22, <1>23
     DEF Next, Change, Trouble, Work, Apply

\* A step loses track of nothing.
LEMMA TrackedStep ==
    ASSUME UserAssumption, Inv, [Next]_vars
    PROVE  Tracked'
PROOF
<1> USE DEF Inv
<1>1. ASSUME NEW r \in Runtime, EditRuntime(r)
      PROVE  Tracked'
  BY <1>1 DEF EditRuntime, MayChange, TypeOK, Tracked, UserAssumption
<1>2. ASSUME NEW t \in Tool, EditTool(t)
      PROVE  Tracked'
  BY <1>2 DEF EditTool, MayChange, TypeOK, Tracked, UserAssumption
<1>3. CASE Publish
  BY <1>3 DEF Publish, MayChange, Tracked
<1>4. CASE BeginFails
  BY <1>4 DEF BeginFails, Fault, Return, user, Tracked
<1>5. CASE FlushFails
  BY <1>5 DEF FlushFails, Fault, Return, Tracked
<1>6. CASE Kill
  BY <1>6 DEF Kill, Fault, Return, Tracked
<1>7. CASE Cancel
  BY <1>7 DEF Cancel, Fault, Return, user, Tracked, SameRecorded
<1>8. ASSUME NEW n \in Runtime \cup Tool, InstallFails(n)
      PROVE  Tracked'
  BY <1>8 DEF InstallFails, Fault, user, Tracked
<1>9. ASSUME NEW t \in Tool, RebuildFails(t)
      PROVE  Tracked'
  BY <1>9 DEF RebuildFails, Fault, Return, user, Tracked, SameRecorded
<1>10. CASE RemoveFails
  BY <1>10 DEF RemoveFails, Fault, Return, Tracked
<1>11. ASSUME NEW r \in Runtime, RunRuntime(r)
      PROVE  Tracked'
  BY <1>11, RuntimeStateTyped, RuntimeActions DEF RunRuntime, user, TypeOK, Tracked, PendingWanted, States,
     Worlds
<1>12. ASSUME NEW t \in Tool, RunTool(t)
      PROVE  Tracked'
  BY <1>12, ToolStateTyped, ToolActions DEF RunTool, user, TypeOK, Tracked, States, Worlds, PendingWanted
<1>13. CASE EndLayer
  BY <1>13 DEF EndLayer, Return, user, Tracked
<1>14. CASE StartRebuild
  BY <1>14, TaintDependentsTyped DEF StartRebuild, user, TypeOK, Tracked
<1>15. ASSUME NEW t \in Tool, Rebuild(t)
      PROVE  Tracked'
  BY <1>15, ToolStateTyped DEF Rebuild, Return, TypeOK, Tracked, States, Worlds
<1>16. CASE EndRebuild
  BY <1>16 DEF EndRebuild, user, Tracked
<1>17. CASE StartRemovals
  BY <1>17 DEF StartRemovals, Return, user, Tracked, SameRecorded
<1>18. ASSUME NEW t \in Tool, RemoveTool(t)
      PROVE  Tracked'
  BY <1>18 DEF RemoveTool, user, TypeOK, Tracked, States, Worlds
<1>19. ASSUME NEW r \in Runtime, RemoveRuntime(r)
      PROVE  Tracked'
  BY <1>19 DEF RemoveRuntime, user, TypeOK, Tracked, States, Worlds
<1>20. CASE EndRemovals
  BY <1>20 DEF EndRemovals, user, Tracked
<1>21. CASE Finish
  BY <1>21 DEF Finish, Return, Tracked, LayersComplete, AfterRuntimes, AfterTools
<1>22. ASSUME NEW tools \in BOOLEAN, NEW runtimes \in BOOLEAN, Begin(tools, runtimes)
      PROVE  Tracked'
  <2>1. /\ \A r \in Runtime : cache'.runtime[r] = None <=> disk.runtime[r] = None
        /\ \A t \in Tool : cache'.tool[t] = None <=> disk.tool[t] = None
    BY <1>22, BeginRecords
  <2>2. pc = "idle" /\ pc' = "runtimes" /\ UNCHANGED <<manifest, mustRetry, world>>
    BY <1>22 DEF Begin, user
  <2>3. CASE mustRetry
    BY <2>1, <2>2, <2>3 DEF NoOrphans, Tracked
  <2>4. CASE ~mustRetry
    BY <2>1, <2>2, <2>4 DEF Tracked
  <2> QED
    BY <2>3, <2>4
<1>23. CASE UNCHANGED vars
  BY <1>23 DEF vars, user, engine, TypeOK, Tracked
<1> QED
  BY <1>1, <1>2, <1>3, <1>4, <1>5, <1>6, <1>7, <1>8, <1>9, <1>10, <1>11, <1>12, <1>13, <1>14, <1>15, <1>16,
     <1>17, <1>18, <1>19, <1>20, <1>21, <1>22, <1>23
     DEF Next, Change, Trouble, Work, Apply

\* A step that records something is written before the apply can return.
LEMMA SameStep ==
    ASSUME UserAssumption, Inv, [Next]_vars
    PROVE  SameRecorded'
PROOF
<1> USE DEF Inv
<1>1. ASSUME NEW r \in Runtime, EditRuntime(r)
      PROVE  SameRecorded'
  BY <1>1 DEF EditRuntime, MayChange, TypeOK, SameRecorded
<1>2. ASSUME NEW t \in Tool, EditTool(t)
      PROVE  SameRecorded'
  BY <1>2 DEF EditTool, MayChange, TypeOK, SameRecorded
<1>3. CASE Publish
  BY <1>3 DEF Publish, MayChange, SameRecorded
<1>4. CASE BeginFails
  BY <1>4 DEF BeginFails, Fault, Return, user, SameRecorded
<1>5. CASE FlushFails
  BY <1>5 DEF FlushFails, Fault, Return, SameRecorded
<1>6. CASE Kill
  BY <1>6 DEF Kill, Fault, Return, SameRecorded
<1>7. CASE Cancel
  BY <1>7 DEF Cancel, Fault, Return, user, SameRecorded
<1>8. ASSUME NEW n \in Runtime \cup Tool, InstallFails(n)
      PROVE  SameRecorded'
  BY <1>8 DEF InstallFails, Fault, user, SameRecorded
<1>9. ASSUME NEW t \in Tool, RebuildFails(t)
      PROVE  SameRecorded'
  BY <1>9 DEF RebuildFails, Fault, Return, user, SameRecorded
<1>10. CASE RemoveFails
  BY <1>10 DEF RemoveFails, Fault, Return, SameRecorded
<1>11. ASSUME NEW r \in Runtime, RunRuntime(r)
      PROVE  SameRecorded'
  BY <1>11 DEF RunRuntime, user, TypeOK, SameRecorded
<1>12. ASSUME NEW t \in Tool, RunTool(t)
      PROVE  SameRecorded'
  BY <1>12 DEF RunTool, user, TypeOK, SameRecorded
<1>13. CASE EndLayer
  BY <1>13 DEF EndLayer, Return, user, SameRecorded
<1>14. CASE StartRebuild
  BY <1>14 DEF StartRebuild, user, TypeOK, SameRecorded
<1>15. ASSUME NEW t \in Tool, Rebuild(t)
      PROVE  SameRecorded'
  BY <1>15, ToolStateTyped DEF Rebuild, Return, TypeOK, SameRecorded, States, LayersComplete, AfterRuntimes,
     AfterTools
<1>16. CASE EndRebuild
  BY <1>16 DEF EndRebuild, user, SameRecorded
<1>17. CASE StartRemovals
  BY <1>17 DEF StartRemovals, Return, user, SameRecorded
<1>18. ASSUME NEW t \in Tool, RemoveTool(t)
      PROVE  SameRecorded'
  BY <1>18 DEF RemoveTool, user, TypeOK, SameRecorded
<1>19. ASSUME NEW r \in Runtime, RemoveRuntime(r)
      PROVE  SameRecorded'
  BY <1>19 DEF RemoveRuntime, user, TypeOK, SameRecorded
<1>20. CASE EndRemovals
  BY <1>20 DEF EndRemovals, user, SameRecorded
<1>21. CASE Finish
  BY <1>21 DEF Finish, Return, SameRecorded
<1>22. ASSUME NEW tools \in BOOLEAN, NEW runtimes \in BOOLEAN, Begin(tools, runtimes)
      PROVE  SameRecorded'
  BY <1>22 DEF Begin, user, TypeOK, SameRecorded
<1>23. CASE UNCHANGED vars
  BY <1>23 DEF vars, user, engine, TypeOK, SameRecorded
<1> QED
  BY <1>1, <1>2, <1>3, <1>4, <1>5, <1>6, <1>7, <1>8, <1>9, <1>10, <1>11, <1>12, <1>13, <1>14, <1>15, <1>16,
     <1>17, <1>18, <1>19, <1>20, <1>21, <1>22, <1>23
     DEF Next, Change, Trouble, Work, Apply

\* A step removes no runtime that is wanted, and wants none that is a ghost.
LEMMA GhostsStep ==
    ASSUME UserAssumption, Inv, [Next]_vars
    PROVE  GhostsUnwanted'
PROOF
<1> USE DEF Inv
<1>1. ASSUME NEW r \in Runtime, EditRuntime(r)
      PROVE  GhostsUnwanted'
  BY <1>1 DEF EditRuntime, MayChange, TypeOK, GhostsUnwanted, Ghost, UserAssumption
<1>2. ASSUME NEW t \in Tool, EditTool(t)
      PROVE  GhostsUnwanted'
  BY <1>2 DEF EditTool, MayChange, TypeOK, GhostsUnwanted, Ghost, UserAssumption
<1>3. CASE Publish
  BY <1>3 DEF Publish, MayChange, GhostsUnwanted, Ghost
<1>4. CASE BeginFails
  BY <1>4 DEF BeginFails, Fault, Return, user, GhostsUnwanted, Ghost, Nothing
<1>5. CASE FlushFails
  BY <1>5 DEF FlushFails, Fault, Return, GhostsUnwanted, Ghost, Nothing
<1>6. CASE Kill
  BY <1>6 DEF Kill, Fault, Return, GhostsUnwanted, Ghost, Nothing
<1>7. CASE Cancel
  BY <1>7 DEF Cancel, Fault, Return, user, GhostsUnwanted, Ghost, Nothing
<1>8. ASSUME NEW n \in Runtime \cup Tool, InstallFails(n)
      PROVE  GhostsUnwanted'
  BY <1>8 DEF InstallFails, Fault, user, GhostsUnwanted, Ghost
<1>9. ASSUME NEW t \in Tool, RebuildFails(t)
      PROVE  GhostsUnwanted'
  BY <1>9 DEF RebuildFails, Fault, Return, user, GhostsUnwanted, Ghost, Nothing
<1>10. CASE RemoveFails
  BY <1>10 DEF RemoveFails, Fault, Return, GhostsUnwanted, Ghost, Nothing
<1>11. ASSUME NEW r \in Runtime, RunRuntime(r)
      PROVE  GhostsUnwanted'
  BY <1>11, RuntimeStateTyped, EngineAssumption DEF RunRuntime, user, TypeOK, GhostsUnwanted, Ghost,
     PendingWanted, States, Worlds, EngineAssumption
<1>12. ASSUME NEW t \in Tool, RunTool(t)
      PROVE  GhostsUnwanted'
  BY <1>12 DEF RunTool, user, TypeOK, GhostsUnwanted, Ghost, States, Worlds
<1>13. CASE EndLayer
  BY <1>13 DEF EndLayer, Return, user, GhostsUnwanted, Ghost, Nothing
<1>14. CASE StartRebuild
  BY <1>14, TaintDependentsTyped DEF StartRebuild, user, TypeOK, GhostsUnwanted, Ghost
<1>15. ASSUME NEW t \in Tool, Rebuild(t)
      PROVE  GhostsUnwanted'
  BY <1>15 DEF Rebuild, Return, TypeOK, GhostsUnwanted, Ghost, States, Worlds, Nothing
<1>16. CASE EndRebuild
  BY <1>16 DEF EndRebuild, user, GhostsUnwanted, Ghost
<1>17. CASE StartRemovals
  BY <1>17 DEF StartRemovals, Return, user, GhostsUnwanted, Ghost, Nothing
<1>18. ASSUME NEW t \in Tool, RemoveTool(t)
      PROVE  GhostsUnwanted'
  BY <1>18 DEF RemoveTool, user, TypeOK, GhostsUnwanted, Ghost, States, Worlds
<1>19. ASSUME NEW r \in Runtime, RemoveRuntime(r)
      PROVE  GhostsUnwanted'
  BY <1>19, RuntimeActions DEF RemoveRuntime, user, TypeOK, GhostsUnwanted, Ghost, States, Worlds,
     RemovalsChecked, Removals
<1>20. CASE EndRemovals
  BY <1>20 DEF EndRemovals, user, GhostsUnwanted, Ghost
<1>21. CASE Finish
  BY <1>21 DEF Finish, Return, GhostsUnwanted, Ghost, RemovalsChecked, Nothing
<1>22. ASSUME NEW tools \in BOOLEAN, NEW runtimes \in BOOLEAN, Begin(tools, runtimes)
      PROVE  GhostsUnwanted'
  BY <1>22, BeginRecords DEF Begin, user, TypeOK, GhostsUnwanted, Ghost
<1>23. CASE UNCHANGED vars
  BY <1>23 DEF vars, user, engine, TypeOK, GhostsUnwanted, Ghost
<1> QED
  BY <1>1, <1>2, <1>3, <1>4, <1>5, <1>6, <1>7, <1>8, <1>9, <1>10, <1>11, <1>12, <1>13, <1>14, <1>15, <1>16,
     <1>17, <1>18, <1>19, <1>20, <1>21, <1>22, <1>23
     DEF Next, Change, Trouble, Work, Apply

\* A step unblocks no removal.
LEMMA RemovalsStep ==
    ASSUME UserAssumption, Inv, [Next]_vars
    PROVE  RemovalsChecked'
PROOF
<1> USE DEF Inv
<1>1. ASSUME NEW r \in Runtime, EditRuntime(r)
      PROVE  RemovalsChecked'
  BY <1>1 DEF EditRuntime, MayChange, TypeOK, RemovalsChecked
<1>2. ASSUME NEW t \in Tool, EditTool(t)
      PROVE  RemovalsChecked'
  BY <1>2 DEF EditTool, MayChange, TypeOK, RemovalsChecked
<1>3. CASE Publish
  BY <1>3 DEF Publish, MayChange, RemovalsChecked
<1>4. CASE BeginFails
  BY <1>4 DEF BeginFails, Fault, Return, user, RemovalsChecked
<1>5. CASE FlushFails
  BY <1>5 DEF FlushFails, Fault, Return, RemovalsChecked
<1>6. CASE Kill
  BY <1>6 DEF Kill, Fault, Return, RemovalsChecked
<1>7. CASE Cancel
  BY <1>7 DEF Cancel, Fault, Return, user, RemovalsChecked
<1>8. ASSUME NEW n \in Runtime \cup Tool, InstallFails(n)
      PROVE  RemovalsChecked'
  BY <1>8 DEF InstallFails, Fault, user, RemovalsChecked
<1>9. ASSUME NEW t \in Tool, RebuildFails(t)
      PROVE  RemovalsChecked'
  BY <1>9 DEF RebuildFails, Fault, Return, user, RemovalsChecked
<1>10. CASE RemoveFails
  BY <1>10 DEF RemoveFails, Fault, Return, RemovalsChecked
<1>11. ASSUME NEW r \in Runtime, RunRuntime(r)
      PROVE  RemovalsChecked'
  BY <1>11 DEF RunRuntime, user, TypeOK, RemovalsChecked
<1>12. ASSUME NEW t \in Tool, RunTool(t)
      PROVE  RemovalsChecked'
  BY <1>12 DEF RunTool, user, TypeOK, RemovalsChecked
<1>13. CASE EndLayer
  BY <1>13 DEF EndLayer, Return, user, RemovalsChecked
<1>14. CASE StartRebuild
  BY <1>14 DEF StartRebuild, user, TypeOK, RemovalsChecked
<1>15. ASSUME NEW t \in Tool, Rebuild(t)
      PROVE  RemovalsChecked'
  BY <1>15 DEF Rebuild, Return, TypeOK, RemovalsChecked
<1>16. CASE EndRebuild
  BY <1>16 DEF EndRebuild, user, RemovalsChecked
<1>17. CASE StartRemovals
  BY <1>17 DEF StartRemovals, Return, user, RemovalsChecked, Blocked, Removals, RuntimeAction
<1>18. ASSUME NEW t \in Tool, RemoveTool(t)
      PROVE  RemovalsChecked'
  BY <1>18 DEF RemoveTool, user, TypeOK, RemovalsChecked, States
<1>19. ASSUME NEW r \in Runtime, RemoveRuntime(r)
      PROVE  RemovalsChecked'
  BY <1>19 DEF RemoveRuntime, user, TypeOK, RemovalsChecked, States
<1>20. CASE EndRemovals
  BY <1>20, RuntimeActions DEF EndRemovals, user, RemovalsChecked, Removals
<1>21. CASE Finish
  BY <1>21 DEF Finish, Return, RemovalsChecked
<1>22. ASSUME NEW tools \in BOOLEAN, NEW runtimes \in BOOLEAN, Begin(tools, runtimes)
      PROVE  RemovalsChecked'
  BY <1>22 DEF Begin, user, TypeOK, RemovalsChecked
<1>23. CASE UNCHANGED vars
  BY <1>23 DEF vars, user, engine, TypeOK, RemovalsChecked, Blocked, Removals, RuntimeAction
<1> QED
  BY <1>1, <1>2, <1>3, <1>4, <1>5, <1>6, <1>7, <1>8, <1>9, <1>10, <1>11, <1>12, <1>13, <1>14, <1>15, <1>16,
     <1>17, <1>18, <1>19, <1>20, <1>21, <1>22, <1>23
     DEF Next, Change, Trouble, Work, Apply

\* A step leaves no tool of an upgraded runtime behind.
LEMMA RebuildsStep ==
    ASSUME UserAssumption, Inv, [Next]_vars
    PROVE  RebuildsPending'
PROOF
<1> USE DEF Inv
<1>1. ASSUME NEW r \in Runtime, EditRuntime(r)
      PROVE  RebuildsPending'
  BY <1>1 DEF EditRuntime, MayChange, TypeOK, RebuildsPending
<1>2. ASSUME NEW t \in Tool, EditTool(t)
      PROVE  RebuildsPending'
  BY <1>2 DEF EditTool, MayChange, TypeOK, RebuildsPending
<1>3. CASE Publish
  BY <1>3 DEF Publish, MayChange, RebuildsPending
<1>4. CASE BeginFails
  BY <1>4 DEF BeginFails, Fault, Return, user, RebuildsPending
<1>5. CASE FlushFails
  BY <1>5 DEF FlushFails, Fault, Return, RebuildsPending
<1>6. CASE Kill
  BY <1>6 DEF Kill, Fault, Return, RebuildsPending
<1>7. CASE Cancel
  BY <1>7 DEF Cancel, Fault, Return, user, RebuildsPending
<1>8. ASSUME NEW n \in Runtime \cup Tool, InstallFails(n)
      PROVE  RebuildsPending'
  BY <1>8 DEF InstallFails, Fault, user, RebuildsPending
<1>9. ASSUME NEW t \in Tool, RebuildFails(t)
      PROVE  RebuildsPending'
  BY <1>9 DEF RebuildFails, Fault, Return, user, RebuildsPending
<1>10. CASE RemoveFails
  BY <1>10 DEF RemoveFails, Fault, Return, RebuildsPending
<1>11. ASSUME NEW r \in Runtime, RunRuntime(r)
      PROVE  RebuildsPending'
  BY <1>11 DEF RunRuntime, user, TypeOK, RebuildsPending
<1>12. ASSUME NEW t \in Tool, RunTool(t)
      PROVE  RebuildsPending'
  BY <1>12 DEF RunTool, user, TypeOK, RebuildsPending
<1>13. CASE EndLayer
  BY <1>13 DEF EndLayer, Return, user, RebuildsPending
<1>14. CASE StartRebuild
  BY <1>14, TaintDependentsTyped, ToolActions DEF StartRebuild, user, TypeOK, RebuildsPending,
     LayersComplete, AfterRuntimes, AfterTools, UpdatedKnown, States
<1>15. ASSUME NEW t \in Tool, Rebuild(t)
      PROVE  RebuildsPending'
  BY <1>15, ToolStateTyped, InstalledTyped, SpecTyped, EngineAssumption DEF Rebuild, Return, TypeOK,
     RebuildsPending, States, Worlds, EngineAssumption
<1>16. CASE EndRebuild
  BY <1>16 DEF EndRebuild, user, RebuildsPending
<1>17. CASE StartRemovals
  BY <1>17 DEF StartRemovals, Return, user, RebuildsPending
<1>18. ASSUME NEW t \in Tool, RemoveTool(t)
      PROVE  RebuildsPending'
  BY <1>18 DEF RemoveTool, user, TypeOK, RebuildsPending
<1>19. ASSUME NEW r \in Runtime, RemoveRuntime(r)
      PROVE  RebuildsPending'
  BY <1>19 DEF RemoveRuntime, user, TypeOK, RebuildsPending
<1>20. CASE EndRemovals
  BY <1>20 DEF EndRemovals, user, RebuildsPending
<1>21. CASE Finish
  BY <1>21 DEF Finish, Return, RebuildsPending
<1>22. ASSUME NEW tools \in BOOLEAN, NEW runtimes \in BOOLEAN, Begin(tools, runtimes)
      PROVE  RebuildsPending'
  BY <1>22 DEF Begin, user, TypeOK, RebuildsPending
<1>23. CASE UNCHANGED vars
  BY <1>23 DEF vars, user, engine, TypeOK, RebuildsPending
<1> QED
  BY <1>1, <1>2, <1>3, <1>4, <1>5, <1>6, <1>7, <1>8, <1>9, <1>10, <1>11, <1>12, <1>13, <1>14, <1>15, <1>16,
     <1>17, <1>18, <1>19, <1>20, <1>21, <1>22, <1>23
     DEF Next, Change, Trouble, Work, Apply

\* A step records only what an install has made.
LEMMA InstallsStep ==
    ASSUME UserAssumption, Inv, [Next]_vars
    PROVE  StatesOfInstalls'
PROOF
<1> USE DEF Inv
<1>1. ASSUME NEW r \in Runtime, EditRuntime(r)
      PROVE  StatesOfInstalls'
  BY <1>1 DEF EditRuntime, MayChange, TypeOK, OfInstalls, StatesOfInstalls
<1>2. ASSUME NEW t \in Tool, EditTool(t)
      PROVE  StatesOfInstalls'
  BY <1>2 DEF EditTool, MayChange, TypeOK, OfInstalls, StatesOfInstalls
<1>3. CASE Publish
  BY <1>3 DEF Publish, MayChange, OfInstalls, StatesOfInstalls
<1>4. CASE BeginFails
  BY <1>4 DEF BeginFails, Fault, Return, user, OfInstalls, StatesOfInstalls, Nothing
<1>5. CASE FlushFails
  BY <1>5 DEF FlushFails, Fault, Return, OfInstalls, StatesOfInstalls, Nothing
<1>6. CASE Kill
  BY <1>6 DEF Kill, Fault, Return, OfInstalls, StatesOfInstalls, Nothing
<1>7. CASE Cancel
  BY <1>7 DEF Cancel, Fault, Return, user, OfInstalls, StatesOfInstalls, Nothing
<1>8. ASSUME NEW n \in Runtime \cup Tool, InstallFails(n)
      PROVE  StatesOfInstalls'
  BY <1>8 DEF InstallFails, Fault, user, OfInstalls, StatesOfInstalls
<1>9. ASSUME NEW t \in Tool, RebuildFails(t)
      PROVE  StatesOfInstalls'
  BY <1>9 DEF RebuildFails, Fault, Return, user, OfInstalls, StatesOfInstalls, Nothing
<1>10. CASE RemoveFails
  BY <1>10 DEF RemoveFails, Fault, Return, OfInstalls, StatesOfInstalls, Nothing
<1>11. ASSUME NEW r \in Runtime, RunRuntime(r)
      PROVE  StatesOfInstalls'
  BY <1>11, RuntimeStateTyped, FreshRuntime DEF RunRuntime, user, TypeOK, OfInstalls, StatesOfInstalls,
     States, PendingWanted
<1>12. ASSUME NEW t \in Tool, RunTool(t)
      PROVE  StatesOfInstalls'
  BY <1>12, ToolStateTyped, FreshTool, SpecTyped DEF RunTool, user, TypeOK, OfInstalls, StatesOfInstalls,
     States, PendingWanted
<1>13. CASE EndLayer
  BY <1>13 DEF EndLayer, Return, user, OfInstalls, StatesOfInstalls, Nothing
<1>14. CASE StartRebuild
  BY <1>14, TaintDependentsTyped, MarksKeep DEF StartRebuild, user, TypeOK, OfInstalls, StatesOfInstalls
<1>15. ASSUME NEW t \in Tool, Rebuild(t)
      PROVE  StatesOfInstalls'
  BY <1>15, ToolStateTyped, FreshTool, SpecTyped DEF Rebuild, Return, TypeOK, OfInstalls, StatesOfInstalls,
     States, Nothing
<1>16. CASE EndRebuild
  BY <1>16 DEF EndRebuild, user, OfInstalls, StatesOfInstalls
<1>17. CASE StartRemovals
  BY <1>17 DEF StartRemovals, Return, user, OfInstalls, StatesOfInstalls, Nothing
<1>18. ASSUME NEW t \in Tool, RemoveTool(t)
      PROVE  StatesOfInstalls'
  BY <1>18 DEF RemoveTool, user, TypeOK, OfInstalls, StatesOfInstalls, States
<1>19. ASSUME NEW r \in Runtime, RemoveRuntime(r)
      PROVE  StatesOfInstalls'
  BY <1>19 DEF RemoveRuntime, user, TypeOK, OfInstalls, StatesOfInstalls, States
<1>20. CASE EndRemovals
  BY <1>20 DEF EndRemovals, user, OfInstalls, StatesOfInstalls
<1>21. CASE Finish
  BY <1>21 DEF Finish, Return, OfInstalls, StatesOfInstalls, Nothing
<1>22. ASSUME NEW tools \in BOOLEAN, NEW runtimes \in BOOLEAN, Begin(tools, runtimes)
      PROVE  StatesOfInstalls'
  <2>1. OnlyMarks(disk, disk') /\ cache' = disk'
    BY <1>22, BeginRecords
  <2>2. OfInstalls(disk')
    BY <2>1, MarksKeep DEF StatesOfInstalls
  <2> QED
    BY <2>1, <2>2 DEF StatesOfInstalls
<1>23. CASE UNCHANGED vars
  BY <1>23 DEF vars, user, engine, TypeOK, OfInstalls, StatesOfInstalls
<1> QED
  BY <1>1, <1>2, <1>3, <1>4, <1>5, <1>6, <1>7, <1>8, <1>9, <1>10, <1>11, <1>12, <1>13, <1>14, <1>15, <1>16,
     <1>17, <1>18, <1>19, <1>20, <1>21, <1>22, <1>23
     DEF Next, Change, Trouble, Work, Apply

\* A step leaves no runtime behind its manifest.
LEMMA RuntimesStep ==
    ASSUME UserAssumption, Inv, [Next]_vars
    PROVE  RuntimesUpToDate'
PROOF
<1> USE DEF Inv
<1>1. ASSUME NEW r \in Runtime, EditRuntime(r)
      PROVE  RuntimesUpToDate'
  BY <1>1 DEF EditRuntime, MayChange, TypeOK, AfterRuntimes, RuntimesUpToDate
<1>2. ASSUME NEW t \in Tool, EditTool(t)
      PROVE  RuntimesUpToDate'
  BY <1>2 DEF EditTool, MayChange, TypeOK, AfterRuntimes, RuntimesUpToDate
<1>3. CASE Publish
  BY <1>3 DEF Publish, MayChange, AfterRuntimes, RuntimesUpToDate
<1>4. CASE BeginFails
  BY <1>4 DEF BeginFails, Fault, Return, user, AfterRuntimes, RuntimesUpToDate
<1>5. CASE FlushFails
  BY <1>5 DEF FlushFails, Fault, Return, AfterRuntimes, RuntimesUpToDate
<1>6. CASE Kill
  BY <1>6 DEF Kill, Fault, Return, AfterRuntimes, RuntimesUpToDate
<1>7. CASE Cancel
  BY <1>7 DEF Cancel, Fault, Return, user, AfterRuntimes, RuntimesUpToDate
<1>8. ASSUME NEW n \in Runtime \cup Tool, InstallFails(n)
      PROVE  RuntimesUpToDate'
  BY <1>8 DEF InstallFails, Fault, user, AfterRuntimes, RuntimesUpToDate
<1>9. ASSUME NEW t \in Tool, RebuildFails(t)
      PROVE  RuntimesUpToDate'
  BY <1>9 DEF RebuildFails, Fault, Return, user, AfterRuntimes, RuntimesUpToDate
<1>10. CASE RemoveFails
  BY <1>10 DEF RemoveFails, Fault, Return, AfterRuntimes, RuntimesUpToDate
<1>11. ASSUME NEW r \in Runtime, RunRuntime(r)
      PROVE  RuntimesUpToDate'
  BY <1>11, FreshRuntime, RuntimeActions DEF RunRuntime, user, TypeOK, AfterRuntimes, RuntimesUpToDate,
     States, PendingWanted, RuntimeAction
<1>12. ASSUME NEW t \in Tool, RunTool(t)
      PROVE  RuntimesUpToDate'
  BY <1>12 DEF RunTool, user, TypeOK, AfterRuntimes, RuntimesUpToDate, States
<1>13. CASE EndLayer
  BY <1>13 DEF EndLayer, Return, user, AfterRuntimes, RuntimesUpToDate
<1>14. CASE StartRebuild
  BY <1>14, TaintDependentsTyped DEF StartRebuild, user, TypeOK, AfterRuntimes, RuntimesUpToDate
<1>15. ASSUME NEW t \in Tool, Rebuild(t)
      PROVE  RuntimesUpToDate'
  BY <1>15 DEF Rebuild, Return, TypeOK, AfterRuntimes, RuntimesUpToDate, States
<1>16. CASE EndRebuild
  BY <1>16 DEF EndRebuild, user, AfterRuntimes, RuntimesUpToDate
<1>17. CASE StartRemovals
  BY <1>17 DEF StartRemovals, Return, user, AfterRuntimes, RuntimesUpToDate
<1>18. ASSUME NEW t \in Tool, RemoveTool(t)
      PROVE  RuntimesUpToDate'
  BY <1>18 DEF RemoveTool, user, TypeOK, AfterRuntimes, RuntimesUpToDate, States
<1>19. ASSUME NEW r \in Runtime, RemoveRuntime(r)
      PROVE  RuntimesUpToDate'
  BY <1>19, RuntimeActions DEF RemoveRuntime, user, TypeOK, AfterRuntimes, RuntimesUpToDate, States, Removals
<1>20. CASE EndRemovals
  BY <1>20 DEF EndRemovals, user, AfterRuntimes, RuntimesUpToDate
<1>21. CASE Finish
  BY <1>21 DEF Finish, Return, AfterRuntimes, RuntimesUpToDate
<1>22. ASSUME NEW tools \in BOOLEAN, NEW runtimes \in BOOLEAN, Begin(tools, runtimes)
      PROVE  RuntimesUpToDate'
  BY <1>22 DEF Begin, user, TypeOK, AfterRuntimes, RuntimesUpToDate
<1>23. CASE UNCHANGED vars
  BY <1>23 DEF vars, user, engine, TypeOK, AfterRuntimes, RuntimesUpToDate
<1> QED
  BY <1>1, <1>2, <1>3, <1>4, <1>5, <1>6, <1>7, <1>8, <1>9, <1>10, <1>11, <1>12, <1>13, <1>14, <1>15, <1>16,
     <1>17, <1>18, <1>19, <1>20, <1>21, <1>22, <1>23
     DEF Next, Change, Trouble, Work, Apply

\* A step leaves no tool behind its manifest.
LEMMA ToolsStep ==
    ASSUME UserAssumption, Inv, [Next]_vars
    PROVE  ToolsUpToDate'
PROOF
<1> USE DEF Inv
<1>1. ASSUME NEW r \in Runtime, EditRuntime(r)
      PROVE  ToolsUpToDate'
  BY <1>1 DEF EditRuntime, MayChange, TypeOK, AfterRuntimes, AfterTools, ToolsUpToDate
<1>2. ASSUME NEW t \in Tool, EditTool(t)
      PROVE  ToolsUpToDate'
  BY <1>2 DEF EditTool, MayChange, TypeOK, AfterRuntimes, AfterTools, ToolsUpToDate
<1>3. CASE Publish
  BY <1>3 DEF Publish, MayChange, AfterRuntimes, AfterTools, ToolsUpToDate
<1>4. CASE BeginFails
  BY <1>4 DEF BeginFails, Fault, Return, user, AfterRuntimes, AfterTools, ToolsUpToDate
<1>5. CASE FlushFails
  BY <1>5 DEF FlushFails, Fault, Return, AfterRuntimes, AfterTools, ToolsUpToDate
<1>6. CASE Kill
  BY <1>6 DEF Kill, Fault, Return, AfterRuntimes, AfterTools, ToolsUpToDate
<1>7. CASE Cancel
  BY <1>7 DEF Cancel, Fault, Return, user, AfterRuntimes, AfterTools, ToolsUpToDate
<1>8. ASSUME NEW n \in Runtime \cup Tool, InstallFails(n)
      PROVE  ToolsUpToDate'
  BY <1>8 DEF InstallFails, Fault, user, AfterRuntimes, AfterTools, ToolsUpToDate
<1>9. ASSUME NEW t \in Tool, RebuildFails(t)
      PROVE  ToolsUpToDate'
  BY <1>9 DEF RebuildFails, Fault, Return, user, AfterRuntimes, AfterTools, ToolsUpToDate
<1>10. CASE RemoveFails
  BY <1>10 DEF RemoveFails, Fault, Return, AfterRuntimes, AfterTools, ToolsUpToDate
<1>11. ASSUME NEW r \in Runtime, RunRuntime(r)
      PROVE  ToolsUpToDate'
  BY <1>11 DEF RunRuntime, user, TypeOK, AfterRuntimes, AfterTools, ToolsUpToDate, States
<1>12. ASSUME NEW t \in Tool, RunTool(t)
      PROVE  ToolsUpToDate'
  BY <1>12, FreshTool, ToolActions DEF RunTool, user, TypeOK, AfterRuntimes, AfterTools, ToolsUpToDate,
     States, PendingWanted, ToolAction
<1>13. CASE EndLayer
  BY <1>13 DEF EndLayer, Return, user, AfterRuntimes, AfterTools, ToolsUpToDate
<1>14. CASE StartRebuild
  BY <1>14, TaintDependentsTyped DEF StartRebuild, user, TypeOK, AfterRuntimes, AfterTools, ToolsUpToDate,
     ToolAction, LayersComplete
<1>15. ASSUME NEW t \in Tool, Rebuild(t)
      PROVE  ToolsUpToDate'
  BY <1>15, FreshTool DEF Rebuild, Return, TypeOK, AfterRuntimes, AfterTools, ToolsUpToDate, States
<1>16. CASE EndRebuild
  BY <1>16 DEF EndRebuild, user, AfterRuntimes, AfterTools, ToolsUpToDate
<1>17. CASE StartRemovals
  BY <1>17 DEF StartRemovals, Return, user, AfterRuntimes, AfterTools, ToolsUpToDate
<1>18. ASSUME NEW t \in Tool, RemoveTool(t)
      PROVE  ToolsUpToDate'
  BY <1>18, ToolActions DEF RemoveTool, user, TypeOK, AfterRuntimes, AfterTools, ToolsUpToDate, States,
     Removals
<1>19. ASSUME NEW r \in Runtime, RemoveRuntime(r)
      PROVE  ToolsUpToDate'
  BY <1>19 DEF RemoveRuntime, user, TypeOK, AfterRuntimes, AfterTools, ToolsUpToDate, States
<1>20. CASE EndRemovals
  BY <1>20 DEF EndRemovals, user, AfterRuntimes, AfterTools, ToolsUpToDate
<1>21. CASE Finish
  BY <1>21 DEF Finish, Return, AfterRuntimes, AfterTools, ToolsUpToDate
<1>22. ASSUME NEW tools \in BOOLEAN, NEW runtimes \in BOOLEAN, Begin(tools, runtimes)
      PROVE  ToolsUpToDate'
  BY <1>22 DEF Begin, user, TypeOK, AfterRuntimes, AfterTools, ToolsUpToDate
<1>23. CASE UNCHANGED vars
  BY <1>23 DEF vars, user, engine, TypeOK, AfterRuntimes, AfterTools, ToolsUpToDate
<1> QED
  BY <1>1, <1>2, <1>3, <1>4, <1>5, <1>6, <1>7, <1>8, <1>9, <1>10, <1>11, <1>12, <1>13, <1>14, <1>15, <1>16,
     <1>17, <1>18, <1>19, <1>20, <1>21, <1>22, <1>23
     DEF Next, Change, Trouble, Work, Apply

\* A step takes up only what it finds recorded.
LEMMA RecordedStep ==
    ASSUME UserAssumption, Inv, [Next]_vars
    PROVE  PendingAsRecorded'
PROOF
<1> USE DEF Inv
<1>1. ASSUME NEW r \in Runtime, EditRuntime(r)
      PROVE  PendingAsRecorded'
  BY <1>1 DEF EditRuntime, MayChange, TypeOK, PendingAsRecorded
<1>2. ASSUME NEW t \in Tool, EditTool(t)
      PROVE  PendingAsRecorded'
  BY <1>2 DEF EditTool, MayChange, TypeOK, PendingAsRecorded
<1>3. CASE Publish
  BY <1>3 DEF Publish, MayChange, PendingAsRecorded
<1>4. CASE BeginFails
  BY <1>4 DEF BeginFails, Fault, Return, user, PendingAsRecorded
<1>5. CASE FlushFails
  BY <1>5 DEF FlushFails, Fault, Return, PendingAsRecorded
<1>6. CASE Kill
  BY <1>6 DEF Kill, Fault, Return, PendingAsRecorded
<1>7. CASE Cancel
  BY <1>7 DEF Cancel, Fault, Return, user, PendingAsRecorded
<1>8. ASSUME NEW n \in Runtime \cup Tool, InstallFails(n)
      PROVE  PendingAsRecorded'
  BY <1>8 DEF InstallFails, Fault, user, PendingAsRecorded
<1>9. ASSUME NEW t \in Tool, RebuildFails(t)
      PROVE  PendingAsRecorded'
  BY <1>9 DEF RebuildFails, Fault, Return, user, PendingAsRecorded
<1>10. CASE RemoveFails
  BY <1>10 DEF RemoveFails, Fault, Return, PendingAsRecorded
<1>11. ASSUME NEW r \in Runtime, RunRuntime(r)
      PROVE  PendingAsRecorded'
  BY <1>11 DEF RunRuntime, user, TypeOK, PendingAsRecorded, States, PendingWanted
<1>12. ASSUME NEW t \in Tool, RunTool(t)
      PROVE  PendingAsRecorded'
  BY <1>12 DEF RunTool, user, TypeOK, PendingAsRecorded, States, PendingWanted
<1>13. CASE EndLayer
  BY <1>13 DEF EndLayer, Return, user, PendingAsRecorded
<1>14. CASE StartRebuild
  <2>1. CASE updated = {}
    BY <1>14, <2>1 DEF StartRebuild, PendingAsRecorded
  <2>2. CASE updated # {}
    <3>1. /\ cache \in States /\ cache' = TaintDependents(cache, updated) /\ disk' = cache'
          /\ pending' = {t \in Tool : ToolAction(t, cache') # "none"}
          /\ pc = "taint" /\ pc' = "rebuild" /\ manifest' = manifest
      BY <1>14, <2>2 DEF StartRebuild, user, TypeOK
    <3>2. ASSUME NEW t \in pending', manifest.tool[t] # None
          PROVE  /\ cache'.tool[t] # None /\ cache'.tool[t].ref # None
                 /\ ~SpecVersionChanged(manifest.tool[t].version, cache'.tool[t])
      <4>1. t \in Tool /\ ToolAction(t, cache') # "none"
        BY <3>1, <3>2
      <4>2. cache.tool[t] # None /\ ~ToolNeedsUpdate(manifest.tool[t], cache.tool[t])
        BY <3>1, <3>2, <4>1 DEF LayersComplete, ToolsUpToDate, AfterTools, AfterRuntimes
      <4>3. OnlyMarks(cache, cache') /\ (cache'.tool[t] # cache.tool[t] => cache.tool[t].ref \in updated)
        BY <3>1, <4>1, TaintDependentsTyped
      <4>4. cache'.tool[t] # cache.tool[t]
        BY <3>2, <4>1, <4>2 DEF ToolAction
      <4>5. cache.tool[t].ref # None
        BY <4>3, <4>4, EngineAssumption DEF EngineAssumption, TypeOK
      <4> QED
        BY <4>1, <4>2, <4>3, <4>5 DEF OnlyMarks, ToolNeedsUpdate, NeedsUpdate
    <3> QED
      BY <3>1, <3>2 DEF PendingAsRecorded
  <2> QED
    BY <2>1, <2>2
<1>15. ASSUME NEW t \in Tool, Rebuild(t)
      PROVE  PendingAsRecorded'
  BY <1>15 DEF Rebuild, Return, TypeOK, PendingAsRecorded
<1>16. CASE EndRebuild
  BY <1>16 DEF EndRebuild, user, PendingAsRecorded
<1>17. CASE StartRemovals
  BY <1>17 DEF StartRemovals, Return, user, PendingAsRecorded
<1>18. ASSUME NEW t \in Tool, RemoveTool(t)
      PROVE  PendingAsRecorded'
  BY <1>18 DEF RemoveTool, user, TypeOK, PendingAsRecorded
<1>19. ASSUME NEW r \in Runtime, RemoveRuntime(r)
      PROVE  PendingAsRecorded'
  BY <1>19 DEF RemoveRuntime, user, TypeOK, PendingAsRecorded
<1>20. CASE EndRemovals
  BY <1>20 DEF EndRemovals, user, PendingAsRecorded
<1>21. CASE Finish
  BY <1>21 DEF Finish, Return, PendingAsRecorded
<1>22. ASSUME NEW tools \in BOOLEAN, NEW runtimes \in BOOLEAN, Begin(tools, runtimes)
      PROVE  PendingAsRecorded'
  BY <1>22 DEF Begin, user, TypeOK, PendingAsRecorded
<1>23. CASE UNCHANGED vars
  BY <1>23 DEF vars, user, engine, TypeOK, PendingAsRecorded
<1> QED
  BY <1>1, <1>2, <1>3, <1>4, <1>5, <1>6, <1>7, <1>8, <1>9, <1>10, <1>11, <1>12, <1>13, <1>14, <1>15, <1>16,
     <1>17, <1>18, <1>19, <1>20, <1>21, <1>22, <1>23
     DEF Next, Change, Trouble, Work, Apply

\* A step makes no state untrue that is not due.
LEMMA DueStep ==
    ASSUME UserAssumption, Inv, [Next]_vars
    PROVE  StaleIsDue'
PROOF
<1> USE DEF Inv
<1>1. ASSUME NEW r \in Runtime, EditRuntime(r)
      PROVE  StaleIsDue'
  BY <1>1 DEF EditRuntime, MayChange, TypeOK, StaleDue, RuntimeStale, ToolStale, StaleIsDue, UserAssumption,
     StaleIsRetried, InPlace
<1>2. ASSUME NEW t \in Tool, EditTool(t)
      PROVE  StaleIsDue'
  BY <1>2 DEF EditTool, MayChange, TypeOK, StaleDue, RuntimeStale, ToolStale, StaleIsDue, UserAssumption,
     StaleIsRetried, InPlace
<1>3. CASE Publish
  BY <1>3 DEF Publish, MayChange, StaleDue, RuntimeStale, ToolStale, StaleIsDue
<1>4. CASE BeginFails
  BY <1>4 DEF BeginFails, Fault, Return, user, StaleDue, RuntimeStale, ToolStale, StaleIsDue
<1>5. CASE FlushFails
  BY <1>5 DEF FlushFails, Fault, Return, StaleDue, RuntimeStale, ToolStale, StaleIsDue
<1>6. CASE Kill
  BY <1>6 DEF Kill, Fault, Return, StaleDue, RuntimeStale, ToolStale, StaleIsDue
<1>7. CASE Cancel
  BY <1>7 DEF Cancel, Fault, Return, user, StaleDue, RuntimeStale, ToolStale, StaleIsDue
<1>8. ASSUME NEW n \in Runtime \cup Tool, InstallFails(n)
      PROVE  StaleIsDue'
  BY <1>8 DEF InstallFails, Fault, user, StaleDue, RuntimeStale, ToolStale, StaleIsDue
<1>9. ASSUME NEW t \in Tool, RebuildFails(t)
      PROVE  StaleIsDue'
  BY <1>9 DEF RebuildFails, Fault, Return, user, StaleDue, RuntimeStale, ToolStale, StaleIsDue
<1>10. CASE RemoveFails
  BY <1>10 DEF RemoveFails, Fault, Return, StaleDue, RuntimeStale, ToolStale, StaleIsDue
<1>11. ASSUME NEW r \in Runtime, RunRuntime(r)
      PROVE  StaleIsDue'
  <2>1. pc = "runtimes" /\ pc' = pc /\ manifest.runtime[r] # None
        /\ UNCHANGED <<manifest, disk, mustRetry>>
    BY <1>11 DEF RunRuntime, PendingWanted, user
  <2>2. CASE RuntimeAction(r, cache) = "none"
    BY <1>11, <2>1, <2>2 DEF RunRuntime, StaleIsDue, StaleDue, RuntimeStale, ToolStale
  <2>3. CASE RuntimeAction(r, cache) # "none"
    <3>1. /\ world'.tool = world.tool /\ cache'.tool = cache.tool
          /\ \A q \in Runtime \ {r} :
                world'.runtime[q] = world.runtime[q] /\ cache'.runtime[q] = cache.runtime[q]
          /\ ~RuntimeStale(r, cache)'
      BY <1>11, <2>1, <2>3, RuntimePut DEF RunRuntime, user
    <3>2. disk.runtime[r] # None => NeedsUpdate(manifest.runtime[r], disk.runtime[r])
      BY <1>11, <2>1, <2>3 DEF RunRuntime, PendingAsRecorded, RuntimeAction
    <3> QED
      BY <2>1, <3>1, <3>2 DEF StaleIsDue, StaleDue, RuntimeStale, ToolStale
  <2> QED
    BY <2>2, <2>3
<1>12. ASSUME NEW t \in Tool, RunTool(t)
      PROVE  StaleIsDue'
  <2>1. pc = "tools" /\ pc' = pc /\ manifest.tool[t] # None
        /\ UNCHANGED <<manifest, disk, mustRetry>>
    BY <1>12 DEF RunTool, PendingWanted, user
  <2>2. CASE UNCHANGED <<world, cache>>
    BY <1>12, <2>1, <2>2 DEF RunTool, StaleIsDue, StaleDue, RuntimeStale, ToolStale
  <2>3. CASE ~UNCHANGED <<world, cache>>
    <3>1. /\ ToolAction(t, cache) # "none"
          /\ world' = [world EXCEPT !.tool[t] = Installed(t)]
          /\ cache' = [cache EXCEPT !.tool[t] = ToolStateOf(manifest.tool[t])]
      BY <1>12, <2>3 DEF RunTool
    <3>2. /\ world'.runtime = world.runtime /\ cache'.runtime = cache.runtime
          /\ \A q \in Tool \ {t} : world'.tool[q] = world.tool[q] /\ cache'.tool[q] = cache.tool[q]
          /\ ~ToolStale(t, cache)'
      BY <2>1, <3>1, ToolPut
    <3>3. disk.tool[t] # None => ToolNeedsUpdate(manifest.tool[t], disk.tool[t])
      BY <1>12, <2>1, <3>1 DEF RunTool, PendingAsRecorded, ToolAction
    <3> QED
      BY <2>1, <3>2, <3>3 DEF StaleIsDue, StaleDue, RuntimeStale, ToolStale
  <2> QED
    BY <2>2, <2>3
<1>13. CASE EndLayer
  BY <1>13 DEF EndLayer, Return, user, StaleDue, RuntimeStale, ToolStale, StaleIsDue
<1>14. CASE StartRebuild
  <2>1. CASE updated = {}
    BY <1>14, <2>1 DEF StartRebuild, user, StaleIsDue, StaleDue, RuntimeStale, ToolStale
  <2>2. CASE updated # {}
    <3>1. cache' = disk' /\ OnlyMarks(cache, cache') /\ UNCHANGED <<manifest, world, mustRetry>>
      BY <1>14, <2>2, TaintDependentsTyped DEF StartRebuild, user, TypeOK
    <3>2. StaleDue(cache) => StaleDue(cache)'
      BY <3>1 DEF OnlyMarks, StaleDue, RuntimeStale, ToolStale
    <3> QED
      BY <1>14, <2>2, <3>1, <3>2 DEF StartRebuild, StaleIsDue, StaleDue, RuntimeStale, ToolStale
  <2> QED
    BY <2>1, <2>2
<1>15. ASSUME NEW t \in Tool, Rebuild(t)
      PROVE  StaleIsDue'
  <2>1. CASE manifest.tool[t] = None
    BY <1>15, <2>1 DEF Rebuild, Return, StaleIsDue, StaleDue, RuntimeStale, ToolStale
  <2>2. CASE manifest.tool[t] # None
    <3>1. manifest' = manifest /\ world' = [world EXCEPT !.tool[t] = Installed(t)]
          /\ cache' = [cache EXCEPT !.tool[t] = ToolStateOf(manifest.tool[t])]
          /\ disk' = disk /\ pc = "rebuild" /\ pc' = "rebuild" /\ mustRetry' = mustRetry
      BY <1>15, <2>2 DEF Rebuild
    <3>2. disk.tool[t] # None /\ disk.tool[t].ref # None
          /\ ~SpecVersionChanged(manifest.tool[t].version, disk.tool[t])
      BY <1>15, <2>2 DEF Rebuild, PendingAsRecorded
    <3>3. disk.tool[t].version \in {Installed(t).version, Latest}
      BY <2>2, <3>2, SpecTyped DEF StatesOfInstalls, OfInstalls, SpecVersionChanged, Installed, Resolve
    <3>4. disk.tool[t].ref = Installed(t).ref
      BY <2>2, <3>2, SpecTyped, InstalledTyped DEF StatesOfInstalls, OfInstalls, UserAssumption
    <3>5. ~ToolStale(t, disk)'
      BY <2>2, <3>1, <3>3, <3>4, ToolPut, InstalledTyped DEF ToolStale
    <3>6. /\ world'.runtime = world.runtime /\ cache'.runtime = cache.runtime
          /\ \A q \in Tool \ {t} : world'.tool[q] = world.tool[q] /\ cache'.tool[q] = cache.tool[q]
          /\ ~ToolStale(t, cache)'
      BY <2>2, <3>1, ToolPut
    <3>7. /\ \A r \in Runtime : RuntimeStale(r, disk)' => RuntimeStale(r, disk)
          /\ \A q \in Tool : ToolStale(q, disk)' => ToolStale(q, disk)
      BY <3>1, <3>5, <3>6 DEF RuntimeStale, ToolStale
    <3>8. /\ \A r \in Runtime : RuntimeStale(r, cache)' => RuntimeStale(r, cache) /\ cache'.runtime[r] = cache.runtime[r]
          /\ \A q \in Tool : ToolStale(q, cache)' => ToolStale(q, cache) /\ q # t /\ cache'.tool[q] = cache.tool[q]
      BY <3>1, <3>6 DEF RuntimeStale, ToolStale
    <3>9. world'.runtime = world.runtime /\ \A q \in Tool \ {t} : world'.tool[q] = world.tool[q]
      BY <3>6
    <3>10. StaleDue(disk)'
      BY <3>1, <3>5, <3>7, <3>9 DEF StaleIsDue, StaleDue
    <3>11. StaleDue(cache)'
      BY <3>1, <3>8, <3>9 DEF StaleIsDue, StaleDue
    <3> QED
      BY <3>10, <3>11 DEF StaleIsDue
  <2> QED
    BY <2>1, <2>2
<1>16. CASE EndRebuild
  BY <1>16 DEF EndRebuild, user, StaleDue, RuntimeStale, ToolStale, StaleIsDue
<1>17. CASE StartRemovals
  BY <1>17 DEF StartRemovals, Return, user, StaleDue, RuntimeStale, ToolStale, StaleIsDue
<1>18. ASSUME NEW t \in Tool, RemoveTool(t)
      PROVE  StaleIsDue'
  <2>1. /\ world'.runtime = world.runtime /\ cache'.runtime = cache.runtime
        /\ \A q \in Tool \ {t} : world'.tool[q] = world.tool[q] /\ cache'.tool[q] = cache.tool[q]
        /\ world'.tool[t] = None /\ cache'.tool[t] = None
    BY <1>18 DEF RemoveTool, TypeOK, States, Worlds
  <2>2. manifest.tool[t] = None
    BY <1>18, ToolActions DEF RemoveTool, Removals
  <2> QED
    BY <1>18, <2>1, <2>2 DEF RemoveTool, user, StaleIsDue, StaleDue, RuntimeStale, ToolStale
<1>19. ASSUME NEW r \in Runtime, RemoveRuntime(r)
      PROVE  StaleIsDue'
  <2>1. /\ world'.tool = world.tool /\ cache'.tool = cache.tool
        /\ \A q \in Runtime \ {r} :
              world'.runtime[q] = world.runtime[q] /\ cache'.runtime[q] = cache.runtime[q]
        /\ world'.runtime[r] = None /\ cache'.runtime[r] = None
    BY <1>19 DEF RemoveRuntime, TypeOK, States, Worlds
  <2>2. manifest.runtime[r] = None
    BY <1>19, RuntimeActions DEF RemoveRuntime, Removals
  <2> QED
    BY <1>19, <2>1, <2>2 DEF RemoveRuntime, user, StaleIsDue, StaleDue, RuntimeStale, ToolStale
<1>20. CASE EndRemovals
  BY <1>20 DEF EndRemovals, user, StaleDue, RuntimeStale, ToolStale, StaleIsDue
<1>21. CASE Finish
  BY <1>21 DEF Finish, Return, StaleDue, RuntimeStale, ToolStale, StaleIsDue
<1>22. ASSUME NEW tools \in BOOLEAN, NEW runtimes \in BOOLEAN, Begin(tools, runtimes)
      PROVE  StaleIsDue'
  <2>1. /\ cache' = disk' /\ OnlyMarks(disk, disk') /\ UNCHANGED <<manifest, world>>
    BY <1>22, BeginRecords DEF Begin, user
  <2>2. StaleDue(disk)'
    BY <2>1 DEF OnlyMarks, StaleIsDue, StaleDue, RuntimeStale, ToolStale
  <2>3. StaleDue(cache)'
    BY <2>1, <2>2 DEF StaleDue, RuntimeStale, ToolStale
  <2> QED
    BY <2>2, <2>3 DEF StaleIsDue
<1>23. CASE UNCHANGED vars
  BY <1>23 DEF vars, user, engine, TypeOK, StaleDue, RuntimeStale, ToolStale, StaleIsDue
<1> QED
  BY <1>1, <1>2, <1>3, <1>4, <1>5, <1>6, <1>7, <1>8, <1>9, <1>10, <1>11, <1>12, <1>13, <1>14, <1>15, <1>16,
     <1>17, <1>18, <1>19, <1>20, <1>21, <1>22, <1>23
     DEF Next, Change, Trouble, Work, Apply

\* A step leaves no state untrue without a retry.
LEMMA RetriedStep ==
    ASSUME UserAssumption, Inv, [Next]_vars
    PROVE  StaleIsRetried'
PROOF
<1> USE DEF Inv
<1>1. ASSUME NEW r \in Runtime, EditRuntime(r)
      PROVE  StaleIsRetried'
  BY <1>1 DEF EditRuntime, MayChange, TypeOK, InPlace, RuntimeStale, ToolStale, StaleIsRetried
<1>2. ASSUME NEW t \in Tool, EditTool(t)
      PROVE  StaleIsRetried'
  BY <1>2 DEF EditTool, MayChange, TypeOK, InPlace, RuntimeStale, ToolStale, StaleIsRetried
<1>3. CASE Publish
  BY <1>3 DEF Publish, MayChange, InPlace, RuntimeStale, ToolStale, StaleIsRetried
<1>4. CASE BeginFails
  BY <1>4 DEF BeginFails, Fault, Return, user, InPlace, RuntimeStale, ToolStale, StaleIsRetried
<1>5. CASE FlushFails
  BY <1>5 DEF FlushFails, Fault, Return, InPlace, RuntimeStale, ToolStale, StaleIsRetried
<1>6. CASE Kill
  BY <1>6 DEF Kill, Fault, Return, InPlace, RuntimeStale, ToolStale, StaleIsRetried
<1>7. CASE Cancel
  BY <1>7 DEF Cancel, Fault, Return, user, InPlace, RuntimeStale, ToolStale, StaleIsRetried
<1>8. ASSUME NEW n \in Runtime \cup Tool, InstallFails(n)
      PROVE  StaleIsRetried'
  BY <1>8 DEF InstallFails, Fault, user, InPlace, RuntimeStale, ToolStale, StaleIsRetried
<1>9. ASSUME NEW t \in Tool, RebuildFails(t)
      PROVE  StaleIsRetried'
  BY <1>9 DEF RebuildFails, Fault, Return, user, InPlace, RuntimeStale, ToolStale, StaleIsRetried
<1>10. CASE RemoveFails
  BY <1>10 DEF RemoveFails, Fault, Return, InPlace, RuntimeStale, ToolStale, StaleIsRetried
<1>11. ASSUME NEW r \in Runtime, RunRuntime(r)
      PROVE  StaleIsRetried'
  BY <1>11, FreshRuntime DEF RunRuntime, user, TypeOK, InPlace, RuntimeStale, ToolStale, StaleIsRetried,
     States, Worlds
<1>12. ASSUME NEW t \in Tool, RunTool(t)
      PROVE  StaleIsRetried'
  <2>1. pc = "tools" /\ pc' = pc /\ manifest.tool[t] # None
        /\ UNCHANGED <<manifest, disk, mustRetry>>
    BY <1>12 DEF RunTool, PendingWanted, user
  <2>2. CASE UNCHANGED <<world, cache>>
    BY <1>12, <2>1, <2>2 DEF RunTool, StaleIsRetried, InPlace, RuntimeStale, ToolStale
  <2>3. CASE ~UNCHANGED <<world, cache>>
    <3>1. /\ ToolAction(t, cache) # "none"
          /\ world' = [world EXCEPT !.tool[t] = Installed(t)]
          /\ cache' = [cache EXCEPT !.tool[t] = ToolStateOf(manifest.tool[t])]
      BY <1>12, <2>3 DEF RunTool
    <3>2. /\ world'.runtime = world.runtime /\ cache'.runtime = cache.runtime
          /\ \A q \in Tool \ {t} : world'.tool[q] = world.tool[q] /\ cache'.tool[q] = cache.tool[q]
          /\ ~ToolStale(t, cache)'
      BY <2>1, <3>1, ToolPut
    <3>3. disk.tool[t] # None => ToolNeedsUpdate(manifest.tool[t], disk.tool[t])
      BY <1>12, <2>1, <3>1 DEF RunTool, PendingAsRecorded, ToolAction
    <3> QED
      BY <2>1, <3>2, <3>3 DEF StaleIsRetried, InPlace, RuntimeStale, ToolStale
  <2> QED
    BY <2>2, <2>3
<1>13. CASE EndLayer
  BY <1>13 DEF EndLayer, Return, user, InPlace, RuntimeStale, ToolStale, StaleIsRetried
<1>14. CASE StartRebuild
  BY <1>14, TaintDependentsTyped DEF StartRebuild, user, TypeOK, InPlace, RuntimeStale, ToolStale,
     StaleIsRetried, OnlyMarks
<1>15. ASSUME NEW t \in Tool, Rebuild(t)
      PROVE  StaleIsRetried'
  <2>1. CASE manifest.tool[t] = None
    BY <1>15, <2>1 DEF Rebuild, Return, StaleIsRetried, InPlace, RuntimeStale, ToolStale
  <2>2. CASE manifest.tool[t] # None
    <3>1. manifest' = manifest /\ world' = [world EXCEPT !.tool[t] = Installed(t)]
          /\ cache' = [cache EXCEPT !.tool[t] = ToolStateOf(manifest.tool[t])]
          /\ disk' = disk /\ pc = "rebuild" /\ pc' = "rebuild" /\ mustRetry' = mustRetry
      BY <1>15, <2>2 DEF Rebuild
    <3>2. disk.tool[t] # None /\ disk.tool[t].ref # None
          /\ ~SpecVersionChanged(manifest.tool[t].version, disk.tool[t])
      BY <1>15, <2>2 DEF Rebuild, PendingAsRecorded
    <3>3. disk.tool[t].version \in {Installed(t).version, Latest}
      BY <2>2, <3>2, SpecTyped DEF StatesOfInstalls, OfInstalls, SpecVersionChanged, Installed, Resolve
    <3>4. disk.tool[t].ref = Installed(t).ref
      BY <2>2, <3>2, SpecTyped, InstalledTyped DEF StatesOfInstalls, OfInstalls, UserAssumption
    <3>5. ~ToolStale(t, disk)'
      BY <2>2, <3>1, <3>3, <3>4, ToolPut, InstalledTyped DEF ToolStale
    <3>6. /\ world'.runtime = world.runtime /\ cache'.runtime = cache.runtime
          /\ \A q \in Tool \ {t} : world'.tool[q] = world.tool[q] /\ cache'.tool[q] = cache.tool[q]
          /\ ~ToolStale(t, cache)'
      BY <2>2, <3>1, ToolPut
    <3>7. /\ \A r \in Runtime : RuntimeStale(r, disk)' => RuntimeStale(r, disk)
          /\ \A q \in Tool : ToolStale(q, disk)' => ToolStale(q, disk)
      BY <3>1, <3>5, <3>6 DEF RuntimeStale, ToolStale
    <3>8. /\ \A r \in Runtime : RuntimeStale(r, cache)' => RuntimeStale(r, cache)
          /\ \A q \in Tool : ToolStale(q, cache)' => ToolStale(q, cache)
      BY <3>1, <3>6 DEF RuntimeStale, ToolStale
    <3> QED
      BY <3>1, <3>7, <3>8 DEF StaleIsRetried, InPlace
  <2> QED
    BY <2>1, <2>2
<1>16. CASE EndRebuild
  BY <1>16 DEF EndRebuild, user, InPlace, RuntimeStale, ToolStale, StaleIsRetried
<1>17. CASE StartRemovals
  BY <1>17 DEF StartRemovals, Return, user, InPlace, RuntimeStale, ToolStale, StaleIsRetried
<1>18. ASSUME NEW t \in Tool, RemoveTool(t)
      PROVE  StaleIsRetried'
  BY <1>18 DEF RemoveTool, user, TypeOK, InPlace, RuntimeStale, ToolStale, StaleIsRetried, States, Worlds
<1>19. ASSUME NEW r \in Runtime, RemoveRuntime(r)
      PROVE  StaleIsRetried'
  BY <1>19 DEF RemoveRuntime, user, TypeOK, InPlace, RuntimeStale, ToolStale, StaleIsRetried, States, Worlds
<1>20. CASE EndRemovals
  BY <1>20 DEF EndRemovals, user, InPlace, RuntimeStale, ToolStale, StaleIsRetried
<1>21. CASE Finish
  BY <1>21 DEF Finish, Return, InPlace, RuntimeStale, ToolStale, StaleIsRetried, StaleIsDue, StaleDue,
     RuntimesUpToDate, ToolsUpToDate, RemovalsChecked, NothingLeft, AfterRuntimes, AfterTools
<1>22. ASSUME NEW tools \in BOOLEAN, NEW runtimes \in BOOLEAN, Begin(tools, runtimes)
      PROVE  StaleIsRetried'
  <2>1. /\ cache' = disk' /\ OnlyMarks(disk, disk') /\ UNCHANGED <<manifest, world, mustRetry>> /\ pc = "idle"
    BY <1>22, BeginRecords DEF Begin, user
  <2>2. InPlace(disk) => InPlace(disk)'
    BY <2>1 DEF OnlyMarks, InPlace, RuntimeStale, ToolStale
  <2>3. InPlace(disk)' => InPlace(cache)'
    BY <2>1 DEF InPlace, RuntimeStale, ToolStale
  <2> QED
    BY <2>1, <2>2, <2>3 DEF StaleIsRetried
<1>23. CASE UNCHANGED vars
  BY <1>23 DEF vars, user, engine, TypeOK, InPlace, RuntimeStale, ToolStale, StaleIsRetried
<1> QED
  BY <1>1, <1>2, <1>3, <1>4, <1>5, <1>6, <1>7, <1>8, <1>9, <1>10, <1>11, <1>12, <1>13, <1>14, <1>15, <1>16,
     <1>17, <1>18, <1>19, <1>20, <1>21, <1>22, <1>23
     DEF Next, Change, Trouble, Work, Apply

\* A step ends the removals when nothing is left.
LEMMA LeftStep ==
    ASSUME UserAssumption, Inv, [Next]_vars
    PROVE  NothingLeft'
PROOF
<1> USE DEF Inv
<1>1. ASSUME NEW r \in Runtime, EditRuntime(r)
      PROVE  NothingLeft'
  BY <1>1 DEF EditRuntime, MayChange, TypeOK, NothingLeft
<1>2. ASSUME NEW t \in Tool, EditTool(t)
      PROVE  NothingLeft'
  BY <1>2 DEF EditTool, MayChange, TypeOK, NothingLeft
<1>3. CASE Publish
  BY <1>3 DEF Publish, MayChange, NothingLeft
<1>4. CASE BeginFails
  BY <1>4 DEF BeginFails, Fault, Return, user, NothingLeft
<1>5. CASE FlushFails
  BY <1>5 DEF FlushFails, Fault, Return, NothingLeft
<1>6. CASE Kill
  BY <1>6 DEF Kill, Fault, Return, NothingLeft
<1>7. CASE Cancel
  BY <1>7 DEF Cancel, Fault, Return, user, NothingLeft
<1>8. ASSUME NEW n \in Runtime \cup Tool, InstallFails(n)
      PROVE  NothingLeft'
  BY <1>8 DEF InstallFails, Fault, user, NothingLeft
<1>9. ASSUME NEW t \in Tool, RebuildFails(t)
      PROVE  NothingLeft'
  BY <1>9 DEF RebuildFails, Fault, Return, user, NothingLeft
<1>10. CASE RemoveFails
  BY <1>10 DEF RemoveFails, Fault, Return, NothingLeft
<1>11. ASSUME NEW r \in Runtime, RunRuntime(r)
      PROVE  NothingLeft'
  BY <1>11 DEF RunRuntime, user, TypeOK, NothingLeft
<1>12. ASSUME NEW t \in Tool, RunTool(t)
      PROVE  NothingLeft'
  BY <1>12 DEF RunTool, user, TypeOK, NothingLeft
<1>13. CASE EndLayer
  BY <1>13 DEF EndLayer, Return, user, NothingLeft
<1>14. CASE StartRebuild
  BY <1>14 DEF StartRebuild, user, TypeOK, NothingLeft
<1>15. ASSUME NEW t \in Tool, Rebuild(t)
      PROVE  NothingLeft'
  BY <1>15 DEF Rebuild, Return, TypeOK, NothingLeft
<1>16. CASE EndRebuild
  BY <1>16 DEF EndRebuild, user, NothingLeft
<1>17. CASE StartRemovals
  BY <1>17 DEF StartRemovals, Return, user, NothingLeft
<1>18. ASSUME NEW t \in Tool, RemoveTool(t)
      PROVE  NothingLeft'
  BY <1>18 DEF RemoveTool, user, TypeOK, NothingLeft
<1>19. ASSUME NEW r \in Runtime, RemoveRuntime(r)
      PROVE  NothingLeft'
  BY <1>19 DEF RemoveRuntime, user, TypeOK, NothingLeft
<1>20. CASE EndRemovals
  BY <1>20, ToolActions DEF EndRemovals, user, NothingLeft, Removals
<1>21. CASE Finish
  BY <1>21 DEF Finish, Return, NothingLeft
<1>22. ASSUME NEW tools \in BOOLEAN, NEW runtimes \in BOOLEAN, Begin(tools, runtimes)
      PROVE  NothingLeft'
  BY <1>22 DEF Begin, user, TypeOK, NothingLeft
<1>23. CASE UNCHANGED vars
  BY <1>23 DEF vars, user, engine, TypeOK, NothingLeft
<1> QED
  BY <1>1, <1>2, <1>3, <1>4, <1>5, <1>6, <1>7, <1>8, <1>9, <1>10, <1>11, <1>12, <1>13, <1>14, <1>15, <1>16,
     <1>17, <1>18, <1>19, <1>20, <1>21, <1>22, <1>23
     DEF Next, Change, Trouble, Work, Apply

\* A step says success at the end.
LEMMA OkStep ==
    ASSUME UserAssumption, Inv, [Next]_vars
    PROVE  OkAtEnd'
PROOF
<1> USE DEF Inv
<1>1. ASSUME NEW r \in Runtime, EditRuntime(r)
      PROVE  OkAtEnd'
  BY <1>1 DEF EditRuntime, MayChange, OkAtEnd
<1>2. ASSUME NEW t \in Tool, EditTool(t)
      PROVE  OkAtEnd'
  BY <1>2 DEF EditTool, MayChange, OkAtEnd
<1>3. CASE Publish
  BY <1>3 DEF Publish, MayChange, OkAtEnd
<1>4. CASE BeginFails
  BY <1>4 DEF BeginFails, Fault, Return, user, OkAtEnd
<1>5. CASE FlushFails
  BY <1>5 DEF FlushFails, Fault, Return, OkAtEnd
<1>6. CASE Kill
  BY <1>6 DEF Kill, Fault, Return, OkAtEnd
<1>7. CASE Cancel
  BY <1>7 DEF Cancel, Fault, Return, user, OkAtEnd
<1>8. ASSUME NEW n \in Runtime \cup Tool, InstallFails(n)
      PROVE  OkAtEnd'
  BY <1>8 DEF InstallFails, Fault, user, OkAtEnd
<1>9. ASSUME NEW t \in Tool, RebuildFails(t)
      PROVE  OkAtEnd'
  BY <1>9 DEF RebuildFails, Fault, Return, user, OkAtEnd
<1>10. CASE RemoveFails
  BY <1>10 DEF RemoveFails, Fault, Return, OkAtEnd
<1>11. ASSUME NEW r \in Runtime, RunRuntime(r)
      PROVE  OkAtEnd'
  BY <1>11 DEF RunRuntime, user, OkAtEnd
<1>12. ASSUME NEW t \in Tool, RunTool(t)
      PROVE  OkAtEnd'
  BY <1>12 DEF RunTool, user, OkAtEnd
<1>13. CASE EndLayer
  BY <1>13 DEF EndLayer, Return, user, OkAtEnd
<1>14. CASE StartRebuild
  BY <1>14 DEF StartRebuild, user, OkAtEnd
<1>15. ASSUME NEW t \in Tool, Rebuild(t)
      PROVE  OkAtEnd'
  BY <1>15 DEF Rebuild, Return, OkAtEnd
<1>16. CASE EndRebuild
  BY <1>16 DEF EndRebuild, user, OkAtEnd
<1>17. CASE StartRemovals
  BY <1>17 DEF StartRemovals, Return, user, OkAtEnd
<1>18. ASSUME NEW t \in Tool, RemoveTool(t)
      PROVE  OkAtEnd'
  BY <1>18 DEF RemoveTool, user, OkAtEnd
<1>19. ASSUME NEW r \in Runtime, RemoveRuntime(r)
      PROVE  OkAtEnd'
  BY <1>19 DEF RemoveRuntime, user, OkAtEnd
<1>20. CASE EndRemovals
  BY <1>20 DEF EndRemovals, user, OkAtEnd
<1>21. CASE Finish
  BY <1>21 DEF Finish, Return, OkAtEnd
<1>22. ASSUME NEW tools \in BOOLEAN, NEW runtimes \in BOOLEAN, Begin(tools, runtimes)
      PROVE  OkAtEnd'
  BY <1>22 DEF Begin, user, OkAtEnd
<1>23. CASE UNCHANGED vars
  BY <1>23 DEF vars, user, engine, OkAtEnd
<1> QED
  BY <1>1, <1>2, <1>3, <1>4, <1>5, <1>6, <1>7, <1>8, <1>9, <1>10, <1>11, <1>12, <1>13, <1>14, <1>15, <1>16,
     <1>17, <1>18, <1>19, <1>20, <1>21, <1>22, <1>23
     DEF Next, Change, Trouble, Work, Apply

\* A step says success when everything is in place.
LEMMA ConvergedStep ==
    ASSUME UserAssumption, Inv, [Next]_vars
    PROVE  OkMeansConverged'
PROOF
<1> USE DEF Inv
<1>1. ASSUME NEW r \in Runtime, EditRuntime(r)
      PROVE  OkMeansConverged'
  BY <1>1 DEF EditRuntime, MayChange, OkAtEnd, OkMeansConverged
<1>2. ASSUME NEW t \in Tool, EditTool(t)
      PROVE  OkMeansConverged'
  BY <1>2 DEF EditTool, MayChange, OkAtEnd, OkMeansConverged
<1>3. CASE Publish
  BY <1>3 DEF Publish, MayChange, OkAtEnd, OkMeansConverged
<1>4. CASE BeginFails
  BY <1>4 DEF BeginFails, Fault, Return, user, OkAtEnd, OkMeansConverged
<1>5. CASE FlushFails
  BY <1>5 DEF FlushFails, Fault, Return, OkAtEnd, OkMeansConverged
<1>6. CASE Kill
  BY <1>6 DEF Kill, Fault, Return, OkAtEnd, OkMeansConverged
<1>7. CASE Cancel
  BY <1>7 DEF Cancel, Fault, Return, user, OkAtEnd, OkMeansConverged
<1>8. ASSUME NEW n \in Runtime \cup Tool, InstallFails(n)
      PROVE  OkMeansConverged'
  BY <1>8 DEF InstallFails, Fault, user, OkAtEnd, OkMeansConverged
<1>9. ASSUME NEW t \in Tool, RebuildFails(t)
      PROVE  OkMeansConverged'
  BY <1>9 DEF RebuildFails, Fault, Return, user, OkAtEnd, OkMeansConverged
<1>10. CASE RemoveFails
  BY <1>10 DEF RemoveFails, Fault, Return, OkAtEnd, OkMeansConverged
<1>11. ASSUME NEW r \in Runtime, RunRuntime(r)
      PROVE  OkMeansConverged'
  BY <1>11 DEF RunRuntime, user, OkAtEnd, OkMeansConverged
<1>12. ASSUME NEW t \in Tool, RunTool(t)
      PROVE  OkMeansConverged'
  BY <1>12 DEF RunTool, user, OkAtEnd, OkMeansConverged
<1>13. CASE EndLayer
  BY <1>13 DEF EndLayer, Return, user, OkAtEnd, OkMeansConverged
<1>14. CASE StartRebuild
  BY <1>14 DEF StartRebuild, user, OkAtEnd, OkMeansConverged
<1>15. ASSUME NEW t \in Tool, Rebuild(t)
      PROVE  OkMeansConverged'
  BY <1>15 DEF Rebuild, Return, OkAtEnd, OkMeansConverged
<1>16. CASE EndRebuild
  BY <1>16 DEF EndRebuild, user, OkAtEnd, OkMeansConverged
<1>17. CASE StartRemovals
  BY <1>17 DEF StartRemovals, Return, user, OkAtEnd, OkMeansConverged
<1>18. ASSUME NEW t \in Tool, RemoveTool(t)
      PROVE  OkMeansConverged'
  BY <1>18 DEF RemoveTool, user, OkAtEnd, OkMeansConverged
<1>19. ASSUME NEW r \in Runtime, RemoveRuntime(r)
      PROVE  OkMeansConverged'
  BY <1>19 DEF RemoveRuntime, user, OkAtEnd, OkMeansConverged
<1>20. CASE EndRemovals
  BY <1>20 DEF EndRemovals, user, OkAtEnd, OkMeansConverged
<1>21. CASE Finish
  <2>1. pc = "finish" /\ disk' = cache /\ UNCHANGED <<manifest, world>>
    BY <1>21 DEF Finish
  <2>2. ASSUME NEW r \in Runtime
        PROVE  (RuntimeAction(r, disk) = "none" /\ RuntimeInPlace(r))'
    <3>1. cache.runtime[r] # None <=> manifest.runtime[r] # None
      BY <2>1 DEF LayersComplete, AfterRuntimes, RemovalsChecked
    <3>2. manifest.runtime[r] # None => ~NeedsUpdate(manifest.runtime[r], cache.runtime[r])
      BY <2>1 DEF RuntimesUpToDate, AfterRuntimes
    <3>3. ~RuntimeStale(r, cache)
      BY <2>1, <3>1, <3>2 DEF StaleIsDue, StaleDue, RuntimeStale
    <3>4. world.runtime[r] # None => cache.runtime[r] # None
      BY <2>1, <3>1 DEF Tracked
    <3> QED
      BY <2>1, <3>1, <3>2, <3>3, <3>4 DEF RuntimeAction, RuntimeInPlace, RuntimeStale
  <2>3. ASSUME NEW t \in Tool
        PROVE  (ToolAction(t, disk) = "none" /\ ToolInPlace(t))'
    <3>1. cache.tool[t] # None <=> manifest.tool[t] # None
      BY <2>1 DEF LayersComplete, AfterRuntimes, AfterTools, NothingLeft
    <3>2. manifest.tool[t] # None => ~ToolNeedsUpdate(manifest.tool[t], cache.tool[t])
      BY <2>1 DEF ToolsUpToDate, AfterRuntimes, AfterTools
    <3>3. ~ToolStale(t, cache)
      BY <2>1, <3>1, <3>2 DEF StaleIsDue, StaleDue, ToolStale
    <3>4. world.tool[t] # None => cache.tool[t] # None
      BY <2>1, <3>1 DEF Tracked
    <3> QED
      BY <2>1, <3>1, <3>2, <3>3, <3>4 DEF ToolAction, ToolInPlace, ToolStale
  <2> QED
    BY <2>2, <2>3 DEF OkMeansConverged, Converged
<1>22. ASSUME NEW tools \in BOOLEAN, NEW runtimes \in BOOLEAN, Begin(tools, runtimes)
      PROVE  OkMeansConverged'
  BY <1>22 DEF Begin, user, OkAtEnd, OkMeansConverged
<1>23. CASE UNCHANGED vars
  BY <1>23 DEF vars, user, engine, OkMeansConverged, Converged, RuntimeAction, RuntimeInPlace, ToolAction,
     ToolInPlace
<1> QED
  BY <1>1, <1>2, <1>3, <1>4, <1>5, <1>6, <1>7, <1>8, <1>9, <1>10, <1>11, <1>12, <1>13, <1>14, <1>15, <1>16,
     <1>17, <1>18, <1>19, <1>20, <1>21, <1>22, <1>23
     DEF Next, Change, Trouble, Work, Apply

\* A step forgets nothing.
LEMMA OrphansStep ==
    ASSUME UserAssumption, Inv, [Next]_vars
    PROVE  NoOrphans'
PROOF
<1> USE DEF Inv
<1>1. ASSUME NEW r \in Runtime, EditRuntime(r)
      PROVE  NoOrphans'
  BY <1>1 DEF EditRuntime, MayChange, TypeOK, NoOrphans, UserAssumption, Tracked, Manifests
<1>2. ASSUME NEW t \in Tool, EditTool(t)
      PROVE  NoOrphans'
  BY <1>2 DEF EditTool, MayChange, TypeOK, NoOrphans, UserAssumption, Tracked, Manifests
<1>3. CASE Publish
  BY <1>3 DEF Publish, MayChange, NoOrphans
<1>4. CASE BeginFails
  BY <1>4 DEF BeginFails, Fault, Return, user, NoOrphans
<1>5. CASE FlushFails
  BY <1>5 DEF FlushFails, Fault, Return, NoOrphans
<1>6. CASE Kill
  BY <1>6 DEF Kill, Fault, Return, NoOrphans
<1>7. CASE Cancel
  BY <1>7 DEF Cancel, Fault, Return, user, NoOrphans
<1>8. ASSUME NEW n \in Runtime \cup Tool, InstallFails(n)
      PROVE  NoOrphans'
  BY <1>8 DEF InstallFails, Fault, user, NoOrphans
<1>9. ASSUME NEW t \in Tool, RebuildFails(t)
      PROVE  NoOrphans'
  BY <1>9 DEF RebuildFails, Fault, Return, user, NoOrphans
<1>10. CASE RemoveFails
  BY <1>10 DEF RemoveFails, Fault, Return, NoOrphans
<1>11. ASSUME NEW r \in Runtime, RunRuntime(r)
      PROVE  NoOrphans'
  BY <1>11 DEF RunRuntime, user, TypeOK, NoOrphans, PendingWanted, Worlds
<1>12. ASSUME NEW t \in Tool, RunTool(t)
      PROVE  NoOrphans'
  BY <1>12 DEF RunTool, user, TypeOK, NoOrphans, PendingWanted, Worlds
<1>13. CASE EndLayer
  BY <1>13 DEF EndLayer, Return, user, NoOrphans, Tracked
<1>14. CASE StartRebuild
  BY <1>14, TaintDependentsTyped DEF StartRebuild, user, TypeOK, NoOrphans, Tracked
<1>15. ASSUME NEW t \in Tool, Rebuild(t)
      PROVE  NoOrphans'
  BY <1>15 DEF Rebuild, Return, TypeOK, NoOrphans, Worlds
<1>16. CASE EndRebuild
  BY <1>16 DEF EndRebuild, user, NoOrphans
<1>17. CASE StartRemovals
  BY <1>17 DEF StartRemovals, Return, user, NoOrphans
<1>18. ASSUME NEW t \in Tool, RemoveTool(t)
      PROVE  NoOrphans'
  BY <1>18 DEF RemoveTool, user, TypeOK, NoOrphans, Worlds
<1>19. ASSUME NEW r \in Runtime, RemoveRuntime(r)
      PROVE  NoOrphans'
  BY <1>19 DEF RemoveRuntime, user, TypeOK, NoOrphans, Worlds
<1>20. CASE EndRemovals
  BY <1>20 DEF EndRemovals, user, NoOrphans
<1>21. CASE Finish
  BY <1>21 DEF Finish, Return, NoOrphans, Tracked
<1>22. ASSUME NEW tools \in BOOLEAN, NEW runtimes \in BOOLEAN, Begin(tools, runtimes)
      PROVE  NoOrphans'
  BY <1>22, BeginRecords DEF Begin, user, TypeOK, NoOrphans
<1>23. CASE UNCHANGED vars
  BY <1>23 DEF vars, user, engine, TypeOK, NoOrphans
<1> QED
  BY <1>1, <1>2, <1>3, <1>4, <1>5, <1>6, <1>7, <1>8, <1>9, <1>10, <1>11, <1>12, <1>13, <1>14, <1>15, <1>16,
     <1>17, <1>18, <1>19, <1>20, <1>21, <1>22, <1>23
     DEF Next, Change, Trouble, Work, Apply

\* A step builds a tool with a runtime that it may refer to.
LEMMA BuiltStep ==
    ASSUME UserAssumption, Inv, [Next]_vars
    PROVE  BuiltWithOwn'
PROOF
<1> USE DEF Inv
<1>1. ASSUME NEW r \in Runtime, EditRuntime(r)
      PROVE  BuiltWithOwn'
  BY <1>1 DEF EditRuntime, MayChange, TypeOK, BuiltWithOwn
<1>2. ASSUME NEW t \in Tool, EditTool(t)
      PROVE  BuiltWithOwn'
  BY <1>2 DEF EditTool, MayChange, TypeOK, BuiltWithOwn
<1>3. CASE Publish
  BY <1>3 DEF Publish, MayChange, BuiltWithOwn
<1>4. CASE BeginFails
  BY <1>4 DEF BeginFails, Fault, Return, user, BuiltWithOwn
<1>5. CASE FlushFails
  BY <1>5 DEF FlushFails, Fault, Return, BuiltWithOwn
<1>6. CASE Kill
  BY <1>6 DEF Kill, Fault, Return, BuiltWithOwn
<1>7. CASE Cancel
  BY <1>7 DEF Cancel, Fault, Return, user, BuiltWithOwn
<1>8. ASSUME NEW n \in Runtime \cup Tool, InstallFails(n)
      PROVE  BuiltWithOwn'
  BY <1>8 DEF InstallFails, Fault, user, BuiltWithOwn
<1>9. ASSUME NEW t \in Tool, RebuildFails(t)
      PROVE  BuiltWithOwn'
  BY <1>9 DEF RebuildFails, Fault, Return, user, BuiltWithOwn
<1>10. CASE RemoveFails
  BY <1>10 DEF RemoveFails, Fault, Return, BuiltWithOwn
<1>11. ASSUME NEW r \in Runtime, RunRuntime(r)
      PROVE  BuiltWithOwn'
  BY <1>11 DEF RunRuntime, user, TypeOK, BuiltWithOwn, Worlds
<1>12. ASSUME NEW t \in Tool, RunTool(t)
      PROVE  BuiltWithOwn'
  BY <1>12, InstalledTyped, SpecTyped DEF RunTool, user, TypeOK, BuiltWithOwn, Worlds, PendingWanted
<1>13. CASE EndLayer
  BY <1>13 DEF EndLayer, Return, user, BuiltWithOwn
<1>14. CASE StartRebuild
  BY <1>14 DEF StartRebuild, user, TypeOK, BuiltWithOwn
<1>15. ASSUME NEW t \in Tool, Rebuild(t)
      PROVE  BuiltWithOwn'
  BY <1>15, InstalledTyped, SpecTyped DEF Rebuild, Return, TypeOK, BuiltWithOwn, Worlds
<1>16. CASE EndRebuild
  BY <1>16 DEF EndRebuild, user, BuiltWithOwn
<1>17. CASE StartRemovals
  BY <1>17 DEF StartRemovals, Return, user, BuiltWithOwn
<1>18. ASSUME NEW t \in Tool, RemoveTool(t)
      PROVE  BuiltWithOwn'
  BY <1>18 DEF RemoveTool, user, TypeOK, BuiltWithOwn, Worlds
<1>19. ASSUME NEW r \in Runtime, RemoveRuntime(r)
      PROVE  BuiltWithOwn'
  BY <1>19 DEF RemoveRuntime, user, TypeOK, BuiltWithOwn, Worlds
<1>20. CASE EndRemovals
  BY <1>20 DEF EndRemovals, user, BuiltWithOwn
<1>21. CASE Finish
  BY <1>21 DEF Finish, Return, BuiltWithOwn
<1>22. ASSUME NEW tools \in BOOLEAN, NEW runtimes \in BOOLEAN, Begin(tools, runtimes)
      PROVE  BuiltWithOwn'
  BY <1>22 DEF Begin, user, TypeOK, BuiltWithOwn
<1>23. CASE UNCHANGED vars
  BY <1>23 DEF vars, user, engine, TypeOK, BuiltWithOwn
<1> QED
  BY <1>1, <1>2, <1>3, <1>4, <1>5, <1>6, <1>7, <1>8, <1>9, <1>10, <1>11, <1>12, <1>13, <1>14, <1>15, <1>16,
     <1>17, <1>18, <1>19, <1>20, <1>21, <1>22, <1>23
     DEF Next, Change, Trouble, Work, Apply

\* A step takes no runtime from a tool.
LEMMA OutlivesStep ==
    ASSUME UserAssumption, Inv, [Next]_vars
    PROVE  NoToolOutlivesItsRuntime'
PROOF
<1> USE DEF Inv
<1>1. ASSUME NEW r \in Runtime, EditRuntime(r)
      PROVE  NoToolOutlivesItsRuntime'
  BY <1>1 DEF EditRuntime, MayChange, TypeOK, NoToolOutlivesItsRuntime
<1>2. ASSUME NEW t \in Tool, EditTool(t)
      PROVE  NoToolOutlivesItsRuntime'
  BY <1>2 DEF EditTool, MayChange, TypeOK, NoToolOutlivesItsRuntime
<1>3. CASE Publish
  BY <1>3 DEF Publish, MayChange, NoToolOutlivesItsRuntime
<1>4. CASE BeginFails
  BY <1>4 DEF BeginFails, Fault, Return, user, NoToolOutlivesItsRuntime
<1>5. CASE FlushFails
  BY <1>5 DEF FlushFails, Fault, Return, NoToolOutlivesItsRuntime
<1>6. CASE Kill
  BY <1>6 DEF Kill, Fault, Return, NoToolOutlivesItsRuntime
<1>7. CASE Cancel
  BY <1>7 DEF Cancel, Fault, Return, user, NoToolOutlivesItsRuntime
<1>8. ASSUME NEW n \in Runtime \cup Tool, InstallFails(n)
      PROVE  NoToolOutlivesItsRuntime'
  BY <1>8 DEF InstallFails, Fault, user, NoToolOutlivesItsRuntime
<1>9. ASSUME NEW t \in Tool, RebuildFails(t)
      PROVE  NoToolOutlivesItsRuntime'
  BY <1>9 DEF RebuildFails, Fault, Return, user, NoToolOutlivesItsRuntime
<1>10. CASE RemoveFails
  BY <1>10 DEF RemoveFails, Fault, Return, NoToolOutlivesItsRuntime
<1>11. ASSUME NEW r \in Runtime, RunRuntime(r)
      PROVE  NoToolOutlivesItsRuntime'
  BY <1>11, RuntimeStateTyped, EngineAssumption DEF RunRuntime, user, TypeOK, NoToolOutlivesItsRuntime,
     PendingWanted, Worlds, EngineAssumption
<1>12. ASSUME NEW t \in Tool, RunTool(t)
      PROVE  NoToolOutlivesItsRuntime'
  BY <1>12, InstalledTyped, SpecTyped DEF RunTool, user, TypeOK, NoToolOutlivesItsRuntime, PendingWanted,
     Worlds, GhostsUnwanted, Ghost, KnownRuntime
<1>13. CASE EndLayer
  BY <1>13 DEF EndLayer, Return, user, NoToolOutlivesItsRuntime
<1>14. CASE StartRebuild
  BY <1>14 DEF StartRebuild, user, TypeOK, NoToolOutlivesItsRuntime
<1>15. ASSUME NEW t \in Tool, Rebuild(t)
      PROVE  NoToolOutlivesItsRuntime'
  BY <1>15, InstalledTyped, SpecTyped DEF Rebuild, Return, TypeOK, NoToolOutlivesItsRuntime, Worlds,
     GhostsUnwanted, Ghost, KnownRuntime
<1>16. CASE EndRebuild
  BY <1>16 DEF EndRebuild, user, NoToolOutlivesItsRuntime
<1>17. CASE StartRemovals
  BY <1>17 DEF StartRemovals, Return, user, NoToolOutlivesItsRuntime
<1>18. ASSUME NEW t \in Tool, RemoveTool(t)
      PROVE  NoToolOutlivesItsRuntime'
  BY <1>18 DEF RemoveTool, user, TypeOK, NoToolOutlivesItsRuntime, Worlds
<1>19. ASSUME NEW r \in Runtime, RemoveRuntime(r)
      PROVE  NoToolOutlivesItsRuntime'
  <2>1. manifest.runtime[r] = None /\ cache.runtime[r] # None
    BY <1>19, RuntimeActions DEF RemoveRuntime, Removals
  <2>2. ASSUME NEW t \in Tool, world.tool[t] # None, world.tool[t].ref = r
        PROVE  FALSE
    <3>1. manifest.tool[t] # None
      BY <1>19, <2>2, ToolActions DEF RemoveRuntime, Removals, Tracked
    <3>2. manifest.tool[t].ref = r
      BY <2>2, <3>1, SpecTyped DEF UserAssumption, BuiltWithOwn
    <3> QED
      BY <1>19, <2>1, <3>1, <3>2 DEF RemoveRuntime, RemovalsChecked
  <2>3. \A t \in Tool : world'.tool[t] = world.tool[t]
    BY <1>19 DEF RemoveRuntime, TypeOK, Worlds
  <2>4. \A q \in Runtime \ {r} : world'.runtime[q] = world.runtime[q]
    BY <1>19 DEF RemoveRuntime, TypeOK, Worlds
  <2>5. \A t \in Tool : world.tool[t] # None => world.tool[t].ref \in Runtime \cup {None}
    BY DEF TypeOK, Worlds
  <2> QED
    BY <2>2, <2>3, <2>4, <2>5 DEF NoToolOutlivesItsRuntime
<1>20. CASE EndRemovals
  BY <1>20 DEF EndRemovals, user, NoToolOutlivesItsRuntime
<1>21. CASE Finish
  BY <1>21 DEF Finish, Return, NoToolOutlivesItsRuntime
<1>22. ASSUME NEW tools \in BOOLEAN, NEW runtimes \in BOOLEAN, Begin(tools, runtimes)
      PROVE  NoToolOutlivesItsRuntime'
  BY <1>22 DEF Begin, user, TypeOK, NoToolOutlivesItsRuntime
<1>23. CASE UNCHANGED vars
  BY <1>23 DEF vars, user, engine, TypeOK, NoToolOutlivesItsRuntime
<1> QED
  BY <1>1, <1>2, <1>3, <1>4, <1>5, <1>6, <1>7, <1>8, <1>9, <1>10, <1>11, <1>12, <1>13, <1>14, <1>15, <1>16,
     <1>17, <1>18, <1>19, <1>20, <1>21, <1>22, <1>23
     DEF Next, Change, Trouble, Work, Apply

\* A step gets past the rebuild with nothing left to rebuild.
LEMMA RebuiltStep ==
    ASSUME UserAssumption, Inv, [Next]_vars
    PROVE  RebuiltAfterUpgrade'
PROOF
<1> USE DEF Inv
<1>1. ASSUME NEW r \in Runtime, EditRuntime(r)
      PROVE  RebuiltAfterUpgrade'
  BY <1>1 DEF EditRuntime, MayChange, TypeOK, RebuiltAfterUpgrade
<1>2. ASSUME NEW t \in Tool, EditTool(t)
      PROVE  RebuiltAfterUpgrade'
  BY <1>2 DEF EditTool, MayChange, TypeOK, RebuiltAfterUpgrade
<1>3. CASE Publish
  BY <1>3 DEF Publish, MayChange, RebuiltAfterUpgrade
<1>4. CASE BeginFails
  BY <1>4 DEF BeginFails, Fault, Return, user, RebuiltAfterUpgrade
<1>5. CASE FlushFails
  BY <1>5 DEF FlushFails, Fault, Return, RebuiltAfterUpgrade
<1>6. CASE Kill
  BY <1>6 DEF Kill, Fault, Return, RebuiltAfterUpgrade
<1>7. CASE Cancel
  BY <1>7 DEF Cancel, Fault, Return, user, RebuiltAfterUpgrade
<1>8. ASSUME NEW n \in Runtime \cup Tool, InstallFails(n)
      PROVE  RebuiltAfterUpgrade'
  BY <1>8 DEF InstallFails, Fault, user, RebuiltAfterUpgrade
<1>9. ASSUME NEW t \in Tool, RebuildFails(t)
      PROVE  RebuiltAfterUpgrade'
  BY <1>9 DEF RebuildFails, Fault, Return, user, RebuiltAfterUpgrade
<1>10. CASE RemoveFails
  BY <1>10 DEF RemoveFails, Fault, Return, RebuiltAfterUpgrade
<1>11. ASSUME NEW r \in Runtime, RunRuntime(r)
      PROVE  RebuiltAfterUpgrade'
  BY <1>11 DEF RunRuntime, user, TypeOK, RebuiltAfterUpgrade
<1>12. ASSUME NEW t \in Tool, RunTool(t)
      PROVE  RebuiltAfterUpgrade'
  BY <1>12 DEF RunTool, user, TypeOK, RebuiltAfterUpgrade
<1>13. CASE EndLayer
  BY <1>13 DEF EndLayer, Return, user, RebuiltAfterUpgrade
<1>14. CASE StartRebuild
  BY <1>14 DEF StartRebuild, user, TypeOK, RebuiltAfterUpgrade
<1>15. ASSUME NEW t \in Tool, Rebuild(t)
      PROVE  RebuiltAfterUpgrade'
  BY <1>15 DEF Rebuild, Return, TypeOK, RebuiltAfterUpgrade
<1>16. CASE EndRebuild
  BY <1>16 DEF EndRebuild, user, RebuiltAfterUpgrade, RebuildsPending
<1>17. CASE StartRemovals
  BY <1>17 DEF StartRemovals, Return, user, RebuiltAfterUpgrade
<1>18. ASSUME NEW t \in Tool, RemoveTool(t)
      PROVE  RebuiltAfterUpgrade'
  BY <1>18, ToolActions DEF RemoveTool, user, TypeOK, RebuiltAfterUpgrade, Worlds, States, Removals
<1>19. ASSUME NEW r \in Runtime, RemoveRuntime(r)
      PROVE  RebuiltAfterUpgrade'
  BY <1>19, RuntimeActions DEF RemoveRuntime, user, TypeOK, RebuiltAfterUpgrade, Worlds, States, Removals,
     UpdatedKnown
<1>20. CASE EndRemovals
  BY <1>20 DEF EndRemovals, user, RebuiltAfterUpgrade
<1>21. CASE Finish
  BY <1>21 DEF Finish, Return, RebuiltAfterUpgrade
<1>22. ASSUME NEW tools \in BOOLEAN, NEW runtimes \in BOOLEAN, Begin(tools, runtimes)
      PROVE  RebuiltAfterUpgrade'
  BY <1>22 DEF Begin, user, TypeOK, RebuiltAfterUpgrade
<1>23. CASE UNCHANGED vars
  BY <1>23 DEF vars, user, engine, TypeOK, RebuiltAfterUpgrade
<1> QED
  BY <1>1, <1>2, <1>3, <1>4, <1>5, <1>6, <1>7, <1>8, <1>9, <1>10, <1>11, <1>12, <1>13, <1>14, <1>15, <1>16,
     <1>17, <1>18, <1>19, <1>20, <1>21, <1>22, <1>23
     DEF Next, Change, Trouble, Work, Apply

\* The invariant holds when nothing is installed yet, ...
LEMMA InvInit == Init => Inv
PROOF
<1> SUFFICES ASSUME Init
             PROVE  Inv
  OBVIOUS
<1>1. changes \in 0 .. MaxChanges /\ faults \in 0 .. MaxFaults
  BY EngineAssumption DEF EngineAssumption, Init
<1>2. TypeOK
  BY <1>1, NothingTyped DEF Init, TypeOK
<1>3. PendingWanted /\ UpdatedKnown /\ LayersComplete /\ SameRecorded /\ RemovalsChecked /\ RebuildsPending
  BY DEF Init, PendingWanted, UpdatedKnown, LayersComplete, AfterRuntimes, AfterTools, SameRecorded,
     RemovalsChecked,
     RebuildsPending
<1>4. Tracked /\ BuiltWithOwn /\ GhostsUnwanted /\ NoOrphans /\ NoToolOutlivesItsRuntime /\ RebuiltAfterUpgrade
  BY DEF Init, Nothing, Tracked, GhostsUnwanted, Ghost, BuiltWithOwn, NoOrphans,
     NoToolOutlivesItsRuntime, RebuiltAfterUpgrade
<1>5. StatesOfInstalls /\ RuntimesUpToDate /\ ToolsUpToDate /\ PendingAsRecorded /\ StaleIsDue /\ StaleIsRetried
      /\ NothingLeft /\ OkAtEnd /\ OkMeansConverged
  BY DEF Init, Nothing, StatesOfInstalls, OfInstalls, RuntimesUpToDate, ToolsUpToDate, AfterRuntimes,
     AfterTools,
     PendingAsRecorded, StaleIsDue, StaleDue, StaleIsRetried, InPlace, RuntimeStale, ToolStale, NothingLeft, OkAtEnd,
     OkMeansConverged
<1> QED
  BY <1>2, <1>3, <1>4, <1>5 DEF Inv

\* ... and every step keeps it.
LEMMA InvStep == UserAssumption /\ Inv /\ [Next]_vars => Inv'
PROOF
  BY TypeStep, PendingStep, UpdatedStep, LayersStep, TrackedStep, SameStep, GhostsStep, RemovalsStep,
     RebuildsStep,
     OrphansStep, BuiltStep, InstallsStep, RuntimesStep, ToolsStep, RecordedStep, DueStep, RetriedStep,
     LeftStep, OkStep, ConvergedStep, OutlivesStep, RebuiltStep DEF Inv

\* So the invariant holds in every behaviour.
LEMMA InvAlways ==
    ASSUME UserAssumption
    PROVE  Spec => []Inv
PROOF
<1>1. Inv /\ [Next]_vars => Inv'
  BY InvStep
<1> QED
  BY InvInit, <1>1, PTL DEF Spec

--------------------------------------------------------------------------------
(* For any number of runtimes, tools, versions, edits and faults: when Apply  *)
(* (engine.go) returns no error, what is installed is what the manifest says  *)
(* and the next apply has nothing to do, whatever was cut short before.       *)
THEOREM SuccessConverges ==
    ASSUME UserAssumption
    PROVE  Spec => []OkMeansConverged
PROOF
<1>1. Inv => OkMeansConverged
  BY DEF Inv
<1> QED
  BY InvAlways, <1>1, PTL

(* Nothing that Apply has installed, however it ended, is ever in neither the *)
(* manifest nor state.json.                                                   *)
THEOREM NothingForgotten ==
    ASSUME UserAssumption
    PROVE  Spec => []NoOrphans
PROOF
<1>1. Inv => NoOrphans
  BY DEF Inv
<1> QED
  BY InvAlways, <1>1, PTL

(* At no time is a tool installed whose runtime is gone: handleRemovals takes *)
(* the tools first, and checkRemovalDependencies looks for the others.        *)
THEOREM RuntimesStayForTools ==
    ASSUME UserAssumption
    PROVE  Spec => []NoToolOutlivesItsRuntime
PROOF
<1>1. Inv => NoToolOutlivesItsRuntime
  BY DEF Inv
<1> QED
  BY InvAlways, <1>1, PTL

(* An apply that gets past handleTaintedTools has rebuilt every tool of the   *)
(* runtimes that it has upgraded.                                             *)
THEOREM UpgradesRebuild ==
    ASSUME UserAssumption
    PROVE  Spec => []RebuiltAfterUpgrade
PROOF
<1>1. Inv => RebuiltAfterUpgrade
  BY DEF Inv
<1> QED
  BY InvAlways, <1>1, PTL

--------------------------------------------------------------------------------
(* The types need nothing of the user: they hold however manifests are edited *)
(* and applies repeated.                                                      *)
LEMMA TypesAlways == Spec => [](TypeOK /\ PendingWanted)
PROOF
<1>1. Init => TypeOK /\ PendingWanted
  BY InvInit DEF Inv
<1>2. TypeOK /\ PendingWanted /\ [Next]_vars => (TypeOK /\ PendingWanted)'
  BY TypeStep, PendingStep
<1> QED
  BY <1>1, <1>2, PTL DEF Spec

\* A runtime that the reconciler acts on is shown, unless it is pinned.
LEMMA RuntimeShown ==
    ASSUME NEW r \in Runtime, NEW st, RuntimeAction(r, st) # "none"
    PROVE  \/ ShownRuntime(r, st) # "none"
           \/ Pinned(manifest.runtime[r], st.runtime[r])
PROOF
<1> DEFINE v == manifest.runtime[r]
           s == st.runtime[r]
<1>1. CASE v # None /\ s # None
  <2>1. NeedsUpdate(v, s)
    BY <1>1 DEF RuntimeAction
  <2>2. CASE s.tainted \/ s.version # v
    BY <1>1, <2>2 DEF ShownRuntime, Shown
  <2>3. CASE ~s.tainted /\ s.version = v
    BY <1>1, <2>1, <2>3 DEF NeedsUpdate, SpecVersionChanged, Pinned
  <2> QED
    BY <2>2, <2>3
<1>2. CASE v = None \/ s = None
  BY <1>2 DEF RuntimeAction, ShownRuntime, Shown
<1> QED
  BY <1>1, <1>2

\* So is a tool.
LEMMA ToolShown ==
    ASSUME TypeOK, NEW t \in Tool, NEW st, ToolAction(t, st) # "none"
    PROVE  \/ ShownByItself(t, st) # "none"
           \/ manifest.tool[t] # None /\ Pinned(manifest.tool[t].version, st.tool[t])
           \/ Renamed(manifest.tool[t], st.tool[t])
PROOF
<1> DEFINE s == st.tool[t]
<1>1. CASE manifest.tool[t] # None /\ s # None
  <2> DEFINE v == manifest.tool[t].version
  <2>1. ToolNeedsUpdate(manifest.tool[t], s) /\ v # None
    BY <1>1, SpecTyped, EngineAssumption DEF ToolAction, EngineAssumption
  <2>2. CASE s.tainted \/ s.version # v
    BY <1>1, <2>1, <2>2 DEF ShownByItself, Shown
  <2>3. CASE ~s.tainted /\ s.version = v /\ NeedsUpdate(v, s)
    BY <1>1, <2>1, <2>3 DEF NeedsUpdate, SpecVersionChanged, Pinned
  <2>4. CASE ~NeedsUpdate(v, s)
    BY <1>1, <2>1, <2>4 DEF ToolNeedsUpdate, Renamed
  <2> QED
    BY <2>2, <2>3, <2>4
<1>2. CASE manifest.tool[t] # None /\ s = None
  <2>1. manifest.tool[t].version # None
    BY <1>2, SpecTyped, EngineAssumption DEF EngineAssumption
  <2> QED
    BY <1>2, <2>1 DEF ShownByItself, Shown
<1>3. CASE manifest.tool[t] = None
  BY <1>3 DEF ToolAction, ShownByItself, Shown
<1> QED
  BY <1>1, <1>2, <1>3

\* A runtime whose version an apply changes is shown to be upgraded: one that
\* was resolved before is never the version "latest".
LEMMA UpgradeIsShown ==
    ASSUME TypeOK, NEW st \in States, NEW r \in Upgrades(st)
    PROVE  r \in UpgradeShown(st)
PROOF
<1> DEFINE v == manifest.runtime[r]
           s == st.runtime[r]
<1>1. /\ r \in Runtime /\ RuntimeAction(r, st) = "upgrade"
      /\ RuntimeStateOf(v).version # s.version
  BY DEF Upgrades
<1>2. v # None /\ s # None
  BY <1>1 DEF RuntimeAction
<1>3. s.version \in Version /\ s.version # Latest
  <2>1. s \in RuntimeStates
    BY <1>1 DEF States
  <2> QED
    BY <1>2, <2>1, EngineAssumption DEF RuntimeStates, EngineAssumption
<1>4. s.version # v
  BY <1>1, <1>3 DEF RuntimeStateOf, Resolve
<1> QED
  BY <1>1, <1>2, <1>4 DEF UpgradeShown, ShownRuntime, Shown

(* What an apply changes of runtimes and tools the plan has shown, pinned     *)
(* versions and renamed binaries apart: over any number of resources, and     *)
(* whatever the user, faults and crashes did before.  The plan and the        *)
(* reconcilers (ToolComparator) decide it with code of their own.             *)
THEOREM PlanIsHonest == Spec => []PlanShowsChanges
PROOF
<1>1. TypeOK => PlanShowsChanges
  <2> SUFFICES ASSUME TypeOK, NEW tools \in BOOLEAN, NEW runtimes \in BOOLEAN,
                      NEW st, st = UpdateTaints(disk, tools, runtimes),
                      NEW x \in MadeChanges(st)
               PROVE  x \in ShownChanges(st) \cup NotShown(st)
    BY DEF PlanShowsChanges
  <2>1. st \in States
    BY UpdateTaintsMark DEF TypeOK, OnlyMarks
  <2>2. CASE x \in Runtime /\ RuntimeAction(x, st) # "none"
    BY <2>2, RuntimeShown DEF ShownChanges, NotShown
  <2>3. CASE x \in Tool /\ ToolAction(x, st) # "none"
    <3>1. ShownByItself(x, st) # "none" => ShownTool(x, st) # "none"
      BY DEF ShownTool
    <3> QED
      BY <2>3, <3>1, ToolShown DEF ShownChanges, NotShown
  <2>4. CASE x \in Tool /\ st.tool[x] # None /\ st.tool[x].ref \in Upgrades(st) \cap Tainting
    <3>1. st.tool[x].ref \in UpgradeShown(st) \cap Tainting
      BY <2>1, <2>4, UpgradeIsShown
    <3>2. ShownTool(x, st) # "none"
      BY <2>4, <3>1 DEF ShownTool
    <3> QED
      BY <2>4, <3>2 DEF ShownChanges
  <2> QED
    BY <2>2, <2>3, <2>4 DEF MadeChanges
<1> QED
  BY <1>1, TypesAlways, PTL

================================================================================
