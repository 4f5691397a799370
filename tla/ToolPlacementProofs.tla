--------------------------- MODULE ToolPlacementProofs ---------------------------
(***************************************************************************)
(* For any tools, versions, names and hashes: after an apply that          *)
(* succeeded, the entries of each tool that nobody competes with are what  *)
(* state.json says, doctor has nothing to object, and no copy that was cut *)
(* short is recorded where there is a hash.  What a kill leaves half done  *)
(* is in the place of the old entry or of the new one, and the next apply  *)
(* has the tool to see to (Pending): that is what an apply that succeeds   *)
(* has done for every tool.                                                *)
(***************************************************************************)
EXTENDS Doctor, TLAPS

States(t) == {StateOf(t, s) : s \in Specs(t)}

AllSpecs == UNION {Specs(t) : t \in Tool}

AllStates == UNION {States(t) : t \in Tool}

\* NeedsUpdate, of any state of t.
Needs(t, st) ==
    \/ st = None
    \/ manifest[t].version # (IF st.spec = Latest THEN Latest ELSE st.version)
    \/ manifest[t].name # st.name

\* An apply has something to do for t.
Pending(t) == IF manifest[t] = None THEN disk[t] # None ELSE Needs(t, disk[t])

Linking == {"unlink", "link", "tidyTarget", "tidyLink"}

Busy == {"fetch", "copy", "command", "record"} \cup Linking

\* The variables that the argument is about have their types.
Typed ==
    /\ manifest \in [Tool -> AllSpecs \cup {None}]
    /\ disk \in [Tool -> AllStates \cup {None}]
    /\ cache \in [Tool -> AllStates \cup {None}]
    /\ \A t \in Tool :
        /\ manifest[t] \in Specs(t) \cup {None}
        /\ disk[t] \in States(t) \cup {None}
        /\ cache[t] \in States(t) \cup {None}
    /\ file \in [Paths -> {"none", "partial", "whole"}]
    /\ entry \in [Entries -> Paths \cup {None}]
    /\ phase \in {"idle", "layer", "removals"}
    /\ at \in [Tool -> {"idle", "reconcile", "done", "failed", "remove"} \cup Busy]

\* Where t's goroutine is, and what it makes of the engine's copy, by the phase.
AtIdle(t) == at[t] = "idle" /\ cache[t] = disk[t]

InLayer(t) ==
    IF manifest[t] = None THEN at[t] = "idle" /\ cache[t] = disk[t]
    ELSE /\ at[t] \in {"reconcile", "done", "failed"} \cup Busy
         /\ at[t] # "done" => cache[t] = disk[t]
         /\ at[t] \in Busy \cup {"failed"} => Needs(t, disk[t])
         /\ at[t] = "done" => ~Needs(t, cache[t]) /\ (cache[t] = disk[t] \/ Needs(t, disk[t]))
         /\ at[t] \in {"fetch", "copy"} \cup Linking => t \in Downloads
         /\ at[t] = "command" => t \notin Downloads
         /\ at[t] \in {"tidyTarget", "tidyLink"} => OldBinPath(t) # None

InRemovals(t) ==
    IF manifest[t] = None
    THEN \/ at[t] = "remove" /\ cache[t] = disk[t] /\ disk[t] # None
         \/ at[t] = "idle" /\ cache[t] = None
    ELSE at[t] = "idle" /\ cache[t] = disk[t] /\ ~Needs(t, disk[t])

InPhase ==
    \A t \in Tool :
        /\ phase = "idle" => AtIdle(t)
        /\ phase = "layer" => InLayer(t)
        /\ phase = "removals" => InRemovals(t)

\* The tools that have entries.
Placed == Downloads \cup {t \in Tool : Way[t] = "runtime"}

\* What is in an entry was put there by a tool that goes by this name.
EntriesNamed ==
    \A e \in Entries : entry[e] # None =>
        \E t \in Placed : \E v \in Version, n \in Called(t) : e = <<DirOf(t), n>> /\ entry[e] = <<t, v, n>>

\* Entries of t are in the place that its spec names, or in the one that state does.
TwoPlaces(t) ==
    \A n \in Called(t) : entry[<<DirOf(t), n>>] # None =>
        \/ manifest[t] # None /\ <<DirOf(t), n>> = BinPath(t, manifest[t])
        \/ disk[t] # None /\ <<DirOf(t), n>> = disk[t].binPath

\* How far an install has come.
Progress(t) ==
    /\ at[t] \in Linking => file[Path(t, manifest[t])] # "none"
    /\ at[t] = "link" => entry[BinPath(t, manifest[t])] = None
    /\ at[t] \in {"tidyTarget", "tidyLink"} =>
          /\ entry[BinPath(t, manifest[t])] = Path(t, manifest[t])
          /\ OldBinPath(t) \notin {None, BinPath(t, manifest[t])}
    /\ at[t] = "record" => Matches(t, StateOf(t, manifest[t]))

\* The entries are what the engine knows of t, but of one that it will see to.
AtRest(t) ==
    /\ at[t] = "done" \/ (phase = "removals" /\ at[t] = "idle") => Matches(t, cache[t])
    /\ phase = "idle" \/ (phase = "layer" /\ at[t] \in {"idle", "reconcile"}) =>
          Matches(t, disk[t]) \/ Pending(t)

\* An install that a kill cut short has not removed the file it would install.
KeepsOwn(t) ==
    (manifest[t] # None /\ disk[t] # None /\ disk[t].path = Path(t, manifest[t])) =>
        file[disk[t].path] # "none"

\* With a hash to compare, only whole files are linked and recorded.
WholeOnly(t) ==
    t \in Downloads /\ Digest[t] # "none" =>
        /\ disk[t] # None => file[disk[t].path] # "partial"
        /\ cache[t] # None => file[cache[t].path] # "partial"
        /\ at[t] \in Linking \cup {"record"} => file[Path(t, manifest[t])] = "whole"
        /\ at[t] = "fetch" => file[Path(t, manifest[t])] = "none"

Kept(t) == TwoPlaces(t) /\ Progress(t) /\ AtRest(t) /\ KeepsOwn(t) /\ WholeOnly(t)

\* An apply that has succeeded leaves nothing to do.
Applied == phase = "idle" /\ result = "ok" => \A t \in Tool : ~Pending(t)

Inv == Typed /\ InPhase /\ EntriesNamed /\ Applied /\ \A t \in Uncontested \ strayed : Kept(t)

\* An apply that ends before its time: it is killed, or a removal fails.
Stop ==
    /\ phase # "idle" /\ phase' = "idle" /\ result' \in {"killed", "error"}
    /\ at' = [t \in Tool |-> "idle"]
    /\ cache' = disk
    /\ UNCHANGED <<manifest, disk, places, strayed, edits>>

--------------------------------------------------------------------------------
(***************************************************************************)
(* Specs, states and places.                                               *)
(***************************************************************************)

\* A spec names a version, a file and an entry of its tool.
LEMMA SpecFacts ==
    ASSUME NEW t \in Tool, NEW s \in Specs(t)
    PROVE  /\ s # None /\ s.version \in Version \cup {Latest} /\ s.name \in Name \cup {None}
           /\ Resolved(s) \in Version
           /\ BinaryName(t, s) \in Called(t) /\ BinaryName(t, s) \in Name
           /\ Path(t, s) \in Paths /\ Path(t, s) # None
           /\ BinPath(t, s) \in Entries /\ BinPath(t, s) # None
PROOF
<1> USE PlacementAssumption DEF PlacementAssumption
<1>1. /\ s = [version |-> s.version, name |-> s.name]
      /\ s.version \in Version \cup {Latest} /\ s.name \in Names[t] /\ s.name \in Name \cup {None}
  <2>1. s.version \in Asked[t] /\ s.name \in Names[t] /\ s = [version |-> s.version, name |-> s.name]
    BY DEF Specs
  <2>2. Asked[t] \subseteq Version \cup {Latest} /\ Names[t] \subseteq Name \cup {None}
    OBVIOUS
  <2> QED
    BY <2>1, <2>2
<1>2. s \in [version : Version \cup {Latest}, name : Name \cup {None}]
  BY <1>1
<1>3. Resolved(s) \in Version
  BY <1>1 DEF Resolved
<1>4. BinaryName(t, s) \in Called(t) /\ BinaryName(t, s) \in Name
  BY <1>1 DEF BinaryName, Called
<1>5. DirOf(t) \in {"bin", "runtime"}
  BY DEF DirOf
<1> QED
  BY <1>1, <1>2, <1>3, <1>4, <1>5 DEF Path, Paths, BinPath, Entries

\* The names of a tool are names, and its entries are entries.
LEMMA CalledNames ==
    ASSUME NEW t \in Tool, NEW n \in Called(t)
    PROVE  n \in Name /\ <<DirOf(t), n>> \in Entries
PROOF
  BY PlacementAssumption DEF PlacementAssumption, Called, Entries, DirOf

\* What state keeps of a tool that its manifest's spec installs.
LEMMA StateFacts ==
    ASSUME NEW t \in Tool, NEW s \in Specs(t)
    PROVE  LET st == StateOf(t, s)
           IN  /\ st # None /\ st \in States(t)
               /\ st.spec = s.version /\ st.version = Resolved(s) /\ st.name = s.name
               /\ t \in Downloads => st.path = Path(t, s) /\ st.binPath = BinPath(t, s)
               /\ t \notin Downloads => st.path = None
               /\ Way[t] = "runtime" => st.binPath = BinPath(t, s)
               /\ t \notin Downloads /\ Way[t] # "runtime" => st.binPath = None
PROOF
<1> DEFINE st == StateOf(t, s)
<1>1. /\ st.spec = s.version /\ st.version = Resolved(s) /\ st.name = s.name
      /\ st.path = IF t \in Downloads THEN Path(t, s) ELSE None
      /\ st.binPath = IF t \in Downloads \/ Way[t] = "runtime" THEN BinPath(t, s) ELSE None
  BY DEF StateOf
<1>2. st \in [spec : Version \cup {Latest}, version : Version, name : Name \cup {None},
              path : (Tool \X Version \X Name) \cup {None},
              binPath : ({"bin", "runtime"} \X Name) \cup {None}]
  BY SpecFacts DEF StateOf, Paths, Entries
<1>3. st # None
  BY <1>2, PlacementAssumption DEF PlacementAssumption
<1> QED
  BY <1>1, <1>3 DEF States

\* A tool that is recorded as its spec asks needs no update.
LEMMA RecordedIsEnough ==
    ASSUME NEW t \in Tool, manifest[t] \in Specs(t)
    PROVE  ~Needs(t, StateOf(t, manifest[t]))
PROOF
<1>1. LET st == StateOf(t, manifest[t])
      IN  /\ st # None /\ st.spec = manifest[t].version /\ st.version = Resolved(manifest[t])
          /\ st.name = manifest[t].name
  BY StateFacts
<1> QED
  BY <1>1 DEF Needs, Resolved

LEMMA NeedsIsNeeds ==
    ASSUME NEW t \in Tool
    PROVE  NeedsUpdate(t) <=> Needs(t, cache[t])
PROOF
  BY DEF NeedsUpdate, Needs

\* No spec of another tool names an entry of one that nobody competes with.
LEMMA OthersPlaces ==
    ASSUME NEW t \in Uncontested, NEW u \in Tool, u # t, NEW m \in Called(u), NEW n \in Called(t)
    PROVE  <<DirOf(u), m>> # <<DirOf(t), n>>
PROOF
<1>1. DirOf(u) = DirOf(t) => m # n
  BY DEF Uncontested
<1> QED
  BY <1>1

--------------------------------------------------------------------------------
(***************************************************************************)
(* Types and phases.                                                       *)
(***************************************************************************)

\* A goroutine changes its own tool only, and neither what the phase is nor
\* what it works from.
LEMMA Frame ==
    ASSUME Typed, NEW t \in Tool, Install(t) \/ Remove(t)
    PROVE  /\ UNCHANGED <<manifest, disk, phase, strayed>>
           /\ \E label \in {"idle", "done", "failed"} \cup Busy : at' = [at EXCEPT ![t] = label]
           /\ \/ cache' = cache
              \/ Record(t) /\ cache' = [cache EXCEPT ![t] = StateOf(t, manifest[t])]
              \/ Remove(t) /\ cache' = [cache EXCEPT ![t] = None]
           /\ at[t] \in {"reconcile", "remove"} \cup Busy
PROOF
<1> USE DEF Goto, Busy, Linking
<1>1. CASE Reconcile(t)
  <2>1. Validate(t) \in {"install", "skip", "replace"}
    BY DEF Validate
  <2> QED
    BY <1>1, <2>1 DEF Reconcile
<1>2. CASE Fetch(t) \/ InstallFails(t) \/ Copy(t)
  BY <1>2 DEF Fetch, InstallFails, Copy
<1>3. CASE Unlink(t)
  BY <1>3 DEF Unlink
<1>4. CASE Link(t)
  BY <1>4 DEF Link
<1>5. CASE TidyTarget(t) \/ TidyLink(t)
  BY <1>5 DEF TidyTarget, TidyLink
<1>6. CASE RunCommand(t)
  BY <1>6 DEF RunCommand
<1>7. CASE Record(t)
  BY <1>7 DEF Record
<1>8. CASE Remove(t)
  BY <1>8 DEF Remove
<1> QED
  BY <1>1, <1>2, <1>3, <1>4, <1>5, <1>6, <1>7, <1>8 DEF Install

\* A goroutine that installs does so in the layer, and has a spec.
LEMMA Installs ==
    ASSUME Inv, NEW t \in Tool, Install(t)
    PROVE  /\ phase = "layer" /\ InLayer(t) /\ manifest[t] \in Specs(t) /\ manifest[t] # None
           /\ at[t] \in {"reconcile"} \cup Busy /\ cache[t] = disk[t]
           /\ at[t] \in Busy => Needs(t, disk[t])
PROOF
<1>1. at[t] \in {"reconcile"} \cup Busy
  BY DEF Install, Reconcile, Fetch, InstallFails, Copy, Unlink, Link, TidyTarget, TidyLink, RunCommand, Record,
     Busy, Linking
<1>2. phase # "idle" /\ phase # "removals"
  BY <1>1 DEF Inv, InPhase, AtIdle, InRemovals, Busy, Linking
<1>3. phase = "layer" /\ InLayer(t)
  BY <1>2 DEF Inv, Typed, InPhase
<1>4. manifest[t] # None
  BY <1>1, <1>3 DEF InLayer, Busy, Linking
<1> QED
  BY <1>1, <1>3, <1>4 DEF InLayer, Inv, Typed, Busy, Linking

\* A removal is of a tool that state has and the manifest has not.
LEMMA Removes ==
    ASSUME Inv, NEW t \in Tool, Remove(t)
    PROVE  /\ phase = "removals" /\ manifest[t] = None
           /\ cache[t] = disk[t] /\ disk[t] # None /\ disk[t] \in States(t)
PROOF
<1>1. at[t] = "remove"
  BY DEF Remove
<1>2. phase # "idle" /\ phase # "layer"
  BY <1>1 DEF Inv, InPhase, AtIdle, InLayer, Busy, Linking
<1>3. phase = "removals" /\ InRemovals(t)
  BY <1>2 DEF Inv, Typed, InPhase
<1> QED
  BY <1>1, <1>3 DEF InRemovals, Inv, Typed

LEMMA Stops ==
    ASSUME Inv, Kill \/ \E t \in Tool : RemoveFails(t)
    PROVE  Stop
PROOF
<1>1. CASE Kill
  BY <1>1 DEF Kill, Stop
<1>2. ASSUME NEW t \in Tool, RemoveFails(t)
      PROVE  Stop
  <2>1. at[t] = "remove"
    BY <1>2 DEF RemoveFails
  <2>2. phase # "idle"
    BY <2>1 DEF Inv, InPhase, AtIdle
  <2> QED
    BY <1>2, <2>2 DEF RemoveFails, Stop
<1> QED
  BY <1>1, <1>2

\* A step of a goroutine keeps the files and the entries in their types.
LEMMA PlacesStep ==
    ASSUME Inv, NEW t \in Tool, Install(t) \/ Remove(t)
    PROVE  /\ file' \in [Paths -> {"none", "partial", "whole"}]
           /\ entry' \in [Entries -> Paths \cup {None}]
PROOF
<1> USE DEF Inv, Typed
<1>1. CASE file' = file /\ entry' = entry
  BY <1>1
<1>2. CASE Remove(t)
  <2>1. /\ file' = IF cache[t].path = None THEN file
                   ELSE [p \in Paths |-> IF p[1] = t /\ p[2] = cache[t].version THEN "none" ELSE file[p]]
        /\ entry' = IF cache[t].binPath = None THEN entry ELSE [entry EXCEPT ![cache[t].binPath] = None]
    BY <1>2 DEF Remove
  <2> QED
    BY <2>1
<1>3. CASE Install(t)
  <2>1. Path(t, manifest[t]) \in Paths /\ BinPath(t, manifest[t]) \in Entries
    BY <1>3, Installs, SpecFacts
  <2>2. CASE Fetch(t) \/ Copy(t)
    BY <2>1, <2>2 DEF Fetch, Copy
  <2>3. CASE Unlink(t)
    BY <2>1, <2>3 DEF Unlink
  <2>4. CASE Link(t)
    BY <2>1, <2>4 DEF Link
  <2>5. CASE TidyTarget(t) \/ TidyLink(t)
    BY <2>1, <2>5 DEF TidyTarget, TidyLink
  <2>6. CASE RunCommand(t)
    BY <2>1, <2>6 DEF RunCommand
  <2> QED
    BY <1>1, <1>3, <2>2, <2>3, <2>4, <2>5, <2>6 DEF Install, Reconcile, InstallFails, Record, places
<1> QED
  BY <1>2, <1>3

\* A step keeps the types.
LEMMA TypeStep ==
    ASSUME Inv, [Next]_vars
    PROVE  Typed'
PROOF
<1> USE DEF Inv, Typed
<1>1. CASE Begin
  BY <1>1 DEF Begin, places
<1>2. CASE EndLayer
  BY <1>2 DEF EndLayer, places
<1>3. CASE EndRemovals
  BY <1>3 DEF EndRemovals, places
<1>4. CASE Stop
  BY <1>4 DEF Stop, places
<1>5. ASSUME NEW t \in Tool, Edit(t)
      PROVE  Typed'
  <2>1. PICK s \in Specs(t) \cup {None} : manifest' = [manifest EXCEPT ![t] = s]
    BY <1>5 DEF Edit
  <2>2. s \in AllSpecs \cup {None}
    BY DEF AllSpecs
  <2>3. /\ manifest' \in [Tool -> AllSpecs \cup {None}]
        /\ \A u \in Tool : manifest'[u] \in Specs(u) \cup {None}
    BY <2>1, <2>2
  <2>4. UNCHANGED <<disk, cache, phase, at, file, entry>>
    BY <1>5 DEF Edit, places
  <2> QED
    BY <2>3, <2>4
<1>6. ASSUME NEW t \in Tool, Install(t) \/ Remove(t)
      PROVE  Typed'
  <2>1. UNCHANGED <<manifest, disk, phase>>
    BY <1>6, Frame
  <2>2. at' \in [Tool -> {"idle", "reconcile", "done", "failed", "remove"} \cup Busy]
    BY <1>6, Frame
  <2>3. /\ cache' \in [Tool -> AllStates \cup {None}]
        /\ \A u \in Tool : cache'[u] \in States(u) \cup {None}
    <3>1. CASE cache' = cache
      BY <3>1
    <3>2. CASE Remove(t) /\ cache' = [cache EXCEPT ![t] = None]
      BY <3>2
    <3>3. CASE Record(t) /\ cache' = [cache EXCEPT ![t] = StateOf(t, manifest[t])]
      <4>1. manifest[t] \in Specs(t)
        BY <3>3, Installs DEF Install
      <4>2. StateOf(t, manifest[t]) \in States(t)
        BY <4>1, StateFacts
      <4>3. StateOf(t, manifest[t]) \in AllStates \cup {None}
        BY <4>2 DEF AllStates
      <4> QED
        BY <3>3, <4>2, <4>3
    <3> QED
      BY <1>6, <3>1, <3>2, <3>3, Frame
  <2>4. /\ file' \in [Paths -> {"none", "partial", "whole"}]
        /\ entry' \in [Entries -> Paths \cup {None}]
    BY <1>6, PlacesStep
  <2> QED
    BY <2>1, <2>2, <2>3, <2>4
<1>7. CASE UNCHANGED vars
  BY <1>7 DEF vars, apply, places
<1> QED
  BY <1>1, <1>2, <1>3, <1>4, <1>5, <1>6, <1>7, Stops DEF Next, Work

\* The goroutine of t keeps to its phase, by what the engine knows of t.
LEMMA OwnPhase ==
    ASSUME Inv, NEW t \in Tool, Install(t) \/ Remove(t)
    PROVE  /\ phase = "layer" => InLayer(t)'
           /\ phase = "removals" => InRemovals(t)'
PROOF
<1> USE DEF Inv, Typed
<1>1. manifest' = manifest /\ disk' = disk
  BY Frame
<1>2. CASE Remove(t)
  <2>1. phase = "removals" /\ manifest[t] = None
    BY <1>2, Removes
  <2>2. at'[t] = "idle" /\ cache'[t] = None
    BY <1>2 DEF Remove, Goto
  <2> QED
    BY <1>1, <2>1, <2>2 DEF InRemovals
<1>3. CASE Install(t)
  <2>1. /\ phase = "layer" /\ InLayer(t) /\ manifest[t] \in Specs(t) /\ manifest[t] # None
        /\ cache[t] = disk[t]
        /\ at[t] \in Busy => Needs(t, disk[t])
    BY <1>3, Installs
  <2>2. \A st : Needs(t, st)' <=> Needs(t, st)
    BY <1>1 DEF Needs
  <2>3. CASE Reconcile(t) /\ ~NeedsUpdate(t)
    <3>1. at'[t] = "done" /\ cache' = cache
      BY <2>3 DEF Reconcile, Goto
    <3>2. ~Needs(t, cache[t])
      BY <2>3, NeedsIsNeeds
    <3> QED
      BY <1>1, <2>1, <2>2, <3>1, <3>2 DEF InLayer, Busy, Linking
  <2>4. CASE Reconcile(t) /\ NeedsUpdate(t)
    <3>1. /\ cache' = cache
          /\ at'[t] \in {"fetch", "unlink", "failed", "command"}
          /\ at'[t] \in {"fetch", "unlink"} => t \in Downloads
          /\ at'[t] = "command" => t \notin Downloads
      <4>1. Validate(t) \in {"install", "skip", "replace"}
        BY DEF Validate
      <4> QED
        BY <2>4, <4>1 DEF Reconcile, Goto
    <3>2. Needs(t, disk[t])
      BY <2>1, <2>4, NeedsIsNeeds
    <3> QED
      BY <1>1, <2>1, <2>2, <3>1, <3>2 DEF InLayer, Busy, Linking
  <2>5. CASE Record(t)
    <3>1. at'[t] = "done" /\ at[t] = "record" /\ cache'[t] = StateOf(t, manifest[t])
      BY <2>5 DEF Record, Goto
    <3>2. ~Needs(t, StateOf(t, manifest[t]))
      BY <2>1, RecordedIsEnough
    <3>3. Needs(t, disk[t])
      BY <2>1, <3>1 DEF Busy
    <3> QED
      BY <1>1, <2>1, <2>2, <3>1, <3>2, <3>3 DEF InLayer, Busy, Linking
  <2>6. CASE \/ Fetch(t) \/ InstallFails(t) \/ Copy(t) \/ Unlink(t) \/ Link(t) \/ TidyTarget(t)
             \/ TidyLink(t) \/ RunCommand(t)
    <3>1. /\ cache' = cache /\ at[t] \in Busy
          /\ at'[t] \in {"copy", "failed", "unlink", "link", "tidyTarget", "tidyLink", "record"}
          /\ at'[t] \in {"copy"} \cup Linking => t \in Downloads
          /\ at'[t] \in {"tidyTarget", "tidyLink"} => OldBinPath(t) # None
      BY <2>1, <2>6 DEF Fetch, InstallFails, Copy, Unlink, Link, TidyTarget, TidyLink, RunCommand, Goto,
         InLayer, Busy, Linking
    <3> QED
      BY <1>1, <2>1, <2>2, <3>1 DEF InLayer, Busy, Linking, OldBinPath
  <2> QED
    BY <1>3, <2>1, <2>3, <2>4, <2>5, <2>6 DEF Install
<1> QED
  BY <1>2, <1>3

\* A step leaves every goroutine in its phase.
LEMMA PhaseStep ==
    ASSUME Inv, [Next]_vars
    PROVE  InPhase'
PROOF
<1> USE DEF Inv, Typed
<1>1. CASE Begin
  BY <1>1 DEF Begin, InPhase, InLayer, AtIdle, Busy, Linking, places
<1>2. CASE EndLayer
  <2>1. ASSUME NEW t \in Tool
        PROVE  /\ phase' = "idle" => AtIdle(t)'
               /\ phase' = "removals" => InRemovals(t)'
    <3>1. InLayer(t) /\ at[t] \in {"idle", "done", "failed"}
      BY <1>2 DEF EndLayer, InPhase
    <3>2. /\ disk' = cache /\ cache' = cache /\ manifest' = manifest
          /\ phase' \in {"idle", "removals"}
          /\ phase' = "idle" => at'[t] = "idle"
          /\ phase' = "removals" =>
                /\ at[t] # "failed"
                /\ at'[t] = IF manifest[t] = None /\ cache[t] # None THEN "remove" ELSE "idle"
      BY <1>2 DEF EndLayer
    <3>3. Needs(t, disk[t])' <=> Needs(t, cache[t])
      BY <3>2 DEF Needs
    <3> QED
      BY <3>1, <3>2, <3>3 DEF InLayer, InRemovals, AtIdle, Busy, Linking
  <2>2. phase' \in {"idle", "removals"}
    BY <1>2 DEF EndLayer
  <2> QED
    BY <2>1, <2>2 DEF InPhase
<1>3. CASE EndRemovals
  BY <1>3 DEF EndRemovals, InPhase, AtIdle
<1>4. CASE Stop
  BY <1>4 DEF Stop, InPhase, AtIdle
<1>5. ASSUME NEW t \in Tool, Edit(t)
      PROVE  InPhase'
  BY <1>5 DEF Edit, InPhase, AtIdle
<1>6. ASSUME NEW t \in Tool, Install(t) \/ Remove(t)
      PROVE  InPhase'
  <2>1. /\ UNCHANGED <<manifest, disk, phase>>
        /\ \A u \in Tool \ {t} : at'[u] = at[u] /\ cache'[u] = cache[u]
    BY <1>6, Frame
  <2>2. phase \in {"layer", "removals"}
    BY <1>6, Installs, Removes
  <2>3. phase = "layer" => InLayer(t)'
    BY <1>6, OwnPhase
  <2>4. phase = "removals" => InRemovals(t)'
    BY <1>6, OwnPhase
  <2>5. ASSUME NEW u \in Tool \ {t}
        PROVE  (phase = "layer" => InLayer(u)') /\ (phase = "removals" => InRemovals(u)')
    <3>1. (phase = "layer" => InLayer(u)) /\ (phase = "removals" => InRemovals(u))
      BY DEF InPhase
    <3>2. \A st : Needs(u, st)' <=> Needs(u, st)
      BY <2>1 DEF Needs
    <3> QED
      BY <2>1, <3>1, <3>2 DEF InLayer, InRemovals, OldBinPath
  <2> QED
    BY <2>1, <2>2, <2>3, <2>4, <2>5 DEF InPhase
<1>7. CASE UNCHANGED vars
  BY <1>7 DEF vars, apply, InPhase, AtIdle, InLayer, InRemovals, Needs, OldBinPath
<1> QED
  BY <1>1, <1>2, <1>3, <1>4, <1>5, <1>6, <1>7, Stops DEF Next, Work

\* A step puts into an entry only what goes by its name.
LEMMA NamedStep ==
    ASSUME Inv, [Next]_vars
    PROVE  EntriesNamed'
PROOF
<1> USE DEF Inv, Typed
<1>1. SUFFICES ASSUME NEW e \in Entries, entry'[e] # None, entry'[e] # entry[e]
               PROVE  \E t \in Placed : \E v \in Version, n \in Called(t) :
                          e = <<DirOf(t), n>> /\ entry'[e] = <<t, v, n>>
  BY DEF EntriesNamed, Called, DirOf, Entries, Placed, Downloads
<1>2. ~ (Begin \/ EndLayer \/ EndRemovals \/ Stop \/ UNCHANGED vars \/ \E t \in Tool : Edit(t))
  BY <1>1 DEF Begin, EndLayer, EndRemovals, Stop, Edit, vars, places
<1>3. PICK t \in Tool : Install(t) \/ Remove(t)
  BY <1>2, Stops DEF Next, Work
<1>4. CASE Remove(t)
  BY <1>1, <1>4 DEF Remove
<1>5. CASE Install(t)
  <2>1. manifest[t] \in Specs(t) /\ InLayer(t) /\ manifest[t] # None
    BY <1>5, Installs
  <2>2. /\ BinPath(t, manifest[t]) = <<DirOf(t), BinaryName(t, manifest[t])>>
        /\ Path(t, manifest[t]) = <<t, Resolved(manifest[t]), BinaryName(t, manifest[t])>>
        /\ Resolved(manifest[t]) \in Version /\ BinaryName(t, manifest[t]) \in Called(t)
    BY <2>1, SpecFacts DEF BinPath, Path
  <2>3. Link(t) \/ RunCommand(t)
    BY <1>1, <1>5 DEF Install, Reconcile, Fetch, InstallFails, Copy, Unlink, TidyTarget, TidyLink, Record, places
  <2>4. e = BinPath(t, manifest[t]) /\ entry'[e] = Path(t, manifest[t])
    BY <1>1, <2>3 DEF Link, RunCommand
  <2>5. t \in Placed
    BY <1>1, <2>1, <2>3 DEF InLayer, Link, Linking, RunCommand, Placed
  <2> QED
    BY <2>2, <2>4, <2>5
<1> QED
  BY <1>3, <1>4, <1>5

--------------------------------------------------------------------------------
(***************************************************************************)
(* What other tools leave alone.                                           *)
(***************************************************************************)

\* What a state of t names is t's.
LEMMA StateNames ==
    ASSUME NEW t \in Tool, NEW st \in States(t)
    PROVE  /\ st # None
           /\ st.binPath # None => /\ t \in Downloads \/ Way[t] = "runtime"
                                   /\ \E n \in Called(t) : st.binPath = <<DirOf(t), n>>
           /\ st.path # None => /\ t \in Downloads /\ st.binPath # None
                                /\ \E n \in Called(t) :
                                      /\ st.binPath = <<DirOf(t), n>>
                                      /\ st.path = <<t, st.version, n>> /\ st.path \in Paths
           /\ t \in Downloads => st.path # None /\ st.binPath # None
PROOF
<1>1. PICK s \in Specs(t) : st = StateOf(t, s)
  BY DEF States
<1>2. BinaryName(t, s) \in Called(t) /\ Path(t, s) \in Paths /\ Path(t, s) # None /\ BinPath(t, s) # None
  BY <1>1, SpecFacts
<1> QED
  BY <1>1, <1>2, StateFacts DEF Path, BinPath

\* What an entry of u's leads to is no file of a tool that nobody competes with.
LEMMA TargetIsNotMine ==
    ASSUME Inv, NEW t \in Uncontested, NEW u \in Tool, u # t, NEW m \in Called(u),
           entry[<<DirOf(u), m>>] # None
    PROVE  entry[<<DirOf(u), m>>][1] # t
PROOF
<1>1. <<DirOf(u), m>> \in Entries
  BY CalledNames
<1>2. PICK w \in Placed : \E v \in Version, n \in Called(w) :
          <<DirOf(u), m>> = <<DirOf(w), n>> /\ entry[<<DirOf(u), m>>] = <<w, v, n>>
  BY <1>1 DEF Inv, EntriesNamed
<1>3. w # t
  BY <1>2, OthersPlaces DEF Placed, Downloads
<1> QED
  BY <1>2, <1>3

\* The goroutine of another tool leaves the entries and the files of t alone.
LEMMA OthersKeep ==
    ASSUME Inv, NEW t \in Uncontested, NEW u \in Tool, u # t, Install(u) \/ Remove(u)
    PROVE  /\ \A n \in Called(t) : entry'[<<DirOf(t), n>>] = entry[<<DirOf(t), n>>]
           /\ \A p \in Paths : p[1] = t => file'[p] = file[p]
           /\ at'[t] = at[t] /\ cache'[t] = cache[t]
           /\ UNCHANGED <<manifest, disk, phase, strayed>>
PROOF
<1> USE DEF Inv, Typed
<1>1. t \in Tool /\ \A n \in Called(t) : <<DirOf(t), n>> \in Entries
  BY CalledNames DEF Uncontested
<1>2. at'[t] = at[t] /\ cache'[t] = cache[t] /\ UNCHANGED <<manifest, disk, phase, strayed>>
  BY <1>1, Frame
<1>3. ASSUME NEW m \in Called(u), NEW n \in Called(t)
      PROVE  <<DirOf(u), m>> # <<DirOf(t), n>>
  BY <1>3, OthersPlaces
<1>4. CASE Remove(u)
  <2>1. disk[u] \in States(u) /\ cache[u] = disk[u]
    BY <1>4, Removes
  <2>2. cache[u].binPath # None => \A n \in Called(t) : cache[u].binPath # <<DirOf(t), n>>
    BY <1>3, <2>1, StateNames
  <2> QED
    BY <1>1, <1>2, <1>4, <2>2 DEF Remove
<1>5. CASE Install(u)
  <2>1. /\ manifest[u] \in Specs(u) /\ InLayer(u) /\ manifest[u] # None
        /\ cache[u] = disk[u] /\ disk[u] \in States(u) \cup {None}
    BY <1>5, Installs
  <2>2. \A n \in Called(t) : BinPath(u, manifest[u]) # <<DirOf(t), n>>
    BY <1>3, <2>1, SpecFacts DEF BinPath
  <2>3. Path(u, manifest[u])[1] # t
    BY DEF Path
  <2>4. OldBinPath(u) # None => \E m \in Called(u) : OldBinPath(u) = <<DirOf(u), m>>
    BY <2>1, StateNames DEF OldBinPath
  <2>5. CASE file' = file /\ entry' = entry
    BY <1>2, <2>5
  <2>6. CASE Fetch(u) \/ Copy(u)
    BY <1>2, <2>3, <2>6 DEF Fetch, Copy
  <2>7. CASE Unlink(u)
    BY <1>1, <1>2, <2>2, <2>7 DEF Unlink
  <2>8. CASE Link(u)
    BY <1>1, <1>2, <2>2, <2>8 DEF Link
  <2>9. CASE TidyTarget(u) \/ TidyLink(u)
    <3>1. OldBinPath(u) # None
      BY <2>1, <2>9 DEF InLayer, TidyTarget, TidyLink
    <3>2. PICK m \in Called(u) : OldBinPath(u) = <<DirOf(u), m>>
      BY <2>4, <3>1
    <3>3. entry[OldBinPath(u)] # None => entry[OldBinPath(u)][1] # t
      BY <3>2, TargetIsNotMine
    <3>4. \A n \in Called(t) : OldBinPath(u) # <<DirOf(t), n>>
      BY <1>3, <3>2
    <3> QED
      BY <1>1, <1>2, <2>9, <3>3, <3>4 DEF TidyTarget, TidyLink
  <2>10. CASE RunCommand(u)
    <3>1. OldBinPath(u) # None => \A n \in Called(t) : OldBinPath(u) # <<DirOf(t), n>>
      BY <1>3, <2>4
    <3> QED
      BY <1>1, <1>2, <2>2, <2>10, <3>1 DEF RunCommand
  <2> QED
    BY <1>5, <2>5, <2>6, <2>7, <2>8, <2>9, <2>10 DEF Install, Reconcile, InstallFails, Record, places
<1> QED
  BY <1>4, <1>5

\* What is said of a tool is about its spec, its states and its goroutine, its
\* entries and its files.
LEMMA KeptSame ==
    ASSUME Inv, NEW t \in Uncontested, Kept(t),
           manifest'[t] = manifest[t], phase' = phase, disk'[t] = disk[t], at'[t] = at[t], cache'[t] = cache[t],
           \A n \in Called(t) : entry'[<<DirOf(t), n>>] = entry[<<DirOf(t), n>>],
           \A p \in Paths : p[1] = t => file'[p] = file[p]
    PROVE  Kept(t)'
PROOF
<1> USE DEF Inv, Typed
<1>1. t \in Tool /\ Called(t)' = Called(t)
  BY DEF Uncontested, Called
<1>2. ASSUME NEW st \in States(t) \cup {None}
      PROVE  /\ st # None /\ st.path # None => file'[st.path] = file[st.path]
             /\ Matches(t, st)' <=> Matches(t, st)
  <2>1. st # None /\ st.path # None => st.path \in Paths /\ st.path[1] = t
    BY <1>1, StateNames
  <2>2. st # None /\ st.path # None => file'[st.path] = file[st.path]
    BY <2>1
  <2> QED
    BY <1>1, <2>2 DEF Matches, DirOf
<1>3. manifest[t] # None =>
        /\ manifest[t] \in Specs(t) /\ StateOf(t, manifest[t]) \in States(t)
        /\ file'[Path(t, manifest[t])] = file[Path(t, manifest[t])]
        /\ entry'[BinPath(t, manifest[t])] = entry[BinPath(t, manifest[t])]
  BY <1>1, SpecFacts, StateFacts DEF Path, BinPath
<1>4. /\ Path(t, manifest[t])' = Path(t, manifest[t])
      /\ BinPath(t, manifest[t])' = BinPath(t, manifest[t])
      /\ StateOf(t, manifest[t])' = StateOf(t, manifest[t])
      /\ OldBinPath(t)' = OldBinPath(t)
  BY <1>1 DEF Path, BinPath, StateOf, OldBinPath, BinaryName, DirOf, Resolved
<1>5. TwoPlaces(t)'
  BY <1>1, <1>4 DEF Kept, TwoPlaces, DirOf
<1>6. Progress(t)'
  <2>1. at[t] \in Linking \cup {"record"} => manifest[t] # None
    BY <1>1 DEF InPhase, AtIdle, InLayer, InRemovals, Linking
  <2>2. Progress(t)
    BY DEF Kept
  <2>3. at[t] = "record" => Matches(t, StateOf(t, manifest[t]))'
    BY <1>2, <1>3, <1>4, <2>1, <2>2 DEF Progress
  <2> QED
    BY <1>3, <1>4, <2>1, <2>2, <2>3 DEF Progress, Linking
<1>7. AtRest(t)'
  BY <1>1, <1>2 DEF Kept, AtRest, Pending, Needs
<1>8. KeepsOwn(t)'
  BY <1>1, <1>2, <1>3, <1>4 DEF Kept, KeepsOwn
<1>9. WholeOnly(t)'
  <2>1. at[t] \in Linking \cup {"record", "fetch"} => manifest[t] # None
    BY <1>1 DEF InPhase, AtIdle, InLayer, InRemovals, Linking
  <2> QED
    BY <1>1, <1>2, <1>3, <1>4, <2>1, StateNames DEF Kept, WholeOnly, Linking
<1> QED
  BY <1>5, <1>6, <1>7, <1>8, <1>9 DEF Kept

--------------------------------------------------------------------------------
(***************************************************************************)
(* The steps of t itself.                                                  *)
(***************************************************************************)

\* A removal leaves no entry of t, and nothing that state could be wrong about.
LEMMA RemoveKeeps ==
    ASSUME Inv, NEW t \in Uncontested, Kept(t), Remove(t)
    PROVE  Kept(t)'
PROOF
<1> USE DEF Inv, Typed
<1>1. /\ t \in Tool /\ Called(t)' = Called(t) /\ DirOf(t)' = DirOf(t)
      /\ \A n \in Called(t) : <<DirOf(t), n>> \in Entries /\ <<DirOf(t), n>> # None
  BY CalledNames, PlacementAssumption DEF Uncontested, Called, DirOf, Entries, PlacementAssumption
<1>2. /\ phase = "removals" /\ manifest[t] = None
      /\ cache[t] = disk[t] /\ disk[t] # None /\ disk[t] \in States(t)
  BY <1>1, Removes
<1>3. UNCHANGED <<manifest, disk, phase>> /\ at'[t] = "idle" /\ cache'[t] = None
  BY <1>1 DEF Remove, Goto
<1>4. \A n \in Called(t) : entry'[<<DirOf(t), n>>] = None
  <2>1. \A n \in Called(t) : entry[<<DirOf(t), n>>] # None => <<DirOf(t), n>> = disk[t].binPath
    BY <1>2 DEF Kept, TwoPlaces
  <2> QED
    BY <1>1, <1>2, <2>1 DEF Remove
<1>5. disk[t].path # None => file'[disk[t].path] \in {"none", file[disk[t].path]}
  BY <1>1, <1>2, StateNames DEF Remove
<1>6. TwoPlaces(t)'
  BY <1>1, <1>4 DEF TwoPlaces
<1>7. AtRest(t)'
  BY <1>1, <1>2, <1>3, <1>4 DEF AtRest, Matches
<1>8. WholeOnly(t)'
  BY <1>1, <1>2, <1>3, <1>5, StateNames DEF Kept, WholeOnly, Downloads, Linking
<1> QED
  BY <1>2, <1>3, <1>6, <1>7, <1>8 DEF Kept, Progress, KeepsOwn, Linking

\* Where a step of an install of t begins.
LEMMA InstallOf ==
    ASSUME Inv, NEW t \in Uncontested, Install(t)
    PROVE  /\ t \in Tool /\ Called(t)' = Called(t) /\ DirOf(t)' = DirOf(t)
           /\ \A n \in Called(t) : <<DirOf(t), n>> \in Entries /\ <<DirOf(t), n>> # None
           /\ phase = "layer" /\ InLayer(t) /\ manifest[t] \in Specs(t) /\ manifest[t] # None
           /\ cache[t] = disk[t]
           /\ disk[t] \in States(t) \cup {None}
           /\ UNCHANGED <<manifest, disk, phase>>
           /\ Path(t, manifest[t]) \in Paths /\ Path(t, manifest[t]) # None
           /\ BinPath(t, manifest[t]) \in Entries
           /\ Path(t, manifest[t])' = Path(t, manifest[t])
           /\ BinPath(t, manifest[t])' = BinPath(t, manifest[t])
           /\ StateOf(t, manifest[t])' = StateOf(t, manifest[t])
PROOF
<1>1. t \in Tool
  BY DEF Uncontested
<1>2. /\ Called(t)' = Called(t) /\ DirOf(t)' = DirOf(t)
      /\ \A n \in Called(t) : <<DirOf(t), n>> \in Entries /\ <<DirOf(t), n>> # None
  BY <1>1, CalledNames, PlacementAssumption DEF Called, DirOf, Entries, PlacementAssumption
<1>3. /\ phase = "layer" /\ InLayer(t) /\ manifest[t] \in Specs(t) /\ manifest[t] # None
      /\ cache[t] = disk[t]
  BY <1>1, Installs
<1>4. disk[t] \in States(t) \cup {None} /\ UNCHANGED <<manifest, disk, phase>>
  BY <1>1, Frame DEF Inv, Typed
<1>5. /\ Path(t, manifest[t]) \in Paths /\ Path(t, manifest[t]) # None
      /\ BinPath(t, manifest[t]) \in Entries
  BY <1>1, <1>3, SpecFacts
<1>6. /\ Path(t, manifest[t])' = Path(t, manifest[t])
      /\ BinPath(t, manifest[t])' = BinPath(t, manifest[t])
      /\ StateOf(t, manifest[t])' = StateOf(t, manifest[t])
  BY <1>4 DEF Path, BinPath, StateOf, BinaryName, DirOf, Resolved, Downloads
<1> QED
  BY <1>1, <1>2, <1>3, <1>4, <1>5, <1>6

\* While an install works on its download, entries and what state names stay.
LEMMA DownloadKeeps ==
    ASSUME Inv, NEW t \in Uncontested, Kept(t),
           Reconcile(t) \/ Fetch(t) \/ InstallFails(t) \/ Copy(t)
    PROVE  Kept(t)'
PROOF
<1> USE DEF Inv, Typed
<1> DEFINE path == Path(t, manifest[t])
<1>1. Install(t)
  BY DEF Install
<1>2. /\ t \in Tool /\ Called(t)' = Called(t) /\ DirOf(t)' = DirOf(t)
      /\ phase = "layer" /\ InLayer(t) /\ manifest[t] \in Specs(t) /\ manifest[t] # None
      /\ cache[t] = disk[t] /\ disk[t] \in States(t) \cup {None}
      /\ UNCHANGED <<manifest, disk, phase>>
      /\ path \in Paths /\ path' = path /\ BinPath(t, manifest[t])' = BinPath(t, manifest[t])
  BY <1>1, InstallOf
<1>3. entry' = entry /\ cache' = cache
  BY DEF Reconcile, Fetch, InstallFails, Copy, places
<1>4. TwoPlaces(t)'
  BY <1>2, <1>3 DEF Kept, TwoPlaces
<1>5. disk[t] # None /\ disk[t].path # None => disk[t].path \in Paths
  BY <1>2, StateNames
<1>6. CASE Reconcile(t) /\ ~NeedsUpdate(t)
  <2>1. at[t] = "reconcile" /\ at'[t] = "done" /\ file' = file
    BY <1>2, <1>6 DEF Reconcile, Goto, places
  <2>2. ~Pending(t)
    BY <1>2, <1>6, NeedsIsNeeds DEF Pending
  <2>3. Matches(t, disk[t])
    BY <1>2, <2>1, <2>2 DEF Kept, AtRest
  <2>4. AtRest(t)'
    BY <1>2, <1>3, <2>1, <2>3 DEF AtRest, Matches
  <2> QED
    BY <1>2, <1>3, <1>4, <2>1, <2>4 DEF Kept, Progress, KeepsOwn, WholeOnly, Linking, Downloads
<1>7. CASE Reconcile(t) /\ NeedsUpdate(t)
  <2>1. /\ file' = file /\ at'[t] \in {"fetch", "unlink", "failed", "command"}
        /\ at'[t] = "fetch" => Validate(t) = "install"
        /\ at'[t] = "unlink" => Validate(t) = "skip"
    <3>1. Validate(t) \in {"install", "skip", "replace"}
      BY DEF Validate
    <3> QED
      BY <1>2, <1>7, <3>1 DEF Reconcile, Goto, places
  <2>2. at'[t] = "fetch" => file[path] = "none"
    BY <2>1 DEF Validate
  <2>3. at'[t] = "unlink" =>
           file[path] # "none" /\ (Digest[t] # "none" => file[path] = "whole")
    BY <2>1 DEF Validate
  <2>4. AtRest(t)' /\ Progress(t)'
    BY <1>2, <2>1, <2>3 DEF AtRest, Progress, Linking
  <2>5. KeepsOwn(t)'
    BY <1>2, <2>1 DEF Kept, KeepsOwn
  <2>6. WholeOnly(t)'
    BY <1>2, <1>3, <2>1, <2>2, <2>3 DEF Kept, WholeOnly, Linking, Downloads
  <2> QED
    BY <1>4, <2>4, <2>5, <2>6 DEF Kept
<1>8. CASE Fetch(t)
  <2>1. at[t] = "fetch" /\ at'[t] = "copy" /\ file' = [file EXCEPT ![path] = "partial"]
    BY <1>2, <1>8 DEF Fetch, Goto
  <2>2. KeepsOwn(t)'
    BY <1>2, <2>1 DEF KeepsOwn
  <2>3. ASSUME t \in Downloads, Digest[t] # "none", disk[t] # None
        PROVE  file'[disk[t].path] # "partial"
    <3>1. file[path] = "none" /\ file[disk[t].path] # "partial" /\ disk[t].path # None
      BY <1>2, <2>1, <2>3, StateNames DEF Kept, WholeOnly
    <3>2. disk[t].path # path
      BY <1>2, <2>3, <3>1 DEF Kept, KeepsOwn
    <3> QED
      BY <1>5, <2>1, <2>3, <3>1, <3>2
  <2>4. WholeOnly(t)'
    BY <1>2, <1>3, <2>1, <2>3 DEF WholeOnly, Linking, Downloads
  <2> QED
    BY <1>2, <1>4, <2>1, <2>2, <2>4 DEF Kept, Progress, AtRest, Linking
<1>9. CASE InstallFails(t)
  <2>1. at'[t] = "failed" /\ file' = file
    BY <1>2, <1>9 DEF InstallFails, Goto, places
  <2> QED
    BY <1>2, <1>3, <1>4, <2>1 DEF Kept, Progress, AtRest, KeepsOwn, WholeOnly, Linking, Downloads
<1>10. CASE Copy(t)
  <2>1. at[t] = "copy" /\ at'[t] = "unlink" /\ file' = [file EXCEPT ![path] = "whole"]
    BY <1>2, <1>10 DEF Copy, Goto
  <2>2. file'[path] = "whole"
    BY <1>2, <2>1
  <2>3. KeepsOwn(t)'
    BY <1>2, <2>1 DEF KeepsOwn
  <2>4. WholeOnly(t)'
    BY <1>2, <1>3, <1>5, <2>1, <2>2, StateNames DEF Kept, WholeOnly, Linking, Downloads
  <2> QED
    BY <1>2, <1>4, <2>1, <2>2, <2>3, <2>4 DEF Kept, Progress, AtRest, Linking
<1> QED
  BY <1>6, <1>7, <1>8, <1>9, <1>10

\* Another name is another file: what the old link leads to is not what was linked.
LEMMA OldIsAnother ==
    ASSUME Inv, NEW t \in Uncontested, Install(t), OldBinPath(t) \notin {None, BinPath(t, manifest[t])}
    PROVE  /\ disk[t] # None /\ OldBinPath(t) = disk[t].binPath /\ OldBinPath(t) \in Entries
           /\ disk[t].path # Path(t, manifest[t])
           /\ entry[OldBinPath(t)] # Path(t, manifest[t])
PROOF
<1>1. /\ t \in Tool /\ manifest[t] \in Specs(t) /\ cache[t] = disk[t] /\ Path(t, manifest[t]) # None
      /\ disk[t] \in States(t) \cup {None}
  BY InstallOf
<1>2. disk[t] # None /\ OldBinPath(t) = disk[t].binPath
  BY <1>1 DEF OldBinPath
<1>3. PICK n \in Called(t) : OldBinPath(t) = <<DirOf(t), n>>
  BY <1>1, <1>2, StateNames
<1>4. n # BinaryName(t, manifest[t]) /\ <<DirOf(t), n>> \in Entries
  BY <1>1, <1>3, CalledNames DEF BinPath
<1>5. disk[t].path # Path(t, manifest[t])
  <2>1. SUFFICES ASSUME disk[t].path = Path(t, manifest[t])
                 PROVE  FALSE
    OBVIOUS
  <2>2. PICK k \in Called(t) :
            disk[t].binPath = <<DirOf(t), k>> /\ disk[t].path = <<t, disk[t].version, k>>
    <3>1. t \in Tool /\ disk[t] \in States(t) /\ disk[t].path # None
      BY <1>1, <1>2, <2>1
    <3> QED
      BY <3>1, StateNames
  <2>3. k = n
    <3>1. <<DirOf(t), k>> = <<DirOf(t), n>>
      BY <1>2, <1>3, <2>2
    <3> QED
      BY <3>1
  <2>4. <<t, disk[t].version, k>> = <<t, Resolved(manifest[t]), BinaryName(t, manifest[t])>>
    BY <2>1, <2>2 DEF Path
  <2> QED
    BY <1>4, <2>3, <2>4
<1>6. entry[OldBinPath(t)] # Path(t, manifest[t])
  <2>1. SUFFICES ASSUME entry[OldBinPath(t)] = Path(t, manifest[t])
                 PROVE  FALSE
    OBVIOUS
  <2>2. PICK w \in Placed : \E v \in Version, k \in Called(w) :
            OldBinPath(t) = <<DirOf(w), k>> /\ Path(t, manifest[t]) = <<w, v, k>>
    BY <1>1, <1>3, <1>4, <2>1 DEF Inv, EntriesNamed
  <2> QED
    BY <1>3, <1>4, <2>2 DEF Path
<1> QED
  BY <1>2, <1>3, <1>4, <1>5, <1>6

\* What is at the link's place goes, and the link is made, since nobody competes.
LEMMA LinkKeeps ==
    ASSUME Inv, NEW t \in Uncontested, Kept(t), Unlink(t) \/ Link(t)
    PROVE  Kept(t)'
PROOF
<1> USE DEF Inv, Typed
<1> DEFINE path == Path(t, manifest[t])
<1> DEFINE place == BinPath(t, manifest[t])
<1>1. Install(t)
  BY DEF Install
<1>2. /\ t \in Tool /\ Called(t)' = Called(t) /\ DirOf(t)' = DirOf(t)
      /\ \A n \in Called(t) : <<DirOf(t), n>> \in Entries /\ <<DirOf(t), n>> # None
      /\ phase = "layer" /\ InLayer(t) /\ manifest[t] \in Specs(t) /\ manifest[t] # None
      /\ cache[t] = disk[t] /\ disk[t] \in States(t) \cup {None}
      /\ UNCHANGED <<manifest, disk, phase>>
      /\ path \in Paths /\ path # None /\ place \in Entries
      /\ path' = path /\ place' = place
      /\ StateOf(t, manifest[t])' = StateOf(t, manifest[t])
  BY <1>1, InstallOf
<1>3. file' = file /\ cache' = cache /\ at[t] \in {"unlink", "link"} /\ t \in Downloads
  BY <1>2 DEF Unlink, Link, InLayer, Linking
<1>4. file[path] # "none"
  BY <1>3 DEF Kept, Progress, Linking
<1>5. KeepsOwn(t)'
  BY <1>2, <1>3 DEF Kept, KeepsOwn
<1>6. ASSUME at'[t] \in Linking \cup {"record"}
      PROVE  AtRest(t)' /\ WholeOnly(t)'
  BY <1>2, <1>3, <1>6 DEF Kept, AtRest, WholeOnly, Linking, Downloads
<1>7. CASE Unlink(t)
  <2>1. at'[t] = "link" /\ entry' = [entry EXCEPT ![place] = None]
    BY <1>2, <1>4, <1>7 DEF Unlink, Goto
  <2>2. TwoPlaces(t)'
    BY <1>2, <2>1 DEF Kept, TwoPlaces
  <2>3. Progress(t)'
    BY <1>2, <1>3, <1>4, <2>1 DEF Progress, Linking
  <2> QED
    BY <1>5, <1>6, <2>1, <2>2, <2>3 DEF Kept, Linking
<1>8. CASE Link(t)
  <2>1. /\ at[t] = "link" /\ entry[place] = None
        /\ entry' = [entry EXCEPT ![place] = path]
        /\ at'[t] = IF OldBinPath(t) \in {None, place} THEN "record" ELSE "tidyTarget"
    BY <1>2, <1>8 DEF Kept, Progress, Link, Goto
  <2>2. TwoPlaces(t)'
    BY <1>2, <2>1 DEF Kept, TwoPlaces
  <2>3. CASE OldBinPath(t) \in {None, place}
    <3>1. disk[t] # None => disk[t].binPath \in {None, place}
      BY <1>2, <2>3 DEF OldBinPath
    <3>2. ASSUME NEW n \in Called(t)
          PROVE  entry'[<<DirOf(t), n>>] = IF <<DirOf(t), n>> = place THEN path ELSE None
      BY <1>2, <2>1, <3>1 DEF Kept, TwoPlaces
    <3>3. LET st == StateOf(t, manifest[t])
          IN  /\ st # None /\ st.path = path /\ st.binPath = place
              /\ \A n \in Called(t) : <<DirOf(t), n>> = place => path = <<t, st.version, n>>
      BY <1>2, <1>3, StateFacts DEF Path, BinPath
    <3>4. Matches(t, StateOf(t, manifest[t]))'
      BY <1>2, <1>3, <1>4, <3>2, <3>3 DEF Matches
    <3> QED
      BY <1>2, <1>5, <1>6, <2>1, <2>2, <2>3, <3>4 DEF Kept, Progress, Linking
  <2>4. CASE OldBinPath(t) \notin {None, place}
    <3>1. entry'[place] = path /\ OldBinPath(t)' = OldBinPath(t)
      BY <1>2, <1>3, <2>1 DEF OldBinPath
    <3>2. Progress(t)'
      BY <1>2, <1>3, <1>4, <2>1, <2>4, <3>1 DEF Progress, Linking
    <3> QED
      BY <1>5, <1>6, <2>1, <2>2, <2>4, <3>2 DEF Kept, Linking
  <2> QED
    BY <2>3, <2>4
<1> QED
  BY <1>7, <1>8

\* The old link goes with what it leads to, and the new one stays.
LEMMA TidyKeeps ==
    ASSUME Inv, NEW t \in Uncontested, Kept(t), TidyTarget(t) \/ TidyLink(t)
    PROVE  Kept(t)'
PROOF
<1> USE DEF Inv, Typed
<1> DEFINE path == Path(t, manifest[t])
<1> DEFINE place == BinPath(t, manifest[t])
<1>1. Install(t)
  BY DEF Install
<1>2. /\ t \in Tool /\ Called(t)' = Called(t) /\ DirOf(t)' = DirOf(t)
      /\ \A n \in Called(t) : <<DirOf(t), n>> \in Entries /\ <<DirOf(t), n>> # None
      /\ phase = "layer" /\ InLayer(t) /\ manifest[t] \in Specs(t) /\ manifest[t] # None
      /\ cache[t] = disk[t] /\ disk[t] \in States(t) \cup {None}
      /\ UNCHANGED <<manifest, disk, phase>>
      /\ path \in Paths /\ path # None /\ place \in Entries
      /\ path' = path /\ place' = place
      /\ StateOf(t, manifest[t])' = StateOf(t, manifest[t])
  BY <1>1, InstallOf
<1>3. cache' = cache /\ at[t] \in {"tidyTarget", "tidyLink"} /\ t \in Downloads
  BY <1>2 DEF TidyTarget, TidyLink, InLayer, Linking
<1>4. /\ entry[place] = path /\ file[path] # "none"
      /\ OldBinPath(t) \notin {None, place}
  BY <1>3 DEF Kept, Progress, Linking
<1>5. /\ disk[t] # None /\ OldBinPath(t) = disk[t].binPath /\ OldBinPath(t) \in Entries
      /\ disk[t].path # path /\ entry[OldBinPath(t)] # path
  BY <1>1, <1>4, OldIsAnother
<1>6. KeepsOwn(t)'
  BY <1>2, <1>5 DEF KeepsOwn
<1>7. disk[t].path \in Paths
  BY <1>2, <1>3, <1>5, StateNames
<1>8. CASE TidyTarget(t)
  <2>1. /\ at'[t] = "tidyLink" /\ entry' = entry
        /\ file'[path] = file[path]
        /\ file'[disk[t].path] \in {"none", file[disk[t].path]}
    BY <1>2, <1>5, <1>7, <1>8 DEF TidyTarget, Goto
  <2>2. TwoPlaces(t)'
    BY <1>2, <2>1 DEF Kept, TwoPlaces
  <2>3. Progress(t)'
    BY <1>2, <1>3, <1>4, <2>1 DEF Progress, OldBinPath, Linking
  <2>4. AtRest(t)' /\ WholeOnly(t)'
    BY <1>2, <1>3, <2>1 DEF Kept, AtRest, WholeOnly, Linking, Downloads
  <2> QED
    BY <1>6, <2>2, <2>3, <2>4 DEF Kept
<1>9. CASE TidyLink(t)
  <2>1. /\ at'[t] = "record" /\ file' = file
        /\ entry' = [entry EXCEPT ![OldBinPath(t)] = None]
    BY <1>2, <1>9 DEF TidyLink, Goto
  <2>2. ASSUME NEW n \in Called(t)
        PROVE  entry'[<<DirOf(t), n>>] = IF <<DirOf(t), n>> = place THEN path ELSE None
    BY <1>2, <1>4, <1>5, <2>1 DEF Kept, TwoPlaces
  <2>3. LET st == StateOf(t, manifest[t])
        IN  /\ st # None /\ st.path = path /\ st.binPath = place
            /\ \A n \in Called(t) : <<DirOf(t), n>> = place => path = <<t, st.version, n>>
    BY <1>2, <1>3, StateFacts DEF Path, BinPath
  <2>4. Matches(t, StateOf(t, manifest[t]))'
    BY <1>2, <1>4, <2>1, <2>2, <2>3 DEF Matches
  <2>5. TwoPlaces(t)'
    BY <1>2, <2>2 DEF TwoPlaces
  <2>6. AtRest(t)' /\ WholeOnly(t)'
    BY <1>2, <1>3, <2>1 DEF Kept, AtRest, WholeOnly, Linking, Downloads
  <2> QED
    BY <1>6, <2>1, <2>4, <2>5, <2>6 DEF Kept, Progress, Linking
<1> QED
  BY <1>8, <1>9

\* A package manager writes one entry, and the old one goes; others have none.
LEMMA CommandKeeps ==
    ASSUME Inv, NEW t \in Uncontested, Kept(t), RunCommand(t)
    PROVE  Kept(t)'
PROOF
<1> USE DEF Inv, Typed
<1> DEFINE path == Path(t, manifest[t])
<1> DEFINE place == BinPath(t, manifest[t])
<1>1. Install(t)
  BY DEF Install
<1>2. /\ t \in Tool /\ Called(t)' = Called(t) /\ DirOf(t)' = DirOf(t)
      /\ \A n \in Called(t) : <<DirOf(t), n>> \in Entries /\ <<DirOf(t), n>> # None
      /\ phase = "layer" /\ InLayer(t) /\ manifest[t] \in Specs(t) /\ manifest[t] # None
      /\ cache[t] = disk[t] /\ disk[t] \in States(t) \cup {None}
      /\ UNCHANGED <<manifest, disk, phase>>
      /\ path # None /\ place \in Entries
      /\ path' = path /\ place' = place
      /\ StateOf(t, manifest[t])' = StateOf(t, manifest[t])
  BY <1>1, InstallOf
<1>3. file' = file /\ cache' = cache /\ at'[t] = "record" /\ at[t] = "command" /\ t \notin Downloads
  BY <1>2 DEF RunCommand, Goto, InLayer
<1>4. ASSUME Way[t] = "runtime", NEW n \in Called(t)
      PROVE  entry'[<<DirOf(t), n>>] = IF <<DirOf(t), n>> = place THEN path ELSE None
  <2>1. entry' = [e \in Entries |-> IF e = place THEN path
                                    ELSE IF OldBinPath(t) \notin {None, place} /\ e = OldBinPath(t) THEN None
                                    ELSE entry[e]]
    BY <1>4 DEF RunCommand
  <2>2. <<DirOf(t), n>> = OldBinPath(t) \/ <<DirOf(t), n>> = place \/ entry[<<DirOf(t), n>>] = None
    BY <1>2 DEF Kept, TwoPlaces, OldBinPath
  <2> QED
    BY <1>2, <2>1, <2>2
<1>5. ASSUME Way[t] # "runtime", NEW n \in Called(t)
      PROVE  entry'[<<DirOf(t), n>>] = None
  <2>1. SUFFICES ASSUME entry[<<DirOf(t), n>>] # None
                 PROVE  FALSE
    BY <1>5 DEF RunCommand
  <2>2. PICK w \in Placed : \E k \in Called(w) : <<DirOf(t), n>> = <<DirOf(w), k>>
    BY <1>2, <2>1 DEF EntriesNamed
  <2>3. w \in Tool /\ w # t
    BY <1>3, <1>5, <2>2 DEF Placed, Downloads
  <2> QED
    BY <2>2, <2>3, OthersPlaces
<1>6. LET st == StateOf(t, manifest[t])
      IN  /\ st # None /\ st.path = None
          /\ st.binPath = IF Way[t] = "runtime" THEN place ELSE None
          /\ \A n \in Called(t) : <<DirOf(t), n>> = place => path = <<t, st.version, n>>
  BY <1>2, <1>3, StateFacts DEF Path, BinPath
<1>7. Matches(t, StateOf(t, manifest[t]))'
  BY <1>2, <1>4, <1>5, <1>6 DEF Matches
<1>8. TwoPlaces(t)'
  BY <1>2, <1>4, <1>5 DEF TwoPlaces
<1>9. AtRest(t)' /\ KeepsOwn(t)' /\ WholeOnly(t)'
  BY <1>2, <1>3 DEF Kept, AtRest, KeepsOwn, WholeOnly, Downloads
<1> QED
  BY <1>3, <1>7, <1>8, <1>9 DEF Kept, Progress, Linking

\* What is recorded is what was installed.
LEMMA RecordKeeps ==
    ASSUME Inv, NEW t \in Uncontested, Kept(t), Record(t)
    PROVE  Kept(t)'
PROOF
<1> USE DEF Inv, Typed
<1>1. Install(t)
  BY DEF Install
<1>2. /\ t \in Tool /\ Called(t)' = Called(t) /\ DirOf(t)' = DirOf(t)
      /\ phase = "layer" /\ manifest[t] \in Specs(t)
      /\ UNCHANGED <<manifest, disk, phase>>
      /\ Path(t, manifest[t])' = Path(t, manifest[t])
      /\ BinPath(t, manifest[t])' = BinPath(t, manifest[t])
  BY <1>1, InstallOf
<1>3. /\ at[t] = "record" /\ at'[t] = "done" /\ UNCHANGED <<file, entry>>
      /\ cache'[t] = StateOf(t, manifest[t])
  BY <1>2 DEF Record, Goto, places
<1>4. Matches(t, StateOf(t, manifest[t]))
  BY <1>3 DEF Kept, Progress
<1>5. Matches(t, cache[t])'
  BY <1>2, <1>3, <1>4 DEF Matches
<1>6. TwoPlaces(t)' /\ KeepsOwn(t)'
  BY <1>2, <1>3 DEF Kept, TwoPlaces, KeepsOwn
<1>7. WholeOnly(t)'
  BY <1>2, <1>3, StateFacts DEF Kept, WholeOnly, Downloads, Linking
<1> QED
  BY <1>2, <1>3, <1>5, <1>6, <1>7 DEF Kept, Progress, AtRest, Linking

--------------------------------------------------------------------------------
(***************************************************************************)
(* The steps of the apply, and the theorems.                               *)
(***************************************************************************)

\* What matches a state has entries only in the place that it names, and the
\* file that it names is there.
LEMMA MatchesFacts ==
    ASSUME NEW t \in Tool, NEW st \in States(t) \cup {None}, Matches(t, st)
    PROVE  /\ \A n \in Called(t) : entry[<<DirOf(t), n>>] # None =>
                  st # None /\ <<DirOf(t), n>> = st.binPath
           /\ st # None /\ st.path # None => file[st.path] # "none"
PROOF
  BY DEF Matches

\* What the phases change of a tool that nobody competes with: the states and
\* where its goroutine is.
LEMMA PhasesKeep ==
    ASSUME Inv, NEW t \in Uncontested, Kept(t), Begin \/ EndLayer \/ EndRemovals \/ Stop
    PROVE  Kept(t)'
PROOF
<1> USE DEF Inv, Typed
<1>1. /\ t \in Tool /\ Called(t)' = Called(t) /\ DirOf(t)' = DirOf(t)
      /\ disk[t] \in States(t) \cup {None} /\ cache[t] \in States(t) \cup {None}
  BY DEF Uncontested, Called, DirOf
<1>2. UNCHANGED <<manifest, file, entry>> /\ at'[t] \in {"idle", "reconcile", "remove"}
  BY <1>1 DEF Begin, EndLayer, EndRemovals, Stop, places
<1>3. \A st \in States(t) \cup {None} : (Matches(t, st)' <=> Matches(t, st)) /\ (Needs(t, st)' <=> Needs(t, st))
  BY <1>1, <1>2 DEF Matches, Needs
<1>4. /\ manifest[t] # None => manifest[t] \in Specs(t)
      /\ Path(t, manifest[t])' = Path(t, manifest[t]) /\ BinPath(t, manifest[t])' = BinPath(t, manifest[t])
  BY <1>1, <1>2 DEF Path, BinPath, BinaryName, Resolved
<1>5. Progress(t)'
  BY <1>2 DEF Progress, Linking
<1>6. ASSUME disk'[t] = disk[t]
      PROVE  TwoPlaces(t)' /\ KeepsOwn(t)'
  BY <1>1, <1>2, <1>4, <1>6 DEF Kept, TwoPlaces, KeepsOwn
<1>7. ASSUME disk'[t] = cache[t], Matches(t, cache[t])
      PROVE  TwoPlaces(t)' /\ KeepsOwn(t)'
  <2>1. /\ \A n \in Called(t) : entry[<<DirOf(t), n>>] # None =>
               cache[t] # None /\ <<DirOf(t), n>> = cache[t].binPath
        /\ cache[t] # None /\ cache[t].path # None => file[cache[t].path] # "none"
    BY <1>1, <1>7, MatchesFacts
  <2>2. TwoPlaces(t)'
    BY <1>1, <1>2, <1>7, <2>1 DEF TwoPlaces
  <2>3. KeepsOwn(t)'
    BY <1>1, <1>2, <1>4, <1>7, <2>1, SpecFacts DEF KeepsOwn
  <2> QED
    BY <2>2, <2>3
<1>8. disk'[t] \in {disk[t], cache[t]} /\ cache'[t] \in {disk[t], cache[t]}
  BY <1>1 DEF Begin, EndLayer, EndRemovals, Stop
<1>9. WholeOnly(t)'
  BY <1>2, <1>8 DEF Kept, WholeOnly, Linking, Downloads
<1>10. CASE Begin
  <2>1. phase = "idle" /\ phase' = "layer" /\ disk'[t] = disk[t] /\ at'[t] \in {"idle", "reconcile"}
    BY <1>1, <1>10 DEF Begin
  <2>2. Matches(t, disk[t]) \/ Pending(t)
    BY <2>1 DEF Kept, AtRest
  <2>3. AtRest(t)'
    BY <1>1, <1>2, <1>3, <2>1, <2>2 DEF AtRest, Pending
  <2> QED
    BY <1>5, <1>6, <1>9, <2>1, <2>3 DEF Kept
<1>11. CASE EndLayer
  <2>1. /\ phase = "layer" /\ InLayer(t) /\ at[t] \in {"idle", "done", "failed"}
        /\ disk'[t] = cache[t] /\ cache' = cache
        /\ phase' \in {"idle", "removals"}
        /\ phase' = "removals" =>
              /\ at[t] # "failed"
              /\ at'[t] = IF manifest[t] = None /\ cache[t] # None THEN "remove" ELSE "idle"
    BY <1>1, <1>11 DEF EndLayer, InPhase
  <2>2. CASE at[t] = "done"
    <3>1. Matches(t, cache[t])
      BY <2>2 DEF Kept, AtRest
    <3>2. AtRest(t)'
      BY <1>1, <1>2, <1>3, <2>1, <3>1 DEF AtRest
    <3> QED
      BY <1>5, <1>7, <1>9, <2>1, <3>1, <3>2 DEF Kept
  <2>3. CASE at[t] = "failed"
    <3>1. /\ phase' = "idle" /\ cache[t] = disk[t] /\ manifest[t] # None
          /\ Needs(t, disk[t])
      BY <2>1, <2>3 DEF InLayer
    <3>2. AtRest(t)'
      BY <1>1, <1>2, <1>3, <2>1, <3>1 DEF AtRest, Pending
    <3> QED
      BY <1>5, <1>6, <1>9, <2>1, <3>1, <3>2 DEF Kept
  <2>4. CASE at[t] = "idle"
    <3>1. manifest[t] = None /\ cache[t] = disk[t]
      BY <2>1, <2>4 DEF InLayer, Busy, Linking
    <3>2. Matches(t, disk[t]) \/ disk[t] # None
      BY <2>1, <2>4, <3>1 DEF Kept, AtRest, Pending
    <3>3. AtRest(t)'
      BY <1>1, <1>2, <1>3, <2>1, <3>1, <3>2 DEF AtRest, Pending
    <3> QED
      BY <1>5, <1>6, <1>9, <2>1, <3>1, <3>3 DEF Kept
  <2> QED
    BY <2>1, <2>2, <2>3, <2>4
<1>12. CASE EndRemovals
  <2>1. /\ phase = "removals" /\ at[t] = "idle" /\ phase' = "idle" /\ disk'[t] = cache[t]
        /\ at'[t] = "idle"
    BY <1>1, <1>12 DEF EndRemovals
  <2>2. Matches(t, cache[t])
    BY <2>1 DEF Kept, AtRest
  <2>3. AtRest(t)'
    BY <1>1, <1>3, <2>1, <2>2 DEF AtRest
  <2> QED
    BY <1>5, <1>7, <1>9, <2>1, <2>2, <2>3 DEF Kept
<1>13. CASE Stop
  <2>1. phase \in {"layer", "removals"} /\ phase' = "idle" /\ at'[t] = "idle" /\ disk'[t] = disk[t]
    BY <1>1, <1>13 DEF Stop
  <2>2. Matches(t, disk[t]) \/ Pending(t)
    <3>1. CASE phase = "layer"
      <4>1. InLayer(t)
        BY <1>1, <3>1 DEF InPhase
      <4>2. CASE at[t] \in {"idle", "reconcile"}
        BY <3>1, <4>2 DEF Kept, AtRest
      <4>3. CASE at[t] = "done"
        BY <4>1, <4>3 DEF Kept, AtRest, InLayer, Pending
      <4>4. CASE at[t] \notin {"idle", "reconcile", "done"}
        BY <4>1, <4>4 DEF InLayer, Pending
      <4> QED
        BY <4>2, <4>3, <4>4
    <3>2. CASE phase = "removals"
      <4>1. InRemovals(t)
        BY <1>1, <3>2 DEF InPhase
      <4> QED
        BY <3>2, <4>1 DEF Kept, AtRest, InRemovals, Pending
    <3> QED
      BY <2>1, <3>1, <3>2
  <2>3. AtRest(t)'
    BY <1>1, <1>2, <1>3, <2>1, <2>2 DEF AtRest, Pending
  <2> QED
    BY <1>5, <1>6, <1>9, <2>1, <2>3 DEF Kept
<1> QED
  BY <1>10, <1>11, <1>12, <1>13

\* The user changes a tool whose entries are as recorded, or it is strayed.
LEMMA EditKeeps ==
    ASSUME Inv, NEW t \in Uncontested, Edit(t), t \notin strayed'
    PROVE  Kept(t)'
PROOF
<1> USE DEF Inv, Typed
<1>1. /\ t \in Tool /\ Called(t)' = Called(t) /\ DirOf(t)' = DirOf(t)
      /\ disk[t] \in States(t) \cup {None}
  BY DEF Uncontested, Called, DirOf
<1>2. Matches(t, disk[t])
  BY DEF Edit, AsRecorded
<1>3. /\ phase = "idle" /\ UNCHANGED <<disk, cache, phase, at, file, entry>>
      /\ t \notin strayed
  BY <1>2 DEF Edit, places, AsRecorded
<1>4. at[t] = "idle" /\ Kept(t)
  BY <1>1, <1>3 DEF InPhase, AtIdle
<1>5. /\ \A n \in Called(t) : entry[<<DirOf(t), n>>] # None =>
             disk[t] # None /\ <<DirOf(t), n>> = disk[t].binPath
      /\ disk[t] # None /\ disk[t].path # None => file[disk[t].path] # "none"
  BY <1>1, <1>2, MatchesFacts
<1>6. TwoPlaces(t)'
  BY <1>1, <1>3, <1>5 DEF TwoPlaces
<1>7. AtRest(t)'
  BY <1>1, <1>2, <1>3, <1>4 DEF AtRest, Matches
<1>8. KeepsOwn(t)'
  <2>1. manifest'[t] \in Specs(t) \cup {None}
    BY <1>1, TypeStep DEF Next
  <2>2. manifest'[t] # None => Path(t, manifest'[t]) # None
    BY <1>1, <2>1, SpecFacts
  <2> QED
    BY <1>3, <1>5, <2>2 DEF KeepsOwn, Path, Resolved, BinaryName
<1>9. WholeOnly(t)'
  BY <1>3, <1>4 DEF Kept, WholeOnly, Linking, Downloads
<1> QED
  BY <1>3, <1>4, <1>6, <1>7, <1>8, <1>9 DEF Kept, Progress, Linking

\* A step keeps what is said of each tool that nobody competes with.
LEMMA KeptStep ==
    ASSUME Inv, [Next]_vars, NEW t \in Uncontested, t \notin strayed'
    PROVE  Kept(t)'
PROOF
<1> USE DEF Inv, Typed
<1>1. t \in Tool
  BY DEF Uncontested
<1>2. CASE Begin \/ EndLayer \/ EndRemovals \/ Stop
  <2>1. t \notin strayed
    BY <1>2 DEF Begin, EndLayer, EndRemovals, Stop
  <2> QED
    BY <1>2, <2>1, PhasesKeep
<1>3. CASE Edit(t)
  BY <1>3, EditKeeps
<1>4. ASSUME NEW u \in Tool, u # t, Edit(u)
      PROVE  Kept(t)'
  <2>1. /\ t \notin strayed /\ manifest'[t] = manifest[t]
        /\ UNCHANGED <<disk, cache, phase, at, file, entry>>
    BY <1>1, <1>4 DEF Edit, places
  <2> QED
    BY <1>1, <2>1, KeptSame
<1>5. CASE Install(t) \/ Remove(t)
  <2>1. t \notin strayed
    BY <1>1, <1>5, Frame
  <2> QED
    BY <1>5, <2>1, RemoveKeeps, DownloadKeeps, LinkKeeps, TidyKeeps, CommandKeeps, RecordKeeps DEF Install
<1>6. ASSUME NEW u \in Tool, u # t, Install(u) \/ Remove(u)
      PROVE  Kept(t)'
  <2>1. /\ UNCHANGED <<manifest, phase, disk, strayed>> /\ at'[t] = at[t] /\ cache'[t] = cache[t]
        /\ \A n \in Called(t) : entry'[<<DirOf(t), n>>] = entry[<<DirOf(t), n>>]
        /\ \A p \in Paths : p[1] = t => file'[p] = file[p]
    BY <1>6, OthersKeep
  <2> QED
    BY <2>1, KeptSame
<1>7. CASE UNCHANGED vars
  <2>1. UNCHANGED <<manifest, phase, disk, strayed, at, cache, file, entry>>
    BY <1>7 DEF vars, apply, places
  <2> QED
    BY <2>1, KeptSame
<1> QED
  BY <1>2, <1>3, <1>4, <1>5, <1>6, <1>7, Stops DEF Next, Work

\* An apply succeeds when nothing is left to do.
LEMMA AppliedStep ==
    ASSUME Inv, [Next]_vars
    PROVE  Applied'
PROOF
<1> USE DEF Inv, Typed
<1>1. CASE Begin \/ EndLayer \/ Stop \/ \E t \in Tool : Edit(t)
  BY <1>1 DEF Begin, EndLayer, Stop, Edit, Applied
<1>2. CASE EndRemovals
  <2>1. /\ \A t \in Tool : InRemovals(t) /\ at[t] = "idle"
        /\ disk' = cache /\ manifest' = manifest
    BY <1>2 DEF EndRemovals, InPhase
  <2>2. \A t \in Tool : ~Pending(t)'
    BY <2>1 DEF InRemovals, Pending, Needs
  <2> QED
    BY <2>2 DEF Applied
<1>3. ASSUME NEW t \in Tool, Install(t) \/ Remove(t)
      PROVE  Applied'
  <2>1. phase' # "idle"
    BY <1>3, Frame, Installs, Removes
  <2> QED
    BY <2>1 DEF Applied
<1>4. CASE UNCHANGED vars
  BY <1>4 DEF vars, apply, Applied, Pending, Needs
<1> QED
  BY <1>1, <1>2, <1>3, <1>4, Stops DEF Next, Work

LEMMA InvStep == Inv /\ [Next]_vars => Inv'
PROOF
<1> SUFFICES ASSUME Inv, [Next]_vars PROVE Inv'
  OBVIOUS
<1>1. Typed' /\ InPhase' /\ EntriesNamed' /\ Applied'
  BY TypeStep, PhaseStep, NamedStep, AppliedStep
<1>2. Uncontested' = Uncontested
  BY DEF Uncontested, Called, DirOf
<1>3. \A t \in Uncontested \ strayed' : Kept(t)'
  BY KeptStep
<1> QED
  BY <1>1, <1>2, <1>3 DEF Inv

LEMMA InvInit == Init => Inv
PROOF
<1> SUFFICES ASSUME Init PROVE Inv
  OBVIOUS
<1>1. /\ \A t \in Tool : at[t] = "idle" /\ disk[t] = None
      /\ phase = "idle" /\ cache = disk
      /\ \A e \in Entries : entry[e] = None
  BY DEF Init
<1>2. Typed
  BY DEF Init, Typed, AllSpecs
<1>3. InPhase /\ EntriesNamed /\ Applied
  BY <1>1 DEF Init, InPhase, AtIdle, EntriesNamed, Applied
<1>4. ASSUME NEW t \in Uncontested
      PROVE  Kept(t)
  <2>1. t \in Tool /\ \A n \in Called(t) : <<DirOf(t), n>> \in Entries
    BY CalledNames DEF Uncontested
  <2>2. Matches(t, disk[t])
    BY <1>1, <2>1 DEF Matches
  <2> QED
    BY <1>1, <2>1, <2>2 DEF Kept, TwoPlaces, Progress, AtRest, KeepsOwn, WholeOnly, Linking
<1> QED
  BY <1>2, <1>3, <1>4 DEF Inv

\* After an apply that has succeeded, what state says of t is so.
LEMMA SettledAfterSuccess ==
    ASSUME Inv, phase = "idle", result = "ok", NEW t \in Uncontested \ strayed
    PROVE  Matches(t, disk[t])
PROOF
<1>1. t \in Tool
  BY DEF Uncontested
<1>2. ~Pending(t)
  BY <1>1 DEF Inv, Applied
<1>3. Kept(t)
  BY DEF Inv
<1> QED
  BY <1>2, <1>3 DEF Kept, AtRest

(* In every behaviour, for any tools, names, versions and hashes, after any    *)
(* number of failures and kills: when an apply has succeeded, the entries of a *)
(* tool whose names nobody else may use are what state.json says of it (Install *)
(* and Remove of installer/tool/installer.go, cleanupOldSymlink).              *)
THEOREM EntriesAreRecorded == Spec => []EntriesMatchState
PROOF
<1>1. Inv => EntriesMatchState
  BY SettledAfterSuccess DEF EntriesMatchState, AsRecorded
<1> QED
  BY InvInit, InvStep, <1>1, PTL DEF Spec

(* In every behaviour, with the same freedom: a copy that a kill cut short is  *)
(* never what state.json records for a tool with a hash (validate and Install  *)
(* of installer/tool/installer.go, copyFile of installer/place).               *)
THEOREM PartialIsNeverRecorded == Spec => []PartialNeverRecorded
PROOF
<1>1. Inv => PartialNeverRecorded
  BY DEF Inv, Kept, WholeOnly, PartialNeverRecorded
<1> QED
  BY InvInit, InvStep, <1>1, PTL DEF Spec

\* doctor finds nothing wrong with a tool whose entries are as recorded.
LEMMA DoctorAgrees ==
    ASSUME Inv, NEW t \in Uncontested, Matches(t, disk[t])
    PROVE  /\ StateIssues(t) = {}
           /\ \A n \in Called(t) : <<DirOf(t), n>> \in Unmanaged =>
                 Renamed(t) /\ disk[t].binPath = <<DirOf(t), n>>
PROOF
<1>1. t \in Tool /\ disk[t] \in States(t) \cup {None}
  BY DEF Uncontested, Inv, Typed
<1>2. ASSUME disk[t] # None, disk[t].binPath # None
      PROVE  \E n \in Called(t) :
                /\ disk[t].binPath = <<DirOf(t), n>>
                /\ entry[disk[t].binPath] = <<t, disk[t].version, n>>
                /\ disk[t].path # None => disk[t].path = <<t, disk[t].version, n>>
                /\ entry[disk[t].binPath] # None
  <2>1. PICK n \in Called(t) : disk[t].binPath = <<DirOf(t), n>>
    BY <1>1, <1>2, StateNames
  <2>2. entry[disk[t].binPath] = <<t, disk[t].version, n>>
    BY <1>2, <2>1 DEF Matches
  <2>3. disk[t].path # None => disk[t].path = <<t, disk[t].version, n>>
    BY <1>1, <1>2, <2>1, StateNames
  <2>4. <<t, disk[t].version, n>> # None
    <3>1. PICK s \in Specs(t) : disk[t] = StateOf(t, s)
      BY <1>1, <1>2 DEF States
    <3>2. disk[t].version = Resolved(s) /\ Resolved(s) \in Version
      BY <1>1, <3>1, StateFacts, SpecFacts
    <3>3. n \in Name
      BY <1>1, CalledNames
    <3> QED
      BY <1>1, <3>2, <3>3, PlacementAssumption DEF PlacementAssumption
  <2> QED
    BY <2>1, <2>2, <2>3, <2>4
<1>3. disk[t] # None /\ disk[t].path # None => file[disk[t].path] # "none"
  BY <1>1, MatchesFacts
<1>4. StateIssues(t) = {}
  <2>1. CASE disk[t] = None
    BY <2>1 DEF StateIssues
  <2>2. CASE disk[t] # None /\ disk[t].binPath = None
    BY <1>3, <2>2 DEF StateIssues
  <2>3. CASE disk[t] # None /\ disk[t].binPath # None
    <3>1. entry[disk[t].binPath] # None /\ disk[t].binPath[1] = DirOf(t)
      BY <1>2, <2>3
    <3>2. DirOf(t) = "bin" => disk[t].path # None /\ entry[disk[t].binPath] = disk[t].path
      BY <1>1, <1>2, <2>3, StateNames DEF DirOf
    <3>3. Executable(disk[t].binPath)
      BY <1>3, <2>3, <3>1, <3>2 DEF Executable
    <3> QED
      BY <1>3, <2>3, <3>1, <3>3 DEF StateIssues
  <2> QED
    BY <2>1, <2>2, <2>3
<1>5. ASSUME NEW n \in Called(t), <<DirOf(t), n>> \in Unmanaged
      PROVE  Renamed(t) /\ disk[t].binPath = <<DirOf(t), n>>
  <2>1. entry[<<DirOf(t), n>>] # None /\ ~IsManaged(<<DirOf(t), n>>)
    BY <1>5 DEF Unmanaged, Executable
  <2>2. disk[t] # None /\ disk[t].binPath = <<DirOf(t), n>> /\ <<DirOf(t), n>> # None
    BY <1>1, <1>5, <2>1, MatchesFacts, CalledNames, PlacementAssumption DEF PlacementAssumption, Entries
  <2>3. n # t
    BY <1>1, <2>1, <2>2 DEF IsManaged, DirOf
  <2>4. BinaryName(t, disk[t]) = n
    <3>1. PICK s \in Specs(t) : disk[t] = StateOf(t, s)
      BY <1>1, <2>2 DEF States
    <3>2. disk[t].name = s.name /\ disk[t].binPath = BinPath(t, s)
      BY <1>1, <2>2, <3>1, StateFacts
    <3> QED
      BY <2>2, <3>2 DEF BinPath, BinaryName
  <2> QED
    BY <2>2, <2>3, <2>4 DEF Renamed
<1> QED
  BY <1>4, <1>5

(* In every behaviour, with the same freedom: after an apply that succeeded,   *)
(* doctor reports no tool that nobody competes with as missing, broken or      *)
(* half installed, and no file of tomei's as foreign but that of a tool with a *)
(* name of its own (scanForUnmanaged and checkToolIntegrity of internal/doctor). *)
THEOREM DoctorIsContent == Spec => []HealthyAfterSuccess
PROOF
<1>1. Inv => HealthyAfterSuccess
  BY SettledAfterSuccess, DoctorAgrees DEF HealthyAfterSuccess
<1> QED
  BY InvInit, InvStep, <1>1, PTL DEF Spec

================================================================================
