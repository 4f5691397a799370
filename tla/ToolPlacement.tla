----------------------------- MODULE ToolPlacement -----------------------------
(***************************************************************************)
(* How tools reach the disk.  tool.Installer chooses one of five ways; a   *)
(* download is validated, fetched, copied under the tools directory and    *)
(* linked into the bin directory, which all tools share; a runtime's       *)
(* package manager writes into the runtime's bin directory itself; an      *)
(* installer, or the tool's own commands, put the tool where only they     *)
(* know.                                                                   *)
(*                                                                         *)
(* No two of these file operations are atomic together, tools of a layer   *)
(* run at once, and removals follow when the layer is done.  The process   *)
(* may be killed between any two operations; state.json is then what the   *)
(* last flush wrote.  The user edits the manifest between applies.         *)
(***************************************************************************)
EXTENDS Integers, FiniteSets

CONSTANTS
    Tool,
    Version,
    Latest,     \* a registry tool's version left open
    Newest,     \* the version that Latest resolves to
    Name,       \* names of binaries
    None,
    Way,        \* Way[t]: "download", "registry", "runtime", "installer" or "commands"
    Default,    \* Default[t]: the binary's name unless the spec gives one
    Asked,      \* Asked[t]: the versions the spec may give
    Names,      \* Names[t]: what the spec may give as binaryName, or None
    Digest,     \* Digest[t]: "none", "archive" or "binary": what the checksum's value is of
    Removable,  \* self-managed tools with a remove command
    Fallible,   \* tools whose download or command may fail
    MaxEdits,   \* bound: edits of the manifest
    MaxKills    \* bound: kills of the process

ASSUME PlacementAssumption ==
    /\ None \notin Tool \cup Name \cup Version
    /\ None \notin Tool \X Version \X Name
    /\ None \notin {"bin", "runtime"} \X Name
    /\ None \notin [version : Version \cup {Latest}, name : Name \cup {None}]
    /\ None \notin [spec : Version \cup {Latest}, version : Version, name : Name \cup {None},
                    path : (Tool \X Version \X Name) \cup {None},
                    binPath : ({"bin", "runtime"} \X Name) \cup {None}]
    /\ Latest \notin Version /\ Newest \in Version
    /\ Way \in [Tool -> {"download", "registry", "runtime", "installer", "commands"}]
    /\ Default \in [Tool -> Name]
    /\ \A t \in Tool :
        /\ Names[t] \subseteq Name \cup {None}
        /\ Asked[t] \subseteq (IF Way[t] = "registry" THEN Version \cup {Latest} ELSE Version)
    /\ Digest \in [Tool -> {"none", "archive", "binary"}]
    /\ MaxEdits \in Nat /\ MaxKills \in Nat

VARIABLES
    manifest,  \* the spec of each tool, or None
    disk,      \* the tools of state.json
    cache,     \* the engine's copy
    file,      \* toolsDir/tool/version/binary: "none", "partial" or "whole"
    entry,     \* entries of the bin directories: the path a link holds, or the
               \* binary that a package manager wrote
    managed,   \* the version an installer or the tool's commands installed
    phase,     \* "idle", "layer" or "removals"
    at,        \* where each tool's goroutine is
    result,    \* how the apply of this manifest ended: "none", "ok", "error" or "killed"
    strayed,   \* history: tools whose spec the user changed when their entries were
               \* not what state.json said
    edits, kills

apply == <<disk, cache, phase, at, result>>
places == <<file, entry, managed>>
vars == <<manifest, apply, places, strayed, edits, kills>>

--------------------------------------------------------------------------------
(***************************************************************************)
(* Data.                                                                   *)
(***************************************************************************)

Downloads == {t \in Tool : Way[t] \in {"download", "registry"}}

Specs(t) == [version : Asked[t], name : Names[t]]

Paths == Tool \X Version \X Name

\* The directory a tool's binary is found in: tomei's bin directory, or the
\* toolBinPath of its runtime.
DirOf(t) == IF Way[t] = "runtime" THEN "runtime" ELSE "bin"

Entries == {"bin", "runtime"} \X Name

\* The spec's name, then the registry's, then the resource's.
BinaryName(t, s) == IF s.name # None THEN s.name ELSE Default[t]

Resolved(s) == IF s.version = Latest THEN Newest ELSE s.version

Path(t, s) == <<t, Resolved(s), BinaryName(t, s)>>

BinPath(t, s) == <<DirOf(t), BinaryName(t, s)>>

\* buildState and buildDelegationState: what state keeps of an installed tool.
StateOf(t, s) ==
    [spec |-> s.version, version |-> Resolved(s), name |-> s.name,
     path |-> IF t \in Downloads THEN Path(t, s) ELSE None,
     binPath |-> IF t \in Downloads \/ Way[t] = "runtime" THEN BinPath(t, s) ELSE None]

NeedsUpdate(t) ==
    \/ cache[t] = None
    \/ manifest[t].version # (IF cache[t].spec = Latest THEN Latest ELSE cache[t].version)
    \/ manifest[t].name # cache[t].name

\* OldBinPathFromContext: the place of the installed version, on an upgrade.
OldBinPath(t) == IF cache[t] = None THEN None ELSE cache[t].binPath

\* Validate: an existing binary is compared with the hash the spec gives for
\* what is downloaded, which is the binary only when the download is raw.
Validate_ByName(t) == IF file[Path(t, manifest[t])] = "none" THEN "install" ELSE "skip"

Validate(t) ==
    LET found == file[Path(t, manifest[t])]
    IN  IF found = "none" THEN "install"
        ELSE IF Digest[t] = "none" \/ (Digest[t] = "binary" /\ found = "whole") THEN "skip"
        ELSE "replace"

\* The names tool t may go by, and the tools no other tool of the same directory
\* shares a name with.
Called(t) == {IF n = None THEN Default[t] ELSE n : n \in Names[t]}

Uncontested ==
    {t \in Tool : \A u \in Tool \ {t} : DirOf(u) = DirOf(t) => Called(t) \cap Called(u) = {}}

\* The entries of t are what a state says of it, the recorded version at the
\* recorded place and nothing elsewhere, and the recorded file is there.
Matches(t, st) ==
    /\ \A n \in Called(t) :
          entry[<<DirOf(t), n>>] =
              IF st # None /\ st.binPath = <<DirOf(t), n>> THEN <<t, st.version, n>> ELSE None
    /\ st # None /\ st.path # None => file[st.path] # "none"

AsRecorded(t) == Matches(t, disk[t])

Init ==
    /\ manifest \in {m \in [Tool -> UNION {Specs(t) : t \in Tool} \cup {None}] :
                        \A t \in Tool : m[t] \in Specs(t) \cup {None}}
    /\ disk = [t \in Tool |-> None]
    /\ cache = disk
    /\ file = [p \in Paths |-> "none"]
    /\ entry = [e \in Entries |-> None]
    /\ managed = [t \in Tool |-> None]
    /\ phase = "idle"
    /\ at = [t \in Tool |-> "idle"]
    /\ result = "none"
    /\ strayed = {}
    /\ edits = 0
    /\ kills = 0

--------------------------------------------------------------------------------
(***************************************************************************)
(* The apply.                                                              *)
(***************************************************************************)

\* The user changes one tool of the manifest.
Edit(t) ==
    /\ phase = "idle"
    /\ edits < MaxEdits
    /\ \E s \in Specs(t) \cup {None} : s # manifest[t] /\ manifest' = [manifest EXCEPT ![t] = s]
    /\ strayed' = IF AsRecorded(t) THEN strayed ELSE strayed \cup {t}
    /\ edits' = edits + 1
    /\ result' = "none"
    /\ UNCHANGED <<disk, cache, phase, at, places, kills>>

Begin ==
    /\ phase = "idle"
    /\ phase' = "layer"
    /\ cache' = disk
    /\ at' = [t \in Tool |-> IF manifest[t] # None THEN "reconcile" ELSE "idle"]
    /\ result' = "none"
    /\ UNCHANGED <<manifest, disk, places, strayed, edits, kills>>

Goto(t, label) == at' = [at EXCEPT ![t] = label]

\* Reconcile the tool and dispatch on its kind.
Reconcile(t) ==
    /\ at[t] = "reconcile"
    /\ Goto(t, IF ~NeedsUpdate(t) THEN "done"
               ELSE IF t \in Downloads
               THEN CASE Validate(t) = "install" -> "fetch"
                      [] Validate(t) = "skip" -> "unlink"
                      [] Validate(t) = "replace" -> "failed"  \* Force is never set
               ELSE "command")
    /\ UNCHANGED <<manifest, disk, cache, phase, result, places, strayed, edits, kills>>

\* Resolution in the registry, download, verification and extraction work in a
\* temporary directory; then copyFile truncates the destination.
Fetch(t) ==
    /\ at[t] = "fetch"
    /\ Goto(t, "copy")
    /\ file' = [file EXCEPT ![Path(t, manifest[t])] = "partial"]
    /\ UNCHANGED <<manifest, disk, cache, phase, result, entry, managed, strayed, edits, kills>>

InstallFails(t) ==
    /\ at[t] \in {"fetch", "command"}
    /\ t \in Fallible
    /\ Goto(t, "failed")
    /\ UNCHANGED <<manifest, disk, cache, phase, result, places, strayed, edits, kills>>

Copy(t) ==
    /\ at[t] = "copy"
    /\ Goto(t, "unlink")
    /\ file' = [file EXCEPT ![Path(t, manifest[t])] = "whole"]
    /\ UNCHANGED <<manifest, disk, cache, phase, result, entry, managed, strayed, edits, kills>>

\* Symlink removes what is at the link's place, whoever put it there...
Unlink_Kept(t) ==
    /\ at[t] = "unlink"
    /\ IF file[Path(t, manifest[t])] = "none" THEN Goto(t, "failed") ELSE Goto(t, "link")
    /\ UNCHANGED <<manifest, disk, cache, phase, result, places, strayed, edits, kills>>

Unlink(t) ==
    /\ at[t] = "unlink"
    /\ IF file[Path(t, manifest[t])] = "none"
       THEN Goto(t, "failed") /\ UNCHANGED entry
       ELSE /\ Goto(t, "link")
            /\ entry' = [entry EXCEPT ![BinPath(t, manifest[t])] = None]
    /\ UNCHANGED <<manifest, disk, cache, phase, result, file, managed, strayed, edits, kills>>

\* ... and then creates the link, unless another tool has been faster.
Link(t) ==
    LET place == BinPath(t, manifest[t])
    IN  /\ at[t] = "link"
        /\ IF entry[place] # None
           THEN Goto(t, "failed") /\ UNCHANGED entry
           ELSE /\ Goto(t, IF OldBinPath(t) \in {None, place} THEN "record" ELSE "tidyTarget")
                /\ entry' = [entry EXCEPT ![place] = Path(t, manifest[t])]
        /\ UNCHANGED <<manifest, disk, cache, phase, result, file, managed, strayed, edits, kills>>

\* cleanupOldSymlink removes what the old link points to now...
TidyTarget(t) ==
    LET target == entry[OldBinPath(t)]
    IN  /\ at[t] = "tidyTarget"
        /\ Goto(t, "tidyLink")
        /\ file' = IF target = None THEN file ELSE [file EXCEPT ![target] = "none"]
        /\ UNCHANGED <<manifest, disk, cache, phase, result, entry, managed, strayed, edits, kills>>

\* ... and then the old link.
TidyLink(t) ==
    /\ at[t] = "tidyLink"
    /\ Goto(t, "record")
    /\ entry' = [entry EXCEPT ![OldBinPath(t)] = None]
    /\ UNCHANGED <<manifest, disk, cache, phase, result, file, managed, strayed, edits, kills>>

\* A package manager installs, and the binary under the old name is removed;
\* an installer or the tool's commands install.
RunCommand(t) ==
    LET s == manifest[t]
        renamed == OldBinPath(t) \notin {None, BinPath(t, s)}
    IN  /\ at[t] = "command"
        /\ Goto(t, "record")
        /\ entry' = IF Way[t] # "runtime" THEN entry
                    ELSE [e \in Entries |-> IF e = BinPath(t, s) THEN Path(t, s)
                                            ELSE IF renamed /\ e = OldBinPath(t) THEN None
                                            ELSE entry[e]]
        /\ managed' = IF Way[t] = "runtime" THEN managed ELSE [managed EXCEPT ![t] = Resolved(s)]
        /\ UNCHANGED <<manifest, disk, cache, phase, result, file, strayed, edits, kills>>

Record(t) ==
    /\ at[t] = "record"
    /\ Goto(t, "done")
    /\ cache' = [cache EXCEPT ![t] = StateOf(t, manifest[t])]
    /\ UNCHANGED <<manifest, disk, phase, result, places, strayed, edits, kills>>

Install(t) ==
    \/ Reconcile(t) \/ Fetch(t) \/ InstallFails(t) \/ Copy(t) \/ Unlink(t) \/ Link(t)
    \/ TidyTarget(t) \/ TidyLink(t) \/ RunCommand(t) \/ Record(t)

\* The layer's flush, and the removals, unless a tool has failed.
EndLayer ==
    /\ phase = "layer"
    /\ \A t \in Tool : at[t] \in {"idle", "done", "failed"}
    /\ disk' = cache
    /\ LET failed == \E t \in Tool : at[t] = "failed"
       IN  /\ phase' = IF failed THEN "idle" ELSE "removals"
           /\ result' = IF failed THEN "error" ELSE result
           /\ at' = [t \in Tool |-> IF ~failed /\ manifest[t] = None /\ cache[t] # None
                                    THEN "remove" ELSE "idle"]
    /\ UNCHANGED <<manifest, cache, places, strayed, edits, kills>>

\* Remove goes by what state says: the version's directory, and the place in
\* the bin directory whatever is there now.  A tool that an installer installed
\* has neither; a self-managed one has its remove command, if any.
Remove_KeepLink(t) ==
    /\ at[t] = "remove"
    /\ Goto(t, "idle")
    /\ LET st == cache[t]
       IN  /\ file' = IF st.path = None THEN file
                      ELSE [p \in Paths |-> IF p[1] = t /\ p[2] = st.version
                                            THEN "none" ELSE file[p]]
           /\ entry' = entry
           /\ managed' = IF t \in Removable THEN [managed EXCEPT ![t] = None] ELSE managed
    /\ cache' = [cache EXCEPT ![t] = None]
    /\ UNCHANGED <<manifest, disk, phase, result, strayed, edits, kills>>

Remove(t) ==
    /\ at[t] = "remove"
    /\ Goto(t, "idle")
    /\ LET st == cache[t]
       IN  /\ file' = IF st.path = None THEN file
                      ELSE [p \in Paths |-> IF p[1] = t /\ p[2] = st.version
                                            THEN "none" ELSE file[p]]
           /\ entry' = IF st.binPath = None THEN entry ELSE [entry EXCEPT ![st.binPath] = None]
           /\ managed' = IF t \in Removable THEN [managed EXCEPT ![t] = None] ELSE managed
    /\ cache' = [cache EXCEPT ![t] = None]
    /\ UNCHANGED <<manifest, disk, phase, result, strayed, edits, kills>>

\* The remove command fails, or the version's directory cannot be deleted: nothing
\* of this phase is saved.
RemoveFails(t) ==
    /\ at[t] = "remove"
    /\ t \in Fallible \cap (Removable \cup Downloads)
    /\ phase' = "idle"
    /\ at' = [u \in Tool |-> "idle"]
    /\ result' = "error"
    /\ cache' = disk
    /\ UNCHANGED <<manifest, disk, places, strayed, edits, kills>>

EndRemovals ==
    /\ phase = "removals"
    /\ \A t \in Tool : at[t] = "idle"
    /\ disk' = cache
    /\ phase' = "idle"
    /\ result' = "ok"
    /\ UNCHANGED <<manifest, cache, at, places, strayed, edits, kills>>

Kill ==
    /\ phase # "idle"
    /\ kills < MaxKills
    /\ kills' = kills + 1
    /\ phase' = "idle"
    /\ at' = [t \in Tool |-> "idle"]
    /\ result' = "killed"
    /\ cache' = disk
    /\ UNCHANGED <<manifest, disk, places, strayed, edits>>

Work == Begin \/ EndLayer \/ EndRemovals \/ \E t \in Tool : Install(t) \/ Remove(t) \/ RemoveFails(t)

Next == Work \/ Kill \/ \E t \in Tool : Edit(t)

Spec == Init /\ [][Next]_vars

\* The user applies until an apply has succeeded; goroutines run; what fails
\* does not fail for ever.
FairSpec ==
    /\ Spec
    /\ WF_vars(Work /\ ~(result = "ok" /\ phase = "idle"))
    /\ \A t \in Fallible : SF_vars(Fetch(t) \/ RunCommand(t) \/ Remove(t))

--------------------------------------------------------------------------------
(***************************************************************************)
(* Properties.                                                             *)
(***************************************************************************)

\* Every variable has its type.
TypeOK ==
    /\ \A t \in Tool : manifest[t] \in Specs(t) \cup {None}
    /\ \A p \in Paths : file[p] \in {"none", "partial", "whole"}
    /\ \A e \in Entries : entry[e] \in Paths \cup {None}
    /\ \A t \in Tool : managed[t] \in Version \cup {None}
    /\ phase \in {"idle", "layer", "removals"}
    /\ result \in {"none", "ok", "error", "killed"}
    /\ strayed \subseteq Tool

\* After an apply that succeeded, through upgrades, renames, kills and retries,
\* each entry of a bin directory that no two tools compete for is exactly what
\* state.json says: the recorded tool at its recorded version, or nothing; and
\* the file is there.  Nobody promises it of a tool whose install or removal was
\* cut short and that the user then changed: no later apply knows what the first
\* has left.
EntriesMatchState ==
    (phase = "idle" /\ result = "ok") => \A t \in Uncontested \ strayed : AsRecorded(t)

\* A copy that a kill cut short is never taken for an installed tool when the
\* spec gives a hash, in this apply or in any later one.
PartialNeverRecorded ==
    \A t \in (Downloads \cap Uncontested) \ strayed :
        (Digest[t] # "none" /\ disk[t] # None) => file[disk[t].path] # "partial"

\* A hash stands against a binary that an earlier apply left in its place.
Stuck(t) == manifest[t] # None /\ t \in Downloads /\ NeedsUpdate(t) /\ Validate(t) = "replace"

\* However applies fail and are killed, retries end: with the manifest applied,
\* or with a binary whose hash is not the spec's and that nothing replaces.
RetriesConverge == []<>(result = "ok") \/ <>[](\E t \in Tool : Stuck(t))

================================================================================
