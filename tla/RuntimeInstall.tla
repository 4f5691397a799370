----------------------------- MODULE RuntimeInstall -----------------------------
(***************************************************************************)
(* How runtimes reach the disk.  A downloaded runtime is moved as a whole  *)
(* into runtimesDir/name/version, or copied there when that is another     *)
(* device, and its binaries are linked into its bin directory one by one;  *)
(* a directory that exists is taken for an installed version.  A delegated *)
(* runtime is installed by its own bootstrap command, into that bin        *)
(* directory or into runtimesDir.  Upgrades leave old versions where they  *)
(* are; a removal takes away the links first.                              *)
(*                                                                         *)
(* Runtimes of a layer are installed at once, and removed one by one: the  *)
(* first removal that fails ends the apply, and what it has removed so far *)
(* is not written to state.json.  The process may be killed between any    *)
(* two operations, and the user edits the manifest.                        *)
(***************************************************************************)
EXTENDS Integers, Sequences

CONSTANTS
    Runtime,
    Version,
    Alias,        \* a version left open, like "stable"
    Asked,        \* Asked[r]: the versions its spec may ask for
    Newest,       \* what Alias resolves to
    Binary,
    None,
    Way,          \* Way[r]: "download", "binDir" or "runtimesDir": for a delegated
                  \* runtime, where its bootstrap command puts the binaries
    Binaries,     \* Binaries[r]: the binaries of its spec, in order
    BinDir,       \* BinDir[r]: its binDir or toolBinPath
    Removable,    \* delegated runtimes with a remove command
    Fallible,     \* runtimes whose download, command or removal may fail
    MaxEdits,     \* bound: edits of the manifest
    MaxKills      \* bound: kills of the process

ASSUME RuntimeAssumption ==
    /\ Alias \notin Version /\ Newest \in Version
    /\ None \notin Version \cup {Alias}
    /\ None \notin [spec : Version \cup {Alias}, version : Version \cup {Alias}, path : BOOLEAN]
    /\ None \notin Runtime \X (Version \cup {Alias, None})
    /\ \A r \in Runtime : Asked[r] \subseteq Version \cup {Alias}
    /\ Way \in [Runtime -> {"download", "binDir", "runtimesDir"}]
    /\ Binaries \in [Runtime -> Seq(Binary) \ {<<>>}]
    /\ MaxEdits \in Nat /\ MaxKills \in Nat

VARIABLES
    manifest,     \* the version each runtime's spec asks for, or None
    disk,         \* the runtimes of state.json
    cache,        \* the engine's copy
    otherDevice,  \* runtimesDir is not on the device of the temporary directory
    dir,          \* runtimesDir/runtime/version: "none", "partial" or "whole"
    link,         \* what is in the bin directories: a link to a version's directory,
                  \* a file that a bootstrap command wrote, or None
    phase,        \* "idle", "layer" or "removals"
    at,           \* where each runtime's goroutine is
    todo,         \* binaries still to be linked
    target,       \* the version each install has resolved
    result,       \* how the apply of this manifest ended
    cut,          \* history: runtimes with links that state may not know, or without links
                  \* that it lists, neither recorded nor removed since
    halved,       \* history: version directories whose copy or removal was cut short
    edits, kills

store == <<disk, cache, phase, result>>
places == <<dir, link>>
vars == <<manifest, otherDevice, store, places, at, todo, target, cut, halved, edits, kills>>

Dirs == Runtime \X (Version \cup {Alias})

Manifests == {m \in [Runtime -> Version \cup {Alias, None}] : \A r \in Runtime : m[r] \in Asked[r] \cup {None}}

Places == {<<BinDir[r], b>> : r \in Runtime, b \in Binary}

\* A file in the bin directory that no link of tomei's is.
Own(r) == <<r, None>>

IsLink(x) == x # None /\ x[2] # None

\* specVersionChanged, for an exact version and for one left open.
NeedsUpdate(r) == cache[r] # None => cache[r].spec # manifest[r]

Init ==
    /\ manifest \in Manifests
    /\ disk = [r \in Runtime |-> None]
    /\ cache = disk
    /\ otherDevice \in BOOLEAN
    /\ dir = [d \in Dirs |-> "none"]
    /\ link = [p \in Places |-> None]
    /\ phase = "idle"
    /\ at = [r \in Runtime |-> "idle"]
    /\ todo = [r \in Runtime |-> <<>>]
    /\ target = [r \in Runtime |-> None]
    /\ result = "none"
    /\ cut = {}
    /\ halved = {}
    /\ edits = 0
    /\ kills = 0

--------------------------------------------------------------------------------
Edit(r) ==
    /\ phase = "idle"
    /\ edits < MaxEdits
    /\ \E v \in Asked[r] \cup {None} : v # manifest[r] /\ manifest' = [manifest EXCEPT ![r] = v]
    /\ edits' = edits + 1
    /\ result' = "none"
    /\ UNCHANGED <<otherDevice, disk, cache, phase, places, at, todo, target, cut, halved, kills>>

Begin ==
    /\ phase = "idle"
    /\ phase' = "layer"
    /\ cache' = disk
    /\ at' = [r \in Runtime |-> IF manifest[r] # None THEN "reconcile" ELSE "idle"]
    /\ result' = "none"
    /\ UNCHANGED <<manifest, otherDevice, disk, places, todo, target, cut, halved, edits, kills>>

Goto(r, label) == at' = [at EXCEPT ![r] = label]

Still == UNCHANGED <<manifest, otherDevice, disk, phase, result, edits, kills>>

\* The goroutines have ended, and what they knew is gone.
Forget ==
    /\ todo' = [r \in Runtime |-> <<>>]
    /\ target' = [r \in Runtime |-> None]

SameCut == UNCHANGED <<cut, halved>>

Reconcile_DirIsEnough(r) ==
    /\ at[r] = "reconcile"
    /\ IF ~NeedsUpdate(r)
       THEN Goto(r, "done") /\ UNCHANGED <<todo, target>>
       ELSE LET v == IF manifest[r] = Alias THEN Newest ELSE manifest[r]
            IN  /\ target' = [target EXCEPT ![r] = v]
                /\ todo' = [todo EXCEPT ![r] = Binaries[r]]
                /\ Goto(r, IF Way[r] # "download" THEN "bootstrap"
                           ELSE IF dir[<<r, v>>] # "none" THEN "record" ELSE "fetch")
    /\ UNCHANGED <<cache, places>> /\ SameCut /\ Still

\* Reconcile, resolve the version, and look whether it is there.  The first
\* bootstrap of a runtime goes on without a resolved version.
Reconcile(r) ==
    /\ at[r] = "reconcile"
    /\ IF ~NeedsUpdate(r)
       THEN Goto(r, "done") /\ UNCHANGED <<todo, target>>
       ELSE \E v \in {IF manifest[r] = Alias THEN Newest ELSE manifest[r]}
                     \cup (IF Way[r] # "download" /\ cache[r] = None THEN {manifest[r]} ELSE {}) :
                /\ target' = [target EXCEPT ![r] = v]
                /\ todo' = [todo EXCEPT ![r] = Binaries[r]]
                /\ Goto(r, IF Way[r] # "download" THEN "bootstrap"
                           ELSE IF dir[<<r, v>>] # "none" THEN "unlink" ELSE "fetch")
    /\ UNCHANGED <<cache, places>> /\ SameCut /\ Still

\* Resolution, download, verification, extraction, or a command fail.
InstallFails(r) ==
    /\ at[r] \in {"reconcile", "fetch", "bootstrap"}
    /\ r \in Fallible /\ manifest[r] # None /\ NeedsUpdate(r)
    /\ Goto(r, "failed")
    /\ UNCHANGED <<cache, places, todo, target>> /\ SameCut /\ Still

\* The extracted root, found in a temporary directory, is renamed; or the copy
\* begins.
Move(r) ==
    /\ at[r] = "fetch"
    /\ Goto(r, IF otherDevice THEN "copy" ELSE "unlink")
    /\ dir' = [dir EXCEPT ![<<r, target[r]>>] = IF otherDevice THEN "partial" ELSE "whole"]
    /\ UNCHANGED <<cache, link, todo, target>> /\ SameCut /\ Still

Copy(r) ==
    /\ at[r] = "copy"
    /\ Goto(r, "unlink")
    /\ dir' = [dir EXCEPT ![<<r, target[r]>>] = "whole"]
    /\ UNCHANGED <<cache, link, todo, target>> /\ SameCut /\ Still

CopyFails(r) ==
    /\ at[r] = "copy" /\ r \in Fallible
    /\ Goto(r, "failed")
    /\ halved' = halved \cup {<<r, target[r]>>}
    /\ UNCHANGED <<cache, places, todo, target, cut>> /\ Still

\* Links a binary of r may need, and whether os.Stat finds something there.
Ours(r) == {<<BinDir[r], Binaries[r][i]>> : i \in DOMAIN Binaries[r]}

Found(x) == x # None /\ (IsLink(x) => dir[x] # "none")

\* The bootstrap or update command, its check, and a look into the bin directory:
\* links are made only when a binary is not there, whoever put it there.
Bootstrap(r) ==
    /\ at[r] = "bootstrap"
    /\ dir' = IF Way[r] = "runtimesDir" THEN [dir EXCEPT ![<<r, target[r]>>] = "whole"] ELSE dir
    /\ link' = [p \in Places |-> IF Way[r] = "binDir" /\ p \in Ours(r) THEN Own(r) ELSE link[p]]
    /\ IF \A p \in Ours(r) : Found(link'[p])
       THEN Goto(r, "record")
       ELSE Goto(r, "unlink")
    /\ UNCHANGED <<cache, todo, target>> /\ SameCut /\ Still

\* createSymlinks, one binary after the other: what is at the link's place goes,
\* whosever it is...
Unlink(r) ==
    /\ at[r] = "unlink" /\ todo[r] # <<>>
    /\ dir[<<r, target[r]>>] # "none"
    /\ Goto(r, "link")
    /\ link' = [link EXCEPT ![<<BinDir[r], Head(todo[r])>>] = None]
    /\ UNCHANGED <<cache, dir, todo, target>> /\ SameCut /\ Still

\* ... and the link is made.
Link(r) ==
    LET place == <<BinDir[r], Head(todo[r])>>
    IN  /\ at[r] = "link"
        /\ link[place] = None
        /\ link' = [link EXCEPT ![place] = <<r, target[r]>>]
        /\ todo' = [todo EXCEPT ![r] = Tail(@)]
        /\ Goto(r, IF Len(todo[r]) = 1 THEN "record" ELSE "unlink")
        /\ UNCHANGED <<cache, dir, target>> /\ SameCut /\ Still

\* A directory that is not whole may lack the binary; another runtime may have
\* made the link first.
LinkFails(r) ==
    /\ \/ at[r] = "unlink" /\ dir[<<r, target[r]>>] # "whole"
       \/ at[r] = "link" /\ link[<<BinDir[r], Head(todo[r])>>] # None
    /\ Goto(r, "failed")
    /\ cut' = cut \cup {r}
    /\ UNCHANGED <<cache, places, todo, target, halved>> /\ Still

\* buildStateResolved: a delegated runtime whose binaries were found before any
\* was linked has no install path.
Record(r) ==
    /\ at[r] = "record"
    /\ Goto(r, "done")
    /\ cut' = cut \ {r}
    /\ cache' = [cache EXCEPT ![r] =
          [spec |-> manifest[r], version |-> target[r],
           path |-> Way[r] = "download" \/ todo[r] = <<>>]]
    /\ UNCHANGED <<places, todo, target, halved>> /\ Still

Install(r) ==
    \/ Reconcile(r) \/ InstallFails(r) \/ Move(r) \/ Copy(r) \/ CopyFails(r) \/ Bootstrap(r)
    \/ Unlink(r) \/ Link(r) \/ LinkFails(r) \/ Record(r)

\* The layer's flush, and the removals, unless a runtime has failed.
EndLayer ==
    /\ phase = "layer"
    /\ \A r \in Runtime : at[r] \in {"idle", "done", "failed"}
    /\ disk' = cache
    /\ LET failed == \E r \in Runtime : at[r] = "failed"
       IN  /\ phase' = IF failed THEN "idle" ELSE "removals"
           /\ result' = IF failed THEN "error" ELSE result
           /\ at' = [r \in Runtime |-> IF ~failed /\ manifest[r] = None /\ cache[r] # None
                                       THEN "remove" ELSE "idle"]
    /\ Forget
    /\ UNCHANGED <<manifest, otherDevice, cache, places, cut, halved, edits, kills>>

Remove_FirstLinkOnly(r) ==
    /\ at[r] = "remove" /\ \A q \in Runtime : at[q] # "removeFiles"
    /\ Goto(r, "removeFiles")
    /\ link' = [link EXCEPT ![<<BinDir[r], Head(Binaries[r])>>] = None]
    /\ UNCHANGED <<cache, dir, todo, target>> /\ SameCut /\ Still

\* The links go first: a downloaded runtime's whatever they are, a delegated
\* runtime's only when they are links.
Remove(r) ==
    /\ at[r] = "remove" /\ \A q \in Runtime : at[q] # "removeFiles"
    /\ Goto(r, "removeFiles")
    /\ link' = [p \in Places |-> IF p \in Ours(r) /\ (Way[r] = "download" \/ IsLink(link[p]))
                                 THEN None ELSE link[p]]
    /\ UNCHANGED <<cache, dir, todo, target>> /\ SameCut /\ Still

\* Then the version's directory, or what the remove command removes.
RemoveFiles(r) ==
    /\ at[r] = "removeFiles"
    /\ Goto(r, "idle")
    /\ dir' = [d \in Dirs |->
                 IF \/ Way[r] = "download" /\ d = <<r, cache[r].version>>
                    \/ Way[r] # "download" /\ r \in Removable /\ d[1] = r
                 THEN "none" ELSE dir[d]]
    /\ link' = [p \in Places |-> IF r \in Removable /\ link[p] = Own(r) THEN None ELSE link[p]]
    /\ cache' = [cache EXCEPT ![r] = None]
    /\ cut' = cut \ {r}
    /\ halved' = {d \in halved : dir'[d] # "none"}
    /\ UNCHANGED <<todo, target>> /\ Still

EndRemovals ==
    /\ phase = "removals"
    /\ \A r \in Runtime : at[r] = "idle"
    /\ disk' = cache
    /\ phase' = "idle"
    /\ result' = "ok"
    /\ UNCHANGED <<manifest, otherDevice, cache, places, at, todo, target, cut, halved, edits, kills>>

\* The directories that os.RemoveAll is taking away.
Going == {<<r, cache[r].version>> : r \in {q \in Runtime : at[q] = "removeFiles" /\ Way[q] = "download"}}

\* The process ends without a flush: what it has linked and removed since the
\* last one stays, but not in state.json.
Abandon ==
    /\ phase' = "idle"
    /\ at' = [r \in Runtime |-> "idle"]
    /\ cache' = disk
    /\ Forget
    /\ cut' = cut \cup {r \in Runtime :
                           \/ at[r] \in {"unlink", "link", "record", "removeFiles"}
                           \/ cache[r] # disk[r]}
    /\ \E part \in SUBSET {d \in Going : dir[d] # "none"} :
          /\ dir' = [d \in Dirs |-> IF d \in part THEN "partial" ELSE dir[d]]
          /\ halved' = halved \cup part \cup {<<r, target[r]>> : r \in {q \in Runtime : at[q] = "copy"}}
    /\ UNCHANGED <<manifest, otherDevice, disk, link, edits>>

\* os.RemoveAll, or the remove command, fails when the links are gone, and
\* executeRemovals returns.
RemoveFilesFails(r) ==
    /\ at[r] = "removeFiles"
    /\ r \in Fallible /\ (Way[r] = "download" \/ r \in Removable)
    /\ Abandon
    /\ result' = "error"
    /\ UNCHANGED kills

\* A tool or a repository could not be removed before, or the last flush fails.
RemovalsFail ==
    /\ phase = "removals" /\ Fallible # {}
    /\ \A r \in Runtime : at[r] # "removeFiles"
    /\ cache = disk \/ \A r \in Runtime : at[r] = "idle"
    /\ Abandon
    /\ result' = "error"
    /\ UNCHANGED kills

Kill ==
    /\ phase # "idle"
    /\ kills < MaxKills
    /\ kills' = kills + 1
    /\ result' = "killed"
    /\ Abandon

Next ==
    \/ Begin \/ EndLayer \/ EndRemovals \/ RemovalsFail \/ Kill
    \/ \E r \in Runtime : Edit(r) \/ Install(r) \/ Remove(r) \/ RemoveFiles(r) \/ RemoveFilesFails(r)

Spec == Init /\ [][Next]_vars

--------------------------------------------------------------------------------
\* Every variable has its type.
TypeOK ==
    /\ manifest \in Manifests
    /\ dir \in [Dirs -> {"none", "partial", "whole"}]
    /\ \A p \in Places : link[p] \in Dirs \cup {Own(r) : r \in Runtime} \cup {None}
    /\ phase \in {"idle", "layer", "removals"}
    /\ result \in {"none", "ok", "error", "killed"}
    /\ cut \subseteq Runtime /\ halved \subseteq Dirs

\* No link ever leads to a directory that is not there: through upgrades,
\* downgrades to a version whose directory was left, kills, and removals, also
\* of another runtime that has a binary of the same name.
NoDanglingLink == \A p \in Places : IsLink(link[p]) => dir[link[p]] # "none"

\* The links of r that no other runtime makes too.
Alone(r) == Ours(r) \ UNION {Ours(q) : q \in Runtime \ {r}}

\* After an apply that succeeded, each binary whose name only one runtime has
\* is what state.json says: linked to the recorded version, whose directory
\* is whole unless its copy or its removal was cut short once (a directory that
\* exists is taken for an installed version); and gone when the runtime is.  This
\* is not said of a runtime whose install or removal was cut short by a kill, by
\* a failed link or by a removal that failed, until it is recorded again or
\* removed: state knows nothing of the links made or removed so far.
\* A runtime whose bootstrap writes to runtimesDir only has some link: after an
\* update its old ones are found, and kept.
LinksMatchState ==
    (phase = "idle" /\ result = "ok") =>
        \A r \in Runtime \ cut : \A p \in Alone(r) :
            IF disk[r] # None
            THEN CASE Way[r] = "download" ->
                        /\ link[p] = <<r, disk[r].version>>
                        /\ dir[link[p]] = "whole" \/ link[p] \in halved
                   [] Way[r] = "binDir" -> link[p] = Own(r)
                   [] OTHER -> Found(link[p])
            ELSE link[p] = None \/ (link[p] = Own(r) /\ r \notin Removable)

================================================================================
