--------------------------------- MODULE Doctor ---------------------------------
(***************************************************************************)
(* tomei doctor: what it reports of the directories and the state that     *)
(* ToolPlacement's applies leave.  It takes the lock, so it runs between   *)
(* applies, and it only reads: operators over ToolPlacement's state.       *)
(*                                                                         *)
(* A category is a directory: tomei's bin directory, or the bin directory  *)
(* of a runtime.  A runtime's own binaries are not in this instance.       *)
(***************************************************************************)
EXTENDS ToolPlacement

\* os.Stat follows a link: an entry whose target is gone is passed over.  What a
\* package manager wrote is a binary and not a link.
Executable(e) ==
    /\ entry[e] # None
    /\ e[1] = "bin" => file[entry[e]] # "none"

\* isManagedTool asks state for a tool whose resource has the file's name, in the
\* category of its runtimeRef, or in tomei's when it has none.
IsManaged_TomeiOnly(e) == \E t \in Tool : disk[t] # None /\ t = e[2] /\ Way[t] # "runtime"

IsManaged(e) ==
    \E t \in Tool : disk[t] # None /\ t = e[2] /\ (e[1] = "runtime") = (Way[t] = "runtime")

\* scanForUnmanaged and detectConflicts.
Unmanaged == {e \in Entries : Executable(e) /\ ~IsManaged(e)}

Conflicts == {n \in Name : Executable(<<"bin", n>>) /\ Executable(<<"runtime", n>>)}

\* checkToolIntegrity: the entry is there, what it points to is there, and the
\* installed file is there; the first two exclude each other and end the check.
StateIssues(t) ==
    LET st == disk[t]
        missing == st.binPath # None /\ entry[st.binPath] = None
        broken == st.binPath # None /\ ~missing /\ ~Executable(st.binPath)
    IN  IF st = None THEN {}
        ELSE (IF missing THEN {"missing_binary"} ELSE {})
             \cup (IF broken THEN {"broken_symlink"} ELSE {})
             \cup (IF ~missing /\ st.path # None /\ file[st.path] = "none"
                   THEN {"missing_install_dir"} ELSE {})

--------------------------------------------------------------------------------
\* A tool that goes by another name than its resource's is unknown to the scan.
Renamed(t) == disk[t] # None /\ BinaryName(t, disk[t]) # t

\* After an apply that succeeded, doctor finds nothing wrong with the tools that
\* nobody competes with: nothing is missing, and the only files it takes for
\* somebody else's are those of tools with a name of their own.
HealthyAfterSuccess ==
    (phase = "idle" /\ result = "ok") =>
        /\ \A t \in Uncontested \ strayed : StateIssues(t) = {}
        /\ \A t \in Uncontested \ strayed : \A n \in Called(t) :
              <<DirOf(t), n>> \in Unmanaged => Renamed(t) /\ disk[t].binPath = <<DirOf(t), n>>

================================================================================
