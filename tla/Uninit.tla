-------------------------------- MODULE Uninit ---------------------------------
(***************************************************************************)
(* tomei uninit beside the commands of StateStore.  It removes the data    *)
(* directory entry by entry, state.lock with the rest, and takes no lock.  *)
(* A process that had opened the lock file keeps its lock on an inode that *)
(* no longer has a name.                                                   *)
(***************************************************************************)
EXTENDS StateStore

VARIABLE doomed  \* entries of the data directory that RemoveAll will remove

Entries == {"state.lock", "state.json", "state.json.tmp", "state.json.bak", "state.json.bak.tmp"}

UninitInit == Init /\ doomed = {}

\* There is something to remove, and the user confirms.
ConfirmUninit ==
    /\ state # Absent
    /\ doomed = {}
    /\ doomed' = Entries
    /\ UNCHANGED vars

RemoveEntry(entry) ==
    /\ entry \in doomed
    /\ doomed' = doomed \ {entry}
    /\ lockFile' = IF entry = "state.lock" THEN 0 ELSE lockFile
    /\ lockPid' = IF entry = "state.lock" THEN None ELSE lockPid
    /\ state' = IF entry = "state.json" THEN Absent ELSE state
    /\ stateTmp' = IF entry = "state.json.tmp" THEN Absent ELSE stateTmp
    /\ backup' = IF entry = "state.json.bak" THEN Absent ELSE backup
    /\ backupTmp' = IF entry = "state.json.bak.tmp" THEN Absent ELSE backupTmp
    /\ UNCHANGED <<cmd, job, pc, held, memory>>

UninitNext ==
    \/ Next /\ UNCHANGED doomed
    \/ ConfirmUninit
    \/ \E entry \in Entries : RemoveEntry(entry)

UninitSpec == UninitInit /\ [][UninitNext]_<<vars, doomed>>

================================================================================
