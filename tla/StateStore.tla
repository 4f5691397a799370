------------------------------ MODULE StateStore -------------------------------
(***************************************************************************)
(* state.json and the commands that share it: the advisory lock on         *)
(* state.lock, Load, the backup, and Save, which writes a temporary file   *)
(* and renames it (internal/state), as apply, apply --sync, init and env   *)
(* call them.  A command is a process of its own; it may be killed between *)
(* any two system calls, and each of its writes may fail.                  *)
(*                                                                         *)
(* The content of a state file is the set of the updates it includes.      *)
(* Killing a process loses what it had in memory and closes its lock file, *)
(* nothing else: a loss of power, which could also lose writes that were   *)
(* not synced, is not modelled.                                            *)
(***************************************************************************)
EXTENDS Integers, Sequences, FiniteSets

CONSTANTS
    Proc,      \* processes, one command each
    Commands,  \* the commands they may run
    Absent,    \* the file does not exist
    Torn,      \* the file is written in part
    None,      \* no process, no lock file
    MaxFlushes \* bound: saves of one apply, the first one included

ASSUME StoreAssumption ==
    /\ IsFiniteSet(Proc)
    /\ None \notin Proc
    /\ MaxFlushes \in Nat \ {0}
    /\ Commands \subseteq {"apply", "apply --sync", "init", "init --force", "env"}

VARIABLES
    cmd,       \* cmd[p]: the command, None before it starts
    job,       \* job[p]: what holds the lock, "sync", "apply", "init" or "env"
    pc,        \* pc[p]: the next step of p
    lockFile,  \* the inode of state.lock, 0 if there is none
    held,      \* held[p]: the inode p has locked, 0 if none
    lockPid,   \* the process id in state.lock
    loaded,    \* loaded[p]: the state in the memory of p
    flushes,   \* flushes[p]: how often p has saved in this job
    backedUp,  \* backedUp[p]: CreateBackup made a copy
    state,     \* state.json
    stateTmp,  \* state.json.tmp
    backup,    \* state.json.bak
    backupTmp  \* state.json.bak.tmp

files == <<state, stateTmp, backup, backupTmp>>
locks == <<lockFile, held, lockPid>>
memory == <<loaded, flushes, backedUp>>
vars == <<cmd, job, pc, locks, memory, files>>

Jobs == {"sync", "apply", "init", "env"}

\* One update: the n-th save of a job of p.
Update == Proc \X {"sync", "apply"} \X (1 .. MaxFlushes)

\* None is no job, and a file that is absent or half written has no content.
ASSUME ValueAssumption ==
    /\ None \notin Jobs
    /\ \A f \in SUBSET Update : f # Absent /\ f # Torn

Steps ==
    {"start", "lock", "pid", "load", "backup", "copying", "copied", "work",
     "writing", "written", "unlock", "ended"}

Init ==
    /\ cmd = [p \in Proc |-> None]
    /\ job = [p \in Proc |-> None]
    /\ pc = [p \in Proc |-> "start"]
    /\ lockFile = 0
    /\ held = [p \in Proc |-> 0]
    /\ lockPid = None
    /\ loaded = [p \in Proc |-> {}]
    /\ flushes = [p \in Proc |-> 0]
    /\ backedUp = [p \in Proc |-> FALSE]
    /\ state \in {Absent, {}}
    /\ stateTmp = Absent
    /\ backup = Absent
    /\ backupTmp = Absent

Goto(p, step) == pc' = [pc EXCEPT ![p] = step]

--------------------------------------------------------------------------------
(***************************************************************************)
(* The commands, up to the lock.                                           *)
(***************************************************************************)

FirstJob(c) ==
    CASE c = "apply" -> "apply"
      [] c = "apply --sync" -> "sync"
      [] c \in {"init", "init --force"} -> "init"
      [] c = "env" -> "env"

\* apply looks for the state file, and init for its absence, before either has
\* the lock.
GoesOn(c) ==
    CASE c \in {"apply", "apply --sync"} -> state # Absent
      [] c = "init" -> state = Absent
      [] OTHER -> TRUE

Start(p, c) ==
    /\ pc[p] = "start"
    /\ cmd' = [cmd EXCEPT ![p] = c]
    /\ job' = [job EXCEPT ![p] = FirstJob(c)]
    /\ Goto(p, IF GoesOn(c) THEN "lock" ELSE "ended")
    /\ UNCHANGED <<locks, memory, files>>

\* A failed sync is only a warning: the apply itself comes next, and locks
\* again.
EndJob(p) ==
    IF job[p] = "sync"
    THEN /\ job' = [job EXCEPT ![p] = "apply"]
         /\ Goto(p, "lock")
    ELSE /\ Goto(p, "ended")
         /\ UNCHANGED job

--------------------------------------------------------------------------------
(***************************************************************************)
(* Lock and Unlock.                                                        *)
(***************************************************************************)

IsFree_Always(inode) == TRUE

\* flock(2): an inode has one exclusive owner.
IsFree(inode) == \A q \in Proc : held[q] # inode

NewInode == CHOOSE i \in 1 .. Cardinality(Proc) + 1 : \A q \in Proc : held[q] # i

\* The inode that opening state.lock gives: the file's, or a new one.
Opened == IF lockFile # 0 THEN lockFile ELSE NewInode

TryLock(p) ==
    /\ pc[p] = "lock"
    /\ IsFree(Opened)
    /\ lockFile' = Opened
    /\ held' = [held EXCEPT ![p] = Opened]
    /\ Goto(p, "pid")
    /\ UNCHANGED <<cmd, job, lockPid, memory, files>>

LockRefused_AfterPid(p) ==
    /\ pc[p] = "lock"
    /\ lockPid' = p
    /\ EndJob(p)
    /\ UNCHANGED <<cmd, lockFile, held, memory, files>>

\* Another process holds the lock, or the file cannot be opened.
LockRefused(p) ==
    /\ pc[p] = "lock"
    /\ EndJob(p)
    /\ UNCHANGED <<cmd, locks, memory, files>>

AfterPid == [sync |-> "load", apply |-> "load", init |-> "work", env |-> "load"]

WritePid(p) ==
    /\ pc[p] = "pid"
    /\ lockPid' = p
    /\ Goto(p, AfterPid[job[p]])
    /\ UNCHANGED <<cmd, job, lockFile, held, memory, files>>

\* The lock is given back when the id cannot be written.
WritePidFails(p) ==
    /\ pc[p] = "pid"
    /\ lockPid' \in {lockPid, None}
    /\ Goto(p, "unlock")
    /\ UNCHANGED <<cmd, job, lockFile, held, memory, files>>

\* Every exit path gets here (a deferred call); the file itself stays.
Unlock(p) ==
    /\ pc[p] = "unlock"
    /\ held' = [held EXCEPT ![p] = 0]
    /\ EndJob(p)
    /\ UNCHANGED <<cmd, lockFile, lockPid, memory, files>>

--------------------------------------------------------------------------------
(***************************************************************************)
(* Load and CreateBackup.                                                  *)
(***************************************************************************)

AfterLoad == [sync |-> "work", apply |-> "backup", env |-> "unlock"]

Load_Once(p) ==
    /\ pc[p] = "load"
    /\ state # Torn
    /\ loaded' = [loaded EXCEPT ![p] = IF @ # {} \/ state = Absent THEN @ ELSE state]
    /\ flushes' = [flushes EXCEPT ![p] = 0]
    /\ Goto(p, AfterLoad[job[p]])
    /\ UNCHANGED <<cmd, job, locks, backedUp, files>>

Load(p) ==
    /\ pc[p] = "load"
    /\ state # Torn
    /\ loaded' = [loaded EXCEPT ![p] = IF state = Absent THEN {} ELSE state]
    /\ flushes' = [flushes EXCEPT ![p] = 0]
    /\ Goto(p, AfterLoad[job[p]])
    /\ UNCHANGED <<cmd, job, locks, backedUp, files>>

\* The file cannot be read or parsed.
LoadFails(p) ==
    /\ pc[p] = "load"
    /\ Goto(p, "unlock")
    /\ UNCHANGED <<cmd, job, locks, memory, files>>

BeginBackup_ReusesTmp(p) ==
    /\ pc[p] = "backup"
    /\ CASE state = Absent -> Goto(p, "work") /\ UNCHANGED backupTmp
         [] state # Absent /\ backupTmp # Absent -> Goto(p, "copied") /\ UNCHANGED backupTmp
         [] OTHER -> Goto(p, "copying") /\ backupTmp' = Torn
    /\ UNCHANGED <<cmd, job, locks, memory, state, stateTmp, backup>>

\* Reading state.json and opening the temporary file.
BeginBackup(p) ==
    /\ pc[p] = "backup"
    /\ IF state = Absent
       THEN Goto(p, "work") /\ UNCHANGED backupTmp
       ELSE Goto(p, "copying") /\ backupTmp' = Torn
    /\ UNCHANGED <<cmd, job, locks, memory, state, stateTmp, backup>>

CopyBackup(p) ==
    /\ pc[p] = "copying"
    /\ backupTmp' = state
    /\ Goto(p, "copied")
    /\ UNCHANGED <<cmd, job, locks, memory, state, stateTmp, backup>>

RenameBackup(p) ==
    /\ pc[p] = "copied"
    /\ backup' = backupTmp
    /\ backupTmp' = Absent
    /\ backedUp' = [backedUp EXCEPT ![p] = TRUE]
    /\ Goto(p, "work")
    /\ UNCHANGED <<cmd, job, locks, loaded, flushes, state, stateTmp>>

\* A failed backup is only a warning.  Only a failed rename cleans up.
BackupFails(p) ==
    /\ pc[p] \in {"backup", "copying", "copied"}
    /\ backupTmp' = IF pc[p] = "copied" THEN Absent ELSE backupTmp
    /\ Goto(p, "work")
    /\ UNCHANGED <<cmd, job, locks, memory, state, stateTmp, backup>>

--------------------------------------------------------------------------------
(***************************************************************************)
(* Save.                                                                   *)
(***************************************************************************)

\* sync and init save once; apply saves the installers and then once for each
\* layer that changed something.
MaySave(p) == flushes[p] < IF job[p] = "apply" THEN MaxFlushes ELSE 1

\* What the next save of p writes: all it has in memory and one update more,
\* or the initial state.
Changed(p) ==
    IF job[p] = "init" THEN {} ELSE loaded[p] \cup {<<p, job[p], flushes[p] + 1>>}

BeginSave_InPlace(p) ==
    /\ pc[p] = "work"
    /\ MaySave(p)
    /\ loaded' = [loaded EXCEPT ![p] = Changed(p)]
    /\ flushes' = [flushes EXCEPT ![p] = @ + 1]
    /\ state' = Torn
    /\ Goto(p, "writing")
    /\ UNCHANGED <<cmd, job, locks, backedUp, stateTmp, backup, backupTmp>>

\* Opening the temporary file truncates it.
BeginSave(p) ==
    /\ pc[p] = "work"
    /\ MaySave(p)
    /\ loaded' = [loaded EXCEPT ![p] = Changed(p)]
    /\ flushes' = [flushes EXCEPT ![p] = @ + 1]
    /\ stateTmp' = Torn
    /\ Goto(p, "writing")
    /\ UNCHANGED <<cmd, job, locks, backedUp, state, backup, backupTmp>>

WriteTmp(p) ==
    /\ pc[p] = "writing"
    /\ stateTmp' = loaded[p]
    /\ Goto(p, "written")
    /\ UNCHANGED <<cmd, job, locks, memory, state, backup, backupTmp>>

RenameTmp(p) ==
    /\ pc[p] = "written"
    /\ state' = stateTmp
    /\ stateTmp' = Absent
    /\ Goto(p, "work")
    /\ UNCHANGED <<cmd, job, locks, memory, backup, backupTmp>>

\* A failed save ends the job.  Only a failed rename cleans up.
SaveFails(p) ==
    /\ pc[p] \in {"writing", "written"}
    /\ stateTmp' = IF pc[p] = "written" THEN Absent ELSE stateTmp
    /\ Goto(p, "unlock")
    /\ UNCHANGED <<cmd, job, locks, memory, state, backup, backupTmp>>

\* Nothing is left to do, or something else went wrong.
LeaveWork(p) ==
    /\ pc[p] = "work"
    /\ Goto(p, "unlock")
    /\ UNCHANGED <<cmd, job, locks, memory, files>>

\* The process is killed.  The kernel drops its lock.
Kill(p) ==
    /\ pc[p] \notin {"start", "ended"}
    /\ Goto(p, "ended")
    /\ held' = [held EXCEPT ![p] = 0]
    /\ UNCHANGED <<cmd, job, lockFile, lockPid, memory, files>>

--------------------------------------------------------------------------------

Step(p) ==
    \/ \E c \in Commands : Start(p, c)
    \/ TryLock(p)
    \/ LockRefused(p)
    \/ WritePid(p)
    \/ WritePidFails(p)
    \/ Unlock(p)
    \/ Load(p)
    \/ LoadFails(p)
    \/ BeginBackup(p)
    \/ CopyBackup(p)
    \/ RenameBackup(p)
    \/ BackupFails(p)
    \/ BeginSave(p)
    \/ WriteTmp(p)
    \/ RenameTmp(p)
    \/ SaveFails(p)
    \/ LeaveWork(p)
    \/ Kill(p)

Next == \E p \in Proc : Step(p)

Spec == Init /\ [][Next]_vars

--------------------------------------------------------------------------------
(***************************************************************************)
(* Properties.                                                             *)
(***************************************************************************)

Content == SUBSET Update

WholeFile(f) == f = Absent \/ (f # Torn /\ f \in Content)

\* Every variable has the type the Go declarations, and the file system, give
\* it.  The two files that others read are never half written: they change by
\* rename only.
TypeOK ==
    /\ cmd \in [Proc -> Commands \cup {None}]
    /\ job \in [Proc -> Jobs \cup {None}]
    /\ pc \in [Proc -> Steps]
    /\ lockFile \in 0 .. Cardinality(Proc) + 1
    /\ held \in [Proc -> 0 .. Cardinality(Proc) + 1]
    /\ lockPid \in Proc \cup {None}
    /\ loaded \in [Proc -> Content]
    /\ flushes \in [Proc -> 0 .. MaxFlushes]
    /\ backedUp \in [Proc -> BOOLEAN]
    /\ WholeFile(state)
    /\ stateTmp = Torn \/ WholeFile(stateTmp)
    /\ WholeFile(backup)
    /\ backupTmp = Torn \/ WholeFile(backupTmp)

\* p is between Lock and Unlock.
Holds(p) == pc[p] \notin {"start", "lock", "ended"}

\* Two commands are never inside the lock at once (docs/design.md: "advisory
\* file locking (flock) to prevent concurrent execution").
MutualExclusion == \A p, q \in Proc : Holds(p) /\ Holds(q) => p = q

\* The lock file names the process that works under the lock, for as long as
\* it does (docs/architecture.md: "contains PID of holder").
LockNamesHolder ==
    \A p \in Proc : Holds(p) /\ pc[p] \notin {"pid", "unlock"} => lockPid = p

OwnUpdates(p) == {u \in Update : u[1] = p}

\* CreateBackup copies the state that the engine starts from, and nothing that
\* this run of the engine saves reaches the copy: until it is done the backup
\* is what it loaded, whatever other processes died on the way.
BackupIsPreApply ==
    \A p \in Proc :
        Holds(p) /\ job[p] = "apply" /\ backedUp[p] =>
            backup = {u \in loaded[p] : ~(u[1] = p /\ u[2] = "apply")}

--------------------------------------------------------------------------------
(***************************************************************************)
(* The abstract view, and what the documentation says.                     *)
(***************************************************************************)

Owner ==
    IF \E p \in Proc : Holds(p) THEN CHOOSE p \in Proc : Holds(p) ELSE None

Register ==
    INSTANCE StateRegister WITH NoOwner <- None, owner <- Owner, content <- state

\* The files and the lock make a register: an update that was saved is never
\* lost to another process, a crash leaves the state before or after a save
\* and nothing between, and only the owner of the lock changes it.
ImplementsRegister == Register!Spec

\* docs/usage.md: "the backup taken before the last apply".  Nothing that the
\* running command has saved is in it.
BackupPrecedesApply ==
    \A p \in Proc :
        Holds(p) /\ job[p] = "apply" /\ backedUp[p] => backup \cap OwnUpdates(p) = {}

================================================================================
