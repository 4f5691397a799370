---------------------------- MODULE StateStoreProofs ----------------------------
(***************************************************************************)
(* For every finite set of processes and every number of saves: two        *)
(* commands are never inside the lock at once, the lock file names its     *)
(* holder, the backup is the state before the engine's first save, and the *)
(* lock and the files implement StateRegister.                             *)
(***************************************************************************)
EXTENDS StateStore, FiniteSetTheorems, TLAPS

Inside == Steps \ {"start", "lock", "ended"}

\* Being inside the lock is having locked the inode that state.lock names, and
\* an inode has one owner.
LockInv ==
    /\ \A p \in Proc : Holds(p) <=> held[p] # 0
    /\ \A p \in Proc : held[p] # 0 => held[p] = lockFile
    /\ \A p, q \in Proc : held[p] # 0 /\ held[q] # 0 => p = q

\* Which job takes which steps, and that the jobs of apply find a state file.
JobInv ==
    \A p \in Proc :
        /\ pc[p] \notin {"start", "ended"} => job[p] \in Jobs
        /\ pc[p] = "load" => job[p] # "init"
        /\ pc[p] \in {"backup", "copying", "copied"} => job[p] = "apply"
        /\ pc[p] \in {"work", "writing", "written"} => job[p] # "env"
        /\ pc[p] = "start" => job[p] = None /\ loaded[p] = {}
        /\ job[p] = "init" => loaded[p] = {}
        /\ job[p] \in {"sync", "apply"} /\ pc[p] # "ended" => state # Absent

\* A command that has loaded the state has all of it in memory, and what it is
\* about to rename is what it has in memory.
DataInv ==
    \A p \in Proc :
        /\ /\ job[p] \in {"sync", "apply"}
           /\ pc[p] \in {"backup", "copying", "copied", "work", "writing", "written"}
           => state \subseteq loaded[p]
        /\ pc[p] = "written" => stateTmp = loaded[p]
        /\ pc[p] \in {"backup", "copying", "copied"} => state = loaded[p]
        /\ pc[p] = "copied" => backupTmp = state

EngineUpdates(p) == {u \in Update : u[1] = p /\ u[2] = "apply"}

\* The engine of p has not yet saved.
Unsaved(p) ==
    \/ job[p] # "apply"
    \/ pc[p] \in {"start", "lock", "pid", "load", "backup", "copying", "copied"}

\* What the engine of p saves appears nowhere before it does.
FreshInv ==
    \A p \in Proc :
        Unsaved(p) =>
            /\ ~backedUp[p]
            /\ state # Absent => state \cap EngineUpdates(p) = {}
            /\ \A q \in Proc : loaded[q] \cap EngineUpdates(p) = {}

IInv ==
    /\ TypeOK
    /\ LockInv
    /\ JobInv
    /\ DataInv
    /\ FreshInv
    /\ LockNamesHolder
    /\ BackupIsPreApply

--------------------------------------------------------------------------------
\* Opening state.lock gives an inode: the file's, or any one while nobody has
\* locked one.
LEMMA OpenedIsInode ==
    ASSUME TypeOK, LockInv
    PROVE  Opened # 0 /\ Opened \in 0 .. Cardinality(Proc) + 1
<1>1. Cardinality(Proc) \in Nat
  BY FS_CardinalityType, StoreAssumption DEF StoreAssumption
<1>2. CASE lockFile = 0
  <2>1. \A q \in Proc : held[q] # 1
    BY <1>2 DEF LockInv
  <2>2. \E i \in 1 .. Cardinality(Proc) + 1 : \A q \in Proc : held[q] # i
    BY <1>1, <2>1
  <2>3. NewInode \in 1 .. Cardinality(Proc) + 1
    BY <2>2 DEF NewInode
  <2> QED
    BY <1>1, <1>2, <2>3 DEF Opened
<1>3. CASE lockFile # 0
  BY <1>1, <1>3 DEF Opened, TypeOK
<1> QED
  BY <1>2, <1>3

\* The step that follows writing the process id.
LEMMA StepAfterPid ==
    ASSUME JobInv, NEW p \in Proc, WritePid(p)
    PROVE  /\ job[p] \in Jobs
           /\ pc' = [pc EXCEPT ![p] = IF job[p] = "init" THEN "work" ELSE "load"]
<1>1. job[p] \in Jobs
  BY DEF WritePid, JobInv
<1>2. AfterPid[job[p]] = IF job[p] = "init" THEN "work" ELSE "load"
  BY <1>1 DEF AfterPid, Jobs
<1> QED
  BY <1>1, <1>2 DEF WritePid, Goto

\* The step that follows loading the state.
LEMMA StepAfterLoad ==
    ASSUME JobInv, NEW p \in Proc, Load(p)
    PROVE  \/ job[p] = "sync" /\ pc' = [pc EXCEPT ![p] = "work"]
           \/ job[p] = "apply" /\ pc' = [pc EXCEPT ![p] = "backup"]
           \/ job[p] = "env" /\ pc' = [pc EXCEPT ![p] = "unlock"]
<1>1. job[p] \in {"sync", "apply", "env"}
  BY DEF Load, JobInv, Jobs
<1>2. /\ AfterLoad["sync"] = "work"
      /\ AfterLoad["apply"] = "backup"
      /\ AfterLoad["env"] = "unlock"
  BY DEF AfterLoad
<1>3. pc' = [pc EXCEPT ![p] = AfterLoad[job[p]]]
  BY DEF Load, Goto
<1> QED
  BY <1>1, <1>2, <1>3

\* Ending a job is ending the command, or going on to the apply.
LEMMA StepAfterJob ==
    ASSUME NEW p \in Proc, LockRefused(p) \/ Unlock(p)
    PROVE  \/ pc' = [pc EXCEPT ![p] = "ended"] /\ job' = job
           \/ /\ pc' = [pc EXCEPT ![p] = "lock"]
              /\ job[p] = "sync"
              /\ job' = [job EXCEPT ![p] = "apply"]
  BY DEF LockRefused, Unlock, EndJob, Goto

\* A save adds one update, which is one that the bounds allow.
LEMMA SavedContent ==
    ASSUME TypeOK, JobInv, NEW p \in Proc, pc[p] = "work", MaySave(p)
    PROVE  Changed(p) \in Content /\ flushes[p] + 1 \in 0 .. MaxFlushes
<1>1. job[p] \in {"sync", "apply", "init"}
  BY DEF JobInv, Jobs
<1>2. flushes[p] + 1 \in 1 .. MaxFlushes
  <2>a. MaxFlushes \in Nat \ {0}
    BY StoreAssumption DEF StoreAssumption
  <2>b. flushes[p] \in 0 .. MaxFlushes
    BY DEF TypeOK
  <2>1. flushes[p] \in Nat /\ MaxFlushes \in Nat \ {0}
    BY <2>a, <2>b
  <2>2. flushes[p] < MaxFlushes
    BY <2>1 DEF MaySave
  <2> QED
    BY <2>1, <2>2
<1>3. job[p] # "init" => <<p, job[p], flushes[p] + 1>> \in Update
  BY <1>1, <1>2 DEF Update
<1> QED
  BY <1>1, <1>2, <1>3 DEF Changed, Content, TypeOK

\* A step of p keeps the types; in particular only whole files are renamed.
LEMMA TypeStep ==
    ASSUME TypeOK, LockInv, JobInv, DataInv, NEW p \in Proc, Step(p)
    PROVE  TypeOK'
<1> USE DEF Goto, locks, memory, files, Holds, TypeOK, Content, WholeFile, Jobs, Steps, Update
<1>a. Cardinality(Proc) \in Nat /\ MaxFlushes \in Nat
  BY FS_CardinalityType, StoreAssumption DEF StoreAssumption
<1>b. 0 \in 0 .. Cardinality(Proc) + 1 /\ 0 \in 0 .. MaxFlushes
  BY <1>a
<1> USE StoreAssumption, ValueAssumption, <1>b DEF StoreAssumption, ValueAssumption
<1>1. ASSUME NEW c \in Commands, Start(p, c)  PROVE TypeOK'
  BY <1>1 DEF Start, FirstJob, GoesOn
<1>2. CASE TryLock(p)
  <2>1. Opened \in 0 .. Cardinality(Proc) + 1
    BY OpenedIsInode
  <2> QED
    BY <1>2, <2>1 DEF TryLock
<1>3. CASE LockRefused(p)
  <2>1. \/ pc' = [pc EXCEPT ![p] = "ended"] /\ job' = job
        \/ /\ pc' = [pc EXCEPT ![p] = "lock"]
           /\ job[p] = "sync"
           /\ job' = [job EXCEPT ![p] = "apply"]
    BY <1>3, StepAfterJob
  <2> QED
    BY <1>3, <2>1 DEF LockRefused
<1>4. CASE WritePid(p)
  <2>1. /\ job[p] \in Jobs
        /\ pc' = [pc EXCEPT ![p] = IF job[p] = "init" THEN "work" ELSE "load"]
    BY <1>4, StepAfterPid
  <2> QED
    BY <1>4, <2>1 DEF WritePid
<1>5. CASE WritePidFails(p)
  BY <1>5 DEF WritePidFails
<1>6. CASE Unlock(p)
  <2>1. \/ pc' = [pc EXCEPT ![p] = "ended"] /\ job' = job
        \/ /\ pc' = [pc EXCEPT ![p] = "lock"]
           /\ job[p] = "sync"
           /\ job' = [job EXCEPT ![p] = "apply"]
    BY <1>6, StepAfterJob
  <2> QED
    BY <1>6, <2>1 DEF Unlock
<1>7. CASE Load(p)
  <2>1. \/ job[p] = "sync" /\ pc' = [pc EXCEPT ![p] = "work"]
        \/ job[p] = "apply" /\ pc' = [pc EXCEPT ![p] = "backup"]
        \/ job[p] = "env" /\ pc' = [pc EXCEPT ![p] = "unlock"]
    BY <1>7, StepAfterLoad
  <2> QED
    BY <1>7, <2>1 DEF Load
<1>8. CASE LoadFails(p)
  BY <1>8 DEF LoadFails
<1>9. CASE BeginBackup(p)
  BY <1>9 DEF BeginBackup
<1>10. CASE CopyBackup(p)
  BY <1>10 DEF CopyBackup
<1>11. CASE RenameBackup(p)
  BY <1>11 DEF RenameBackup, DataInv, JobInv
<1>12. CASE BackupFails(p)
  BY <1>12 DEF BackupFails
<1>13. CASE BeginSave(p)
  BY <1>13, SavedContent DEF BeginSave
<1>14. CASE WriteTmp(p)
  BY <1>14 DEF WriteTmp
<1>15. CASE RenameTmp(p)
  BY <1>15 DEF RenameTmp, DataInv
<1>16. CASE SaveFails(p)
  BY <1>16 DEF SaveFails
<1>17. CASE LeaveWork(p)
  BY <1>17 DEF LeaveWork
<1>18. CASE Kill(p)
  BY <1>18 DEF Kill
<1> QED
  BY <1>1, <1>2, <1>3, <1>4, <1>5, <1>6, <1>7, <1>8, <1>9,
     <1>10, <1>11, <1>12, <1>13, <1>14, <1>15, <1>16, <1>17, <1>18 DEF Step

\* A step of p keeps the lock's owner unique: p gets a lock only when nobody has
\* one.
LEMMA LockStep ==
    ASSUME TypeOK, LockInv, JobInv, NEW p \in Proc, Step(p)
    PROVE  LockInv'
<1> USE DEF Goto, locks, memory, files, Holds, LockInv, TypeOK, Jobs, Steps
<1>1. ASSUME NEW c \in Commands, Start(p, c)  PROVE LockInv'
  BY <1>1 DEF Start, FirstJob, GoesOn
<1>2. CASE TryLock(p)
  <2>1. \A q \in Proc : held[q] = 0
    BY <1>2 DEF TryLock, IsFree, Opened
  <2> QED
    BY <1>2, <2>1, OpenedIsInode DEF TryLock
<1>3. CASE LockRefused(p)
  <2>1. \/ pc' = [pc EXCEPT ![p] = "ended"] /\ job' = job
        \/ /\ pc' = [pc EXCEPT ![p] = "lock"]
           /\ job[p] = "sync"
           /\ job' = [job EXCEPT ![p] = "apply"]
    BY <1>3, StepAfterJob
  <2> QED
    BY <1>3, <2>1 DEF LockRefused
<1>4. CASE WritePid(p)
  <2>1. /\ job[p] \in Jobs
        /\ pc' = [pc EXCEPT ![p] = IF job[p] = "init" THEN "work" ELSE "load"]
    BY <1>4, StepAfterPid
  <2> QED
    BY <1>4, <2>1 DEF WritePid
<1>5. CASE WritePidFails(p)
  BY <1>5 DEF WritePidFails
<1>6. CASE Unlock(p)
  <2>1. \/ pc' = [pc EXCEPT ![p] = "ended"] /\ job' = job
        \/ /\ pc' = [pc EXCEPT ![p] = "lock"]
           /\ job[p] = "sync"
           /\ job' = [job EXCEPT ![p] = "apply"]
    BY <1>6, StepAfterJob
  <2> QED
    BY <1>6, <2>1 DEF Unlock
<1>7. CASE Load(p)
  <2>1. \/ job[p] = "sync" /\ pc' = [pc EXCEPT ![p] = "work"]
        \/ job[p] = "apply" /\ pc' = [pc EXCEPT ![p] = "backup"]
        \/ job[p] = "env" /\ pc' = [pc EXCEPT ![p] = "unlock"]
    BY <1>7, StepAfterLoad
  <2> QED
    BY <1>7, <2>1 DEF Load
<1>8. CASE LoadFails(p)
  BY <1>8 DEF LoadFails
<1>9. CASE BeginBackup(p)
  BY <1>9 DEF BeginBackup
<1>10. CASE CopyBackup(p)
  BY <1>10 DEF CopyBackup
<1>11. CASE RenameBackup(p)
  BY <1>11 DEF RenameBackup
<1>12. CASE BackupFails(p)
  BY <1>12 DEF BackupFails
<1>13. CASE BeginSave(p)
  BY <1>13 DEF BeginSave, MaySave, Changed
<1>14. CASE WriteTmp(p)
  BY <1>14 DEF WriteTmp
<1>15. CASE RenameTmp(p)
  BY <1>15 DEF RenameTmp
<1>16. CASE SaveFails(p)
  BY <1>16 DEF SaveFails
<1>17. CASE LeaveWork(p)
  BY <1>17 DEF LeaveWork
<1>18. CASE Kill(p)
  BY <1>18 DEF Kill
<1> QED
  BY <1>1, <1>2, <1>3, <1>4, <1>5, <1>6, <1>7, <1>8, <1>9,
     <1>10, <1>11, <1>12, <1>13, <1>14, <1>15, <1>16, <1>17, <1>18 DEF Step

\* A step of p keeps to the steps of its job; nobody removes the state file.
LEMMA JobStep ==
    ASSUME TypeOK, LockInv, JobInv, DataInv, NEW p \in Proc, Step(p)
    PROVE  JobInv'
<1> USE DEF Goto, locks, memory, files, Holds, JobInv, TypeOK, Jobs, Steps, Content
<1> USE StoreAssumption, ValueAssumption DEF StoreAssumption, ValueAssumption
<1>1. ASSUME NEW c \in Commands, Start(p, c)  PROVE JobInv'
  BY <1>1 DEF Start, FirstJob, GoesOn
<1>2. CASE TryLock(p)
  BY <1>2 DEF TryLock
<1>3. CASE LockRefused(p)
  <2>1. \/ pc' = [pc EXCEPT ![p] = "ended"] /\ job' = job
        \/ /\ pc' = [pc EXCEPT ![p] = "lock"]
           /\ job[p] = "sync"
           /\ job' = [job EXCEPT ![p] = "apply"]
    BY <1>3, StepAfterJob
  <2>2. UNCHANGED <<loaded, state>> /\ pc[p] \notin {"start", "ended"}
    BY <1>3 DEF LockRefused
  <2>3. \A q \in Proc \ {p} : pc'[q] = pc[q] /\ job'[q] = job[q]
    BY <2>1
  <2>4. \/ pc'[p] = "ended" /\ job'[p] = job[p]
        \/ pc'[p] = "lock" /\ job[p] = "sync" /\ job'[p] = "apply"
    BY <2>1
  <2> HIDE DEF TypeOK, Content
  <2> QED
    BY <2>2, <2>3, <2>4
<1>4. CASE WritePid(p)
  <2>1. /\ job[p] \in Jobs
        /\ pc' = [pc EXCEPT ![p] = IF job[p] = "init" THEN "work" ELSE "load"]
    BY <1>4, StepAfterPid
  <2> QED
    BY <1>4, <2>1 DEF WritePid
<1>5. CASE WritePidFails(p)
  BY <1>5 DEF WritePidFails
<1>6. CASE Unlock(p)
  <2>1. \/ pc' = [pc EXCEPT ![p] = "ended"] /\ job' = job
        \/ /\ pc' = [pc EXCEPT ![p] = "lock"]
           /\ job[p] = "sync"
           /\ job' = [job EXCEPT ![p] = "apply"]
    BY <1>6, StepAfterJob
  <2>2. UNCHANGED <<loaded, state>> /\ pc[p] \notin {"start", "ended"}
    BY <1>6 DEF Unlock
  <2>3. \A q \in Proc \ {p} : pc'[q] = pc[q] /\ job'[q] = job[q]
    BY <2>1
  <2>4. \/ pc'[p] = "ended" /\ job'[p] = job[p]
        \/ pc'[p] = "lock" /\ job[p] = "sync" /\ job'[p] = "apply"
    BY <2>1
  <2> HIDE DEF TypeOK, Content
  <2> QED
    BY <2>2, <2>3, <2>4
<1>7. CASE Load(p)
  <2>1. \/ job[p] = "sync" /\ pc' = [pc EXCEPT ![p] = "work"]
        \/ job[p] = "apply" /\ pc' = [pc EXCEPT ![p] = "backup"]
        \/ job[p] = "env" /\ pc' = [pc EXCEPT ![p] = "unlock"]
    BY <1>7, StepAfterLoad
  <2>2. UNCHANGED <<job, state>> /\ pc[p] = "load" /\ pc' \in {[pc EXCEPT ![p] = l] : l \in {"work", "backup", "unlock"}}
    BY <1>7, <2>1 DEF Load
  <2>3. \A q \in Proc \ {p} : pc'[q] = pc[q] /\ loaded'[q] = loaded[q]
    BY <1>7, <2>2 DEF Load
  <2>4. \/ job[p] = "sync" /\ pc'[p] = "work"
        \/ job[p] = "apply" /\ pc'[p] = "backup"
        \/ job[p] = "env" /\ pc'[p] = "unlock"
    BY <2>1
  <2> HIDE DEF TypeOK, Content
  <2> QED
    BY <2>2, <2>3, <2>4
<1>8. CASE LoadFails(p)
  BY <1>8 DEF LoadFails
<1>9. CASE BeginBackup(p)
  BY <1>9 DEF BeginBackup
<1>10. CASE CopyBackup(p)
  BY <1>10 DEF CopyBackup
<1>11. CASE RenameBackup(p)
  BY <1>11 DEF RenameBackup
<1>12. CASE BackupFails(p)
  BY <1>12 DEF BackupFails
<1>13. CASE BeginSave(p)
  BY <1>13 DEF BeginSave, MaySave, Changed
<1>14. CASE WriteTmp(p)
  BY <1>14 DEF WriteTmp
<1>15. CASE RenameTmp(p)
  BY <1>15 DEF RenameTmp, DataInv
<1>16. CASE SaveFails(p)
  BY <1>16 DEF SaveFails
<1>17. CASE LeaveWork(p)
  BY <1>17 DEF LeaveWork
<1>18. CASE Kill(p)
  BY <1>18 DEF Kill
<1> QED
  BY <1>1, <1>2, <1>3, <1>4, <1>5, <1>6, <1>7, <1>8, <1>9,
     <1>10, <1>11, <1>12, <1>13, <1>14, <1>15, <1>16, <1>17, <1>18 DEF Step

\* A step of p does not change the state under another process: it writes only
\* inside the lock.
LEMMA DataStep ==
    ASSUME TypeOK, LockInv, JobInv, DataInv, NEW p \in Proc, Step(p)
    PROVE  DataInv'
<1> USE DEF Goto, locks, memory, files, Holds, DataInv, LockInv, JobInv, TypeOK, Jobs, Steps, Content
<1>1. ASSUME NEW c \in Commands, Start(p, c)  PROVE DataInv'
  <2>1. UNCHANGED <<loaded, state, stateTmp, backupTmp>>
    BY <1>1 DEF Start
  <2>2. \A q \in Proc \ {p} : pc'[q] = pc[q] /\ job'[q] = job[q]
    BY <1>1 DEF Start
  <2>3. pc'[p] \in {"lock", "ended"}
    BY <1>1 DEF Start
  <2> HIDE DEF TypeOK, Content
  <2> QED
    BY <2>1, <2>2, <2>3
<1>2. CASE TryLock(p)
  BY <1>2 DEF TryLock
<1>3. CASE LockRefused(p)
  <2>1. \/ pc' = [pc EXCEPT ![p] = "ended"] /\ job' = job
        \/ /\ pc' = [pc EXCEPT ![p] = "lock"]
           /\ job[p] = "sync"
           /\ job' = [job EXCEPT ![p] = "apply"]
    BY <1>3, StepAfterJob
  <2> QED
    BY <1>3, <2>1 DEF LockRefused
<1>4. CASE WritePid(p)
  <2>1. /\ job[p] \in Jobs
        /\ pc' = [pc EXCEPT ![p] = IF job[p] = "init" THEN "work" ELSE "load"]
    BY <1>4, StepAfterPid
  <2> QED
    BY <1>4, <2>1 DEF WritePid
<1>5. CASE WritePidFails(p)
  BY <1>5 DEF WritePidFails
<1>6. CASE Unlock(p)
  <2>1. \/ pc' = [pc EXCEPT ![p] = "ended"] /\ job' = job
        \/ /\ pc' = [pc EXCEPT ![p] = "lock"]
           /\ job[p] = "sync"
           /\ job' = [job EXCEPT ![p] = "apply"]
    BY <1>6, StepAfterJob
  <2> QED
    BY <1>6, <2>1 DEF Unlock
<1>7. CASE Load(p)
  <2>1. \/ job[p] = "sync" /\ pc' = [pc EXCEPT ![p] = "work"]
        \/ job[p] = "apply" /\ pc' = [pc EXCEPT ![p] = "backup"]
        \/ job[p] = "env" /\ pc' = [pc EXCEPT ![p] = "unlock"]
    BY <1>7, StepAfterLoad
  <2> QED
    BY <1>7, <2>1 DEF Load
<1>8. CASE LoadFails(p)
  BY <1>8 DEF LoadFails
<1>9. CASE BeginBackup(p)
  BY <1>9 DEF BeginBackup
<1>10. CASE CopyBackup(p)
  BY <1>10 DEF CopyBackup
<1>11. CASE RenameBackup(p)
  BY <1>11 DEF RenameBackup
<1>12. CASE BackupFails(p)
  BY <1>12 DEF BackupFails
<1>13. CASE BeginSave(p)
  BY <1>13 DEF BeginSave, MaySave, Changed
<1>14. CASE WriteTmp(p)
  BY <1>14 DEF WriteTmp
<1>15. CASE RenameTmp(p)
  BY <1>15 DEF RenameTmp
<1>16. CASE SaveFails(p)
  BY <1>16 DEF SaveFails
<1>17. CASE LeaveWork(p)
  BY <1>17 DEF LeaveWork
<1>18. CASE Kill(p)
  BY <1>18 DEF Kill
<1> QED
  BY <1>1, <1>2, <1>3, <1>4, <1>5, <1>6, <1>7, <1>8, <1>9,
     <1>10, <1>11, <1>12, <1>13, <1>14, <1>15, <1>16, <1>17, <1>18 DEF Step

\* A step of p brings only updates of its own job into memory or the state.
LEMMA FreshStep ==
    ASSUME TypeOK, LockInv, JobInv, DataInv, FreshInv, NEW p \in Proc, Step(p)
    PROVE  FreshInv'
<1> USE DEF Goto, locks, memory, files, Unsaved, FreshInv, JobInv, TypeOK, Jobs, Steps, Content, EngineUpdates
<1>1. ASSUME NEW c \in Commands, Start(p, c)  PROVE FreshInv'
  BY <1>1 DEF Start, FirstJob, GoesOn
<1>2. CASE TryLock(p)
  BY <1>2 DEF TryLock
<1>3. CASE LockRefused(p)
  <2>1. \/ pc' = [pc EXCEPT ![p] = "ended"] /\ job' = job
        \/ /\ pc' = [pc EXCEPT ![p] = "lock"]
           /\ job[p] = "sync"
           /\ job' = [job EXCEPT ![p] = "apply"]
    BY <1>3, StepAfterJob
  <2> QED
    BY <1>3, <2>1 DEF LockRefused
<1>4. CASE WritePid(p)
  <2>1. /\ job[p] \in Jobs
        /\ pc' = [pc EXCEPT ![p] = IF job[p] = "init" THEN "work" ELSE "load"]
    BY <1>4, StepAfterPid
  <2> QED
    BY <1>4, <2>1 DEF WritePid
<1>5. CASE WritePidFails(p)
  BY <1>5 DEF WritePidFails
<1>6. CASE Unlock(p)
  <2>1. \A q \in Proc : Unsaved(q)' => Unsaved(q)
    BY <1>6 DEF Unlock, EndJob
  <2> QED
    BY <1>6, <2>1 DEF Unlock
<1>7. CASE Load(p)
  <2>1. \/ job[p] = "sync" /\ pc' = [pc EXCEPT ![p] = "work"]
        \/ job[p] = "apply" /\ pc' = [pc EXCEPT ![p] = "backup"]
        \/ job[p] = "env" /\ pc' = [pc EXCEPT ![p] = "unlock"]
    BY <1>7, StepAfterLoad
  <2> QED
    BY <1>7, <2>1 DEF Load
<1>8. CASE LoadFails(p)
  BY <1>8 DEF LoadFails
<1>9. CASE BeginBackup(p)
  BY <1>9 DEF BeginBackup
<1>10. CASE CopyBackup(p)
  BY <1>10 DEF CopyBackup
<1>11. CASE RenameBackup(p)
  BY <1>11 DEF RenameBackup
<1>12. CASE BackupFails(p)
  BY <1>12 DEF BackupFails
<1>13. CASE BeginSave(p)
  <2>1. \A q \in Proc : Unsaved(q)' => Unsaved(q)
    BY <1>13 DEF BeginSave
  <2>2. \A q \in Proc : Unsaved(q) => Changed(p) \cap EngineUpdates(q) = {}
    <3> SUFFICES ASSUME NEW q \in Proc, Unsaved(q), NEW u \in Changed(p), u \in EngineUpdates(q)
                 PROVE  FALSE
      OBVIOUS
    <3>1. loaded[p] \cap EngineUpdates(q) = {}
      OBVIOUS
    <3>2. u = <<p, job[p], flushes[p] + 1>>
      BY <3>1 DEF Changed
    <3>3. q = p /\ job[p] = "apply"
      BY <3>2
    <3> QED
      BY <1>13, <3>3 DEF BeginSave
  <2> QED
    BY <1>13, <2>1, <2>2 DEF BeginSave
<1>14. CASE WriteTmp(p)
  BY <1>14 DEF WriteTmp
<1>15. CASE RenameTmp(p)
  BY <1>15 DEF RenameTmp, DataInv
<1>16. CASE SaveFails(p)
  BY <1>16 DEF SaveFails
<1>17. CASE LeaveWork(p)
  BY <1>17 DEF LeaveWork
<1>18. CASE Kill(p)
  BY <1>18 DEF Kill
<1> QED
  BY <1>1, <1>2, <1>3, <1>4, <1>5, <1>6, <1>7, <1>8, <1>9,
     <1>10, <1>11, <1>12, <1>13, <1>14, <1>15, <1>16, <1>17, <1>18 DEF Step

\* A step of p keeps the process id in the lock file.
LEMMA NameStep ==
    ASSUME TypeOK, LockInv, JobInv, LockNamesHolder, NEW p \in Proc, Step(p)
    PROVE  LockNamesHolder'
<1> USE DEF Goto, locks, memory, files, Holds, LockNamesHolder, LockInv, JobInv, TypeOK, Jobs, Steps
<1>1. ASSUME NEW c \in Commands, Start(p, c)  PROVE LockNamesHolder'
  BY <1>1 DEF Start, FirstJob, GoesOn
<1>2. CASE TryLock(p)
  BY <1>2 DEF TryLock
<1>3. CASE LockRefused(p)
  <2>1. \/ pc' = [pc EXCEPT ![p] = "ended"] /\ job' = job
        \/ /\ pc' = [pc EXCEPT ![p] = "lock"]
           /\ job[p] = "sync"
           /\ job' = [job EXCEPT ![p] = "apply"]
    BY <1>3, StepAfterJob
  <2> QED
    BY <1>3, <2>1 DEF LockRefused
<1>4. CASE WritePid(p)
  <2>1. /\ job[p] \in Jobs
        /\ pc' = [pc EXCEPT ![p] = IF job[p] = "init" THEN "work" ELSE "load"]
    BY <1>4, StepAfterPid
  <2> QED
    BY <1>4, <2>1 DEF WritePid
<1>5. CASE WritePidFails(p)
  BY <1>5 DEF WritePidFails
<1>6. CASE Unlock(p)
  <2>1. \/ pc' = [pc EXCEPT ![p] = "ended"] /\ job' = job
        \/ /\ pc' = [pc EXCEPT ![p] = "lock"]
           /\ job[p] = "sync"
           /\ job' = [job EXCEPT ![p] = "apply"]
    BY <1>6, StepAfterJob
  <2> QED
    BY <1>6, <2>1 DEF Unlock
<1>7. CASE Load(p)
  <2>1. \/ job[p] = "sync" /\ pc' = [pc EXCEPT ![p] = "work"]
        \/ job[p] = "apply" /\ pc' = [pc EXCEPT ![p] = "backup"]
        \/ job[p] = "env" /\ pc' = [pc EXCEPT ![p] = "unlock"]
    BY <1>7, StepAfterLoad
  <2> QED
    BY <1>7, <2>1 DEF Load
<1>8. CASE LoadFails(p)
  BY <1>8 DEF LoadFails
<1>9. CASE BeginBackup(p)
  BY <1>9 DEF BeginBackup
<1>10. CASE CopyBackup(p)
  BY <1>10 DEF CopyBackup
<1>11. CASE RenameBackup(p)
  BY <1>11 DEF RenameBackup
<1>12. CASE BackupFails(p)
  BY <1>12 DEF BackupFails
<1>13. CASE BeginSave(p)
  BY <1>13 DEF BeginSave, MaySave, Changed
<1>14. CASE WriteTmp(p)
  BY <1>14 DEF WriteTmp
<1>15. CASE RenameTmp(p)
  BY <1>15 DEF RenameTmp
<1>16. CASE SaveFails(p)
  BY <1>16 DEF SaveFails
<1>17. CASE LeaveWork(p)
  BY <1>17 DEF LeaveWork
<1>18. CASE Kill(p)
  BY <1>18 DEF Kill
<1> QED
  BY <1>1, <1>2, <1>3, <1>4, <1>5, <1>6, <1>7, <1>8, <1>9,
     <1>10, <1>11, <1>12, <1>13, <1>14, <1>15, <1>16, <1>17, <1>18 DEF Step

\* A step of p keeps the backup of whoever is inside the lock.
LEMMA BackupStep ==
    ASSUME TypeOK, LockInv, JobInv, DataInv, FreshInv, BackupIsPreApply, NEW p \in Proc, Step(p)
    PROVE  BackupIsPreApply'
<1> USE DEF Goto, locks, memory, files, Holds, BackupIsPreApply, LockInv, JobInv, FreshInv, Unsaved, TypeOK, Jobs, Steps, Content, EngineUpdates
<1>1. ASSUME NEW c \in Commands, Start(p, c)  PROVE BackupIsPreApply'
  <2>1. pc[p] = "start" /\ UNCHANGED <<backup, loaded, backedUp>>
    BY <1>1 DEF Start
  <2>2. \A q \in Proc \ {p} : pc'[q] = pc[q] /\ job'[q] = job[q]
    BY <1>1 DEF Start
  <2>3. pc'[p] \in {"lock", "ended"}
    BY <1>1 DEF Start
  <2> HIDE DEF TypeOK, Content
  <2> QED
    BY <2>1, <2>2, <2>3
<1>2. CASE TryLock(p)
  BY <1>2 DEF TryLock
<1>3. CASE LockRefused(p)
  <2>1. \/ pc' = [pc EXCEPT ![p] = "ended"] /\ job' = job
        \/ /\ pc' = [pc EXCEPT ![p] = "lock"]
           /\ job[p] = "sync"
           /\ job' = [job EXCEPT ![p] = "apply"]
    BY <1>3, StepAfterJob
  <2> QED
    BY <1>3, <2>1 DEF LockRefused
<1>4. CASE WritePid(p)
  <2>1. /\ job[p] \in Jobs
        /\ pc' = [pc EXCEPT ![p] = IF job[p] = "init" THEN "work" ELSE "load"]
    BY <1>4, StepAfterPid
  <2> QED
    BY <1>4, <2>1 DEF WritePid
<1>5. CASE WritePidFails(p)
  BY <1>5 DEF WritePidFails
<1>6. CASE Unlock(p)
  <2>1. \/ pc' = [pc EXCEPT ![p] = "ended"] /\ job' = job
        \/ /\ pc' = [pc EXCEPT ![p] = "lock"]
           /\ job[p] = "sync"
           /\ job' = [job EXCEPT ![p] = "apply"]
    BY <1>6, StepAfterJob
  <2> QED
    BY <1>6, <2>1 DEF Unlock
<1>7. CASE Load(p)
  <2>1. \/ job[p] = "sync" /\ pc' = [pc EXCEPT ![p] = "work"]
        \/ job[p] = "apply" /\ pc' = [pc EXCEPT ![p] = "backup"]
        \/ job[p] = "env" /\ pc' = [pc EXCEPT ![p] = "unlock"]
    BY <1>7, StepAfterLoad
  <2> QED
    BY <1>7, <2>1 DEF Load
<1>8. CASE LoadFails(p)
  BY <1>8 DEF LoadFails
<1>9. CASE BeginBackup(p)
  BY <1>9 DEF BeginBackup
<1>10. CASE CopyBackup(p)
  BY <1>10 DEF CopyBackup
<1>11. CASE RenameBackup(p)
  BY <1>11 DEF RenameBackup, DataInv
<1>12. CASE BackupFails(p)
  BY <1>12 DEF BackupFails
<1>13. CASE BeginSave(p)
  BY <1>13 DEF BeginSave, MaySave, Changed
<1>14. CASE WriteTmp(p)
  BY <1>14 DEF WriteTmp
<1>15. CASE RenameTmp(p)
  BY <1>15 DEF RenameTmp
<1>16. CASE SaveFails(p)
  BY <1>16 DEF SaveFails
<1>17. CASE LeaveWork(p)
  BY <1>17 DEF LeaveWork
<1>18. CASE Kill(p)
  BY <1>18 DEF Kill
<1> QED
  BY <1>1, <1>2, <1>3, <1>4, <1>5, <1>6, <1>7, <1>8, <1>9,
     <1>10, <1>11, <1>12, <1>13, <1>14, <1>15, <1>16, <1>17, <1>18 DEF Step

--------------------------------------------------------------------------------
\* IInv is inductive.
LEMMA StoreInit == Init => IInv
<1> SUFFICES ASSUME Init PROVE IInv
  OBVIOUS
<1>1. Cardinality(Proc) \in Nat /\ MaxFlushes \in Nat
  BY FS_CardinalityType, StoreAssumption DEF StoreAssumption
<1>2. 0 \in 0 .. Cardinality(Proc) + 1 /\ 0 \in 0 .. MaxFlushes
  BY <1>1
<1>3. TypeOK
  BY <1>2, ValueAssumption DEF Init, TypeOK, Steps, Content, WholeFile, ValueAssumption
<1>4. LockInv /\ JobInv /\ DataInv /\ FreshInv
  <2>1. LockInv /\ JobInv
    BY ValueAssumption DEF Init, LockInv, JobInv, Holds, Jobs, ValueAssumption
  <2>2. DataInv /\ FreshInv
    BY ValueAssumption DEF Init, DataInv, FreshInv, Unsaved, Jobs, ValueAssumption
  <2> QED
    BY <2>1, <2>2
<1>5. LockNamesHolder /\ BackupIsPreApply
  BY DEF Init, LockNamesHolder, BackupIsPreApply, Holds
<1> QED
  BY <1>3, <1>4, <1>5 DEF IInv

LEMMA StoreStep == IInv /\ [Next]_vars => IInv'
<1> SUFFICES ASSUME IInv, [Next]_vars PROVE IInv'
  OBVIOUS
<1> USE DEF IInv
<1>1. ASSUME NEW p \in Proc, Step(p) PROVE IInv'
  BY <1>1, TypeStep, LockStep, JobStep, DataStep, FreshStep, NameStep, BackupStep
<1>2. CASE UNCHANGED vars
  <2> USE <1>2 DEF vars, locks, memory, files
  <2>1. TypeOK'
    BY DEF TypeOK, WholeFile
  <2>2. LockInv' /\ JobInv'
    BY DEF LockInv, JobInv, Holds
  <2>3. DataInv' /\ FreshInv'
    BY DEF DataInv, FreshInv, Unsaved
  <2>4. LockNamesHolder' /\ BackupIsPreApply'
    BY DEF LockNamesHolder, BackupIsPreApply, Holds
  <2> QED
    BY <2>1, <2>2, <2>3, <2>4
<1> QED
  BY <1>1, <1>2 DEF Next

LEMMA StoreInvariant == Spec => []IInv
  BY StoreInit, StoreStep, PTL DEF Spec

\* Two commands are never inside the lock at once: flock gives an inode to one
\* of them, and as no command removes state.lock (uninit is not one of these)
\* all of them lock the same inode.
THEOREM CommandsExclude == Spec => []MutualExclusion
<1>1. IInv => MutualExclusion
  BY DEF IInv, LockInv, MutualExclusion
<1> QED
  BY <1>1, StoreInvariant, PTL

\* The process id in state.lock is that of the command at work, so the message
\* to a refused command names a process that runs.
THEOREM LockFileNamesHolder == Spec => []LockNamesHolder
<1>1. IInv => LockNamesHolder
  BY DEF IInv
<1> QED
  BY <1>1, StoreInvariant, PTL

\* The variables keep their types; state.json and its backup are never half
\* written, whatever dies and whichever write fails.
THEOREM FilesAreWhole == Spec => []TypeOK
<1>1. IInv => TypeOK
  BY DEF IInv
<1> QED
  BY <1>1, StoreInvariant, PTL

\* Until an apply ends, its backup is the state its engine started from.
THEOREM BackupKept == Spec => []BackupIsPreApply
<1>1. IInv => BackupIsPreApply
  BY DEF IInv
<1> QED
  BY <1>1, StoreInvariant, PTL

--------------------------------------------------------------------------------
(***************************************************************************)
(* The refinement.                                                         *)
(***************************************************************************)

\* The owner is whoever is inside the lock.
LEMMA OwnerInside ==
    /\ LockInv => \A p \in Proc : Holds(p) => Owner = p
    /\ (\A p \in Proc : ~Holds(p)) => Owner = None
  BY DEF LockInv, Owner

LEMMA OwnerInsideNext ==
    /\ LockInv' => \A p \in Proc : Holds(p)' => Owner' = p
    /\ (\A p \in Proc : ~Holds(p)') => Owner' = None
  BY DEF LockInv, Owner

\* A step that leaves everybody inside or outside leaves the owner.
LEMMA OwnerStays ==
    ASSUME LockInv, LockInv', \A p \in Proc : Holds(p)' <=> Holds(p)
    PROVE  Owner' = Owner
<1>1. CASE \E p \in Proc : Holds(p)
  <2>1. PICK p \in Proc : Holds(p)
    BY <1>1
  <2> QED
    BY <2>1, OwnerInside, OwnerInsideNext
<1>2. CASE \A p \in Proc : ~Holds(p)
  BY <1>2, OwnerInside, OwnerInsideNext
<1> QED
  BY <1>1, <1>2

LEMMA RegisterStep ==
    ASSUME IInv, IInv', NEW p \in Proc, Step(p)
    PROVE  [Register!Next]_(Register!vars)
<1> USE DEF IInv, Goto, locks, memory, files, Register!vars
<1>1. ASSUME Holds(p), ~Holds(p)', \A q \in Proc \ {p} : pc'[q] = pc[q], state' = state
      PROVE  Register!Release
  <2>1. \A q \in Proc : ~Holds(q)'
    BY <1>1 DEF LockInv, Holds
  <2> QED
    BY <1>1, <2>1, OwnerInsideNext DEF Register!Release
<1>2. ASSUME \A q \in Proc : Holds(q)' <=> Holds(q), state' = state
      PROVE  UNCHANGED Register!vars
  BY <1>2, OwnerStays
<1>3. ASSUME NEW c \in Commands, Start(p, c)
      PROVE  UNCHANGED Register!vars
  BY <1>3, <1>2 DEF Start, Holds, TypeOK
<1>4. CASE TryLock(p)
  <2>1. \A q \in Proc : held[q] = 0
    BY <1>4 DEF TryLock, IsFree, Opened, LockInv
  <2>2. Owner = None
    BY <2>1, OwnerInside DEF LockInv
  <2>3. Owner' = p
    BY <1>4, OwnerInsideNext DEF TryLock, TypeOK, Holds
  <2> QED
    BY <1>4, <2>2, <2>3 DEF TryLock, Register!Next, Register!Acquire
<1>5. CASE RenameTmp(p)
  <2>1. Owner = p
    BY <1>5, OwnerInside DEF RenameTmp, Holds
  <2>2. Owner' = Owner
    BY <1>5, OwnerStays DEF RenameTmp, Holds, TypeOK
  <2>3. Owner # None
    BY <2>1, StoreAssumption DEF StoreAssumption
  <2>4. state' = loaded[p] /\ job[p] \in {"init", "sync", "apply"}
    BY <1>5 DEF RenameTmp, DataInv, JobInv, Jobs
  <2>5. CASE job[p] = "init"
    BY <2>2, <2>3, <2>4, <2>5 DEF JobInv, Register!Next, Register!Reset
  <2>6. CASE job[p] # "init"
    <3>1. state # Absent /\ state \subseteq state'
      BY <1>5, <2>4, <2>6 DEF RenameTmp, JobInv, DataInv
    <3> QED
      BY <2>2, <2>3, <3>1 DEF Register!Next, Register!Commit
  <2> QED
    BY <2>4, <2>5, <2>6
<1>6. CASE Unlock(p)
  <2>1. Holds(p) /\ state' = state
    BY <1>6 DEF Unlock, Holds
  <2>2. ~Holds(p)' /\ \A q \in Proc \ {p} : pc'[q] = pc[q]
    BY <1>6, StepAfterJob DEF Holds, TypeOK
  <2> QED
    BY <1>1, <2>1, <2>2 DEF Register!Next
<1>7. CASE Kill(p)
  <2>1. CASE Holds(p)
    BY <1>1, <1>7, <2>1 DEF Kill, Holds, TypeOK, Register!Next
  <2>2. CASE ~Holds(p)
    BY <1>2, <1>7, <2>2 DEF Kill, Holds, TypeOK
  <2> QED
    BY <2>1, <2>2
<1>8. CASE LockRefused(p)
  BY <1>2, <1>8, StepAfterJob DEF LockRefused, Holds, TypeOK
<1>9. CASE WritePid(p) \/ WritePidFails(p)
  BY <1>2, <1>9, StepAfterPid DEF WritePid, WritePidFails, Holds, TypeOK
<1>10. CASE Load(p) \/ LoadFails(p)
  BY <1>2, <1>10, StepAfterLoad DEF Load, LoadFails, Holds, TypeOK
<1>11. CASE BeginBackup(p) \/ CopyBackup(p) \/ RenameBackup(p) \/ BackupFails(p)
  BY <1>2, <1>11 DEF BeginBackup, CopyBackup, RenameBackup, BackupFails, Holds, TypeOK
<1>12. CASE BeginSave(p) \/ WriteTmp(p) \/ SaveFails(p) \/ LeaveWork(p)
  BY <1>2, <1>12 DEF BeginSave, WriteTmp, SaveFails, LeaveWork, Holds, TypeOK
<1> QED
  BY <1>3, <1>4, <1>5, <1>6, <1>7, <1>8, <1>9, <1>10, <1>11, <1>12 DEF Step

\* The lock and the files are a register with one owner: a save that was done
\* is lost to nobody, and a process that dies leaves the state before or after
\* its save.
THEOREM StoreIsRegister == Spec => ImplementsRegister
<1>1. Init => Register!Init
  BY OwnerInside DEF Init, Register!Init, Holds
<1>2. IInv /\ IInv' /\ [Next]_vars => [Register!Next]_(Register!vars)
  <2> SUFFICES ASSUME IInv, IInv', [Next]_vars
               PROVE  [Register!Next]_(Register!vars)
    OBVIOUS
  <2>1. CASE Next
    BY <2>1, RegisterStep DEF Next
  <2>2. CASE UNCHANGED vars
    <3>1. Owner' = Owner
      BY <2>2, OwnerStays DEF vars, Holds, IInv
    <3> QED
      BY <2>2, <3>1 DEF vars, files, Register!vars
  <2> QED
    BY <2>1, <2>2
<1> QED
  BY <1>1, <1>2, StoreInvariant, PTL DEF Spec, ImplementsRegister, Register!Spec

================================================================================
