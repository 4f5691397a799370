------------------------------ MODULE SelfUpgrade ------------------------------
(***************************************************************************)
(* tomei upgrade: Updater.Check, Updater.Upgrade and replaceBinary, one    *)
(* file operation per action, by processes that take no lock.  Releases    *)
(* may have an archive or a checksum that is not theirs, and a binary of   *)
(* another version; operations may fail, the user may interrupt the        *)
(* command, and the process may be killed.                                 *)
(*                                                                         *)
(* The binary is a file of the directory like the backup and the staging   *)
(* file that replaceBinary makes beside it: a version, and whether its     *)
(* mode lets it run, which a file made by CreateTemp does not.             *)
(***************************************************************************)
EXTENDS Checksums, FiniteSets

CONSTANTS
    Process,
    MaxVersion,   \* releases are 1 .. MaxVersion
    Faulty,       \* operations that may fail: "download", "copy", "rename", "chmod", "run", "rollback", "cleanup"
    MaxFaults,    \* bound: faults, interrupts and kills
    None

\* Artifacts assumes it of the constants it gives.
UpgradeAssumption ==
    /\ MaxVersion \in Nat \ {0} /\ MaxFaults \in Nat
    /\ None \notin Nat /\ None \notin [version : Nat, runs : BOOLEAN]

Release == 1 .. MaxVersion

\* A development build has a version that is none.
Dev == 0

Versions == Release \cup {Dev}

VARIABLES
    binary,   \* the file at the binary's path, or None
    backup,   \* backup[p]: p's tomei.bak.*
    staging,  \* staging[p]: p's tomei.new.*
    newest,   \* the latest release
    offer,    \* what the download of the target gives: "good", "damaged" or "mislabelled"
    job,      \* job[p]: the running version, the version asked for or None, --force
    target,   \* target[p]: the version p installs
    mode,     \* mode[p]: whether the binary p replaces was allowed to run
    cancelled,\* cancelled[p]: p's context has ended
    pc,       \* "off", a step or an outcome
    overlap,  \* two upgrades have been running at once
    faults

files == <<binary, backup, staging>>
request == <<job, target, mode, cancelled>>
vars == <<files, newest, offer, request, pc, overlap, faults>>

Binary(version, runs) == [version |-> version, runs |-> runs]

Files == [version : Versions, runs : BOOLEAN] \cup {None}

Outcomes == {"blocked", "upToDate", "ok", "failed", "stranded"}

Steps == {"check", "download", "stat", "backup", "stage", "install", "chmod", "run", "rollback",
          "cleanup", "undo"}

Ended == {"off"} \cup Outcomes

Jobs == [version : Versions \cup {None}, named : Release \cup {None}, force : BOOLEAN]

Init ==
    /\ \E v \in Versions : binary = Binary(v, TRUE)
    /\ backup = [p \in Process |-> None]
    /\ staging = [p \in Process |-> None]
    /\ newest \in Release
    /\ offer \in {"good", "damaged", "mislabelled"}
    /\ job = [p \in Process |-> [version |-> None, named |-> None, force |-> FALSE]]
    /\ target = [p \in Process |-> None]
    /\ mode = [p \in Process |-> FALSE]
    /\ cancelled = [p \in Process |-> FALSE]
    /\ pc = [p \in Process |-> "off"]
    /\ overlap = FALSE
    /\ faults = 0

--------------------------------------------------------------------------------
Goto(p, label) == pc' = [pc EXCEPT ![p] = label]

MayFail(p, operation) == operation \in Faulty /\ faults < MaxFaults /\ faults' = faults + 1

\* Somebody runs the binary that is there, if it runs.
Start(p) ==
    /\ pc[p] = "off"
    /\ binary # None /\ binary.runs
    /\ Goto(p, "check")
    /\ \E named \in Release \cup {None}, force \in BOOLEAN :
        job' = [job EXCEPT ![p] = [version |-> binary.version, named |-> named, force |-> force]]
    /\ overlap' = (overlap \/ \E q \in Process : pc[q] \notin Ended)
    /\ UNCHANGED <<files, newest, offer, target, mode, cancelled, faults>>

\* Check: a development build needs a target or --force, a given target is not
\* compared, and the latest release is taken when it is later.
Check(p) ==
    /\ pc[p] = "check"
    /\ LET j == job[p]
       IN  /\ Goto(p, IF j.named # None THEN "download"
                      ELSE IF j.version = Dev THEN (IF j.force THEN "download" ELSE "blocked")
                      ELSE IF j.version < newest THEN "download" ELSE "upToDate")
           /\ target' = [target EXCEPT ![p] = IF j.named # None THEN j.named ELSE newest]
    /\ UNCHANGED <<files, newest, offer, job, mode, cancelled, overlap, faults>>

\* The archive of a release goes by its number; these are other archives.
OtherPlatform == 0
Damaged == MaxVersion + 1

\* What checksums.txt, one line for each platform's archive, says of an archive.
ChecksumsFile(version) ==
    [json |-> FALSE,
     lines |-> <<[form |-> "gnu", name |-> OtherPlatform, dir |-> FALSE, tag |-> "",
                  digest |-> DigestOf(OtherPlatform, "sha256")],
                 [form |-> "gnu", name |-> version, dir |-> FALSE, tag |-> "",
                  digest |-> DigestOf(version, "sha256")]>>]

\* Platform and directory are checked before, archive and checksums.txt are
\* fetched, compared, and the binary is found in what is extracted.
Download(p) ==
    /\ pc[p] = "download"
    /\ LET archive == IF offer = "damaged" THEN Damaged ELSE target[p]
           sum == ParseFile(ChecksumsFile(target[p]), target[p])
       IN  Goto(p, IF sum # Failed /\ VerifyDigest(archive, sum.algorithm, sum.digest) THEN "stat" ELSE "failed")
    /\ UNCHANGED <<files, newest, offer, request, overlap, faults>>

DownloadFails(p) ==
    /\ pc[p] = "download"
    /\ \/ cancelled[p] /\ UNCHANGED faults
       \/ MayFail(p, "download")
    /\ Goto(p, "failed")
    /\ UNCHANGED <<files, newest, offer, request, overlap>>

\* The mode to restore is read, and a name for the backup is reserved.
Stat(p) ==
    /\ pc[p] = "stat"
    /\ IF binary = None
       THEN Goto(p, "failed") /\ UNCHANGED mode
       ELSE Goto(p, "backup") /\ mode' = [mode EXCEPT ![p] = binary.runs]
    /\ UNCHANGED <<files, newest, offer, job, target, cancelled, overlap, faults>>

\* Rename fails when another process has moved the binary away.
Backup(p) ==
    /\ pc[p] = "backup"
    /\ IF binary = None
       THEN Goto(p, "failed") /\ UNCHANGED <<binary, backup>>
       ELSE /\ Goto(p, "stage")
            /\ backup' = [backup EXCEPT ![p] = binary]
            /\ binary' = None
    /\ UNCHANGED <<staging, newest, offer, request, overlap, faults>>

BackupFails(p) ==
    /\ pc[p] = "backup"
    /\ MayFail(p, "rename")
    /\ Goto(p, "failed")
    /\ UNCHANGED <<files, newest, offer, request, overlap>>

Stage(p) ==
    /\ pc[p] = "stage"
    /\ Goto(p, "install")
    /\ staging' = [staging EXCEPT ![p] =
                    Binary(IF offer = "mislabelled" THEN Dev ELSE target[p], FALSE)]
    /\ UNCHANGED <<binary, backup, newest, offer, request, overlap, faults>>

\* After the backup every error leads to the deferred restore.
ReplaceFails(p) ==
    /\ \/ pc[p] = "stage" /\ MayFail(p, "copy")
       \/ pc[p] = "install" /\ MayFail(p, "rename")
       \/ pc[p] = "chmod" /\ (MayFail(p, "chmod") \/ (binary = None /\ UNCHANGED faults))
    /\ Goto(p, "undo")
    /\ staging' = [staging EXCEPT ![p] = None]
    /\ UNCHANGED <<binary, backup, newest, offer, request, overlap>>

Install(p) ==
    /\ pc[p] = "install"
    /\ Goto(p, "chmod")
    /\ binary' = staging[p]
    /\ staging' = [staging EXCEPT ![p] = None]
    /\ UNCHANGED <<backup, newest, offer, request, overlap, faults>>

Chmod(p) ==
    /\ pc[p] = "chmod"
    /\ binary # None
    /\ Goto(p, "run")
    /\ binary' = Binary(binary.version, mode[p])
    /\ UNCHANGED <<backup, staging, newest, offer, request, overlap, faults>>

\* verifyBinary: the new binary runs and says it is the target.
Verify(p) ==
    /\ pc[p] = "run"
    /\ Goto(p, IF /\ binary # None /\ binary.runs /\ ~cancelled[p]
                  /\ binary.version = target[p] THEN "cleanup" ELSE "rollback")
    /\ UNCHANGED <<files, newest, offer, request, overlap, faults>>

VerifyFails(p) ==
    /\ pc[p] = "run"
    /\ MayFail(p, "run")
    /\ Goto(p, "rollback")
    /\ UNCHANGED <<files, newest, offer, request, overlap>>

\* restoreBackup, and the deferred restore in replaceBinary.
Restore_Copyless(p) ==
    /\ pc[p] \in {"rollback", "undo"}
    /\ Goto(p, "failed")
    /\ binary' = IF binary = None THEN backup[p] ELSE binary
    /\ backup' = [backup EXCEPT ![p] = None]
    /\ UNCHANGED <<staging, newest, offer, request, overlap, faults>>

Restore(p) ==
    /\ pc[p] \in {"rollback", "undo"}
    /\ Goto(p, "failed")
    /\ binary' = backup[p]
    /\ backup' = [backup EXCEPT ![p] = None]
    /\ UNCHANGED <<staging, newest, offer, request, overlap, faults>>

\* The user is told where the backup is, or the log is.
RestoreFails(p) ==
    /\ pc[p] \in {"rollback", "undo"}
    /\ MayFail(p, "rollback")
    /\ Goto(p, "stranded")
    /\ UNCHANGED <<files, newest, offer, request, overlap>>

Cleanup_BeforeRun(p) ==
    /\ pc[p] \in {"run", "cleanup"}
    /\ IF pc[p] = "cleanup" THEN Goto(p, "ok") ELSE UNCHANGED pc
    /\ backup' = [backup EXCEPT ![p] = None]
    /\ UNCHANGED <<binary, staging, newest, offer, request, overlap, faults>>

Cleanup(p) ==
    /\ pc[p] = "cleanup"
    /\ Goto(p, "ok")
    /\ backup' = [backup EXCEPT ![p] = None]
    /\ UNCHANGED <<binary, staging, newest, offer, request, overlap, faults>>

\* Nobody is told that the backup could not be deleted.
CleanupFails(p) ==
    /\ pc[p] = "cleanup"
    /\ MayFail(p, "cleanup")
    /\ Goto(p, "ok")
    /\ UNCHANGED <<files, newest, offer, request, overlap>>

\* Ctrl+C, or the timeout of the command: the context ends, replaceBinary does
\* not look at it.
Interrupt(p) ==
    /\ pc[p] \notin Ended
    /\ ~cancelled[p]
    /\ faults < MaxFaults
    /\ faults' = faults + 1
    /\ cancelled' = [cancelled EXCEPT ![p] = TRUE]
    /\ UNCHANGED <<files, newest, offer, job, target, mode, pc, overlap>>

\* Backup and staging files of a killed process stay.
Kill(p) ==
    /\ pc[p] \notin Ended
    /\ faults < MaxFaults
    /\ faults' = faults + 1
    /\ Goto(p, "stranded")
    /\ UNCHANGED <<files, newest, offer, request, overlap>>

Step(p) ==
    \/ Start(p) \/ Check(p) \/ Download(p) \/ DownloadFails(p) \/ Stat(p) \/ Backup(p)
    \/ BackupFails(p) \/ Stage(p) \/ ReplaceFails(p) \/ Install(p) \/ Chmod(p) \/ Verify(p)
    \/ VerifyFails(p) \/ Restore(p) \/ RestoreFails(p) \/ Cleanup(p) \/ CleanupFails(p)
    \/ Interrupt(p) \/ Kill(p)

Next == \E p \in Process : Step(p)

Spec == Init /\ [][Next]_vars

--------------------------------------------------------------------------------
\* Every variable has its type.
TypeOK ==
    /\ binary \in Files
    /\ backup \in [Process -> Files]
    /\ staging \in [Process -> Files]
    /\ newest \in Release
    /\ pc \in [Process -> Ended \cup Steps]
    /\ job \in [Process -> Jobs]
    /\ target \in [Process -> Release \cup {None}]
    /\ mode \in [Process -> BOOLEAN]
    /\ cancelled \in [Process -> BOOLEAN]
    /\ overlap \in BOOLEAN
    /\ faults \in 0 .. MaxFaults

Works(file) == file # None /\ file.runs

\* As long as upgrades do not overlap, there is a binary that runs at every
\* moment, at its path or beside it as a backup: through failures at every
\* step, interrupts, kills and a rollback that fails.
SomeBinaryWorks == ~overlap => (Works(binary) \/ \E p \in Process : Works(backup[p]))

\* An upgrade that ends by itself leaves a binary that runs: of the target if it
\* says so, and of the version before if it does not.
EndsTruthfully ==
    \A p \in Process :
        (~overlap' /\ pc'[p] # pc[p]) =>
            /\ pc'[p] = "ok" => binary' = Binary(target[p], TRUE)
            /\ pc'[p] = "failed" => binary' = Binary(job[p].version, TRUE)

OutcomeIsTrue == [][EndsTruthfully]_vars

\* Even upgrades that overlap never leave the directory without a binary,
\* although it may be one that is not allowed to run.
NeverGone == binary # None \/ \E p \in Process : backup[p] # None

\* What the invariants rest on, for every interleaving: who has moved the binary
\* away still has it as a backup, and a binary that is missing is the backup of
\* one who is not about to delete it.
BackedUp ==
    /\ \A p \in Process :
        /\ pc[p] \in {"stage", "install", "chmod", "run", "rollback", "undo", "cleanup"} => backup[p] # None
        /\ pc[p] = "install" => staging[p] # None
        /\ pc[p] \in Steps \ {"check"} => target[p] # None
    /\ binary = None => \E p \in Process : backup[p] # None /\ pc[p] # "cleanup"

\* And when upgrades do not overlap: what is where at each step of the one that
\* is running.
StepByStep ==
    ~overlap =>
        /\ \A p, q \in Process : pc[p] \notin Ended /\ pc[q] \notin Ended => p = q
        /\ \A p \in Process :
            /\ pc[p] \in {"check", "download", "stat", "backup"} =>
                    Works(binary) /\ binary = Binary(job[p].version, TRUE)
            /\ pc[p] \in {"stage", "install", "chmod", "run", "rollback", "undo"} =>
                    Works(backup[p]) /\ backup[p] = Binary(job[p].version, TRUE)
            /\ pc[p] = "cleanup" => Works(binary) /\ binary = Binary(target[p], TRUE)
        /\ (\A p \in Process : pc[p] \in Ended) => (Works(binary) \/ \E p \in Process : Works(backup[p]))

\* What the command's help says of the replacement: it is atomic.
ReplacementIsAtomic == Works(binary)

================================================================================
