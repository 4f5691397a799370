-------------------------------- MODULE LogStore --------------------------------
(***************************************************************************)
(* The logs of failed installations.  An apply streams the output of each  *)
(* resource to a temporary file of its session, a directory named by the   *)
(* second in which the apply began; at the end it turns the files of the   *)
(* failed resources into logs, removes the rest, deletes the oldest        *)
(* sessions and, if it wrote no log, its own.  An output is modelled by    *)
(* the number of its lines.                                                *)
(***************************************************************************)
EXTENDS Integers, FiniteSetsExt, SequencesExt

CONSTANTS
    Apply,       \* runs of tomei apply
    Resource,
    LastSecond,  \* bound: the clock
    Keep,        \* sessions that Cleanup keeps
    None

ASSUME LogAssumption ==
    /\ IsFiniteSet(Apply) /\ IsFiniteSet(Resource)
    /\ LastSecond \in Nat /\ Keep \in Nat
    /\ None \notin Apply /\ None \notin Nat /\ None \notin [Resource -> Nat \cup {None}]

Second == 0 .. LastSecond

VARIABLES
    sessions,    \* the log directory: None, or a session's logs
    store        \* each apply's Store

logVars == <<sessions, store>>

NoLogs == [r \in Resource |-> None]

Closed == [session |-> 0, dirCreated |-> FALSE, writers |-> NoLogs, metadata |-> {}, failed |-> {}]

LogInit ==
    /\ sessions \in [Second -> {None, NoLogs}]
    /\ store = [a \in Apply |-> Closed]

NewStore(a, second) ==
    /\ store' = [store EXCEPT ![a] = [Closed EXCEPT !.session = second]]
    /\ UNCHANGED sessions

--------------------------------------------------------------------------------
(***************************************************************************)
(* While the engine runs: what handleLogEvent calls.                       *)
(***************************************************************************)

\* os.Create fails in a directory that someone else has removed.
RecordStart(a, r) ==
    LET s == store[a]
        dir == IF s.dirCreated \/ sessions[s.session] # None THEN sessions[s.session] ELSE NoLogs
    IN  /\ sessions' = [sessions EXCEPT ![s.session] = dir]
        /\ store' = [store EXCEPT ![a] =
              IF dir = None
              THEN s
              ELSE [s EXCEPT !.dirCreated = TRUE, !.writers[r] = 0, !.metadata = @ \cup {r}]]

RecordOutput(a, r) ==
    /\ store' = [store EXCEPT ![a].writers[r] = IF @ = None THEN None ELSE @ + 1]
    /\ UNCHANGED sessions

RecordError(a, r) ==
    /\ store' = [store EXCEPT ![a].failed = @ \cup {r}]
    /\ UNCHANGED sessions

RecordComplete(a, r) ==
    /\ store' = [store EXCEPT ![a].writers[r] = None, ![a].metadata = @ \ {r}]
    /\ UNCHANGED sessions

--------------------------------------------------------------------------------
(***************************************************************************)
(* After it: finishApply, and the deferred Close.                          *)
(***************************************************************************)

readTmpFile(s, r) == IF s.writers[r] = None THEN 0 ELSE s.writers[r]

\* What PrintFailureLogs is given, after Flush has closed the writers.
FailedResources(a) ==
    {[name |-> r, output |-> readTmpFile(store[a], r)] : r \in store[a].failed \cap store[a].metadata}

\* buildLogContent and WriteFile, which fails where the directory is gone.
WithLogs(dir, s) ==
    IF dir = None
    THEN None
    ELSE [r \in Resource |-> IF r \in s.failed \cap s.metadata THEN readTmpFile(s, r) ELSE dir[r]]

cleanupTmpFiles(s) == [s EXCEPT !.writers = NoLogs]

Flush(a) ==
    LET s == store[a]
    IN  IF s.failed = {}
        THEN UNCHANGED logVars
        ELSE /\ sessions' = [sessions EXCEPT ![s.session] = WithLogs(@, s)]
             /\ store' = [store EXCEPT ![a] = cleanupTmpFiles(s)]

Sessions == {t \in Second : sessions[t] # None}

Newest_Oldest(n, dirs) == {t \in dirs : Cardinality({u \in dirs : u < t}) < n}

\* The newest by name, whosever they are.
Newest(n, dirs) == {t \in dirs : Cardinality({u \in dirs : u > t}) < n}

Cleanup(a) ==
    /\ sessions' = [t \in Second |-> IF t \in Newest(Keep, Sessions) THEN sessions[t] ELSE None]
    /\ UNCHANGED store

removeIfEmpty(dir) == IF dir = NoLogs THEN None ELSE dir

Close(a) ==
    LET s == store[a]
    IN  /\ store' = [store EXCEPT ![a] = cleanupTmpFiles(s)]
        /\ sessions' = IF s.dirCreated
                       THEN [sessions EXCEPT ![s.session] = removeIfEmpty(@)]
                       ELSE sessions

--------------------------------------------------------------------------------
(***************************************************************************)
(* tomei logs.                                                             *)
(***************************************************************************)

ReadSessionLogs(t) == {r \in Resource : sessions[t][r] # None}

ReadResourceLog(t, r) == sessions[t][r]

\* showLatestSession, and showResourceLogFromArgs for one of its logs:
\* ListSessions has the newest first.
LatestLogs ==
    IF Sessions = {}
    THEN {}
    ELSE LET latest == Max(Sessions)
         IN  {[name |-> r, output |-> ReadResourceLog(latest, r)] : r \in ReadSessionLogs(latest)}

================================================================================
