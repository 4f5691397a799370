------------------------------ MODULE Repositories ------------------------------
(***************************************************************************)
(* Installer repositories: git clones under reposDir/installerRef/name, or *)
(* entries that an installer's own commands add and remove.  A repository  *)
(* is taken up again only when its URL or its type has changed; a clone    *)
(* that is there is pulled, whatever it is a clone of, and a name that the *)
(* installer knows is left as it is.  A removal that fails ends the apply  *)
(* before what was removed so far is written to state.json.                *)
(***************************************************************************)
EXTENDS Integers

CONSTANTS
    Repo,
    Url,
    Installer,
    None,
    Removable,    \* repositories whose delegation has a remove command
    MaxEdits,     \* bound: edits of the manifest
    MaxKills      \* bound: kills of the process

\* What the constants are; the instance assumes it.
RepoAssumption ==
    /\ None \notin Url \cup Repo \cup Installer \X Repo
    /\ None \notin [url : Url, whole : BOOLEAN]
    /\ None \notin [type : {"git", "delegation"}, url : Url, ref : Installer,
                    path : (Installer \X Repo) \cup {None}]
    /\ Removable \subseteq Repo
    /\ MaxEdits \in Nat /\ MaxKills \in Nat

VARIABLES
    wanted,       \* the manifest: each repository's spec, or None
    recorded,     \* state.json
    known,        \* the engine's copy
    clone,        \* reposDir/ref/name: None, or the URL of its remote and whether it is whole
    entry,        \* the URL an installer knows a name with, or None
    step,         \* "idle", "running" or "removing"
    pending,      \* repositories still to be taken up in this step
    cloning,      \* the repository being cloned, or None
    ended,        \* how the apply of this manifest ended
    lost,         \* history: repositories with files or entries that state may not know,
                  \* or without those that it lists
    edited, killed

repoVars == <<wanted, recorded, known, clone, entry, step, pending, cloning, ended, lost, edited, killed>>

Specs == [type : {"git", "delegation"}, url : Url, ref : Installer]

Init ==
    /\ wanted \in [Repo -> Specs \cup {None}]
    /\ recorded = [r \in Repo |-> None]
    /\ known = recorded
    /\ clone = [p \in Installer \X Repo |-> None]
    /\ entry = [p \in Installer \X Repo |-> None]
    /\ step = "idle"
    /\ pending = {}
    /\ cloning = None
    /\ ended = "none"
    /\ lost = {}
    /\ edited = 0
    /\ killed = 0

--------------------------------------------------------------------------------
Edit(r) ==
    /\ step = "idle"
    /\ edited < MaxEdits
    /\ edited' = edited + 1
    /\ \E s \in Specs \cup {None} : s # wanted[r] /\ wanted' = [wanted EXCEPT ![r] = s]
    /\ ended' = "none"
    /\ UNCHANGED <<recorded, known, clone, entry, step, pending, cloning, lost, killed>>

\* InstallerRepositoryComparator: a changed installerRef is no reason.
NeedsUpdate(s, st) == st # None => s.url # st.url \/ s.type # st.type

Begin ==
    /\ step = "idle"
    /\ step' = "running"
    /\ known' = recorded
    /\ pending' = {r \in Repo : wanted[r] # None /\ NeedsUpdate(wanted[r], recorded[r])}
    /\ ended' = "none"
    /\ UNCHANGED <<wanted, recorded, clone, entry, cloning, lost, edited, killed>>

Configured_NoPath(r) ==
    /\ known' = [known EXCEPT ![r] = [type |-> wanted[r].type, url |-> wanted[r].url,
                                      ref |-> wanted[r].ref, path |-> None]]
    /\ pending' = pending \ {r}
    /\ UNCHANGED lost

\* buildGitState and buildDelegationState.  What another type or another
\* installer left behind is not in the state any more.
Configured(r) ==
    LET s == wanted[r]
        st == known[r]
    IN  /\ known' = [known EXCEPT ![r] = [type |-> s.type, url |-> s.url, ref |-> s.ref,
                                         path |-> IF s.type = "git" THEN <<s.ref, r>> ELSE None]]
        /\ lost' = IF st # None /\ (st.type # s.type \/ st.ref # s.ref) THEN lost \cup {r} ELSE lost
        /\ pending' = pending \ {r}

Running(r, type) ==
    /\ step = "running" /\ r \in pending /\ cloning = None
    /\ wanted[r].type = type

Same == UNCHANGED <<wanted, recorded, step, edited, killed>>

\* Exists: pull, from the remote the clone has; a failed pull is a warning.
Pull(r) ==
    /\ Running(r, "git")
    /\ clone[<<wanted[r].ref, r>>] # None
    /\ Configured(r)
    /\ UNCHANGED <<clone, entry, cloning, ended>> /\ Same

\* A clone begins with an empty repository that has a remote...
StartClone(r) ==
    /\ Running(r, "git")
    /\ clone[<<wanted[r].ref, r>>] = None
    /\ clone' = [clone EXCEPT ![<<wanted[r].ref, r>>] = [url |-> wanted[r].url, whole |-> FALSE]]
    /\ cloning' = r
    /\ UNCHANGED <<known, entry, pending, ended, lost>> /\ Same

\* ... that the fetch fills...
EndClone(r) ==
    /\ cloning = r
    /\ cloning' = None
    /\ clone' = [clone EXCEPT ![<<wanted[r].ref, r>>].whole = TRUE]
    /\ Configured(r)
    /\ UNCHANGED <<entry, ended>> /\ Same

\* ... or that is removed again when the fetch fails.
CloneFails(r) ==
    /\ cloning = r
    /\ cloning' = None
    /\ clone' = [clone EXCEPT ![<<wanted[r].ref, r>>] = None]
    /\ pending' = pending \ {r}
    /\ ended' = "error"
    /\ UNCHANGED <<known, entry, lost>> /\ Same

\* A check that finds the name, or the install command.
Delegate(r) ==
    LET e == <<wanted[r].ref, r>>
    IN  /\ Running(r, "delegation")
        /\ entry' = IF entry[e] = None THEN [entry EXCEPT ![e] = wanted[r].url] ELSE entry
        /\ Configured(r)
        /\ UNCHANGED <<clone, cloning, ended>> /\ Same

DelegateFails(r) ==
    /\ Running(r, "delegation")
    /\ entry[<<wanted[r].ref, r>>] = None
    /\ pending' = pending \ {r}
    /\ ended' = "error"
    /\ UNCHANGED <<known, clone, entry, cloning, lost>> /\ Same

EndRunning ==
    /\ step = "running" /\ pending = {}
    /\ recorded' = known
    /\ step' = IF ended = "error" THEN "idle" ELSE "removing"
    /\ pending' = IF ended = "error" THEN {} ELSE {r \in Repo : wanted[r] = None /\ known[r] # None}
    /\ UNCHANGED <<wanted, known, clone, entry, cloning, ended, lost, edited, killed>>

\* Remove goes by the state: a clone's path, or the remove command, if there is
\* one.
Remove(r) ==
    LET st == known[r]
    IN  /\ step = "removing" /\ r \in pending
        /\ IF st.type = "git"
           THEN /\ clone' = IF st.path # None THEN [clone EXCEPT ![st.path] = None] ELSE clone
                /\ UNCHANGED entry
           ELSE /\ entry' = IF r \in Removable THEN [entry EXCEPT ![<<st.ref, r>>] = None] ELSE entry
                /\ UNCHANGED clone
        /\ known' = [known EXCEPT ![r] = None]
        /\ pending' = pending \ {r}
        /\ UNCHANGED <<cloning, ended, lost>> /\ Same

EndRemoving ==
    /\ step = "removing" /\ pending = {}
    /\ recorded' = known
    /\ step' = "idle"
    /\ ended' = "ok"
    /\ UNCHANGED <<wanted, known, clone, entry, pending, cloning, lost, edited, killed>>

\* The process ends without a flush: what it has done since the last one, and
\* what was under way, stays but is not in state.json.
Abandon(underway) ==
    /\ step' = "idle"
    /\ lost' = lost \cup underway \cup {q \in Repo : known[q] # recorded[q]}
    /\ known' = recorded
    /\ pending' = {}
    /\ cloning' = None
    /\ UNCHANGED <<wanted, recorded, edited>>

\* os.RemoveAll stops half way, or the remove command fails, with or without
\* effect: executeRemovals returns.
RemoveFails(r) ==
    LET st == known[r]
    IN  /\ step = "removing" /\ r \in pending
        /\ \/ /\ st.type = "git" /\ st.path # None /\ clone[st.path] # None
              /\ \/ clone' = [clone EXCEPT ![st.path].whole = FALSE]
                 \/ UNCHANGED clone
              /\ UNCHANGED entry
           \/ /\ st.type = "delegation" /\ r \in Removable
              /\ \/ entry' = [entry EXCEPT ![<<st.ref, r>>] = None]
                 \/ UNCHANGED entry
              /\ UNCHANGED clone
        /\ Abandon(IF clone' = clone /\ entry' = entry THEN {} ELSE {r})
        /\ ended' = "error"
        /\ UNCHANGED killed

\* A tool could not be removed before, a runtime after, or the last flush fails.
OthersFail ==
    /\ step = "removing"
    /\ pending = {} \/ known = recorded
    /\ Abandon({})
    /\ ended' = "error"
    /\ UNCHANGED <<clone, entry, killed>>

Kill ==
    /\ step # "idle"
    /\ killed < MaxKills
    /\ killed' = killed + 1
    /\ Abandon({cloning} \ {None})
    /\ ended' = "killed"
    /\ UNCHANGED <<clone, entry>>

Next ==
    \/ Begin \/ EndRunning \/ EndRemoving \/ OthersFail \/ Kill
    \/ \E r \in Repo :
          \/ Edit(r) \/ Pull(r) \/ StartClone(r) \/ EndClone(r) \/ CloneFails(r)
          \/ Delegate(r) \/ DelegateFails(r) \/ Remove(r) \/ RemoveFails(r)

Spec == Init /\ [][Next]_repoVars

--------------------------------------------------------------------------------
\* Every variable has its type.
TypeOK ==
    /\ wanted \in [Repo -> Specs \cup {None}]
    /\ \A p \in Installer \X Repo :
          /\ clone[p] \in [url : Url, whole : BOOLEAN] \cup {None}
          /\ entry[p] \in Url \cup {None}
    /\ step \in {"idle", "running", "removing"}
    /\ pending \subseteq Repo
    /\ cloning \in Repo \cup {None}

\* After an apply that succeeded, what state.json lists is there: the whole clone
\* at its recorded path, or the installer's entry; and of a repository that it does
\* not list there is neither a clone nor, with a remove command, an entry.  This is
\* said of repositories that no apply has cloned, configured or removed without
\* recording it (it was killed, or a later removal failed), whose own removal has
\* not failed half way, and that have never changed their type or their
\* installer, which leaves the old clone or entry behind.
ReposMatchState ==
    (step = "idle" /\ ended = "ok") =>
        \A r \in Repo \ lost :
            LET st == recorded[r]
            IN  IF st # None
                THEN IF st.type = "git" THEN st.path # None /\ clone[st.path] # None /\ clone[st.path].whole
                                        ELSE entry[<<st.ref, r>>] # None
                ELSE \A i \in Installer :
                        /\ clone[<<i, r>>] = None
                        /\ entry[<<i, r>>] = None \/ r \notin Removable

================================================================================
