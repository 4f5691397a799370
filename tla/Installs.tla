-------------------------------- MODULE Installs -------------------------------
(***************************************************************************)
(* What an apply installs into directories of their own: runtimes and      *)
(* installer repositories.  They share no state, so each initial state     *)
(* chooses which of the two is explored.                                   *)
(***************************************************************************)
EXTENDS RuntimeInstall

CONSTANTS Repo, Url, Installer, RepoRemovable, RepoEdits

VARIABLES
    explored,
    wanted, recorded, known, clone, entry, step, pending, cloning, ended, lost, edited, killed

R == INSTANCE Repositories WITH
        Removable <- RepoRemovable, MaxEdits <- RepoEdits

ASSUME RepositoryAssumption == R!RepoAssumption

repositoryVars ==
    <<wanted, recorded, known, clone, entry, step, pending, cloning, ended, lost, edited, killed>>

Empty(f) == \A x \in DOMAIN f : f[x] = None

InstallsInit ==
    /\ Init /\ R!Init
    /\ \/ explored = "runtimes" /\ Empty(wanted)
       \/ explored = "repositories" /\ Empty(manifest) /\ ~otherDevice

InstallsNext ==
    \/ explored = "runtimes" /\ Next /\ UNCHANGED <<explored, repositoryVars>>
    \/ explored = "repositories" /\ R!Next /\ UNCHANGED <<explored, vars>>

InstallsSpec == InstallsInit /\ [][InstallsNext]_<<explored, vars, repositoryVars>>

\* After a success, what state.json lists of repositories is there, and nothing of
\* those that it does not list.
ReposMatchState == R!ReposMatchState

================================================================================
