------------------------------- MODULE Artifacts -------------------------------
(***************************************************************************)
(* What tomei gets from elsewhere: the source that the registry gives for  *)
(* a package, the archive fetched from a source, and its own next binary.  *)
(* They share the rules for digests (Checksums) and no state, so each      *)
(* initial state chooses which of them is explored.                        *)
(***************************************************************************)
EXTENDS Fetch

CONSTANTS Worker, Ref, Unset, PackageRequests, Definition, Halves,
          Process, MaxVersion, Faulty, MaxFaults, None

VARIABLES explored, wpc, asked, data, resolved, cached, writing, content, held, shared,
          upc, binary, backup, staging, newest, offer, job, target, mode, cancelled, overlap, faults

R == INSTANCE Registry WITH
        Requests <- PackageRequests, pc <- wpc, file <- cached, tmp <- writing

Up == INSTANCE SelfUpgrade WITH pc <- upc

ASSUME PackageAssumption == R!RegistryAssumption

ASSUME BinaryAssumption == Up!UpgradeAssumption

registryVars == <<wpc, asked, data, resolved, cached, writing, content, held, shared>>
upgradeVars == <<upc, binary, backup, staging, newest, offer, job, target, mode, cancelled, overlap, faults>>

\* Where one part is explored, the others start in one state.
NothingFetched == request = (CHOOSE q \in Requests : TRUE)
NothingAsked == asked = [w \in Worker |-> CHOOSE q \in PackageRequests : TRUE]
NothingNew == newest = 1 /\ offer = "good" /\ binary = Up!Binary(1, TRUE)

ArtifactsInit ==
    /\ \/ explored = "fetch" /\ NothingAsked /\ NothingNew
       \/ explored = "registry" /\ NothingFetched /\ NothingNew
       \/ explored = "upgrade" /\ NothingFetched /\ NothingAsked
    /\ Init /\ R!Init /\ Up!Init

ArtifactsNext ==
    \/ explored = "fetch" /\ Next /\ UNCHANGED <<explored, registryVars, upgradeVars>>
    \/ explored = "registry" /\ R!Next /\ UNCHANGED <<explored, vars, upgradeVars>>
    \/ explored = "upgrade" /\ Up!Next /\ UNCHANGED <<explored, vars, registryVars>>

artifactsVars == <<explored, vars, registryVars, upgradeVars>>

ArtifactsSpec == ArtifactsInit /\ [][ArtifactsNext]_artifactsVars

\* What a worker resolves, whoever shares the cache, is what is published at its
\* own ref, or half of that where two wrote it to the cache at the same time.
ResolvesAsPublished == R!ResolvesAsPublished

\* A tomei binary that runs is there at every moment of an upgrade.
SomeBinaryWorks == Up!SomeBinaryWorks

\* What an upgrade reports is what it leaves.
OutcomeIsTrue == Up!OutcomeIsTrue

================================================================================
