-------------------------- MODULE LayerExecutionProofs --------------------------
(***************************************************************************)
(* For every finite set of nodes, every assignment of layers, kinds and    *)
(* package managers, and every parallelism: the goroutines of a layer keep *)
(* the bound, never run a package manager twice at once, stop a group at   *)
(* its first failure, start nothing before what it depends on, and leave   *)
(* nothing running when the state is flushed.  With it, the layer loop     *)
(* implements LayerContract, and a failure in a concurrent phase stops     *)
(* nothing but its own group.                                              *)
(***************************************************************************)
EXTENDS LayerExecution, FiniteSetTheorems, TLAPS

\* Only the loop's end is past the last layer.
TypeInv == TypeOK /\ (main \notin {"layer", "returned"} => layer \in 1 .. Layers)

Active(n) == status[n] \notin {"idle", "done"}

Concurrent == main \in {"launch", "groups", "wait"}

\* Nodes are at work only in the current phase, while it runs.
ActiveInv ==
    \A n \in Node : Active(n) => n \in PhaseNodes /\ (Concurrent \/ main = "sequential")

\* The sequential path has one node at work and no goroutines.
SequentialInv ==
    main = "sequential" =>
        /\ \A k \in Keys : group[k] = "off"
        /\ \A n, m \in Node : Active(n) /\ Active(m) => n = m
        /\ \A n \in Node : status[n] # "leaving"

\* A delegation group has a goroutine only after the loop over the groups has
\* begun and before the phase ends.
GroupInv ==
    /\ main = "launch" => \A k \in Keys : group[k] = "off"
    /\ \A k \in Keys : group[k] \in {"acquire", "run"} => main \in {"groups", "wait"} /\ k \in Groups

\* A group has at most one node at work, and then its goroutine runs it.
OneInv ==
    Concurrent =>
        /\ \A n \in Node : Active(n) /\ DelegationKey(n) # None => group[DelegationKey(n)] = "run"
        /\ \A n, m \in Node :
              Active(n) /\ Active(m) /\ DelegationKey(n) # None /\ DelegationKey(n) = DelegationKey(m)
              => n = m

\* The goroutines with a permit: a download gives it back after its result is
\* recorded, a group before.
HoldsPermit(n) ==
    /\ Concurrent
    /\ \/ status[n] \in {"running", "executed"}
       \/ status[n] = "leaving" /\ DelegationKey(n) = None

Holders == {n \in Node : HoldsPermit(n)}

PermitInv == permits = Cardinality(Holders) /\ permits <= Parallelism

\* The result of n is in errs and updatedRuntimes.
Recorded(n) == status[n] = "done" \/ (status[n] = "leaving" /\ DelegationKey(n) = None)

\* A node has an outcome once it has executed; errors and upgrades are those
\* recorded.
RecordInv ==
    /\ \A n \in Node : status[n] \in {"idle", "running"} <=> outcome[n] = "none"
    /\ updated = {n \in Node : Recorded(n) /\ outcome[n] = "upgraded"}
    /\ main \notin {"layer", "phase", "returned"} =>
          \A n \in PhaseNodes : Recorded(n) /\ outcome[n] = "failed" => n \in errs

\* A group's goroutine goes on only while its tools succeed, and takes them in
\* order.
OrderInv ==
    /\ \A k \in Keys : group[k] = "acquire" =>
          \A n \in GroupOf(k) : status[n] = "done" => outcome[n] # "failed"
    /\ \A n, m \in Node :
          /\ DelegationKey(n) # None /\ DelegationKey(n) = DelegationKey(m)
          /\ Layer[n] = Layer[m] /\ Rank[n] < Rank[m] /\ status[m] # "idle"
          => status[n] = "done" /\ outcome[n] # "failed"

\* A phase that ends without an error has run all its downloads, and the whole
\* of each group whose goroutine has ended; only a signal leaves groups out.
PhaseInv ==
    /\ main \in {"groups", "wait"} /\ errs = {} => Idle(Downloads) = {}
    /\ main = "wait" => cancelled \/ \A k \in Groups : group[k] # "off"
    /\ Concurrent =>
          \A k \in Keys : group[k] = "off" => \A n \in GroupOf(k) : status[n] = "idle"
    /\ Concurrent /\ errs = {} =>
          \A k \in Keys : group[k] = "done" => \A n \in GroupOf(k) : status[n] = "done"

Complete(n) == status[n] = "done" /\ n \in Succeeded

\* What comes before the current stage has succeeded, what comes after it has
\* not begun.  Between two layers a signal may have left out a part of the one
\* before, but then no layer follows.
StageInv ==
    /\ \A n \in Node : Layer[n] > layer => status[n] = "idle"
    /\ main = "layer" => \A n \in Node : Layer[n] = layer => status[n] = "idle"
    /\ main = "layer" /\ ~cancelled => \A n \in Node : Layer[n] < layer => Complete(n)
    /\ main \notin {"layer", "returned"} =>
          \A n \in Node :
              /\ Layer[n] < layer \/ (Layer[n] = layer /\ PhaseOf(n) < phase) => Complete(n)
              /\ Layer[n] = layer /\ PhaseOf(n) > phase => status[n] = "idle"
    /\ main = "phase" => \A n \in PhaseNodes : status[n] = "idle"
    /\ main = "flush" /\ errs = {} =>
          phase = 3 /\ (cancelled \/ \A n \in PhaseNodes : Complete(n))

\* The state on disk is behind only inside a layer.
FlushInv ==
    /\ main = "layer" => flushed = Succeeded
    /\ main = "returned" /\ ~diskError => flushed = Succeeded
    /\ result = "ok" => Succeeded = Node /\ flushed = Node
    /\ main # "returned" => result = "none"

IInv ==
    /\ TypeInv
    /\ ActiveInv
    /\ SequentialInv
    /\ GroupInv
    /\ OneInv
    /\ PermitInv
    /\ RecordInv
    /\ OrderInv
    /\ PhaseInv
    /\ StageInv
    /\ FlushInv
    /\ StartsAfterDependencies

--------------------------------------------------------------------------------
\* Only tools have a package manager, and tools come in the last phase.
LEMMA KeyFacts ==
    \A n \in Node :
        /\ PhaseOf(n) \in 1 .. 3
        /\ DelegationKey(n) # None =>
              /\ Kind[n] = "Tool"
              /\ PhaseOf(n) = 3
              /\ DelegationKey(n) \in Keys
<1> SUFFICES ASSUME NEW n \in Node
             PROVE  /\ PhaseOf(n) \in 1 .. 3
                    /\ DelegationKey(n) # None =>
                          /\ Kind[n] = "Tool"
                          /\ PhaseOf(n) = 3
                          /\ DelegationKey(n) \in Keys
  OBVIOUS
<1>1. Kind[n] \in Kinds
  BY ConstAssumption DEF ConstAssumption
<1>2. PhaseOf(n) \in 1 .. 3 /\ (Kind[n] = "Tool" => PhaseOf(n) = 3)
  BY <1>1 DEF Kinds, PhaseOf
<1>3. DelegationKey(n) # None => Kind[n] = "Tool"
  BY DEF DelegationKey
<1>4. DelegationKey(n) # None => DelegationKey(n) \in Keys
  BY DEF Keys
<1> QED
  BY <1>2, <1>3, <1>4

\* Ranks order the nodes.
LEMMA RankOrder ==
    \A n, m \in Node : Rank[n] < Rank[m] => ~(Rank[m] <= Rank[n])
  BY ConstAssumption DEF ConstAssumption

\* What belongs to the phase depends on nothing but layer and phase.
LEMMA SamePhase ==
    ASSUME layer' = layer, phase' = phase
    PROVE  /\ PhaseNodes' = PhaseNodes
           /\ Downloads' = Downloads
           /\ Groups' = Groups
           /\ \A k \in Keys : GroupOf(k)' = GroupOf(k)
<1>1. PhaseNodes' = PhaseNodes
  BY DEF PhaseNodes
<1>2. Downloads' = Downloads /\ \A k \in Keys : GroupOf(k)' = GroupOf(k)
  BY <1>1 DEF Downloads, GroupOf
<1> QED
  BY <1>1, <1>2 DEF Groups

\* A phase ends when nothing is at work.
LEMMA WaitIsQuiet ==
    ASSUME TypeOK, ActiveInv, GroupInv, OneInv, Wait
    PROVE  \A n \in Node : ~Active(n)
<1> SUFFICES ASSUME NEW n \in Node, Active(n)
             PROVE  FALSE
  OBVIOUS
<1>1. Concurrent
  BY DEF Wait, Concurrent
<1>2. n \in PhaseNodes
  BY DEF ActiveInv
<1>3. DelegationKey(n) # None
  BY <1>2 DEF Wait, Downloads, Active
<1>4. group[DelegationKey(n)] = "run" /\ DelegationKey(n) \in Keys
  BY <1>1, <1>3, KeyFacts DEF OneInv
<1>5. DelegationKey(n) \in Groups
  BY <1>4 DEF GroupInv
<1> QED
  BY <1>4, <1>5 DEF Wait

\* The same for a phase without goroutines.
LEMMA LeaveIsQuiet ==
    ASSUME ActiveInv, LeaveSequential
    PROVE  \A n \in Node : ~Active(n)
  BY DEF ActiveInv, LeaveSequential, Active

\* Nodes start only in the current phase, and it ends after them.
LEMMA ActiveStep ==
    ASSUME TypeOK, ActiveInv, GroupInv, OneInv, Next
    PROVE  ActiveInv'
<1> USE DEF nodeVars, sharedVars, signals, ActiveInv, Active, Concurrent, TypeOK,
            PhaseNodes, Downloads, GroupOf
<1>1. CASE NextLayer
  BY <1>1 DEF NextLayer
<1>2. CASE StartPhase
  BY <1>2 DEF StartPhase
<1>3. CASE Flush
  BY <1>3 DEF Flush
<1>4. CASE FlushFails
  BY <1>4 DEF FlushFails
<1>5. ASSUME NEW n \in Node, StartNext(n)  PROVE ActiveInv'
  BY <1>5 DEF StartNext, IsNextOf, Idle
<1>6. ASSUME NEW n \in Node, NEW o \in Outcomes, Execute(n, o)  PROVE ActiveInv'
  BY <1>6 DEF Execute, CanEndIn
<1>7. ASSUME NEW n \in Node, EndSequential(n)  PROVE ActiveInv'
  BY <1>7 DEF EndSequential, Record, Failures, Upgrades
<1>8. CASE LeaveSequential
  BY <1>8, LeaveIsQuiet DEF LeaveSequential, EndPhase
<1>9. ASSUME NEW n \in Node, Launch(n)  PROVE ActiveInv'
  BY <1>9 DEF Launch, IsNextOf, Idle, CanAcquire
<1>10. CASE LaunchCancelled
  BY <1>10 DEF LaunchCancelled, Idle
<1>11. CASE LaunchedAll
  BY <1>11 DEF LaunchedAll, Idle
<1>12. ASSUME NEW n \in Node, Merge(n)  PROVE ActiveInv'
  BY <1>12 DEF Merge, Record, Failures, Upgrades
<1>13. ASSUME NEW n \in Node, Release(n)  PROVE ActiveInv'
  BY <1>13 DEF Release
<1>14. ASSUME NEW k \in Keys, LaunchGroup(k)  PROVE ActiveInv'
  BY <1>14 DEF LaunchGroup
<1>15. CASE LaunchedGroups
  BY <1>15 DEF LaunchedGroups
<1>16. ASSUME NEW k \in Keys, NEW n \in Node, GroupAcquire(k, n)  PROVE ActiveInv'
  <2>1. main \in {"groups", "wait"}
    BY <1>16 DEF GroupAcquire, GroupInv
  <2> QED
    BY <1>16, <2>1 DEF GroupAcquire, IsNextOf, Idle
<1>17. ASSUME NEW k \in Keys, GroupCancelled(k)  PROVE ActiveInv'
  BY <1>17 DEF GroupCancelled, Idle
<1>18. ASSUME NEW k \in Keys, NEW n \in Node, GroupRelease(k, n)  PROVE ActiveInv'
  BY <1>18 DEF GroupRelease
<1>19. ASSUME NEW k \in Keys, NEW n \in Node, GroupMerge(k, n)  PROVE ActiveInv'
  BY <1>19 DEF GroupMerge, Record, Failures, Upgrades, AfterTool
<1>20. ASSUME NEW k \in Keys, GroupEnd(k)  PROVE ActiveInv'
  BY <1>20 DEF GroupEnd, Idle
<1>21. CASE Wait
  BY <1>21, WaitIsQuiet DEF Wait, EndPhase
<1>22. CASE Cancel
  BY <1>22 DEF Cancel
<1> QED
  BY <1>1, <1>2, <1>3, <1>4, <1>5, <1>6, <1>7, <1>8, <1>9, <1>10, <1>11,
     <1>12, <1>13, <1>14, <1>15, <1>16, <1>17, <1>18, <1>19, <1>20, <1>21,
     <1>22
     DEF Next, Progress, ApplyNext, NodeNext, GroupNext

\* The sequential path starts a node only when no other is at work.
LEMMA SequentialStep ==
    ASSUME TypeOK, ActiveInv, SequentialInv, GroupInv, Next
    PROVE  SequentialInv'
<1> USE DEF nodeVars, sharedVars, signals, ActiveInv, SequentialInv, Active,
            Concurrent, TypeOK
<1>1. CASE NextLayer
  BY <1>1 DEF NextLayer
<1>2. CASE StartPhase
  BY <1>2 DEF StartPhase
<1>3. CASE Flush
  BY <1>3 DEF Flush
<1>4. CASE FlushFails
  BY <1>4 DEF FlushFails
<1>5. ASSUME NEW n \in Node, StartNext(n)  PROVE SequentialInv'
  BY <1>5 DEF StartNext, IsNextOf, Idle
<1>6. ASSUME NEW n \in Node, NEW o \in Outcomes, Execute(n, o)  PROVE SequentialInv'
  BY <1>6 DEF Execute, CanEndIn
<1>7. ASSUME NEW n \in Node, EndSequential(n)  PROVE SequentialInv'
  BY <1>7 DEF EndSequential, Record, Failures, Upgrades
<1>8. CASE LeaveSequential
  BY <1>8 DEF LeaveSequential, EndPhase
<1>9. ASSUME NEW n \in Node, Launch(n)  PROVE SequentialInv'
  BY <1>9 DEF Launch, IsNextOf, Idle, CanAcquire
<1>10. CASE LaunchCancelled
  BY <1>10 DEF LaunchCancelled, Idle
<1>11. CASE LaunchedAll
  BY <1>11 DEF LaunchedAll, Idle
<1>12. ASSUME NEW n \in Node, Merge(n)  PROVE SequentialInv'
  BY <1>12 DEF Merge, Record, Failures, Upgrades
<1>13. ASSUME NEW n \in Node, Release(n)  PROVE SequentialInv'
  BY <1>13 DEF Release
<1>14. ASSUME NEW k \in Keys, LaunchGroup(k)  PROVE SequentialInv'
  BY <1>14 DEF LaunchGroup
<1>15. CASE LaunchedGroups
  BY <1>15 DEF LaunchedGroups
<1>16. ASSUME NEW k \in Keys, NEW n \in Node, GroupAcquire(k, n)  PROVE SequentialInv'
  BY <1>16 DEF GroupAcquire, GroupInv
<1>17. ASSUME NEW k \in Keys, GroupCancelled(k)  PROVE SequentialInv'
  BY <1>17 DEF GroupCancelled, GroupInv
<1>18. ASSUME NEW k \in Keys, NEW n \in Node, GroupRelease(k, n)  PROVE SequentialInv'
  BY <1>18 DEF GroupRelease, GroupInv
<1>19. ASSUME NEW k \in Keys, NEW n \in Node, GroupMerge(k, n)  PROVE SequentialInv'
  BY <1>19 DEF GroupMerge, GroupInv
<1>20. ASSUME NEW k \in Keys, GroupEnd(k)  PROVE SequentialInv'
  BY <1>20 DEF GroupEnd, GroupInv
<1>21. CASE Wait
  BY <1>21 DEF Wait, EndPhase
<1>22. CASE Cancel
  BY <1>22 DEF Cancel
<1> QED
  BY <1>1, <1>2, <1>3, <1>4, <1>5, <1>6, <1>7, <1>8, <1>9, <1>10, <1>11,
     <1>12, <1>13, <1>14, <1>15, <1>16, <1>17, <1>18, <1>19, <1>20, <1>21,
     <1>22
     DEF Next, Progress, ApplyNext, NodeNext, GroupNext

\* The goroutine of a group starts in the loop over the groups and ends before
\* the phase does.
LEMMA GroupStep ==
    ASSUME TypeOK, SequentialInv, GroupInv, Next
    PROVE  GroupInv'
<1> USE DEF nodeVars, sharedVars, signals, GroupInv, Concurrent, TypeOK
<1>1. CASE NextLayer
  BY <1>1 DEF NextLayer
<1>2. CASE StartPhase
  BY <1>2, SamePhase DEF StartPhase
<1>3. CASE Flush
  BY <1>3 DEF Flush
<1>4. CASE FlushFails
  BY <1>4, SamePhase DEF FlushFails
<1>5. ASSUME NEW n \in Node, StartNext(n)  PROVE GroupInv'
  BY <1>5, SamePhase DEF StartNext, IsNextOf, Idle
<1>6. ASSUME NEW n \in Node, NEW o \in Outcomes, Execute(n, o)  PROVE GroupInv'
  BY <1>6, SamePhase DEF Execute, CanEndIn
<1>7. ASSUME NEW n \in Node, EndSequential(n)  PROVE GroupInv'
  BY <1>7, SamePhase DEF EndSequential, Record, Failures, Upgrades
<1>8. CASE LeaveSequential
  BY <1>8 DEF LeaveSequential, SequentialInv, EndPhase
<1>9. ASSUME NEW n \in Node, Launch(n)  PROVE GroupInv'
  BY <1>9, SamePhase DEF Launch, IsNextOf, Idle, CanAcquire
<1>10. CASE LaunchCancelled
  BY <1>10, SamePhase DEF LaunchCancelled, Idle
<1>11. CASE LaunchedAll
  BY <1>11, SamePhase DEF LaunchedAll, Idle
<1>12. ASSUME NEW n \in Node, Merge(n)  PROVE GroupInv'
  BY <1>12, SamePhase DEF Merge, Record, Failures, Upgrades
<1>13. ASSUME NEW n \in Node, Release(n)  PROVE GroupInv'
  BY <1>13, SamePhase DEF Release
<1>14. ASSUME NEW k \in Keys, LaunchGroup(k)  PROVE GroupInv'
  BY <1>14, SamePhase DEF LaunchGroup
<1>15. CASE LaunchedGroups
  BY <1>15, SamePhase DEF LaunchedGroups
<1>16. ASSUME NEW k \in Keys, NEW n \in Node, GroupAcquire(k, n)  PROVE GroupInv'
  BY <1>16, SamePhase DEF GroupAcquire, IsNextOf, Idle, CanAcquire
<1>17. ASSUME NEW k \in Keys, GroupCancelled(k)  PROVE GroupInv'
  BY <1>17, SamePhase DEF GroupCancelled, Idle
<1>18. ASSUME NEW k \in Keys, NEW n \in Node, GroupRelease(k, n)  PROVE GroupInv'
  BY <1>18, SamePhase DEF GroupRelease
<1>19. ASSUME NEW k \in Keys, NEW n \in Node, GroupMerge(k, n)  PROVE GroupInv'
  BY <1>19, SamePhase DEF GroupMerge, Record, Failures, Upgrades, AfterTool
<1>20. ASSUME NEW k \in Keys, GroupEnd(k)  PROVE GroupInv'
  BY <1>20, SamePhase DEF GroupEnd, Idle
<1>21. CASE Wait
  BY <1>21 DEF Wait, EndPhase
<1>22. CASE Cancel
  BY <1>22, SamePhase DEF Cancel
<1> QED
  BY <1>1, <1>2, <1>3, <1>4, <1>5, <1>6, <1>7, <1>8, <1>9, <1>10, <1>11,
     <1>12, <1>13, <1>14, <1>15, <1>16, <1>17, <1>18, <1>19, <1>20, <1>21,
     <1>22
     DEF Next, Progress, ApplyNext, NodeNext, GroupNext

\* The goroutine of a group runs one node at a time.
LEMMA OneStep ==
    ASSUME TypeOK, ActiveInv, SequentialInv, GroupInv, OneInv, Next
    PROVE  OneInv'
<1> USE DEF nodeVars, sharedVars, signals, OneInv, Active, Concurrent, TypeOK
<1>1. CASE NextLayer
  BY <1>1 DEF NextLayer
<1>2. CASE StartPhase
  BY <1>2 DEF StartPhase, ActiveInv
<1>3. CASE Flush
  BY <1>3 DEF Flush
<1>4. CASE FlushFails
  BY <1>4 DEF FlushFails
<1>5. ASSUME NEW n \in Node, StartNext(n)  PROVE OneInv'
  BY <1>5 DEF StartNext, IsNextOf, Idle
<1>6. ASSUME NEW n \in Node, NEW o \in Outcomes, Execute(n, o)  PROVE OneInv'
  BY <1>6 DEF Execute, CanEndIn
<1>7. ASSUME NEW n \in Node, EndSequential(n)  PROVE OneInv'
  BY <1>7 DEF EndSequential, Record, Failures, Upgrades
<1>8. CASE LeaveSequential
  BY <1>8 DEF LeaveSequential, EndPhase
<1>9. ASSUME NEW n \in Node, Launch(n)  PROVE OneInv'
  BY <1>9 DEF Launch, IsNextOf, Idle, Downloads
<1>10. CASE LaunchCancelled
  BY <1>10 DEF LaunchCancelled, Idle
<1>11. CASE LaunchedAll
  BY <1>11 DEF LaunchedAll, Idle
<1>12. ASSUME NEW n \in Node, Merge(n)  PROVE OneInv'
  BY <1>12 DEF Merge, Record, Failures, Upgrades
<1>13. ASSUME NEW n \in Node, Release(n)  PROVE OneInv'
  BY <1>13 DEF Release
<1>14. ASSUME NEW k \in Keys, LaunchGroup(k)  PROVE OneInv'
  BY <1>14 DEF LaunchGroup
<1>15. CASE LaunchedGroups
  BY <1>15 DEF LaunchedGroups
<1>16. ASSUME NEW k \in Keys, NEW n \in Node, GroupAcquire(k, n)  PROVE OneInv'
  BY <1>16 DEF GroupAcquire, IsNextOf, Idle, GroupOf, GroupInv
<1>17. ASSUME NEW k \in Keys, GroupCancelled(k)  PROVE OneInv'
  BY <1>17 DEF GroupCancelled, Idle
<1>18. ASSUME NEW k \in Keys, NEW n \in Node, GroupRelease(k, n)  PROVE OneInv'
  BY <1>18 DEF GroupRelease, GroupOf
<1>19. ASSUME NEW k \in Keys, NEW n \in Node, GroupMerge(k, n)  PROVE OneInv'
  BY <1>19 DEF GroupMerge, GroupOf
<1>20. ASSUME NEW k \in Keys, GroupEnd(k)  PROVE OneInv'
  BY <1>20 DEF GroupEnd, Idle
<1>21. CASE Wait
  BY <1>21 DEF Wait, EndPhase
<1>22. CASE Cancel
  BY <1>22 DEF Cancel
<1> QED
  BY <1>1, <1>2, <1>3, <1>4, <1>5, <1>6, <1>7, <1>8, <1>9, <1>10, <1>11,
     <1>12, <1>13, <1>14, <1>15, <1>16, <1>17, <1>18, <1>19, <1>20, <1>21,
     <1>22
     DEF Next, Progress, ApplyNext, NodeNext, GroupNext

\* The count stays right while neither it nor the holders change.
LEMMA PermitKept ==
    ASSUME PermitInv, Holders' = Holders, permits' = permits
    PROVE  PermitInv'
  BY DEF PermitInv

\* Starting a node takes one permit.
LEMMA PermitTaken ==
    ASSUME TypeOK, PermitInv, NEW n \in Node, n \notin Holders, permits < Parallelism,
           Holders' = Holders \cup {n}, permits' = permits + 1
    PROVE  PermitInv'
<1>1. IsFiniteSet(Holders)
  BY ConstAssumption, FS_Subset DEF ConstAssumption, Holders
<1>2. Cardinality(Holders \cup {n}) = Cardinality(Holders) + 1
  BY <1>1, FS_AddElement
<1>3. Cardinality(Holders') = permits'
  BY <1>2 DEF PermitInv
<1>4. permits' <= Parallelism
  BY ConstAssumption DEF ConstAssumption, TypeOK
<1> QED
  BY <1>3, <1>4 DEF PermitInv

\* A node that leaves gives one permit back.
LEMMA PermitGiven ==
    ASSUME TypeOK, PermitInv, NEW n \in Holders,
           Holders' = Holders \ {n}, permits' = permits - 1
    PROVE  PermitInv'
<1>1. IsFiniteSet(Holders)
  BY ConstAssumption, FS_Subset DEF ConstAssumption, Holders
<1>2. Cardinality(Holders \ {n}) = Cardinality(Holders) - 1
  BY <1>1, FS_RemoveElement
<1>3. Cardinality(Holders') = permits'
  BY <1>2 DEF PermitInv
<1>4. permits' <= Parallelism
  BY ConstAssumption DEF ConstAssumption, TypeOK, PermitInv
<1> QED
  BY <1>3, <1>4 DEF PermitInv

\* Where nothing holds a permit, none is out.
LEMMA NoPermit ==
    ASSUME \A n \in Node : ~HoldsPermit(n)
    PROVE  Holders = {} /\ (PermitInv => permits = 0)
<1>1. Holders = {}
  BY DEF Holders
<1> QED
  BY <1>1, FS_EmptySet DEF PermitInv

\* A phase that starts or ends makes no holder.
LEMMA NoPermitNext ==
    ASSUME \A n \in Node : ~HoldsPermit(n)', permits' = 0
    PROVE  PermitInv'
<1>1. Holders' = {}
  BY DEF Holders
<1>2. Cardinality(Holders') = 0
  BY <1>1, FS_EmptySet
<1> QED
  BY <1>2, ConstAssumption DEF PermitInv, ConstAssumption

\* The count is the number of holders; the loop and the groups take a permit
\* only below the bound.
LEMMA PermitStep ==
    ASSUME TypeOK, ActiveInv, SequentialInv, GroupInv, OneInv, PermitInv, Next
    PROVE  PermitInv'
<1> USE DEF nodeVars, sharedVars, signals, Holders, HoldsPermit, Active, Concurrent,
            TypeOK
<1>1. CASE NextLayer
  <2>1. Holders' = Holders /\ permits' = permits
    BY <1>1 DEF NextLayer
  <2> QED
    BY <2>1, PermitKept
<1>2. CASE StartPhase
  <2>1. \A n \in Node : ~HoldsPermit(n)'
    BY <1>2 DEF StartPhase, ActiveInv
  <2> QED
    BY <1>2, <2>1, NoPermitNext DEF StartPhase
<1>3. CASE Flush
  <2>1. Holders' = Holders /\ permits' = permits
    BY <1>3 DEF Flush
  <2> QED
    BY <2>1, PermitKept
<1>4. CASE FlushFails
  <2>1. Holders' = Holders /\ permits' = permits
    BY <1>4 DEF FlushFails
  <2> QED
    BY <2>1, PermitKept
<1>5. ASSUME NEW n \in Node, StartNext(n)  PROVE PermitInv'
  <2>1. Holders' = Holders /\ permits' = permits
    BY <1>5 DEF StartNext, IsNextOf, Idle
  <2> QED
    BY <2>1, PermitKept
<1>6. ASSUME NEW n \in Node, NEW o \in Outcomes, Execute(n, o)  PROVE PermitInv'
  <2>1. Holders' = Holders /\ permits' = permits
    BY <1>6 DEF Execute, CanEndIn
  <2> QED
    BY <2>1, PermitKept
<1>7. ASSUME NEW n \in Node, EndSequential(n)  PROVE PermitInv'
  <2>1. Holders' = Holders /\ permits' = permits
    BY <1>7 DEF EndSequential, Record, Failures, Upgrades
  <2> QED
    BY <2>1, PermitKept
<1>8. CASE LeaveSequential
  <2>1. Holders' = Holders /\ permits' = permits
    BY <1>8 DEF LeaveSequential, EndPhase
  <2> QED
    BY <2>1, PermitKept
<1>9. ASSUME NEW n \in Node, Launch(n)  PROVE PermitInv'
  <2>1. n \notin Holders /\ Holders' = Holders \cup {n}
    BY <1>9 DEF Launch, IsNextOf, Idle, Downloads, PhaseNodes
  <2> QED
    BY <1>9, <2>1, PermitTaken DEF Launch, CanAcquire
<1>10. CASE LaunchCancelled
  <2>1. Holders' = Holders /\ permits' = permits
    BY <1>10 DEF LaunchCancelled, Idle
  <2> QED
    BY <2>1, PermitKept
<1>11. CASE LaunchedAll
  <2>1. Holders' = Holders /\ permits' = permits
    BY <1>11 DEF LaunchedAll, Idle
  <2> QED
    BY <2>1, PermitKept
<1>12. ASSUME NEW n \in Node, Merge(n)  PROVE PermitInv'
  <2>1. Holders' = Holders /\ permits' = permits
    BY <1>12 DEF Merge, Record, Downloads
  <2> QED
    BY <2>1, PermitKept
<1>13. ASSUME NEW n \in Node, Release(n)  PROVE PermitInv'
  <2>1. Concurrent
    BY <1>13 DEF Release, ActiveInv, SequentialInv
  <2>2. n \in Holders /\ Holders' = Holders \ {n}
    BY <1>13, <2>1 DEF Release, Downloads
  <2> QED
    BY <1>13, <2>2, PermitGiven DEF Release
<1>14. ASSUME NEW k \in Keys, LaunchGroup(k)  PROVE PermitInv'
  <2>1. Holders' = Holders /\ permits' = permits
    BY <1>14 DEF LaunchGroup
  <2> QED
    BY <2>1, PermitKept
<1>15. CASE LaunchedGroups
  <2>1. Holders' = Holders /\ permits' = permits
    BY <1>15 DEF LaunchedGroups
  <2> QED
    BY <2>1, PermitKept
<1>16. ASSUME NEW k \in Keys, NEW n \in Node, GroupAcquire(k, n)  PROVE PermitInv'
  <2>1. main \in {"groups", "wait"}
    BY <1>16 DEF GroupAcquire, GroupInv
  <2>2. n \notin Holders /\ Holders' = Holders \cup {n}
    BY <1>16, <2>1 DEF GroupAcquire, IsNextOf, Idle
  <2> QED
    BY <1>16, <2>2, PermitTaken DEF GroupAcquire, CanAcquire
<1>17. ASSUME NEW k \in Keys, GroupCancelled(k)  PROVE PermitInv'
  <2>1. Holders' = Holders /\ permits' = permits
    BY <1>17 DEF GroupCancelled, Idle
  <2> QED
    BY <2>1, PermitKept
<1>18. ASSUME NEW k \in Keys, NEW n \in Node, GroupRelease(k, n)  PROVE PermitInv'
  <2>1. main \in {"groups", "wait"}
    BY <1>18 DEF GroupRelease, GroupInv
  <2>2. DelegationKey(n) # None
    BY <1>18 DEF GroupRelease, GroupOf, Keys
  <2>3. n \in Holders /\ Holders' = Holders \ {n}
    BY <1>18, <2>1, <2>2 DEF GroupRelease
  <2> QED
    BY <1>18, <2>3, PermitGiven DEF GroupRelease
<1>19. ASSUME NEW k \in Keys, NEW n \in Node, GroupMerge(k, n)  PROVE PermitInv'
  <2>1. DelegationKey(n) # None
    BY <1>19 DEF GroupMerge, GroupOf, Keys
  <2>2. Holders' = Holders /\ permits' = permits
    BY <1>19, <2>1 DEF GroupMerge
  <2> QED
    BY <2>2, PermitKept
<1>20. ASSUME NEW k \in Keys, GroupEnd(k)  PROVE PermitInv'
  <2>1. Holders' = Holders /\ permits' = permits
    BY <1>20 DEF GroupEnd, Idle
  <2> QED
    BY <2>1, PermitKept
<1>21. CASE Wait
  <2>1. \A n \in Node : ~HoldsPermit(n)
    BY <1>21, WaitIsQuiet
  <2>2. \A n \in Node : ~HoldsPermit(n)'
    BY <1>21 DEF Wait, EndPhase
  <2> QED
    BY <1>21, <2>1, <2>2, NoPermit, NoPermitNext DEF Wait
<1>22. CASE Cancel
  <2>1. Holders' = Holders /\ permits' = permits
    BY <1>22 DEF Cancel
  <2> QED
    BY <2>1, PermitKept
<1> QED
  BY <1>1, <1>2, <1>3, <1>4, <1>5, <1>6, <1>7, <1>8, <1>9, <1>10, <1>11,
     <1>12, <1>13, <1>14, <1>15, <1>16, <1>17, <1>18, <1>19, <1>20, <1>21,
     <1>22
     DEF Next, Progress, ApplyNext, NodeNext, GroupNext

\* The count of a finite set is a number.
LEMMA PermitType ==
    ASSUME PermitInv'
    PROVE  permits' \in Nat
<1>1. IsFiniteSet(Holders')
  BY ConstAssumption, FS_Subset DEF ConstAssumption, Holders
<1> QED
  BY <1>1, FS_CardinalityType DEF PermitInv

\* Types, and the range of the current layer.
LEMMA TypeStep ==
    ASSUME TypeInv, PermitInv', Next
    PROVE  TypeInv'
<1> USE DEF nodeVars, sharedVars, signals, TypeInv, TypeOK, Outcomes
<1>a. permits' \in Nat
  BY PermitType
<1>b. Layers \in Nat
  BY ConstAssumption DEF ConstAssumption
<1> USE <1>a, <1>b
<1>1. CASE NextLayer
  BY <1>1 DEF NextLayer
<1>2. CASE StartPhase
  BY <1>2 DEF StartPhase
<1>3. CASE Flush
  BY <1>3 DEF Flush, Succeeded
<1>4. CASE FlushFails
  BY <1>4 DEF FlushFails
<1>5. ASSUME NEW n \in Node, StartNext(n)  PROVE TypeInv'
  BY <1>5 DEF StartNext, IsNextOf, Idle
<1>6. ASSUME NEW n \in Node, NEW o \in Outcomes, Execute(n, o)  PROVE TypeInv'
  BY <1>6 DEF Execute, CanEndIn
<1>7. ASSUME NEW n \in Node, EndSequential(n)  PROVE TypeInv'
  BY <1>7 DEF EndSequential, Record, Failures, Upgrades
<1>8. CASE LeaveSequential
  BY <1>8 DEF LeaveSequential, EndPhase
<1>9. ASSUME NEW n \in Node, Launch(n)  PROVE TypeInv'
  BY <1>9 DEF Launch, IsNextOf, Idle, CanAcquire
<1>10. CASE LaunchCancelled
  BY <1>10 DEF LaunchCancelled, Idle
<1>11. CASE LaunchedAll
  BY <1>11 DEF LaunchedAll, Idle
<1>12. ASSUME NEW n \in Node, Merge(n)  PROVE TypeInv'
  BY <1>12 DEF Merge, Record, Failures, Upgrades
<1>13. ASSUME NEW n \in Node, Release(n)  PROVE TypeInv'
  BY <1>13 DEF Release
<1>14. ASSUME NEW k \in Keys, LaunchGroup(k)  PROVE TypeInv'
  BY <1>14 DEF LaunchGroup
<1>15. CASE LaunchedGroups
  BY <1>15 DEF LaunchedGroups
<1>16. ASSUME NEW k \in Keys, NEW n \in Node, GroupAcquire(k, n)  PROVE TypeInv'
  BY <1>16 DEF GroupAcquire, IsNextOf, Idle, CanAcquire
<1>17. ASSUME NEW k \in Keys, GroupCancelled(k)  PROVE TypeInv'
  BY <1>17 DEF GroupCancelled, Idle
<1>18. ASSUME NEW k \in Keys, NEW n \in Node, GroupRelease(k, n)  PROVE TypeInv'
  BY <1>18 DEF GroupRelease
<1>19. ASSUME NEW k \in Keys, NEW n \in Node, GroupMerge(k, n)  PROVE TypeInv'
  BY <1>19 DEF GroupMerge, Record, Failures, Upgrades, AfterTool
<1>20. ASSUME NEW k \in Keys, GroupEnd(k)  PROVE TypeInv'
  BY <1>20 DEF GroupEnd, Idle
<1>21. CASE Wait
  BY <1>21 DEF Wait, EndPhase
<1>22. CASE Cancel
  BY <1>22 DEF Cancel
<1> QED
  BY <1>1, <1>2, <1>3, <1>4, <1>5, <1>6, <1>7, <1>8, <1>9, <1>10, <1>11,
     <1>12, <1>13, <1>14, <1>15, <1>16, <1>17, <1>18, <1>19, <1>20, <1>21,
     <1>22
     DEF Next, Progress, ApplyNext, NodeNext, GroupNext

\* A result is recorded once, when it leaves the mutex.
LEMMA RecordStep ==
    ASSUME TypeOK, StageInv, RecordInv, Next
    PROVE  RecordInv'
<1> USE DEF nodeVars, sharedVars, signals, RecordInv, Recorded, Active, TypeOK, Outcomes
<1>1. CASE NextLayer
  BY <1>1 DEF NextLayer
<1>2. CASE StartPhase
  BY <1>2, SamePhase DEF StartPhase, StageInv
<1>3. CASE Flush
  BY <1>3 DEF Flush
<1>4. CASE FlushFails
  BY <1>4, SamePhase DEF FlushFails
<1>5. ASSUME NEW n \in Node, StartNext(n)  PROVE RecordInv'
  BY <1>5, SamePhase DEF StartNext, IsNextOf, Idle
<1>6. ASSUME NEW n \in Node, NEW o \in Outcomes, Execute(n, o)  PROVE RecordInv'
  BY <1>6, SamePhase DEF Execute, CanEndIn
<1>7. ASSUME NEW n \in Node, EndSequential(n)  PROVE RecordInv'
  BY <1>7, SamePhase DEF EndSequential, Record, Failures, Upgrades
<1>8. CASE LeaveSequential
  <2>1. CASE main' = "phase"
    BY <1>8, <2>1 DEF LeaveSequential
  <2>2. CASE main' = "flush" /\ phase' = phase
    BY <1>8, <2>2, SamePhase DEF LeaveSequential
  <2> QED
    BY <1>8, <2>1, <2>2 DEF LeaveSequential, EndPhase
<1>9. ASSUME NEW n \in Node, Launch(n)  PROVE RecordInv'
  BY <1>9, SamePhase DEF Launch, IsNextOf, Idle, CanAcquire
<1>10. CASE LaunchCancelled
  BY <1>10, SamePhase DEF LaunchCancelled, Idle
<1>11. CASE LaunchedAll
  BY <1>11, SamePhase DEF LaunchedAll, Idle
<1>12. ASSUME NEW n \in Node, Merge(n)  PROVE RecordInv'
  BY <1>12, SamePhase DEF Merge, Record, Failures, Upgrades, Downloads
<1>13. ASSUME NEW n \in Node, Release(n)  PROVE RecordInv'
  BY <1>13, SamePhase DEF Release, Downloads
<1>14. ASSUME NEW k \in Keys, LaunchGroup(k)  PROVE RecordInv'
  BY <1>14, SamePhase DEF LaunchGroup
<1>15. CASE LaunchedGroups
  BY <1>15, SamePhase DEF LaunchedGroups
<1>16. ASSUME NEW k \in Keys, NEW n \in Node, GroupAcquire(k, n)  PROVE RecordInv'
  BY <1>16, SamePhase DEF GroupAcquire, IsNextOf, Idle, CanAcquire
<1>17. ASSUME NEW k \in Keys, GroupCancelled(k)  PROVE RecordInv'
  BY <1>17, SamePhase DEF GroupCancelled, Idle
<1>18. ASSUME NEW k \in Keys, NEW n \in Node, GroupRelease(k, n)  PROVE RecordInv'
  <2>1. DelegationKey(n) # None
    BY <1>18 DEF GroupRelease, GroupOf, Keys
  <2> QED
    BY <1>18, <2>1, SamePhase DEF GroupRelease
<1>19. ASSUME NEW k \in Keys, NEW n \in Node, GroupMerge(k, n)  PROVE RecordInv'
  BY <1>19, SamePhase DEF GroupMerge, Record, Failures, Upgrades, AfterTool
<1>20. ASSUME NEW k \in Keys, GroupEnd(k)  PROVE RecordInv'
  BY <1>20, SamePhase DEF GroupEnd, Idle
<1>21. CASE Wait
  <2>1. CASE main' = "phase"
    BY <1>21, <2>1 DEF Wait
  <2>2. CASE main' = "flush" /\ phase' = phase
    BY <1>21, <2>2, SamePhase DEF Wait
  <2> QED
    BY <1>21, <2>1, <2>2 DEF Wait, EndPhase
<1>22. CASE Cancel
  BY <1>22, SamePhase DEF Cancel
<1> QED
  BY <1>1, <1>2, <1>3, <1>4, <1>5, <1>6, <1>7, <1>8, <1>9, <1>10, <1>11,
     <1>12, <1>13, <1>14, <1>15, <1>16, <1>17, <1>18, <1>19, <1>20, <1>21,
     <1>22
     DEF Next, Progress, ApplyNext, NodeNext, GroupNext

\* A node of a group starts when those before it are done and none has failed.
LEMMA OrderStep ==
    ASSUME TypeOK, ActiveInv, SequentialInv, GroupInv, OneInv, RecordInv, PhaseInv, OrderInv, Next
    PROVE  OrderInv'
<1> USE DEF nodeVars, sharedVars, signals, OrderInv, TypeOK, Outcomes
<1>1. CASE NextLayer
  BY <1>1 DEF NextLayer, GroupInv
<1>2. CASE StartPhase
  BY <1>2 DEF StartPhase
<1>3. CASE Flush
  BY <1>3 DEF Flush, GroupInv
<1>4. CASE FlushFails
  BY <1>4, SamePhase DEF FlushFails
<1>5. ASSUME NEW n \in Node, StartNext(n)  PROVE OrderInv'
  <2>1. \A m \in Node :
           /\ DelegationKey(m) # None /\ DelegationKey(m) = DelegationKey(n)
           /\ Layer[m] = Layer[n] /\ Rank[m] < Rank[n]
           => status[m] = "done" /\ outcome[m] # "failed"
    <3> SUFFICES ASSUME NEW m \in Node,
                        DelegationKey(m) # None, DelegationKey(m) = DelegationKey(n),
                        Layer[m] = Layer[n], Rank[m] < Rank[n]
                 PROVE  status[m] = "done" /\ outcome[m] # "failed"
      OBVIOUS
    <3>1. m \in PhaseNodes
      BY <1>5, KeyFacts DEF StartNext, IsNextOf, Idle, PhaseNodes
    <3>2. status[m] # "idle"
      BY <1>5, <3>1, RankOrder DEF StartNext, IsNextOf, Idle
    <3>3. status[m] = "done"
      BY <1>5, <3>1, <3>2 DEF StartNext
    <3> QED
      BY <1>5, <3>1, <3>3 DEF StartNext, RecordInv, Recorded
  <2>2. \A k \in Keys : group'[k] # "acquire"
    BY <1>5 DEF StartNext, SequentialInv
  <2> QED
    BY <1>5, <2>1, <2>2 DEF StartNext, IsNextOf, Idle
<1>6. ASSUME NEW n \in Node, NEW o \in Outcomes, Execute(n, o)  PROVE OrderInv'
  BY <1>6, SamePhase DEF Execute, CanEndIn
<1>7. ASSUME NEW n \in Node, EndSequential(n)  PROVE OrderInv'
  <2>1. \A k \in Keys : group'[k] # "acquire"
    BY <1>7 DEF EndSequential, SequentialInv
  <2> QED
    BY <1>7, <2>1 DEF EndSequential
<1>8. CASE LeaveSequential
  BY <1>8 DEF LeaveSequential, EndPhase, SequentialInv
<1>9. ASSUME NEW n \in Node, Launch(n)  PROVE OrderInv'
  BY <1>9, SamePhase DEF Launch, IsNextOf, Idle, Downloads, GroupInv
<1>10. CASE LaunchCancelled
  BY <1>10, SamePhase DEF LaunchCancelled, Idle
<1>11. CASE LaunchedAll
  BY <1>11, SamePhase DEF LaunchedAll, Idle
<1>12. ASSUME NEW n \in Node, Merge(n)  PROVE OrderInv'
  BY <1>12, SamePhase DEF Merge, Record, Failures, Upgrades
<1>13. ASSUME NEW n \in Node, Release(n)  PROVE OrderInv'
  <2>1. \A k \in Keys : n \notin GroupOf(k)
    BY <1>13 DEF Release, Downloads, GroupOf, Keys
  <2> QED
    BY <1>13, <2>1, SamePhase DEF Release
<1>14. ASSUME NEW k \in Keys, LaunchGroup(k)  PROVE OrderInv'
  BY <1>14, SamePhase DEF LaunchGroup, PhaseInv, Concurrent
<1>15. CASE LaunchedGroups
  BY <1>15, SamePhase DEF LaunchedGroups
<1>16. ASSUME NEW k \in Keys, NEW n \in Node, GroupAcquire(k, n)  PROVE OrderInv'
  <2>1. main \in {"groups", "wait"} /\ k # None
    BY <1>16 DEF GroupAcquire, GroupInv, Keys
  <2>2. \A m \in Node :
           /\ DelegationKey(m) # None /\ DelegationKey(m) = DelegationKey(n)
           /\ Layer[m] = Layer[n] /\ Rank[m] < Rank[n]
           => status[m] = "done" /\ outcome[m] # "failed"
    <3> SUFFICES ASSUME NEW m \in Node,
                        DelegationKey(m) # None, DelegationKey(m) = DelegationKey(n),
                        Layer[m] = Layer[n], Rank[m] < Rank[n]
                 PROVE  status[m] = "done" /\ outcome[m] # "failed"
      OBVIOUS
    <3>1. m \in GroupOf(k) /\ DelegationKey(m) = k
      BY <1>16, KeyFacts DEF GroupAcquire, IsNextOf, Idle, PhaseNodes, GroupOf
    <3>2. status[m] # "idle"
      BY <1>16, <3>1, RankOrder DEF GroupAcquire, IsNextOf, Idle
    <3>3. ~Active(m)
      BY <1>16, <2>1, <3>1 DEF GroupAcquire, OneInv, Concurrent
    <3>4. status[m] = "done"
      BY <3>2, <3>3 DEF Active
    <3> QED
      BY <1>16, <3>1, <3>4 DEF GroupAcquire
  <2> QED
    BY <1>16, <2>2, SamePhase DEF GroupAcquire, IsNextOf, Idle
<1>17. ASSUME NEW k \in Keys, GroupCancelled(k)  PROVE OrderInv'
  BY <1>17, SamePhase DEF GroupCancelled, Idle
<1>18. ASSUME NEW k \in Keys, NEW n \in Node, GroupRelease(k, n)  PROVE OrderInv'
  BY <1>18, SamePhase DEF GroupRelease
<1>19. ASSUME NEW k \in Keys, NEW n \in Node, GroupMerge(k, n)  PROVE OrderInv'
  <2>1. DelegationKey(n) = k /\ k # None /\ Layer[n] = layer
    BY <1>19 DEF GroupMerge, GroupOf, PhaseNodes, Keys
  <2>2. \A j \in Keys : n \in GroupOf(j) => j = k
    BY <2>1 DEF GroupOf
  <2>3. \A m \in GroupOf(k) : m # n /\ status[m] = "done" => outcome[m] # "failed"
    <3> SUFFICES ASSUME NEW m \in GroupOf(k), m # n, status[m] = "done"
                 PROVE  outcome[m] # "failed"
      OBVIOUS
    <3>1. m \in Node /\ DelegationKey(m) = k /\ Layer[m] = layer
      BY DEF GroupOf, PhaseNodes
    <3>2. Rank[m] < Rank[n] \/ Rank[n] < Rank[m]
      BY <3>1, ConstAssumption DEF ConstAssumption
    <3> QED
      BY <1>19, <2>1, <3>1, <3>2 DEF GroupMerge
  <2>4. group'[k] = "acquire" => outcome[n] # "failed"
    BY <1>19 DEF GroupMerge, AfterTool
  <2>5. status' = [status EXCEPT ![n] = "done"] /\ outcome' = outcome
    BY <1>19 DEF GroupMerge
  <2>6. \A j \in Keys \ {k} : group'[j] = group[j]
    BY <1>19 DEF GroupMerge
  <2>7. \A j \in Keys : GroupOf(j)' = GroupOf(j)
    BY <1>19, SamePhase DEF GroupMerge
  <2>8. \A j \in Keys : group'[j] = "acquire" =>
           \A m \in GroupOf(j) : status'[m] = "done" => outcome'[m] # "failed"
    BY <2>2, <2>3, <2>4, <2>5, <2>6 DEF GroupOf, PhaseNodes
  <2>9. \A m \in Node :
           /\ status'[m] # "idle" => status[m] # "idle"
           /\ status[m] = "done" => status'[m] = "done"
    BY <1>19, <2>5 DEF GroupMerge
  <2>10. \A i, m \in Node :
            /\ DelegationKey(i) # None /\ DelegationKey(i) = DelegationKey(m)
            /\ Layer[i] = Layer[m] /\ Rank[i] < Rank[m] /\ status'[m] # "idle"
            => status'[i] = "done" /\ outcome'[i] # "failed"
    BY <2>5, <2>9
  <2> QED
    BY <2>7, <2>8, <2>10
<1>20. ASSUME NEW k \in Keys, GroupEnd(k)  PROVE OrderInv'
  BY <1>20, SamePhase DEF GroupEnd, Idle
<1>21. CASE Wait
  BY <1>21 DEF Wait, EndPhase, GroupInv
<1>22. CASE Cancel
  BY <1>22, SamePhase DEF Cancel
<1> QED
  BY <1>1, <1>2, <1>3, <1>4, <1>5, <1>6, <1>7, <1>8, <1>9, <1>10, <1>11,
     <1>12, <1>13, <1>14, <1>15, <1>16, <1>17, <1>18, <1>19, <1>20, <1>21,
     <1>22
     DEF Next, Progress, ApplyNext, NodeNext, GroupNext

\* The loops leave nothing out without an error or a signal.
LEMMA PhaseStep ==
    ASSUME TypeOK, ActiveInv, SequentialInv, GroupInv, OneInv, StageInv, PhaseInv, Next
    PROVE  PhaseInv'
<1> USE DEF nodeVars, sharedVars, signals, PhaseInv, TypeOK, Outcomes, Idle,
            Concurrent, PhaseNodes, Downloads, GroupOf, Groups
<1>1. CASE NextLayer
  BY <1>1 DEF NextLayer
<1>2. CASE StartPhase
  BY <1>2 DEF StartPhase, StageInv
<1>3. CASE Flush
  BY <1>3 DEF Flush
<1>4. CASE FlushFails
  BY <1>4 DEF FlushFails
<1>5. ASSUME NEW n \in Node, StartNext(n)  PROVE PhaseInv'
  BY <1>5 DEF StartNext, IsNextOf, Idle
<1>6. ASSUME NEW n \in Node, NEW o \in Outcomes, Execute(n, o)  PROVE PhaseInv'
  BY <1>6 DEF Execute, CanEndIn
<1>7. ASSUME NEW n \in Node, EndSequential(n)  PROVE PhaseInv'
  BY <1>7 DEF EndSequential, Record, Failures, Upgrades
<1>8. CASE LeaveSequential
  BY <1>8 DEF LeaveSequential, EndPhase
<1>9. ASSUME NEW n \in Node, Launch(n)  PROVE PhaseInv'
  <2>1. \A k \in Keys : n \notin GroupOf(k)
    BY <1>9 DEF Launch, IsNextOf, Keys
  <2>2. \A k \in Keys : group[k] = "off"
    BY <1>9 DEF Launch, GroupInv
  <2> QED
    BY <1>9, <2>1, <2>2 DEF Launch
<1>10. CASE LaunchCancelled
  BY <1>10 DEF LaunchCancelled, Idle
<1>11. CASE LaunchedAll
  BY <1>11 DEF LaunchedAll, Idle
<1>12. ASSUME NEW n \in Node, Merge(n)  PROVE PhaseInv'
  BY <1>12 DEF Merge, Record, Failures, Upgrades
<1>13. ASSUME NEW n \in Node, Release(n)  PROVE PhaseInv'
  BY <1>13 DEF Release
<1>14. ASSUME NEW k \in Keys, LaunchGroup(k)  PROVE PhaseInv'
  BY <1>14 DEF LaunchGroup
<1>15. CASE LaunchedGroups
  BY <1>15 DEF LaunchedGroups
<1>16. ASSUME NEW k \in Keys, NEW n \in Node, GroupAcquire(k, n)  PROVE PhaseInv'
  BY <1>16 DEF GroupAcquire, IsNextOf, Idle, CanAcquire
<1>17. ASSUME NEW k \in Keys, GroupCancelled(k)  PROVE PhaseInv'
  BY <1>17 DEF GroupCancelled, Idle
<1>18. ASSUME NEW k \in Keys, NEW n \in Node, GroupRelease(k, n)  PROVE PhaseInv'
  BY <1>18 DEF GroupRelease
<1>19. ASSUME NEW k \in Keys, NEW n \in Node, GroupMerge(k, n)  PROVE PhaseInv'
  BY <1>19 DEF GroupMerge, Record, Failures, Upgrades, AfterTool
<1>20. ASSUME NEW k \in Keys, GroupEnd(k)  PROVE PhaseInv'
  <2>1. main \in {"groups", "wait"} /\ k # None
    BY <1>20 DEF GroupEnd, GroupInv, Keys
  <2>2. \A n \in GroupOf(k) : status[n] = "done"
    BY <1>20, <2>1 DEF GroupEnd, OneInv, Active
  <2> QED
    BY <1>20, <2>2 DEF GroupEnd
<1>21. CASE Wait
  BY <1>21 DEF Wait, EndPhase
<1>22. CASE Cancel
  BY <1>22 DEF Cancel
<1> HIDE DEF PhaseInv, TypeOK, PhaseNodes, Downloads, GroupOf, Groups, Concurrent
<1> QED
  BY <1>1, <1>2, <1>3, <1>4, <1>5, <1>6, <1>7, <1>8, <1>9, <1>10, <1>11,
     <1>12, <1>13, <1>14, <1>15, <1>16, <1>17, <1>18, <1>19, <1>20, <1>21,
     <1>22
     DEF Next, Progress, ApplyNext, NodeNext, GroupNext

\* A phase that ends without an error and without a signal is complete; only the
\* tools can be cut short silently.
LEMMA PhaseComplete ==
    ASSUME TypeOK, GroupInv, RecordInv, PhaseInv, Wait \/ LeaveSequential, errs = {}
    PROVE  (cancelled /\ phase = 3) \/ \A n \in PhaseNodes : Complete(n)
<1>1. ASSUME NEW n \in PhaseNodes, status[n] = "done"
      PROVE  Complete(n)
  BY <1>1 DEF RecordInv, Recorded, TypeOK, Outcomes, Complete, Succeeded, PhaseNodes,
     Wait, LeaveSequential
<1>2. CASE LeaveSequential
  BY <1>1, <1>2 DEF LeaveSequential
<1>3. CASE Wait
  <2>1. \A n \in Downloads : status[n] = "done"
    BY <1>3 DEF Wait, PhaseInv, Idle, Downloads, PhaseNodes
  <2>2. CASE \A k \in Groups : group[k] # "off"
    <3> SUFFICES ASSUME NEW n \in PhaseNodes, DelegationKey(n) # None
                 PROVE  status[n] = "done"
      BY <1>1, <2>1 DEF Downloads
    <3>1. DelegationKey(n) \in Groups /\ n \in GroupOf(DelegationKey(n))
      BY KeyFacts DEF Groups, GroupOf, PhaseNodes
    <3> QED
      BY <1>3, <2>2, <3>1 DEF Wait, PhaseInv, Concurrent, Groups
  <2>3. CASE cancelled
    <3>1. CASE \E n \in PhaseNodes : DelegationKey(n) # None
      BY <2>3, <3>1, KeyFacts DEF PhaseNodes
    <3>2. CASE \A n \in PhaseNodes : DelegationKey(n) = None
      BY <1>1, <2>1, <3>2 DEF Downloads
    <3> QED
      BY <3>1, <3>2
  <2> QED
    BY <1>3, <2>2, <2>3 DEF Wait, PhaseInv
<1> QED
  BY <1>2, <1>3

\* Stages follow each other.
LEMMA StageStep ==
    ASSUME TypeInv, ActiveInv, SequentialInv, GroupInv, OneInv, RecordInv, PhaseInv, StageInv, Next
    PROVE  StageInv'
<1> USE DEF nodeVars, sharedVars, signals, StageInv, TypeInv, TypeOK, Outcomes,
            Complete, Succeeded, PhaseNodes
<1>1. CASE NextLayer
  BY <1>1, KeyFacts DEF NextLayer
<1>2. CASE StartPhase
  BY <1>2 DEF StartPhase
<1>3. CASE Flush
  BY <1>3, KeyFacts, ConstAssumption DEF Flush, ConstAssumption
<1>4. CASE FlushFails
  BY <1>4 DEF FlushFails
<1>5. ASSUME NEW n \in Node, StartNext(n)  PROVE StageInv'
  BY <1>5 DEF StartNext, IsNextOf, Idle
<1>6. ASSUME NEW n \in Node, NEW o \in Outcomes, Execute(n, o)  PROVE StageInv'
  BY <1>6 DEF Execute, CanEndIn
<1>7. ASSUME NEW n \in Node, EndSequential(n)  PROVE StageInv'
  BY <1>7 DEF EndSequential, Record, Failures, Upgrades
<1>8. CASE LeaveSequential
  BY <1>8, PhaseComplete, KeyFacts DEF LeaveSequential, EndPhase
<1>9. ASSUME NEW n \in Node, Launch(n)  PROVE StageInv'
  BY <1>9 DEF Launch, IsNextOf, Idle, Downloads
<1>10. CASE LaunchCancelled
  BY <1>10 DEF LaunchCancelled, Idle
<1>11. CASE LaunchedAll
  BY <1>11 DEF LaunchedAll, Idle
<1>12. ASSUME NEW n \in Node, Merge(n)  PROVE StageInv'
  BY <1>12 DEF Merge, Record, Failures, Upgrades
<1>13. ASSUME NEW n \in Node, Release(n)  PROVE StageInv'
  BY <1>13 DEF Release
<1>14. ASSUME NEW k \in Keys, LaunchGroup(k)  PROVE StageInv'
  BY <1>14 DEF LaunchGroup
<1>15. CASE LaunchedGroups
  BY <1>15 DEF LaunchedGroups
<1>16. ASSUME NEW k \in Keys, NEW n \in Node, GroupAcquire(k, n)  PROVE StageInv'
  <2>1. main \in {"groups", "wait"} /\ n \in PhaseNodes
    BY <1>16 DEF GroupAcquire, GroupInv, IsNextOf, Idle, GroupOf
  <2> QED
    BY <1>16, <2>1 DEF GroupAcquire
<1>17. ASSUME NEW k \in Keys, GroupCancelled(k)  PROVE StageInv'
  BY <1>17 DEF GroupCancelled, Idle
<1>18. ASSUME NEW k \in Keys, NEW n \in Node, GroupRelease(k, n)  PROVE StageInv'
  BY <1>18 DEF GroupRelease
<1>19. ASSUME NEW k \in Keys, NEW n \in Node, GroupMerge(k, n)  PROVE StageInv'
  BY <1>19 DEF GroupMerge, Record, Failures, Upgrades, AfterTool
<1>20. ASSUME NEW k \in Keys, GroupEnd(k)  PROVE StageInv'
  BY <1>20 DEF GroupEnd, Idle
<1>21. CASE Wait
  BY <1>21, PhaseComplete, KeyFacts DEF Wait, EndPhase
<1>22. CASE Cancel
  BY <1>22 DEF Cancel
<1> HIDE DEF StageInv, TypeInv, TypeOK, Complete, Succeeded, PhaseNodes
<1> QED
  BY <1>1, <1>2, <1>3, <1>4, <1>5, <1>6, <1>7, <1>8, <1>9, <1>10, <1>11,
     <1>12, <1>13, <1>14, <1>15, <1>16, <1>17, <1>18, <1>19, <1>20, <1>21,
     <1>22
     DEF Next, Progress, ApplyNext, NodeNext, GroupNext

\* The state on disk is complete between layers and at the end.
LEMMA FlushStep ==
    ASSUME TypeInv, ActiveInv, RecordInv, StageInv, FlushInv, Next
    PROVE  FlushInv'
<1> USE DEF nodeVars, sharedVars, signals, FlushInv, TypeInv, TypeOK, Outcomes, Succeeded
<1>1. CASE NextLayer
  <2>1. ~cancelled /\ layer > Layers => \A n \in Node : Layer[n] < layer
    BY ConstAssumption DEF ConstAssumption
  <2>2. ~cancelled /\ layer > Layers => Succeeded = Node
    BY <1>1, <2>1 DEF NextLayer, StageInv, Complete
  <2>3. Succeeded' = Succeeded /\ flushed' = flushed /\ diskError' = diskError
    BY <1>1 DEF NextLayer
  <2> QED
    BY <1>1, <2>2, <2>3 DEF NextLayer
<1>2. CASE StartPhase
  BY <1>2 DEF StartPhase
<1>3. CASE Flush
  BY <1>3 DEF Flush
<1>4. CASE FlushFails
  BY <1>4 DEF FlushFails
<1>5. ASSUME NEW n \in Node, StartNext(n)  PROVE FlushInv'
  BY <1>5 DEF StartNext, IsNextOf, Idle
<1>6. ASSUME NEW n \in Node, NEW o \in Outcomes, Execute(n, o)  PROVE FlushInv'
  <2>1. main \notin {"layer", "returned"}
    BY <1>6 DEF Execute, ActiveInv, Active, Concurrent
  <2> QED
    BY <1>6, <2>1 DEF Execute
<1>7. ASSUME NEW n \in Node, EndSequential(n)  PROVE FlushInv'
  BY <1>7 DEF EndSequential, Record, Failures, Upgrades
<1>8. CASE LeaveSequential
  BY <1>8 DEF LeaveSequential, EndPhase
<1>9. ASSUME NEW n \in Node, Launch(n)  PROVE FlushInv'
  BY <1>9 DEF Launch, IsNextOf, Idle, CanAcquire
<1>10. CASE LaunchCancelled
  BY <1>10 DEF LaunchCancelled, Idle
<1>11. CASE LaunchedAll
  BY <1>11 DEF LaunchedAll, Idle
<1>12. ASSUME NEW n \in Node, Merge(n)  PROVE FlushInv'
  BY <1>12 DEF Merge, Record, Failures, Upgrades
<1>13. ASSUME NEW n \in Node, Release(n)  PROVE FlushInv'
  BY <1>13 DEF Release
<1>14. ASSUME NEW k \in Keys, LaunchGroup(k)  PROVE FlushInv'
  BY <1>14 DEF LaunchGroup
<1>15. CASE LaunchedGroups
  BY <1>15 DEF LaunchedGroups
<1>16. ASSUME NEW k \in Keys, NEW n \in Node, GroupAcquire(k, n)  PROVE FlushInv'
  BY <1>16 DEF GroupAcquire, IsNextOf, Idle, CanAcquire
<1>17. ASSUME NEW k \in Keys, GroupCancelled(k)  PROVE FlushInv'
  BY <1>17 DEF GroupCancelled, Idle
<1>18. ASSUME NEW k \in Keys, NEW n \in Node, GroupRelease(k, n)  PROVE FlushInv'
  BY <1>18 DEF GroupRelease
<1>19. ASSUME NEW k \in Keys, NEW n \in Node, GroupMerge(k, n)  PROVE FlushInv'
  BY <1>19 DEF GroupMerge, Record, Failures, Upgrades, AfterTool
<1>20. ASSUME NEW k \in Keys, GroupEnd(k)  PROVE FlushInv'
  BY <1>20 DEF GroupEnd, Idle
<1>21. CASE Wait
  BY <1>21 DEF Wait, EndPhase
<1>22. CASE Cancel
  BY <1>22 DEF Cancel
<1> QED
  BY <1>1, <1>2, <1>3, <1>4, <1>5, <1>6, <1>7, <1>8, <1>9, <1>10, <1>11,
     <1>12, <1>13, <1>14, <1>15, <1>16, <1>17, <1>18, <1>19, <1>20, <1>21,
     <1>22
     DEF Next, Progress, ApplyNext, NodeNext, GroupNext

\* What RunsBefore says in terms of layers and phases.
LEMMA Stages ==
    \A n, m \in Node : RunsBefore(m, n) <=>
        Layer[m] < Layer[n] \/ (Layer[m] = Layer[n] /\ PhaseOf(m) < PhaseOf(n))
<1>1. \A n \in Node : KindOrder[Kind[n]] = PhaseOf(n)
  <2> SUFFICES ASSUME NEW n \in Node  PROVE KindOrder[Kind[n]] = PhaseOf(n)
    OBVIOUS
  <2>1. Kind[n] \in Kinds
    BY ConstAssumption DEF ConstAssumption
  <2> QED
    BY <2>1 DEF Kinds, KindOrder, PhaseOf
<1> QED
  BY <1>1 DEF RunsBefore

\* A node starts after the stages before its own.
LEMMA DependStep ==
    ASSUME TypeOK, GroupInv, StageInv, RecordInv, StartsAfterDependencies, Next
    PROVE  StartsAfterDependencies'
<1> USE DEF nodeVars, sharedVars, signals, StartsAfterDependencies, TypeOK, Outcomes,
            Succeeded
<1>1. CASE NextLayer
  BY <1>1 DEF NextLayer
<1>2. CASE StartPhase
  BY <1>2 DEF StartPhase
<1>3. CASE Flush
  BY <1>3 DEF Flush
<1>4. CASE FlushFails
  BY <1>4 DEF FlushFails
<1>5. ASSUME NEW n \in Node, StartNext(n)  PROVE StartsAfterDependencies'
  <2>1. n \in PhaseNodes /\ main \notin {"layer", "returned"}
    BY <1>5 DEF StartNext, GroupInv, IsNextOf, Idle, Downloads, GroupOf
  <2>2. \A m \in Node : RunsBefore(m, n) => Complete(m)
    BY <2>1, Stages DEF StageInv, PhaseNodes
  <2> QED
    BY <1>5, <2>2 DEF StartNext, IsNextOf, Idle, Complete
<1>6. ASSUME NEW n \in Node, NEW o \in Outcomes, Execute(n, o)  PROVE StartsAfterDependencies'
  BY <1>6 DEF Execute, CanEndIn
<1>7. ASSUME NEW n \in Node, EndSequential(n)  PROVE StartsAfterDependencies'
  BY <1>7 DEF EndSequential, Record, Failures, Upgrades
<1>8. CASE LeaveSequential
  BY <1>8 DEF LeaveSequential, EndPhase
<1>9. ASSUME NEW n \in Node, Launch(n)  PROVE StartsAfterDependencies'
  <2>1. n \in PhaseNodes /\ main \notin {"layer", "returned"}
    BY <1>9 DEF Launch, GroupInv, IsNextOf, Idle, Downloads, GroupOf
  <2>2. \A m \in Node : RunsBefore(m, n) => Complete(m)
    BY <2>1, Stages DEF StageInv, PhaseNodes
  <2> QED
    BY <1>9, <2>2 DEF Launch, IsNextOf, Idle, Complete
<1>10. CASE LaunchCancelled
  BY <1>10 DEF LaunchCancelled, Idle
<1>11. CASE LaunchedAll
  BY <1>11 DEF LaunchedAll, Idle
<1>12. ASSUME NEW n \in Node, Merge(n)  PROVE StartsAfterDependencies'
  BY <1>12 DEF Merge, Record, Failures, Upgrades
<1>13. ASSUME NEW n \in Node, Release(n)  PROVE StartsAfterDependencies'
  BY <1>13 DEF Release
<1>14. ASSUME NEW k \in Keys, LaunchGroup(k)  PROVE StartsAfterDependencies'
  BY <1>14 DEF LaunchGroup
<1>15. CASE LaunchedGroups
  BY <1>15 DEF LaunchedGroups
<1>16. ASSUME NEW k \in Keys, NEW n \in Node, GroupAcquire(k, n)  PROVE StartsAfterDependencies'
  <2>1. n \in PhaseNodes /\ main \notin {"layer", "returned"}
    BY <1>16 DEF GroupAcquire, GroupInv, IsNextOf, Idle, Downloads, GroupOf
  <2>2. \A m \in Node : RunsBefore(m, n) => Complete(m)
    BY <2>1, Stages DEF StageInv, PhaseNodes
  <2> QED
    BY <1>16, <2>2 DEF GroupAcquire, IsNextOf, Idle, Complete
<1>17. ASSUME NEW k \in Keys, GroupCancelled(k)  PROVE StartsAfterDependencies'
  BY <1>17 DEF GroupCancelled, Idle
<1>18. ASSUME NEW k \in Keys, NEW n \in Node, GroupRelease(k, n)  PROVE StartsAfterDependencies'
  BY <1>18 DEF GroupRelease
<1>19. ASSUME NEW k \in Keys, NEW n \in Node, GroupMerge(k, n)  PROVE StartsAfterDependencies'
  BY <1>19 DEF GroupMerge, Record, Failures, Upgrades, AfterTool
<1>20. ASSUME NEW k \in Keys, GroupEnd(k)  PROVE StartsAfterDependencies'
  BY <1>20 DEF GroupEnd, Idle
<1>21. CASE Wait
  BY <1>21 DEF Wait, EndPhase
<1>22. CASE Cancel
  BY <1>22 DEF Cancel
<1> QED
  BY <1>1, <1>2, <1>3, <1>4, <1>5, <1>6, <1>7, <1>8, <1>9, <1>10, <1>11,
     <1>12, <1>13, <1>14, <1>15, <1>16, <1>17, <1>18, <1>19, <1>20, <1>21,
     <1>22
     DEF Next, Progress, ApplyNext, NodeNext, GroupNext

--------------------------------------------------------------------------------
\* The loop starts in a state of IInv.
LEMMA LoopInit == Init => IInv
<1> SUFFICES ASSUME Init  PROVE IInv
  OBVIOUS
<1> USE DEF Init
<1>1. TypeInv
  <2>1. layer \in 1 .. Layers + 1 /\ phase \in 1 .. 3 /\ permits \in Nat
    BY ConstAssumption DEF ConstAssumption
  <2>2. /\ status \in [Node -> {"idle", "running", "executed", "leaving", "done"}]
        /\ outcome \in [Node -> Outcomes \cup {"none"}]
        /\ group \in [Keys -> {"off", "acquire", "run", "done"}]
    OBVIOUS
  <2>3. /\ errs \in SUBSET (Node \cup {"canceled"})
        /\ updated \in SUBSET Node /\ flushed \in SUBSET Node
        /\ cancelled \in BOOLEAN /\ diskError \in BOOLEAN
    OBVIOUS
  <2> QED
    BY <2>1, <2>2, <2>3 DEF TypeInv, TypeOK
<1>2. ActiveInv /\ SequentialInv /\ GroupInv /\ OneInv /\ OrderInv /\ PhaseInv
  BY DEF ActiveInv, SequentialInv, GroupInv, OneInv, OrderInv, PhaseInv, Active,
     Concurrent
<1>3. PermitInv
  <2>1. Holders = {}
    BY DEF Holders, HoldsPermit, Concurrent
  <2> QED
    BY <2>1, FS_EmptySet, ConstAssumption DEF PermitInv, ConstAssumption
<1>4. RecordInv /\ FlushInv
  BY DEF RecordInv, Recorded, FlushInv, Succeeded
<1>5. StageInv
  BY ConstAssumption DEF StageInv, ConstAssumption
<1>6. StartsAfterDependencies
  BY DEF StartsAfterDependencies
<1> QED
  BY <1>1, <1>2, <1>3, <1>4, <1>5, <1>6 DEF IInv

\* Every step of the loop, of a goroutine or of a signal keeps IInv.
LEMMA LoopStep == IInv /\ [Next]_vars => IInv'
<1> SUFFICES ASSUME IInv, [Next]_vars  PROVE IInv'
  OBVIOUS
<1>1. CASE Next
  <2> USE <1>1 DEF IInv
  <2>1. PermitInv'
    BY PermitStep DEF TypeInv
  <2>2. TypeInv'
    BY <2>1, TypeStep
  <2>3. ActiveInv' /\ SequentialInv' /\ GroupInv' /\ OneInv'
    BY ActiveStep, SequentialStep, GroupStep, OneStep DEF TypeInv
  <2>4. RecordInv' /\ OrderInv' /\ PhaseInv'
    BY RecordStep, OrderStep, PhaseStep DEF TypeInv
  <2>5. StageInv' /\ FlushInv' /\ StartsAfterDependencies'
    BY StageStep, FlushStep, DependStep DEF TypeInv
  <2> QED
    BY <2>1, <2>2, <2>3, <2>4, <2>5
<1>2. CASE UNCHANGED vars
  <2> USE <1>2 DEF vars, nodeVars, sharedVars, signals, IInv
  <2>1. PhaseNodes' = PhaseNodes /\ Downloads' = Downloads /\ Groups' = Groups
    BY SamePhase
  <2>2. \A k \in Keys : GroupOf(k)' = GroupOf(k)
    BY SamePhase
  <2>3. TypeInv' /\ ActiveInv' /\ SequentialInv' /\ GroupInv' /\ OneInv'
    BY <2>1 DEF TypeInv, TypeOK, ActiveInv, SequentialInv, GroupInv, OneInv, Active,
       Concurrent
  <2>4. PermitInv'
    <3>1. Holders' = Holders
      BY DEF Holders, HoldsPermit, Concurrent
    <3> QED
      BY <3>1 DEF PermitInv
  <2>5. RecordInv' /\ OrderInv'
    BY <2>1, <2>2 DEF RecordInv, Recorded, OrderInv
  <2>6. PhaseInv'
    BY <2>1, <2>2 DEF PhaseInv, Idle, Concurrent
  <2>7. StageInv' /\ FlushInv' /\ StartsAfterDependencies'
    BY <2>1 DEF StageInv, Complete, Succeeded, FlushInv, StartsAfterDependencies
  <2> QED
    BY <2>3, <2>4, <2>5, <2>6, <2>7
<1> QED
  BY <1>1, <1>2

\* IInv holds in every reachable state.
LEMMA LoopInvariant == Spec => []IInv
  BY LoopInit, LoopStep, PTL DEF Spec

\* Tools with the same package manager are in the same delegation group.
LEMMA SameKey ==
    \A n, m \in Node :
        Kind[n] = "Tool" /\ Kind[m] = "Tool" /\ SamePackageManager(n, m) =>
            DelegationKey(n) # None /\ DelegationKey(n) = DelegationKey(m)
  BY ConstAssumption DEF ConstAssumption, SamePackageManager, DelegationKey

\* DelegationExclusive: two tools that go through the same package manager are
\* never installed at the same time, whichever goroutines run and whenever a
\* signal comes (delegationKeyForTool and the one goroutine per group).
THEOREM PackageManagersExclude == Spec => []DelegationExclusive
<1>1. IInv => DelegationExclusive
  <2> SUFFICES ASSUME IInv,
                      NEW n \in Running, NEW m \in Running,
                      Kind[n] = "Tool", Kind[m] = "Tool", SamePackageManager(n, m)
               PROVE  n = m
    BY DEF DelegationExclusive
  <2>1. n \in Node /\ m \in Node /\ Active(n) /\ Active(m)
    BY DEF Running, Active
  <2>2. DelegationKey(n) # None /\ DelegationKey(n) = DelegationKey(m)
    BY <2>1, SameKey
  <2> QED
    BY <2>1, <2>2 DEF IInv, ActiveInv, SequentialInv, OneInv
<1> QED
  BY <1>1, LoopInvariant, PTL

\* ParallelismBound: however many downloads and groups a phase has, no more nodes
\* run at once than engine.parallelism allows (the weighted semaphore).
THEOREM ParallelismIsBounded == Spec => []ParallelismBound
<1>1. IInv => ParallelismBound
  <2> SUFFICES ASSUME IInv  PROVE Cardinality(Running) <= Parallelism
    BY DEF ParallelismBound
  <2>1. CASE Concurrent
    <3>1. Running \subseteq Holders
      BY <2>1 DEF Running, Holders, HoldsPermit
    <3>2. IsFiniteSet(Holders)
      BY ConstAssumption, FS_Subset DEF ConstAssumption, Holders
    <3>3. Cardinality(Running) <= Cardinality(Holders) /\ IsFiniteSet(Running)
      BY <3>1, <3>2, FS_Subset
    <3>4. Cardinality(Running) \in Nat /\ Cardinality(Holders) \in Nat
      BY <3>2, <3>3, FS_CardinalityType
    <3>5. Cardinality(Holders) <= Parallelism
      BY DEF IInv, PermitInv
    <3> QED
      BY <3>3, <3>4, <3>5, ConstAssumption DEF ConstAssumption
  <2>2. CASE ~Concurrent /\ Running = {}
    BY <2>2, FS_EmptySet, ConstAssumption DEF ConstAssumption
  <2>3. CASE ~Concurrent /\ Running # {}
    <3>1. PICK n \in Running : TRUE
      BY <2>3
    <3>2. Running = {n}
      BY <2>3, <3>1 DEF IInv, ActiveInv, SequentialInv, Active, Running
    <3> QED
      <4>1. Cardinality(Running) = 1
        BY <3>2, FS_Singleton
      <4> QED
        BY <4>1, ConstAssumption DEF ConstAssumption
  <2> QED
    BY <2>1, <2>2, <2>3
<1> QED
  BY <1>1, LoopInvariant, PTL

\* FailFastInGroup: after a failed tool none of its group's later ones is
\* started, in a goroutine or on the sequential path.
THEOREM GroupsFailFast == Spec => []FailFastInGroup
<1>1. IInv => FailFastInGroup
  <2> SUFFICES ASSUME IInv,
                      NEW n \in Node, NEW m \in Node,
                      Layer[n] = Layer[m], Kind[n] = "Tool", Kind[m] = "Tool",
                      SamePackageManager(n, m), outcome[n] = "failed", Rank[m] > Rank[n]
               PROVE  status[m] = "idle"
    BY DEF FailFastInGroup
  <2>1. DelegationKey(n) # None /\ DelegationKey(n) = DelegationKey(m)
    BY SameKey
  <2>2. Rank[n] < Rank[m]
    BY ConstAssumption DEF ConstAssumption
  <2> QED
    BY <2>1, <2>2 DEF IInv, OrderInv
<1> QED
  BY <1>1, LoopInvariant, PTL

\* StartsAfterDependencies: a node starts only after everything in the layers
\* and phases before its own has succeeded, in spite of failures and signals
\* that leave nodes out (executeLayer's phases, ctx.Err() between layers).
THEOREM DependenciesFirst == Spec => []StartsAfterDependencies
<1>1. IInv => StartsAfterDependencies
  BY DEF IInv
<1> QED
  BY <1>1, LoopInvariant, PTL

\* QuietAtFlush: when the cache is flushed no goroutine is left, no permit is
\* out and updatedRuntimes holds every upgrade (wg.Wait and the mutex).
THEOREM FlushIsQuiet == Spec => []QuietAtFlush
<1>1. IInv => QuietAtFlush
  <2> SUFFICES ASSUME IInv, main \in {"layer", "flush", "returned"}
               PROVE  /\ \A n \in Node : status[n] \in {"idle", "done"}
                      /\ permits = 0
                      /\ updated = {n \in Node : outcome[n] = "upgraded"}
    BY DEF QuietAtFlush
  <2>1. \A n \in Node : status[n] \in {"idle", "done"}
    BY DEF IInv, ActiveInv, Active, Concurrent
  <2>2. \A n \in Node : ~HoldsPermit(n)
    BY DEF HoldsPermit, Concurrent
  <2>3. permits = 0
    BY <2>2, NoPermit DEF IInv
  <2>4. updated = {n \in Node : outcome[n] = "upgraded"}
    BY <2>1 DEF IInv, RecordInv, Recorded
  <2> QED
    BY <2>1, <2>3, <2>4
<1> QED
  BY <1>1, LoopInvariant, PTL

\* SuccessMeansComplete: the loop returns nil only when every node was installed
\* and saved, although LaunchedGroups drops groups without recording an error.
THEOREM SuccessIsComplete == Spec => []SuccessMeansComplete
<1>1. IInv => SuccessMeansComplete
  BY DEF IInv, FlushInv, SuccessMeansComplete
<1> QED
  BY <1>1, LoopInvariant, PTL

\* FinishedWorkIsSaved: unless the disk failed, what was installed is on disk
\* when the loop ends, failed or not (the flush after each layer).
THEOREM WorkIsSaved == Spec => []FinishedWorkIsSaved
<1>1. IInv => FinishedWorkIsSaved
  BY DEF IInv, FlushInv, FinishedWorkIsSaved
<1> QED
  BY <1>1, LoopInvariant, PTL

\* TypeOK: the variables keep the types of the Go declarations; in particular
\* the semaphore is never released more often than it was acquired.
THEOREM LoopTypes == Spec => []TypeOK
<1>1. IInv => TypeOK
  BY DEF IInv, TypeInv
<1> QED
  BY <1>1, LoopInvariant, PTL

--------------------------------------------------------------------------------
(***************************************************************************)
(* The refinement, and the failures.                                       *)
(***************************************************************************)
\* An error has a reason: a node that failed, or a signal.
ErrsInv ==
    \A e \in errs : (e = "canceled" /\ cancelled) \/ (e \in Node /\ outcome[e] = "failed")

\* Which path a phase takes is decided at its start and does not change.
PathInv ==
    /\ main = "sequential" => Sequential
    /\ Concurrent => ~Sequential

FailedIn(k) == \E m \in GroupOf(k) : outcome[m] = "failed"

\* Without a signal the loops launch everything, and a group ends only when it
\* is through or one of its tools has failed.
OthersInv ==
    ~cancelled =>
        /\ main \in {"groups", "wait"} => Idle(Downloads) = {}
        /\ main = "wait" => \A k \in Groups : group[k] # "off"
        /\ Concurrent =>
              \A k \in Keys : group[k] = "done" =>
                  FailedIn(k) \/ \A n \in GroupOf(k) : status[n] = "done"

--------------------------------------------------------------------------------
\* An error is recorded with its reason, and no outcome is taken back.
LEMMA ErrsStep ==
    ASSUME TypeOK, RecordInv, ErrsInv, Next
    PROVE  ErrsInv'
<1> USE DEF nodeVars, sharedVars, signals, ErrsInv, RecordInv, TypeOK, Outcomes
<1>1. CASE NextLayer
  BY <1>1 DEF NextLayer
<1>2. CASE StartPhase
  BY <1>2 DEF StartPhase
<1>3. CASE Flush
  BY <1>3 DEF Flush
<1>4. CASE FlushFails
  BY <1>4 DEF FlushFails
<1>5. ASSUME NEW n \in Node, StartNext(n)  PROVE ErrsInv'
  BY <1>5 DEF StartNext, IsNextOf, Idle
<1>6. ASSUME NEW n \in Node, NEW o \in Outcomes, Execute(n, o)  PROVE ErrsInv'
  BY <1>6 DEF Execute, CanEndIn
<1>7. ASSUME NEW n \in Node, EndSequential(n)  PROVE ErrsInv'
  BY <1>7 DEF EndSequential, Record, Failures, Upgrades
<1>8. CASE LeaveSequential
  BY <1>8 DEF LeaveSequential, EndPhase
<1>9. ASSUME NEW n \in Node, Launch(n)  PROVE ErrsInv'
  BY <1>9 DEF Launch, IsNextOf, Idle, CanAcquire
<1>10. CASE LaunchCancelled
  BY <1>10 DEF LaunchCancelled, Idle
<1>11. CASE LaunchedAll
  BY <1>11 DEF LaunchedAll, Idle
<1>12. ASSUME NEW n \in Node, Merge(n)  PROVE ErrsInv'
  BY <1>12 DEF Merge, Record, Failures, Upgrades
<1>13. ASSUME NEW n \in Node, Release(n)  PROVE ErrsInv'
  BY <1>13 DEF Release
<1>14. ASSUME NEW k \in Keys, LaunchGroup(k)  PROVE ErrsInv'
  BY <1>14 DEF LaunchGroup
<1>15. CASE LaunchedGroups
  BY <1>15 DEF LaunchedGroups
<1>16. ASSUME NEW k \in Keys, NEW n \in Node, GroupAcquire(k, n)  PROVE ErrsInv'
  BY <1>16 DEF GroupAcquire, IsNextOf, Idle, CanAcquire
<1>17. ASSUME NEW k \in Keys, GroupCancelled(k)  PROVE ErrsInv'
  BY <1>17 DEF GroupCancelled, Idle
<1>18. ASSUME NEW k \in Keys, NEW n \in Node, GroupRelease(k, n)  PROVE ErrsInv'
  BY <1>18 DEF GroupRelease
<1>19. ASSUME NEW k \in Keys, NEW n \in Node, GroupMerge(k, n)  PROVE ErrsInv'
  BY <1>19 DEF GroupMerge, Record, Failures, Upgrades, AfterTool
<1>20. ASSUME NEW k \in Keys, GroupEnd(k)  PROVE ErrsInv'
  BY <1>20 DEF GroupEnd, Idle
<1>21. CASE Wait
  BY <1>21 DEF Wait, EndPhase
<1>22. CASE Cancel
  BY <1>22 DEF Cancel
<1> QED
  BY <1>1, <1>2, <1>3, <1>4, <1>5, <1>6, <1>7, <1>8, <1>9, <1>10, <1>11,
     <1>12, <1>13, <1>14, <1>15, <1>16, <1>17, <1>18, <1>19, <1>20, <1>21,
     <1>22
     DEF Next, Progress, ApplyNext, NodeNext, GroupNext

\* Whether a phase takes the sequential path depends only on what is in it.
LEMMA SameSequential ==
    ASSUME layer' = layer, phase' = phase
    PROVE  Sequential' = Sequential
  BY SamePhase DEF Sequential

\* The path is chosen by what the phase contains.
LEMMA PathStep ==
    ASSUME TypeOK, PathInv, Next
    PROVE  PathInv'
<1> USE DEF nodeVars, sharedVars, signals, PathInv, Concurrent
<1>1. CASE NextLayer
  BY <1>1 DEF NextLayer
<1>2. CASE StartPhase
  BY <1>2, SameSequential DEF StartPhase
<1>3. CASE Flush
  BY <1>3 DEF Flush
<1>4. CASE FlushFails
  BY <1>4, SameSequential DEF FlushFails
<1>5. ASSUME NEW n \in Node, StartNext(n)  PROVE PathInv'
  BY <1>5, SameSequential DEF StartNext, IsNextOf, Idle
<1>6. ASSUME NEW n \in Node, NEW o \in Outcomes, Execute(n, o)  PROVE PathInv'
  BY <1>6, SameSequential DEF Execute, CanEndIn
<1>7. ASSUME NEW n \in Node, EndSequential(n)  PROVE PathInv'
  BY <1>7, SameSequential DEF EndSequential, Record, Failures, Upgrades
<1>8. CASE LeaveSequential
  BY <1>8 DEF LeaveSequential, EndPhase
<1>9. ASSUME NEW n \in Node, Launch(n)  PROVE PathInv'
  BY <1>9, SameSequential DEF Launch, IsNextOf, Idle, CanAcquire
<1>10. CASE LaunchCancelled
  BY <1>10, SameSequential DEF LaunchCancelled, Idle
<1>11. CASE LaunchedAll
  BY <1>11, SameSequential DEF LaunchedAll, Idle
<1>12. ASSUME NEW n \in Node, Merge(n)  PROVE PathInv'
  BY <1>12, SameSequential DEF Merge, Record, Failures, Upgrades
<1>13. ASSUME NEW n \in Node, Release(n)  PROVE PathInv'
  BY <1>13, SameSequential DEF Release
<1>14. ASSUME NEW k \in Keys, LaunchGroup(k)  PROVE PathInv'
  BY <1>14, SameSequential DEF LaunchGroup
<1>15. CASE LaunchedGroups
  BY <1>15, SameSequential DEF LaunchedGroups
<1>16. ASSUME NEW k \in Keys, NEW n \in Node, GroupAcquire(k, n)  PROVE PathInv'
  BY <1>16, SameSequential DEF GroupAcquire, IsNextOf, Idle, CanAcquire
<1>17. ASSUME NEW k \in Keys, GroupCancelled(k)  PROVE PathInv'
  BY <1>17, SameSequential DEF GroupCancelled, Idle
<1>18. ASSUME NEW k \in Keys, NEW n \in Node, GroupRelease(k, n)  PROVE PathInv'
  BY <1>18, SameSequential DEF GroupRelease
<1>19. ASSUME NEW k \in Keys, NEW n \in Node, GroupMerge(k, n)  PROVE PathInv'
  BY <1>19, SameSequential DEF GroupMerge, Record, Failures, Upgrades, AfterTool
<1>20. ASSUME NEW k \in Keys, GroupEnd(k)  PROVE PathInv'
  BY <1>20, SameSequential DEF GroupEnd, Idle
<1>21. CASE Wait
  BY <1>21 DEF Wait, EndPhase
<1>22. CASE Cancel
  BY <1>22, SameSequential DEF Cancel
<1> QED
  BY <1>1, <1>2, <1>3, <1>4, <1>5, <1>6, <1>7, <1>8, <1>9, <1>10, <1>11,
     <1>12, <1>13, <1>14, <1>15, <1>16, <1>17, <1>18, <1>19, <1>20, <1>21,
     <1>22
     DEF Next, Progress, ApplyNext, NodeNext, GroupNext

\* What OthersInv depends on.
LEMMA OthersKept ==
    ASSUME OthersInv,
           UNCHANGED <<main, layer, phase, group, cancelled>>,
           \A m \in Node :
               /\ outcome[m] = "failed" => outcome'[m] = "failed"
               /\ status[m] = "done" => status'[m] = "done"
               /\ status'[m] = "idle" => status[m] = "idle"
    PROVE  OthersInv'
<1>1. Downloads' = Downloads /\ Groups' = Groups /\ \A k \in Keys : GroupOf(k)' = GroupOf(k)
  BY SamePhase
<1>2. Downloads \subseteq Node /\ \A k \in Keys : GroupOf(k) \subseteq Node
  BY DEF Downloads, GroupOf, PhaseNodes
<1>3. Idle(Downloads)' \subseteq Idle(Downloads)
  BY <1>1, <1>2 DEF Idle
<1>4. \A k \in Keys : FailedIn(k) => FailedIn(k)'
  BY <1>1, <1>2 DEF FailedIn
<1> QED
  BY <1>1, <1>2, <1>3, <1>4 DEF OthersInv, Concurrent, Groups

\* The end of an installation changes nothing that OthersInv looks at.
LEMMA OthersExecute ==
    ASSUME RecordInv, OthersInv, TypeOK,
           NEW n \in Node, NEW o \in Outcomes, Execute(n, o)
    PROVE  OthersInv'
<1>1. \A m \in Node : outcome[m] = "failed" => outcome'[m] = "failed"
  BY DEF Execute, RecordInv, TypeOK
<1>2. \A m \in Node : /\ status[m] = "done" => status'[m] = "done"
                      /\ status'[m] = "idle" => status[m] = "idle"
  BY DEF Execute, TypeOK
<1>3. UNCHANGED <<main, layer, phase, group, cancelled>>
  BY DEF Execute, signals
<1> QED
  BY <1>1, <1>2, <1>3, OthersKept

\* The loops launch everything, and groups end for a reason.
LEMMA OthersStep ==
    ASSUME TypeOK, RecordInv, PhaseInv, GroupInv, SequentialInv, OneInv, OthersInv, Next
    PROVE  OthersInv'
<1> USE DEF nodeVars, sharedVars, signals, OthersInv, FailedIn, Concurrent, TypeOK,
            Outcomes, Idle, PhaseNodes, Downloads, GroupOf, Groups
<1>1. CASE NextLayer
  BY <1>1 DEF NextLayer
<1>2. CASE StartPhase
  BY <1>2 DEF StartPhase
<1>3. CASE Flush
  BY <1>3 DEF Flush
<1>4. CASE FlushFails
  BY <1>4 DEF FlushFails
<1>5. ASSUME NEW n \in Node, StartNext(n)  PROVE OthersInv'
  BY <1>5 DEF StartNext, IsNextOf, Idle
<1>6. ASSUME NEW n \in Node, NEW o \in Outcomes, Execute(n, o)  PROVE OthersInv'
  BY <1>6, OthersExecute
<1>7. ASSUME NEW n \in Node, EndSequential(n)  PROVE OthersInv'
  BY <1>7 DEF EndSequential, Record, Failures, Upgrades
<1>8. CASE LeaveSequential
  BY <1>8 DEF LeaveSequential, EndPhase
<1>9. ASSUME NEW n \in Node, Launch(n)  PROVE OthersInv'
  BY <1>9 DEF Launch, IsNextOf, Idle, CanAcquire
<1>10. CASE LaunchCancelled
  BY <1>10 DEF LaunchCancelled, Idle
<1>11. CASE LaunchedAll
  BY <1>11 DEF LaunchedAll, Idle
<1>12. ASSUME NEW n \in Node, Merge(n)  PROVE OthersInv'
  BY <1>12 DEF Merge, Record, Failures, Upgrades
<1>13. ASSUME NEW n \in Node, Release(n)  PROVE OthersInv'
  BY <1>13 DEF Release
<1>14. ASSUME NEW k \in Keys, LaunchGroup(k)  PROVE OthersInv'
  BY <1>14 DEF LaunchGroup
<1>15. CASE LaunchedGroups
  BY <1>15 DEF LaunchedGroups
<1>16. ASSUME NEW k \in Keys, NEW n \in Node, GroupAcquire(k, n)  PROVE OthersInv'
  BY <1>16 DEF GroupAcquire, IsNextOf, Idle, CanAcquire
<1>17. ASSUME NEW k \in Keys, GroupCancelled(k)  PROVE OthersInv'
  BY <1>17 DEF GroupCancelled, Idle
<1>18. ASSUME NEW k \in Keys, NEW n \in Node, GroupRelease(k, n)  PROVE OthersInv'
  BY <1>18 DEF GroupRelease
<1>19. ASSUME NEW k \in Keys, NEW n \in Node, GroupMerge(k, n)  PROVE OthersInv'
  BY <1>19 DEF GroupMerge, Record, Failures, Upgrades, AfterTool
<1>20. ASSUME NEW k \in Keys, GroupEnd(k)  PROVE OthersInv'
  <2>1. Concurrent
    BY <1>20 DEF GroupEnd, GroupInv
  <2>2. \A n \in GroupOf(k) : status[n] = "done"
    BY <1>20, <2>1 DEF GroupEnd, OneInv, Active, Keys
  <2> QED
    BY <1>20, <2>2 DEF GroupEnd
<1>21. CASE Wait
  BY <1>21 DEF Wait, EndPhase
<1>22. CASE Cancel
  BY <1>22 DEF Cancel
<1> QED
  BY <1>1, <1>2, <1>3, <1>4, <1>5, <1>6, <1>7, <1>8, <1>9, <1>10, <1>11,
     <1>12, <1>13, <1>14, <1>15, <1>16, <1>17, <1>18, <1>19, <1>20, <1>21,
     <1>22
     DEF Next, Progress, ApplyNext, NodeNext, GroupNext

\* The three parts hold in every reachable state.
LEMMA ReasonInvariant == Spec => [](ErrsInv /\ PathInv /\ OthersInv)
<1>1. Init => ErrsInv /\ PathInv /\ OthersInv
  BY DEF Init, ErrsInv, PathInv, OthersInv, Concurrent
<1>2. IInv /\ ErrsInv /\ PathInv /\ OthersInv /\ [Next]_vars
      => (ErrsInv /\ PathInv /\ OthersInv)'
  <2> SUFFICES ASSUME IInv, ErrsInv, PathInv, OthersInv, [Next]_vars
               PROVE  (ErrsInv /\ PathInv /\ OthersInv)'
    OBVIOUS
  <2>1. CASE Next
    <3>1. ErrsInv'
      BY <2>1, ErrsStep DEF IInv, TypeInv
    <3>2. PathInv'
      BY <2>1, PathStep DEF IInv, TypeInv
    <3>3. OthersInv'
      BY <2>1, OthersStep DEF IInv, TypeInv
    <3> QED
      BY <3>1, <3>2, <3>3
  <2>2. CASE UNCHANGED vars
    <3> USE <2>2 DEF vars, nodeVars, sharedVars, signals
    <3>1. Sequential' = Sequential /\ Downloads' = Downloads /\ Groups' = Groups
      BY SameSequential, SamePhase
    <3>2. \A k \in Keys : GroupOf(k)' = GroupOf(k)
      BY SamePhase
    <3>3. ErrsInv' /\ PathInv'
      BY <3>1 DEF ErrsInv, PathInv, Concurrent
    <3>4. OthersInv'
      BY <3>1, <3>2 DEF OthersInv, Concurrent, Idle, FailedIn
    <3> QED
      BY <3>3, <3>4
  <2> QED
    BY <2>1, <2>2
<1> QED
  BY <1>1, <1>2, LoopInvariant, PTL DEF Spec

\* Nodes of one delegation group have the same package manager.
LEMMA SameGroup ==
    \A n, m \in Node :
        DelegationKey(n) # None /\ DelegationKey(n) = DelegationKey(m)
        => SamePackageManager(m, n)
  BY DEF SamePackageManager, DelegationKey

\* What was left out when a phase with goroutines ends is behind a failure.
OthersDone ==
    main = "flush" /\ ~cancelled /\ ~Sequential =>
        \A n \in PhaseNodes :
            \/ status[n] = "done"
            \/ DelegationKey(n) # None /\ FailedIn(DelegationKey(n))

\* A phase with goroutines is over when all of them have ended, and then each
\* node is done or is left out by its group.
LEMMA DoneAtWait ==
    ASSUME TypeOK, ActiveInv, GroupInv, OneInv, OthersInv, Wait, ~cancelled,
           NEW n \in PhaseNodes
    PROVE  \/ status[n] = "done"
           \/ DelegationKey(n) # None /\ FailedIn(DelegationKey(n))
<1>1. n \in Node /\ ~Active(n)
  BY WaitIsQuiet DEF PhaseNodes
<1>2. CASE DelegationKey(n) = None
  <2>1. n \in Downloads /\ Idle(Downloads) = {}
    BY <1>2 DEF Downloads, OthersInv, Wait
  <2>2. status[n] # "idle"
    BY <2>1 DEF Idle
  <2> QED
    BY <1>1, <2>2 DEF Active
<1>3. CASE DelegationKey(n) # None
  <2>1. DelegationKey(n) \in Keys /\ n \in GroupOf(DelegationKey(n))
    BY <1>1, <1>3, KeyFacts DEF GroupOf
  <2>2. DelegationKey(n) \in Groups
    BY <2>1 DEF Groups
  <2>3. group[DelegationKey(n)] = "done"
    BY <2>2 DEF Wait, OthersInv
  <2>4. Concurrent
    BY DEF Wait, Concurrent
  <2> QED
    BY <1>3, <2>1, <2>3, <2>4 DEF OthersInv
<1> QED
  BY <1>2, <1>3

\* OthersDone comes about in Wait, and nothing changes it before the flush.
LEMMA OthersDoneStep ==
    ASSUME IInv, PathInv, OthersInv, OthersDone, [Next]_vars
    PROVE  OthersDone'
<1> SUFFICES ASSUME main' = "flush", ~cancelled', ~Sequential', NEW n \in PhaseNodes'
             PROVE  \/ status'[n] = "done"
                    \/ DelegationKey(n) # None /\ FailedIn(DelegationKey(n))'
  BY DEF OthersDone
<1> USE DEF nodeVars, sharedVars, signals
<1>1. CASE main = "flush" /\ UNCHANGED <<layer, phase, status, outcome>>
  <2>1. ~cancelled
    BY DEF Next, Progress, ApplyNext, NodeNext, GroupNext, vars,
           NextLayer, StartPhase, Flush, FlushFails, StartNext, Execute, EndSequential,
           LeaveSequential, Launch, LaunchCancelled, LaunchedAll, Merge, Release,
           LaunchGroup, LaunchedGroups, GroupAcquire, GroupCancelled, GroupRelease,
           GroupMerge, GroupEnd, Wait, Cancel
  <2>2. PhaseNodes' = PhaseNodes /\ Sequential' = Sequential
    BY <1>1, SamePhase, SameSequential
  <2> QED
    BY <1>1, <2>1, <2>2 DEF OthersDone, FailedIn, GroupOf
<1>2. CASE LeaveSequential
  <2>1. layer' = layer /\ phase' = phase /\ Sequential
    BY <1>2 DEF LeaveSequential, EndPhase, PathInv
  <2> QED
    BY <2>1, SameSequential
<1>3. CASE Wait
  <2>1. UNCHANGED <<layer, phase, status, outcome, cancelled>>
    BY <1>3 DEF Wait, EndPhase
  <2>2. PhaseNodes' = PhaseNodes
    BY <2>1, SamePhase
  <2>3. \/ status[n] = "done"
        \/ DelegationKey(n) # None /\ FailedIn(DelegationKey(n))
    BY <1>3, <2>1, <2>2, DoneAtWait DEF IInv, TypeInv
  <2>4. \A k : GroupOf(k)' = GroupOf(k)
    BY <2>2 DEF GroupOf
  <2>5. \A k : FailedIn(k)' = FailedIn(k)
    BY <2>1, <2>4 DEF FailedIn
  <2> QED
    BY <2>1, <2>3, <2>5
<1>4. ASSUME main = "flush", Next  PROVE UNCHANGED <<layer, phase, status, outcome>>
  <2> USE <1>4
  <2>1. \A m \in Node : ~Active(m)
    BY DEF IInv, ActiveInv, Concurrent
  <2>2. \A k \in Keys : group[k] \notin {"acquire", "run"}
    BY DEF IInv, GroupInv
  <2>3. CASE \E m \in Node : NodeNext(m)
    BY <2>1, <2>3 DEF NodeNext, StartNext, Execute, EndSequential, Launch, Merge,
       Release, Active
  <2>4. CASE \E k \in Keys : GroupNext(k)
    BY <2>2, <2>4 DEF GroupNext, LaunchGroup, GroupAcquire, GroupCancelled,
                      GroupRelease, GroupMerge, GroupEnd
  <2>5. CASE Flush \/ FlushFails
    BY <2>5 DEF Flush, FlushFails
  <2> QED
    BY <2>3, <2>4, <2>5
       DEF Next, Progress, ApplyNext, NextLayer, StartPhase, LeaveSequential,
           LaunchCancelled, LaunchedAll, LaunchedGroups, Wait, Cancel
<1>5. ASSUME Next, main # "flush"  PROVE LeaveSequential \/ Wait
  BY <1>5 DEF Next, Progress, ApplyNext, NodeNext, GroupNext,
       NextLayer, StartPhase, Flush, FlushFails, StartNext, Execute, EndSequential,
       Launch, LaunchCancelled, LaunchedAll, Merge, Release,
       LaunchGroup, LaunchedGroups, GroupAcquire, GroupCancelled, GroupRelease,
       GroupMerge, GroupEnd, Cancel
<1>6. CASE UNCHANGED vars
  BY <1>1, <1>2, <1>3, <1>5, <1>6 DEF vars, LeaveSequential, Wait
<1> QED
  BY <1>1, <1>2, <1>3, <1>4, <1>5, <1>6

\* OthersStillRun: a failure in a concurrent phase stops nothing but the later
\* tools of its own group (executeNodesParallel's "continue-on-error semantics").
THEOREM FailuresStayLocal == Spec => []OthersStillRun
<1>1. Init => OthersDone
  BY DEF Init, OthersDone
<1>2. IInv /\ (ErrsInv /\ PathInv /\ OthersInv) /\ OthersDone /\ [Next]_vars => OthersDone'
  BY OthersDoneStep
<1>3. OthersDone => OthersStillRun
  <2> SUFFICES ASSUME OthersDone, main = "flush", ~cancelled, ~Sequential,
                      NEW n \in PhaseNodes, status[n] # "done"
               PROVE  \E m \in PhaseNodes : SamePackageManager(m, n) /\ outcome[m] = "failed"
    BY DEF OthersStillRun
  <2>1. DelegationKey(n) # None /\ FailedIn(DelegationKey(n))
    BY DEF OthersDone
  <2>2. PICK m \in GroupOf(DelegationKey(n)) : outcome[m] = "failed"
    BY <2>1 DEF FailedIn
  <2>3. n \in Node /\ m \in Node /\ m \in PhaseNodes /\ DelegationKey(m) = DelegationKey(n)
    BY DEF GroupOf, PhaseNodes
  <2> QED
    BY <2>1, <2>2, <2>3, SameGroup
<1> QED
  BY <1>1, <1>2, <1>3, LoopInvariant, ReasonInvariant, PTL DEF Spec
--------------------------------------------------------------------------------
\* Stages of the contract are the phases of the layers.
LEMMA StageOrder ==
    \A m, n \in Node :
        /\ 3 * Layer[m] + KindOrder[Kind[m]] < 3 * Layer[n] + KindOrder[Kind[n]]
           => RunsBefore(m, n)
        /\ 3 * Layer[m] + KindOrder[Kind[m]] = 3 * Layer[n] + KindOrder[Kind[n]]
           => Layer[m] = Layer[n]
<1> SUFFICES ASSUME NEW m \in Node, NEW n \in Node
             PROVE  /\ 3 * Layer[m] + KindOrder[Kind[m]] < 3 * Layer[n] + KindOrder[Kind[n]]
                       => RunsBefore(m, n)
                    /\ 3 * Layer[m] + KindOrder[Kind[m]] = 3 * Layer[n] + KindOrder[Kind[n]]
                       => Layer[m] = Layer[n]
  OBVIOUS
<1>1. Kind[m] \in Kinds /\ Kind[n] \in Kinds /\ Layer[m] \in Int /\ Layer[n] \in Int
  BY ConstAssumption DEF ConstAssumption
<1>2. KindOrder[Kind[m]] \in 1 .. 3 /\ KindOrder[Kind[n]] \in 1 .. 3
  BY <1>1 DEF Kinds, KindOrder
<1> QED
  BY <1>1, <1>2 DEF RunsBefore

\* What a node's place in the protocol means for the contract.
LEMMA ProgressValues ==
    \A n \in Node :
        /\ ProgressOf(n) = "waiting" <=> status[n] = "idle"
        /\ ProgressOf(n) = "running" <=> status[n] = "running"
        /\ ProgressOf(n) \in {"waiting", "running", "ok", "failed"}
        /\ status[n] \notin {"idle", "running"} /\ outcome[n] # "failed" => ProgressOf(n) = "ok"
        /\ status[n] \notin {"idle", "running"} /\ outcome[n] = "failed" => ProgressOf(n) = "failed"
  BY DEF ProgressOf

\* The loop starts as the contract does.
LEMMA ContractInit == Init => Contract!Init
  BY DEF Init, Contract!Init, ProgressOf

\* The nodes that run are the same.
LEMMA ContractRunning == Contract!Running = Running
  BY ProgressValues DEF Contract!Running, Running

\* Wherever the loop starts a node, the contract lets it start.
LEMMA ContractStart ==
    ASSUME IInv, IInv', NEW n \in Node,
           status[n] = "idle", status' = [status EXCEPT ![n] = "running"],
           UNCHANGED <<outcome, signals, result>>,
           main # "returned", Cardinality(Running) < Parallelism
    PROVE  Contract!Start(n)
<1> DEFINE P == [m \in Node |-> ProgressOf(m)]
<1>1. result = "none"
  BY DEF IInv, FlushInv
<1>2. P[n] = "waiting"
  BY ProgressValues
<1>3. Contract!Cardinality(Contract!Running) < Parallelism
  BY ContractRunning DEF Contract!Cardinality, Cardinality
<1>4. \A m \in Node : RunsBefore(m, n) => P[m] = "ok"
  <2> SUFFICES ASSUME NEW m \in Node, RunsBefore(m, n)  PROVE P[m] = "ok"
    OBVIOUS
  <2>1. status'[n] = "running"
    BY DEF IInv, TypeInv, TypeOK
  <2>2. status'[m] = "done" /\ outcome'[m] \in {"ok", "upgraded"}
    BY <2>1 DEF IInv, StartsAfterDependencies, Succeeded
  <2>3. status[m] = "done" /\ outcome[m] \in {"ok", "upgraded"}
    BY <2>1, <2>2 DEF IInv, TypeInv, TypeOK
  <2> QED
    BY <2>3, ProgressValues
<1>5. \A m \in Node :
          m # n /\ DelegationKey(n) # None /\ DelegationKey(m) = DelegationKey(n)
          /\ Layer[m] = Layer[n] =>
              /\ P[m] \in {"waiting", "ok"}
              /\ Rank[m] < Rank[n] => P[m] = "ok"
  <2> SUFFICES ASSUME NEW m \in Node, m # n, DelegationKey(n) # None,
                      DelegationKey(m) = DelegationKey(n), Layer[m] = Layer[n]
               PROVE  P[m] \in {"waiting", "ok"} /\ (Rank[m] < Rank[n] => P[m] = "ok")
    OBVIOUS
  <2>1. Rank[m] < Rank[n] \/ Rank[n] < Rank[m]
    BY ConstAssumption DEF ConstAssumption
  <2>2. CASE Rank[m] < Rank[n]
    <3>1. status'[n] = "running"
      BY DEF IInv, TypeInv, TypeOK
    <3>2. status'[m] = "done" /\ outcome'[m] # "failed"
      BY <2>2, <3>1 DEF IInv, OrderInv
    <3>3. status[m] = "done" /\ outcome[m] # "failed"
      BY <3>1, <3>2 DEF IInv, TypeInv, TypeOK
    <3> QED
      BY <3>3, ProgressValues
  <2>3. CASE Rank[n] < Rank[m]
    <3>1. status[m] = "idle"
      BY <2>3 DEF IInv, OrderInv
    <3>2. P[m] = "waiting"
      BY <3>1, ProgressValues
    <3> QED
      BY <2>3, <3>2, RankOrder, ConstAssumption DEF ConstAssumption
  <2> QED
    BY <2>1, <2>2, <2>3
<1>6. P' = [P EXCEPT ![n] = "running"]
  <2>1. \A m \in Node : ProgressOf(m)' = IF m = n THEN "running" ELSE ProgressOf(m)
    BY DEF ProgressOf, IInv, TypeInv, TypeOK
  <2> QED
    BY <2>1
<1> DEFINE Stage == [m \in Node |-> 3 * Layer[m] + KindOrder[Kind[m]]]
<1>7. \A m \in Node : Stage[m] < Stage[n] => P[m] = "ok"
  BY <1>4, StageOrder
<1>8. \A m \in Contract!Rivals(n) :
          /\ P[m] \in {"waiting", "ok"}
          /\ Rank[m] < Rank[n] => P[m] = "ok"
  <2> SUFFICES ASSUME NEW m \in Contract!Rivals(n)
               PROVE  P[m] \in {"waiting", "ok"} /\ (Rank[m] < Rank[n] => P[m] = "ok")
    OBVIOUS
  <2>1. m \in Node /\ m # n /\ DelegationKey(n) # None /\ DelegationKey(m) = DelegationKey(n)
    BY DEF Contract!Rivals
  <2>2. Stage[m] = Stage[n]
    BY DEF Contract!Rivals
  <2>3. Layer[m] = Layer[n]
    BY <2>1, <2>2, StageOrder
  <2> QED
    BY <1>5, <2>1, <2>3
<1>9. UNCHANGED <<cancelled, diskError, result>>
  BY DEF signals
<1> QED
  BY <1>1, <1>2, <1>3, <1>6, <1>7, <1>8, <1>9 DEF Contract!Start

\* Where a node comes to its end, the contract's node does.
LEMMA ContractFinish ==
    ASSUME IInv, NEW n \in Node, NEW o \in Outcomes, Execute(n, o)
    PROVE  \E r \in {"ok", "failed"} : Contract!Finish(n, r)
<1> DEFINE r == IF o = "failed" THEN "failed" ELSE "ok"
<1>1. ProgressOf(n) = "running"
  BY ProgressValues DEF Execute
<1>2. \A m \in Node : ProgressOf(m)' = IF m = n THEN r ELSE ProgressOf(m)
  BY DEF ProgressOf, Execute, IInv, TypeInv, TypeOK
<1>3. UNCHANGED <<cancelled, diskError, result>>
  BY DEF Execute, signals
<1>4. Contract!Finish(n, r)
  BY <1>1, <1>2, <1>3 DEF Contract!Finish
<1> QED
  BY <1>4

\* What the contract does not see.
LEMMA ContractStutter ==
    ASSUME UNCHANGED <<cancelled, diskError, result>>,
           \A n \in Node : ProgressOf(n)' = ProgressOf(n)
    PROVE  UNCHANGED Contract!vars
  BY DEF Contract!vars

\* When nothing is at work, the contract has nothing running.
LEMMA ContractIdle ==
    ASSUME \A n \in Node : ~Active(n)
    PROVE  Contract!Running = {}
  BY ContractRunning DEF Running, Active

\* Where the loop starts a node, the bound leaves room for it.
LEMMA RoomToStart ==
    ASSUME IInv
    PROVE  /\ \A n \in Node : StartNext(n) => Cardinality(Running) < Parallelism
           /\ Concurrent /\ CanAcquire => Cardinality(Running) < Parallelism
<1>1. ASSUME NEW n \in Node, StartNext(n)  PROVE Cardinality(Running) < Parallelism
  <2>1. Running = {}
    BY <1>1 DEF StartNext, IInv, ActiveInv, Active, Running
  <2>2. Cardinality(Running) = 0
    BY <2>1, FS_EmptySet
  <2> QED
    BY <2>2, ConstAssumption DEF ConstAssumption
<1>2. ASSUME Concurrent, CanAcquire  PROVE Cardinality(Running) < Parallelism
  <2>1. Running \subseteq Holders
    BY <1>2 DEF Running, Holders, HoldsPermit
  <2>2. IsFiniteSet(Holders)
    BY ConstAssumption, FS_Subset DEF ConstAssumption, Holders
  <2>3. Cardinality(Running) <= Cardinality(Holders) /\ IsFiniteSet(Running)
    BY <2>1, <2>2, FS_Subset
  <2>4. Cardinality(Running) \in Nat /\ Cardinality(Holders) \in Nat
    BY <2>2, <2>3, FS_CardinalityType
  <2>5. Cardinality(Holders) < Parallelism
    BY <1>2 DEF IInv, PermitInv, CanAcquire
  <2> QED
    BY <2>3, <2>4, <2>5, ConstAssumption DEF ConstAssumption
<1> QED
  BY <1>1, <1>2

\* Every step is one of the contract, or one that it does not see.
LEMMA ContractStep ==
    IInv /\ IInv' /\ ErrsInv /\ [Next]_vars => [Contract!Next]_(Contract!vars)
<1> SUFFICES ASSUME IInv, IInv', ErrsInv, [Next]_vars
             PROVE  Contract!Next \/ UNCHANGED Contract!vars
  OBVIOUS
<1> USE DEF nodeVars, sharedVars, signals
<1>0. TypeOK
  BY DEF IInv, TypeInv
<1>1. CASE NextLayer
  <2>1. \A n \in Node : ~Active(n)
    BY <1>1 DEF NextLayer, IInv, ActiveInv, Concurrent
  <2>2. result = "none"
    BY <1>1 DEF NextLayer, IInv, FlushInv
  <2>3. [n \in Node |-> ProgressOf(n)]' = [n \in Node |-> ProgressOf(n)]
    BY <1>1 DEF NextLayer, ProgressOf
  <2>4. UNCHANGED <<cancelled, diskError>>
    BY <1>1 DEF NextLayer
  <2>5. CASE cancelled
    <3>1. result' = "error"
      BY <1>1, <2>5 DEF NextLayer
    <3>2. Contract!GiveUp
      BY <2>1, <2>2, <2>3, <2>4, <2>5, <3>1, ContractIdle DEF Contract!GiveUp
    <3> QED
      BY <3>2 DEF Contract!Next
  <2>6. CASE ~cancelled /\ layer > Layers
    <3>1. result' = "ok"
      BY <1>1, <2>6 DEF NextLayer
    <3>2. \A n \in Node : Layer[n] < layer
      BY <1>0, <2>6, ConstAssumption DEF ConstAssumption, TypeOK
    <3>3. \A n \in Node : ProgressOf(n) = "ok"
      BY <1>1, <2>6, <3>2, ProgressValues DEF NextLayer, IInv, StageInv, Complete,
         Succeeded
    <3>4. Contract!Succeed
      BY <2>2, <2>3, <2>4, <3>1, <3>3 DEF Contract!Succeed
    <3> QED
      BY <3>4 DEF Contract!Next
  <2>7. CASE ~cancelled /\ ~(layer > Layers)
    <3>1. result' = result
      BY <1>1, <2>7 DEF NextLayer
    <3> QED
      BY <2>3, <2>4, <3>1 DEF Contract!vars
  <2> QED
    BY <2>5, <2>6, <2>7
<1>2. CASE Flush
  <2>1. \A n \in Node : ~Active(n)
    BY <1>2 DEF Flush, IInv, ActiveInv, Concurrent
  <2>2. result = "none"
    BY <1>2 DEF Flush, IInv, FlushInv
  <2>3. [n \in Node |-> ProgressOf(n)]' = [n \in Node |-> ProgressOf(n)]
    BY <1>2 DEF Flush, ProgressOf
  <2>4. UNCHANGED <<cancelled, diskError>>
    BY <1>2 DEF Flush
  <2>5. CASE errs = {}
    <3>1. result' = result
      BY <1>2, <2>5 DEF Flush
    <3> QED
      BY <2>3, <2>4, <3>1 DEF Contract!vars
  <2>6. CASE errs # {}
    <3>1. result' = "error"
      BY <1>2, <2>6 DEF Flush
    <3>2. cancelled \/ \E n \in Node : outcome[n] = "failed"
      BY <2>6 DEF ErrsInv
    <3>3. cancelled \/ \E n \in Node : ProgressOf(n) = "failed"
      <4>1. \A n \in Node : outcome[n] = "failed" => status[n] \notin {"idle", "running"}
        BY DEF IInv, RecordInv
      <4> QED
        BY <3>2, <4>1, ProgressValues
    <3>4. Contract!GiveUp
      BY <2>1, <2>2, <2>3, <2>4, <3>1, <3>3, ContractIdle DEF Contract!GiveUp
    <3> QED
      BY <3>4 DEF Contract!Next
  <2> QED
    BY <2>5, <2>6
<1>3. CASE FlushFails
  <2>1. \A n \in Node : ~Active(n)
    BY <1>3 DEF FlushFails, IInv, ActiveInv, Concurrent
  <2>2. result = "none"
    BY <1>3 DEF FlushFails, IInv, FlushInv
  <2>3. [n \in Node |-> ProgressOf(n)]' = [n \in Node |-> ProgressOf(n)]
    BY <1>3 DEF FlushFails, ProgressOf
  <2>4. result' = "error" /\ diskError' = TRUE
    BY <1>3 DEF FlushFails
  <2>5. Contract!GiveUp
    BY <2>1, <2>2, <2>3, <2>4, ContractIdle DEF Contract!GiveUp
  <2> QED
    BY <2>5 DEF Contract!Next
<1>4. CASE Cancel
  <2>1. [n \in Node |-> ProgressOf(n)]' = [n \in Node |-> ProgressOf(n)]
    BY <1>4 DEF Cancel, ProgressOf
  <2>2. Contract!Interrupt
    BY <1>4, <2>1 DEF Cancel, Contract!Interrupt
  <2> QED
    BY <2>2 DEF Contract!Next
<1>5. ASSUME NEW n \in Node, StartNext(n) \/ Launch(n) \/ (\E k \in Keys : GroupAcquire(k, n))
      PROVE  Contract!Next
  <2>1. status[n] = "idle" /\ status' = [status EXCEPT ![n] = "running"]
    BY <1>5 DEF StartNext, Launch, GroupAcquire, IsNextOf, Idle
  <2>2. UNCHANGED <<outcome, signals, result>>
    BY <1>5 DEF StartNext, Launch, GroupAcquire
  <2>3. main # "returned"
    BY <1>5 DEF StartNext, Launch, GroupAcquire, IInv, GroupInv
  <2>4. StartNext(n) \/ (Concurrent /\ CanAcquire)
    BY <1>5 DEF Launch, GroupAcquire, IInv, GroupInv, Concurrent
  <2>5. Cardinality(Running) < Parallelism
    BY <2>4, RoomToStart
  <2>6. Contract!Start(n)
    BY <2>1, <2>2, <2>3, <2>5, ContractStart
  <2> QED
    BY <2>6 DEF Contract!Next
<1>6. ASSUME NEW n \in Node, NEW o \in Outcomes, Execute(n, o)  PROVE Contract!Next
  BY <1>6, ContractFinish DEF Contract!Next
<1>7. ASSUME NEW n \in Node,
             \/ EndSequential(n) \/ Merge(n) \/ Release(n)
             \/ \E k \in Keys : GroupRelease(k, n) \/ GroupMerge(k, n)
      PROVE  UNCHANGED Contract!vars
  <2>1. UNCHANGED <<outcome, cancelled, diskError, result>>
    BY <1>7 DEF EndSequential, Merge, Release, GroupRelease, GroupMerge
  <2>2. \A m \in Node : ProgressOf(m)' = ProgressOf(m)
    BY <1>0, <1>7, <2>1
       DEF EndSequential, Merge, Release, GroupRelease, GroupMerge, ProgressOf, TypeOK
  <2> QED
    BY <2>1, <2>2, ContractStutter
<1>8. CASE \/ StartPhase \/ LeaveSequential \/ LaunchCancelled \/ LaunchedAll
           \/ (\E k \in Keys : LaunchGroup(k) \/ GroupCancelled(k) \/ GroupEnd(k))
           \/ LaunchedGroups \/ Wait \/ UNCHANGED vars
  <2>1. UNCHANGED <<status, outcome, cancelled, diskError, result>>
    BY <1>8 DEF StartPhase, LeaveSequential, LaunchCancelled, LaunchedAll, LaunchGroup,
                GroupCancelled, GroupEnd, LaunchedGroups, Wait, vars
  <2>2. \A m \in Node : ProgressOf(m)' = ProgressOf(m)
    BY <2>1 DEF ProgressOf
  <2> QED
    BY <2>1, <2>2, ContractStutter
<1> QED
  BY <1>1, <1>2, <1>3, <1>4, <1>5, <1>6, <1>7, <1>8
     DEF Next, Progress, ApplyNext, NodeNext, GroupNext

\* ImplementsContract: whatever the goroutines, the semaphore, the groups and
\* the signals do, seen from outside the loop runs nodes in stages, within the
\* bound, one at a time per package manager, and gives up only with a reason
\* (executeLayer, executeNodesParallel and the delegation groups together).
THEOREM LoopIsContract == Spec => ImplementsContract
<1>1. Init => Contract!Init
  BY ContractInit
<1>2. IInv /\ IInv' /\ ErrsInv /\ [Next]_vars => [Contract!Next]_(Contract!vars)
  BY ContractStep
<1> QED
  BY <1>1, <1>2, LoopInvariant, ReasonInvariant, PTL
     DEF Spec, ImplementsContract, Contract!Spec

================================================================================
