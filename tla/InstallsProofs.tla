----------------------------- MODULE InstallsProofs -----------------------------
(***************************************************************************)
(* Proofs about RuntimeInstall and Repositories.                           *)
(*                                                                         *)
(* Runtimes: no link of tomei's leads to a directory that is not there,    *)
(* and after an apply that succeeds the links are what state.json says.    *)
(* Directories only go in a removal, after the links of their runtime, and *)
(* no link is made while anything is removed; and what an install has      *)
(* linked so far and has still to link is all of it.                       *)
(*                                                                         *)
(* Repositories: after an apply that succeeds, clones and entries are what *)
(* state.json says.                                                        *)
(***************************************************************************)
EXTENDS Installs, TLAPS

Installing ==
    {"reconcile", "fetch", "copy", "bootstrap", "unlink", "link", "record", "done", "failed"}

Removing == {"remove", "removeFiles"}

\* The variables that the argument is about have their types.
Typed ==
    /\ manifest \in Manifests
    /\ dir \in [Dirs -> {"none", "partial", "whole"}]
    /\ link \in [Places -> Dirs \cup {Own(r) : r \in Runtime} \cup {None}]
    /\ phase \in {"idle", "layer", "removals"}
    /\ at \in [Runtime -> {"idle"} \cup Installing \cup Removing]
    /\ todo \in [Runtime -> Seq(Binary)]
    /\ target \in [Runtime -> Version \cup {Alias, None}]

\* Goroutines install in a layer and remove after it, and otherwise there are none.
InPhase ==
    \A r \in Runtime :
        /\ at[r] \in Installing => phase = "layer"
        /\ at[r] \in Removing => phase = "removals"
        /\ at[r] \in Installing => manifest[r] # None

\* An install past its reconciliation has a version, and links only its own
\* binaries, into a directory that it has seen.
LinksItsOwn(r) ==
    /\ at[r] \in Installing \ {"reconcile", "done", "failed"} => target[r] # None
    /\ \A i \in 1 .. Len(todo[r]) : <<BinDir[r], todo[r][i]>> \in Ours(r)
    /\ at[r] = "link" => todo[r] # <<>> /\ dir[<<r, target[r]>>] # "none"

LinksOwn == \A r \in Runtime : LinksItsOwn(r)

\* A link to a directory of r is that of a binary of r.
LinkedByOwner ==
    \A p \in Places : IsLink(link[p]) => link[p] \in Dirs /\ p \in Ours(link[p][1])

\* When a directory of r is about to go, no link leads to any of them.
UnlinkedFirst ==
    \A r \in Runtime : at[r] = "removeFiles" =>
        \A p \in Places : IsLink(link[p]) => link[p][1] # r

Inv == Typed /\ InPhase /\ LinksOwn /\ LinkedByOwner /\ UnlinkedFirst /\ NoDanglingLink

\* The binaries of a runtime have their places in its bin directory.
LEMMA OursArePlaces ==
    ASSUME NEW r \in Runtime
    PROVE  Ours(r) \subseteq Places
PROOF
  BY RuntimeAssumption DEF RuntimeAssumption, Ours, Places

\* A reconciliation ends the install, or gives it a version and all its binaries.
LEMMA ReconcileEnds ==
    ASSUME Inv, NEW r \in Runtime, Reconcile(r)
    PROVE  /\ at[r] = "reconcile"
           /\ UNCHANGED <<manifest, phase, dir, link>>
           /\ \/ at' = [at EXCEPT ![r] = "done"] /\ UNCHANGED <<todo, target>>
              \/ \E v \in Version \cup {Alias}, label \in {"bootstrap", "unlink", "fetch"} :
                    /\ at' = [at EXCEPT ![r] = label]
                    /\ target' = [target EXCEPT ![r] = v]
                    /\ todo' = [todo EXCEPT ![r] = Binaries[r]]
PROOF
<1>1. at[r] = "reconcile" /\ UNCHANGED <<manifest, phase, dir, link>>
  BY DEF Reconcile, Still, places
<1>2. CASE ~NeedsUpdate(r)
  BY <1>1, <1>2 DEF Reconcile, Goto
<1>3. CASE NeedsUpdate(r)
  <2>1. manifest[r] \in Version \cup {Alias}
    BY <1>1, RuntimeAssumption DEF RuntimeAssumption, Inv, Typed, InPhase, Installing, Manifests
  <2>2. PICK v \in {IF manifest[r] = Alias THEN Newest ELSE manifest[r]} \cup {manifest[r]} :
            /\ target' = [target EXCEPT ![r] = v]
            /\ todo' = [todo EXCEPT ![r] = Binaries[r]]
            /\ Goto(r, IF Way[r] # "download" THEN "bootstrap"
                       ELSE IF dir[<<r, v>>] # "none" THEN "unlink" ELSE "fetch")
    BY <1>3 DEF Reconcile
  <2>3. v \in Version \cup {Alias}
    BY <2>1, <2>2, RuntimeAssumption DEF RuntimeAssumption
  <2> QED
    BY <1>1, <2>2, <2>3 DEF Goto
<1> QED
  BY <1>2, <1>3

\* A bootstrap makes no link, and removes no directory.
LEMMA BootstrapEnds ==
    ASSUME Inv, NEW r \in Runtime, Bootstrap(r)
    PROVE  /\ at[r] = "bootstrap"
           /\ at' = [at EXCEPT ![r] = "record"] \/ at' = [at EXCEPT ![r] = "unlink"]
           /\ UNCHANGED <<manifest, phase, todo, target>>
           /\ \A d \in Dirs : dir[d] # "none" => dir'[d] # "none"
           /\ \A p \in Places : IsLink(link'[p]) => link'[p] = link[p]
PROOF
<1>1. at[r] = "bootstrap" /\ UNCHANGED <<manifest, phase, todo, target>>
  BY DEF Bootstrap, Still
<1>2. at' = [at EXCEPT ![r] = "record"] \/ at' = [at EXCEPT ![r] = "unlink"]
  BY DEF Bootstrap, Goto
<1>3. \A d \in Dirs : dir[d] # "none" => dir'[d] # "none"
  BY DEF Bootstrap, Inv, Typed
<1>4. \A p \in Places : IsLink(link'[p]) => link'[p] = link[p]
  BY DEF Bootstrap, IsLink, Own
<1> QED
  BY <1>1, <1>2, <1>3, <1>4

\* A runtime that makes a link has a directory and a binary to link.
LEMMA LinkHasTarget ==
    ASSUME Inv, NEW r \in Runtime, at[r] = "link"
    PROVE  /\ <<r, target[r]>> \in Dirs
           /\ todo[r] \in Seq(Binary) /\ todo[r] # <<>>
           /\ <<BinDir[r], Head(todo[r])>> \in Ours(r)
PROOF
<1>1. target[r] \in Version \cup {Alias}
  BY DEF Inv, Typed, LinksOwn, LinksItsOwn, Installing
<1>2. todo[r] \in Seq(Binary) /\ todo[r] # <<>>
  BY DEF Inv, Typed, LinksOwn, LinksItsOwn
<1>3. Head(todo[r]) = todo[r][1] /\ 1 \in 1 .. Len(todo[r])
  BY <1>2
<1>4. <<BinDir[r], Head(todo[r])>> \in Ours(r)
  BY <1>3 DEF Inv, LinksOwn, LinksItsOwn
<1> QED
  BY <1>1, <1>2, <1>4 DEF Dirs

\* What stays of a sequence without its first element has no other elements.
LEMMA TailOfBinaries ==
    ASSUME NEW s \in Seq(Binary), s # <<>>
    PROVE  /\ Tail(s) \in Seq(Binary)
           /\ \A i \in 1 .. Len(Tail(s)) : i + 1 \in 1 .. Len(s) /\ Tail(s)[i] = s[i + 1]
PROOF
  OBVIOUS

\* An apply that ends without a flush leaves nobody at work; a directory that is
\* half removed is there.
LEMMA AbandonEnds ==
    ASSUME Inv, Abandon
    PROVE  /\ phase' = "idle" /\ at' = [r \in Runtime |-> "idle"]
           /\ todo' = [r \in Runtime |-> <<>>] /\ target' = [r \in Runtime |-> None]
           /\ UNCHANGED <<manifest, link>>
           /\ dir' \in [Dirs -> {"none", "partial", "whole"}]
           /\ \A d \in Dirs : dir[d] # "none" => dir'[d] # "none"
PROOF
<1>1. PICK part \in SUBSET {d \in Going : dir[d] # "none"} :
          dir' = [d \in Dirs |-> IF d \in part THEN "partial" ELSE dir[d]]
  BY DEF Abandon
<1>2. /\ dir' \in [Dirs -> {"none", "partial", "whole"}]
      /\ \A d \in Dirs : dir[d] # "none" => dir'[d] # "none"
  BY <1>1 DEF Inv, Typed
<1> QED
  BY <1>2 DEF Abandon, Forget

\* A step keeps the types.
LEMMA TypeStep ==
    ASSUME Inv, [Next]_vars
    PROVE  Typed'
PROOF
<1> USE RuntimeAssumption DEF RuntimeAssumption, Inv, Typed, Installing, Removing
<1>1. CASE Begin
  BY <1>1 DEF Begin, places
<1>2. CASE EndLayer
  BY <1>2 DEF EndLayer, Forget, places
<1>3. CASE EndRemovals
  BY <1>3 DEF EndRemovals, places
<1>4. CASE Abandon
  <2>1. /\ phase' = "idle" /\ at' = [r \in Runtime |-> "idle"]
        /\ todo' = [r \in Runtime |-> <<>>] /\ target' = [r \in Runtime |-> None]
        /\ UNCHANGED <<manifest, link>>
        /\ dir' \in [Dirs -> {"none", "partial", "whole"}]
    BY <1>4, AbandonEnds
  <2> QED
    BY <2>1
<1>5. ASSUME NEW r \in Runtime, Edit(r)
      PROVE  Typed'
  <2>1. PICK v \in Asked[r] \cup {None} : manifest' = [manifest EXCEPT ![r] = v]
    BY <1>5 DEF Edit
  <2>2. manifest' \in Manifests
    BY <2>1 DEF Manifests
  <2> QED
    BY <1>5, <2>2 DEF Edit, places
<1>6. ASSUME NEW r \in Runtime, Remove(r)
      PROVE  Typed'
  BY <1>6 DEF Remove, Goto, Still
<1>7. ASSUME NEW r \in Runtime, RemoveFiles(r)
      PROVE  Typed'
  BY <1>7 DEF RemoveFiles, Goto, Still
<1>8. ASSUME NEW r \in Runtime, Install(r)
      PROVE  Typed'
  <2>1. CASE Reconcile(r)
    <3>1. Binaries[r] \in Seq(Binary)
      OBVIOUS
    <3>2. UNCHANGED <<manifest, phase, dir, link>>
      BY <2>1, ReconcileEnds
    <3>3. CASE at' = [at EXCEPT ![r] = "done"] /\ UNCHANGED <<todo, target>>
      BY <3>2, <3>3
    <3>4. ASSUME NEW v \in Version \cup {Alias}, NEW label \in {"bootstrap", "unlink", "fetch"},
                 at' = [at EXCEPT ![r] = label], target' = [target EXCEPT ![r] = v],
                 todo' = [todo EXCEPT ![r] = Binaries[r]]
          PROVE  Typed'
      BY <3>1, <3>2, <3>4
    <3> QED
      BY <2>1, <3>3, <3>4, ReconcileEnds
  <2>2. CASE InstallFails(r)
    BY <2>2 DEF InstallFails, Goto, Still, places
  <2>3. CASE Move(r)
    BY <2>3 DEF Move, Goto, Still
  <2>4. CASE Copy(r)
    BY <2>4 DEF Copy, Goto, Still
  <2>5. CASE CopyFails(r)
    BY <2>5 DEF CopyFails, Goto, Still, places
  <2>6. CASE Bootstrap(r)
    BY <2>6 DEF Bootstrap, Goto, Still, Own
  <2>7. CASE Unlink(r)
    BY <2>7 DEF Unlink, Goto, Still
  <2>8. CASE Link(r)
    <3>1. at[r] = "link"
      BY <2>8 DEF Link
    <3>2. <<r, target[r]>> \in Dirs /\ Tail(todo[r]) \in Seq(Binary)
      BY <3>1, LinkHasTarget, TailOfBinaries
    <3>3. link' \in [Places -> Dirs \cup {Own(q) : q \in Runtime} \cup {None}]
      BY <2>8, <3>2 DEF Link
    <3> QED
      BY <2>8, <3>2, <3>3 DEF Link, Goto, Still
  <2>9. CASE LinkFails(r)
    BY <2>9 DEF LinkFails, Goto, Still, places
  <2>10. CASE Record(r)
    BY <2>10 DEF Record, Goto, Still, places
  <2> QED
    BY <1>8, <2>1, <2>2, <2>3, <2>4, <2>5, <2>6, <2>7, <2>8, <2>9, <2>10 DEF Install
<1>9. CASE UNCHANGED vars
  BY <1>9 DEF vars, store, places
<1> QED
  BY <1>1, <1>2, <1>3, <1>4, <1>5, <1>6, <1>7, <1>8, <1>9 DEF Next, Kill, RemovalsFail, RemoveFilesFails

\* A step leaves every goroutine in its phase.
LEMMA PhaseStep ==
    ASSUME Inv, [Next]_vars
    PROVE  InPhase'
PROOF
<1> USE DEF Inv, Typed, Installing, Removing
<1>1. CASE Begin
  BY <1>1 DEF Begin, places, InPhase
<1>2. CASE EndLayer
  BY <1>2 DEF EndLayer, Forget, places, InPhase
<1>3. CASE EndRemovals
  BY <1>3 DEF EndRemovals, places, InPhase
<1>4. CASE Abandon
  BY <1>4, AbandonEnds DEF InPhase
<1>5. ASSUME NEW r \in Runtime, Edit(r)
      PROVE  InPhase'
  BY <1>5 DEF Edit, places, InPhase
<1>6. ASSUME NEW r \in Runtime, Remove(r)
      PROVE  InPhase'
  BY <1>6 DEF Remove, Goto, Still, InPhase
<1>7. ASSUME NEW r \in Runtime, RemoveFiles(r)
      PROVE  InPhase'
  BY <1>7 DEF RemoveFiles, Goto, Still, InPhase
<1>8. ASSUME NEW r \in Runtime, Install(r)
      PROVE  InPhase'
  <2>1. CASE Reconcile(r)
    BY <2>1, ReconcileEnds DEF InPhase
  <2>2. CASE InstallFails(r)
    BY <2>2 DEF InstallFails, Goto, Still, places, InPhase
  <2>3. CASE Move(r)
    BY <2>3 DEF Move, Goto, Still, InPhase
  <2>4. CASE Copy(r)
    BY <2>4 DEF Copy, Goto, Still, InPhase
  <2>5. CASE CopyFails(r)
    BY <2>5 DEF CopyFails, Goto, Still, places, InPhase
  <2>6. CASE Bootstrap(r)
    BY <2>6, BootstrapEnds DEF InPhase
  <2>7. CASE Unlink(r)
    BY <2>7 DEF Unlink, Goto, Still, InPhase
  <2>8. CASE Link(r)
    BY <2>8 DEF Link, Goto, Still, InPhase
  <2>9. CASE LinkFails(r)
    BY <2>9 DEF LinkFails, Goto, Still, places, InPhase
  <2>10. CASE Record(r)
    BY <2>10 DEF Record, Goto, Still, places, InPhase
  <2> QED
    BY <1>8, <2>1, <2>2, <2>3, <2>4, <2>5, <2>6, <2>7, <2>8, <2>9, <2>10 DEF Install
<1>9. CASE UNCHANGED vars
  BY <1>9 DEF vars, store, places, InPhase
<1> QED
  BY <1>1, <1>2, <1>3, <1>4, <1>5, <1>6, <1>7, <1>8, <1>9 DEF Next, Kill, RemovalsFail, RemoveFilesFails

\* A step links only what is its runtime's own.
LEMMA OwnStep ==
    ASSUME Inv, [Next]_vars
    PROVE  LinksOwn'
PROOF
<1> USE DEF Inv, Typed, Installing, Removing
<1>1. CASE Begin
  BY <1>1 DEF Begin, places, LinksOwn, LinksItsOwn
<1>2. CASE EndLayer
  BY <1>2 DEF EndLayer, Forget, places, LinksOwn, LinksItsOwn
<1>3. CASE EndRemovals
  BY <1>3 DEF EndRemovals, places, LinksOwn, LinksItsOwn
<1>4. CASE Abandon
  BY <1>4, AbandonEnds DEF LinksOwn, LinksItsOwn
<1>5. ASSUME NEW r \in Runtime, Edit(r)
      PROVE  LinksOwn'
  BY <1>5 DEF Edit, places, LinksOwn, LinksItsOwn
<1>6. ASSUME NEW r \in Runtime, Remove(r)
      PROVE  LinksOwn'
  BY <1>6 DEF Remove, Goto, Still, LinksOwn, LinksItsOwn
<1>7. ASSUME NEW r \in Runtime, RemoveFiles(r)
      PROVE  LinksOwn'
  BY <1>7 DEF RemoveFiles, Goto, Still, LinksOwn, LinksItsOwn, InPhase
<1>8. ASSUME NEW r \in Runtime, Install(r)
      PROVE  LinksOwn'
  <2>1. CASE Reconcile(r)
    <3>1. at[r] = "reconcile" /\ dir' = dir
      BY <2>1, ReconcileEnds
    <3>2. CASE at' = [at EXCEPT ![r] = "done"] /\ UNCHANGED <<todo, target>>
      BY <3>1, <3>2 DEF LinksOwn, LinksItsOwn
    <3>3. ASSUME NEW v \in Version \cup {Alias}, NEW label \in {"bootstrap", "unlink", "fetch"},
                 at' = [at EXCEPT ![r] = label], target' = [target EXCEPT ![r] = v],
                 todo' = [todo EXCEPT ![r] = Binaries[r]]
          PROVE  LinksOwn'
      <4>1. Binaries[r] \in Seq(Binary)
        BY RuntimeAssumption DEF RuntimeAssumption
      <4>2. \A i \in 1 .. Len(Binaries[r]) : <<BinDir[r], Binaries[r][i]>> \in Ours(r)
        BY <4>1 DEF Ours
      <4>3. todo'[r] = Binaries[r] /\ at'[r] = label /\ target'[r] = v
        BY <3>3
      <4>4. \A q \in Runtime \ {r} : todo'[q] = todo[q] /\ at'[q] = at[q] /\ target'[q] = target[q]
        BY <3>3
      <4>5. v # None
        BY RuntimeAssumption DEF RuntimeAssumption
      <4> QED
        <5> SUFFICES ASSUME NEW q \in Runtime
                     PROVE  LinksItsOwn(q)'
          BY DEF LinksOwn
        <5>1. CASE q = r
          BY <5>1, <4>2, <4>3, <4>5 DEF LinksItsOwn, Ours
        <5>2. CASE q # r
          BY <5>2, <3>1, <4>4 DEF LinksOwn, LinksItsOwn, Ours
        <5> QED
          BY <5>1, <5>2
    <3> QED
      BY <2>1, <3>2, <3>3, ReconcileEnds
  <2>2. CASE InstallFails(r)
    BY <2>2 DEF InstallFails, Goto, Still, places, LinksOwn, LinksItsOwn
  <2>3. CASE Move(r)
    <3>1. \A q \in Runtime : at[q] = "link" => <<q, target[q]>> \in Dirs
      BY LinkHasTarget
    <3>2. \A d \in Dirs : dir[d] # "none" => dir'[d] # "none"
      BY <2>3 DEF Move
    <3> QED
      BY <2>3, <3>1, <3>2 DEF Move, Goto, Still, LinksOwn, LinksItsOwn, Ours
  <2>4. CASE Copy(r)
    <3>1. \A q \in Runtime : at[q] = "link" => <<q, target[q]>> \in Dirs
      BY LinkHasTarget
    <3>2. \A d \in Dirs : dir[d] # "none" => dir'[d] # "none"
      BY <2>4 DEF Copy
    <3> QED
      BY <2>4, <3>1, <3>2 DEF Copy, Goto, Still, LinksOwn, LinksItsOwn, Ours
  <2>5. CASE CopyFails(r)
    BY <2>5 DEF CopyFails, Goto, Still, places, LinksOwn, LinksItsOwn
  <2>6. CASE Bootstrap(r)
    <3>1. \A q \in Runtime : at[q] = "link" => <<q, target[q]>> \in Dirs
      BY LinkHasTarget
    <3>2. /\ at[r] = "bootstrap" /\ UNCHANGED <<todo, target>>
          /\ at' = [at EXCEPT ![r] = "record"] \/ at' = [at EXCEPT ![r] = "unlink"]
          /\ \A d \in Dirs : dir[d] # "none" => dir'[d] # "none"
      BY <2>6, BootstrapEnds
    <3>3. \A q \in Runtime : at'[q] \in Installing \ {"reconcile", "done", "failed"} => target'[q] # None
      BY <3>2 DEF LinksOwn, LinksItsOwn
    <3>4. \A q \in Runtime : at'[q] = "link" => at[q] = "link"
      BY <3>2
    <3> QED
      BY <3>1, <3>2, <3>3, <3>4 DEF LinksOwn, LinksItsOwn, Ours
  <2>7. CASE Unlink(r)
    BY <2>7 DEF Unlink, Goto, Still, LinksOwn, LinksItsOwn
  <2>8. CASE Link(r)
    BY <2>8 DEF Link, Goto, Still, LinksOwn, LinksItsOwn
  <2>9. CASE LinkFails(r)
    BY <2>9 DEF LinkFails, Goto, Still, places, LinksOwn, LinksItsOwn
  <2>10. CASE Record(r)
    BY <2>10 DEF Record, Goto, Still, places, LinksOwn, LinksItsOwn
  <2> QED
    BY <1>8, <2>1, <2>2, <2>3, <2>4, <2>5, <2>6, <2>7, <2>8, <2>9, <2>10 DEF Install
<1>9. CASE UNCHANGED vars
  BY <1>9 DEF vars, store, places, LinksOwn, LinksItsOwn
<1> QED
  BY <1>1, <1>2, <1>3, <1>4, <1>5, <1>6, <1>7, <1>8, <1>9 DEF Next, Kill, RemovalsFail, RemoveFilesFails

\* A step makes links only in the places of their owner.
LEMMA OwnerStep ==
    ASSUME Inv, [Next]_vars
    PROVE  LinkedByOwner'
PROOF
<1> USE DEF Inv, Typed, Installing, Removing
<1>1. CASE Begin
  BY <1>1 DEF Begin, places, LinkedByOwner
<1>2. CASE EndLayer
  BY <1>2 DEF EndLayer, Forget, places, LinkedByOwner
<1>3. CASE EndRemovals
  BY <1>3 DEF EndRemovals, places, LinkedByOwner
<1>4. CASE Abandon
  BY <1>4, AbandonEnds DEF LinkedByOwner
<1>5. ASSUME NEW r \in Runtime, Edit(r)
      PROVE  LinkedByOwner'
  BY <1>5 DEF Edit, places, LinkedByOwner
<1>6. ASSUME NEW r \in Runtime, Remove(r)
      PROVE  LinkedByOwner'
  BY <1>6 DEF Remove, Goto, Still, LinkedByOwner, IsLink
<1>7. ASSUME NEW r \in Runtime, RemoveFiles(r)
      PROVE  LinkedByOwner'
  BY <1>7 DEF RemoveFiles, Goto, Still, LinkedByOwner, IsLink
<1>8. ASSUME NEW r \in Runtime, Install(r)
      PROVE  LinkedByOwner'
  <2>1. CASE Reconcile(r)
    BY <2>1 DEF Reconcile, Goto, Still, places, LinkedByOwner
  <2>2. CASE InstallFails(r)
    BY <2>2 DEF InstallFails, Goto, Still, places, LinkedByOwner
  <2>3. CASE Move(r)
    BY <2>3 DEF Move, Goto, Still, LinkedByOwner
  <2>4. CASE Copy(r)
    BY <2>4 DEF Copy, Goto, Still, LinkedByOwner
  <2>5. CASE CopyFails(r)
    BY <2>5 DEF CopyFails, Goto, Still, places, LinkedByOwner
  <2>6. CASE Bootstrap(r)
    BY <2>6 DEF Bootstrap, Goto, Still, LinkedByOwner, Own, IsLink
  <2>7. CASE Unlink(r)
    BY <2>7 DEF Unlink, Goto, Still, LinkedByOwner, IsLink
  <2>8. CASE Link(r)
    <3> DEFINE place == <<BinDir[r], Head(todo[r])>>
    <3>1. at[r] = "link"
      BY <2>8 DEF Link
    <3>2. <<r, target[r]>> \in Dirs /\ place \in Ours(r)
      BY <3>1, LinkHasTarget
    <3>3. link' = [link EXCEPT ![place] = <<r, target[r]>>]
      BY <2>8 DEF Link
    <3> HIDE DEF place
    <3> QED
      BY <3>2, <3>3 DEF LinkedByOwner
  <2>9. CASE LinkFails(r)
    BY <2>9 DEF LinkFails, Goto, Still, places, LinkedByOwner
  <2>10. CASE Record(r)
    BY <2>10 DEF Record, Goto, Still, places, LinkedByOwner
  <2> QED
    BY <1>8, <2>1, <2>2, <2>3, <2>4, <2>5, <2>6, <2>7, <2>8, <2>9, <2>10 DEF Install
<1>9. CASE UNCHANGED vars
  BY <1>9 DEF vars, store, places, LinkedByOwner
<1> QED
  BY <1>1, <1>2, <1>3, <1>4, <1>5, <1>6, <1>7, <1>8, <1>9 DEF Next, Kill, RemovalsFail, RemoveFilesFails

\* A step makes no link to what is about to be removed.
LEMMA UnlinkStep ==
    ASSUME Inv, [Next]_vars
    PROVE  UnlinkedFirst'
PROOF
<1> USE DEF Inv, Typed, Installing, Removing
<1>1. CASE Begin
  BY <1>1 DEF Begin, places, UnlinkedFirst, InPhase
<1>2. CASE EndLayer
  BY <1>2 DEF EndLayer, Forget, places, UnlinkedFirst, InPhase
<1>3. CASE EndRemovals
  BY <1>3 DEF EndRemovals, places, UnlinkedFirst, InPhase
<1>4. CASE Abandon
  BY <1>4, AbandonEnds DEF UnlinkedFirst, InPhase
<1>5. ASSUME NEW r \in Runtime, Edit(r)
      PROVE  UnlinkedFirst'
  BY <1>5 DEF Edit, places, UnlinkedFirst, InPhase
<1>6. ASSUME NEW r \in Runtime, Remove(r)
      PROVE  UnlinkedFirst'
  BY <1>6 DEF Remove, Goto, Still, UnlinkedFirst, InPhase, IsLink, LinkedByOwner
<1>7. ASSUME NEW r \in Runtime, RemoveFiles(r)
      PROVE  UnlinkedFirst'
  BY <1>7 DEF RemoveFiles, Goto, Still, UnlinkedFirst, InPhase, IsLink
<1>8. ASSUME NEW r \in Runtime, Install(r)
      PROVE  UnlinkedFirst'
  <2>1. CASE Reconcile(r)
    <3>1. UNCHANGED <<phase, link>>
      BY <2>1, ReconcileEnds
    <3>2. \A q \in Runtime : at'[q] = "removeFiles" => at[q] = "removeFiles"
      BY <2>1, ReconcileEnds
    <3> QED
      BY <3>1, <3>2 DEF UnlinkedFirst, places
  <2>2. CASE InstallFails(r)
    BY <2>2 DEF InstallFails, Goto, Still, places, UnlinkedFirst, InPhase
  <2>3. CASE Move(r)
    BY <2>3 DEF Move, Goto, Still, UnlinkedFirst, InPhase
  <2>4. CASE Copy(r)
    BY <2>4 DEF Copy, Goto, Still, UnlinkedFirst, InPhase
  <2>5. CASE CopyFails(r)
    BY <2>5 DEF CopyFails, Goto, Still, places, UnlinkedFirst, InPhase
  <2>6. CASE Bootstrap(r)
    <3>1. \A q \in Runtime : at'[q] = "removeFiles" => at[q] = "removeFiles"
      BY <2>6, BootstrapEnds
    <3>2. \A p \in Places : IsLink(link'[p]) => link'[p] = link[p]
      BY <2>6, BootstrapEnds
    <3> QED
      BY <3>1, <3>2 DEF UnlinkedFirst
  <2>7. CASE Unlink(r)
    BY <2>7 DEF Unlink, Goto, Still, UnlinkedFirst, InPhase, IsLink
  <2>8. CASE Link(r)
    BY <2>8 DEF Link, Goto, Still, UnlinkedFirst, InPhase
  <2>9. CASE LinkFails(r)
    BY <2>9 DEF LinkFails, Goto, Still, places, UnlinkedFirst, InPhase
  <2>10. CASE Record(r)
    BY <2>10 DEF Record, Goto, Still, places, UnlinkedFirst, InPhase
  <2> QED
    BY <1>8, <2>1, <2>2, <2>3, <2>4, <2>5, <2>6, <2>7, <2>8, <2>9, <2>10 DEF Install
<1>9. CASE UNCHANGED vars
  BY <1>9 DEF vars, store, places, UnlinkedFirst, InPhase
<1> QED
  BY <1>1, <1>2, <1>3, <1>4, <1>5, <1>6, <1>7, <1>8, <1>9 DEF Next, Kill, RemovalsFail, RemoveFilesFails

\* A step leaves no link without its directory.
LEMMA DanglingStep ==
    ASSUME Inv, [Next]_vars
    PROVE  NoDanglingLink'
PROOF
<1> USE DEF Inv, Typed, Installing, Removing
<1>1. CASE Begin
  BY <1>1 DEF Begin, places, NoDanglingLink
<1>2. CASE EndLayer
  BY <1>2 DEF EndLayer, Forget, places, NoDanglingLink
<1>3. CASE EndRemovals
  BY <1>3 DEF EndRemovals, places, NoDanglingLink
<1>4. CASE Abandon
  BY <1>4, AbandonEnds DEF NoDanglingLink, IsLink, Own
<1>5. ASSUME NEW r \in Runtime, Edit(r)
      PROVE  NoDanglingLink'
  BY <1>5 DEF Edit, places, NoDanglingLink
<1>6. ASSUME NEW r \in Runtime, Remove(r)
      PROVE  NoDanglingLink'
  BY <1>6 DEF Remove, Goto, Still, NoDanglingLink, IsLink
<1>7. ASSUME NEW r \in Runtime, RemoveFiles(r)
      PROVE  NoDanglingLink'
  BY <1>7 DEF RemoveFiles, Goto, Still, NoDanglingLink, IsLink, UnlinkedFirst, LinkedByOwner, Dirs
<1>8. ASSUME NEW r \in Runtime, Install(r)
      PROVE  NoDanglingLink'
  <2>1. CASE Reconcile(r)
    BY <2>1 DEF Reconcile, Goto, Still, places, NoDanglingLink
  <2>2. CASE InstallFails(r)
    BY <2>2 DEF InstallFails, Goto, Still, places, NoDanglingLink
  <2>3. CASE Move(r)
    BY <2>3 DEF Move, Goto, Still, NoDanglingLink
  <2>4. CASE Copy(r)
    BY <2>4 DEF Copy, Goto, Still, NoDanglingLink
  <2>5. CASE CopyFails(r)
    BY <2>5 DEF CopyFails, Goto, Still, places, NoDanglingLink
  <2>6. CASE Bootstrap(r)
    BY <2>6 DEF Bootstrap, Goto, Still, NoDanglingLink, Own, IsLink
  <2>7. CASE Unlink(r)
    BY <2>7 DEF Unlink, Goto, Still, NoDanglingLink, IsLink
  <2>8. CASE Link(r)
    BY <2>8 DEF Link, Goto, Still, NoDanglingLink, LinksOwn, LinksItsOwn, IsLink
  <2>9. CASE LinkFails(r)
    BY <2>9 DEF LinkFails, Goto, Still, places, NoDanglingLink
  <2>10. CASE Record(r)
    BY <2>10 DEF Record, Goto, Still, places, NoDanglingLink
  <2> QED
    BY <1>8, <2>1, <2>2, <2>3, <2>4, <2>5, <2>6, <2>7, <2>8, <2>9, <2>10 DEF Install
<1>9. CASE UNCHANGED vars
  BY <1>9 DEF vars, store, places, NoDanglingLink
<1> QED
  BY <1>1, <1>2, <1>3, <1>4, <1>5, <1>6, <1>7, <1>8, <1>9 DEF Next, Kill, RemovalsFail, RemoveFilesFails

LEMMA InvInit == Init => Inv
PROOF
  BY RuntimeAssumption DEF RuntimeAssumption, Init, Inv, Typed, InPhase, LinksOwn, LinksItsOwn, LinkedByOwner,
     UnlinkedFirst, NoDanglingLink, IsLink, Installing, Removing

LEMMA InvStep == Inv /\ [Next]_vars => Inv'
PROOF
  BY TypeStep, PhaseStep, OwnStep, OwnerStep, UnlinkStep, DanglingStep DEF Inv

(* In every behaviour, for any number of runtimes, versions and kills: no     *)
(* link of tomei's leads to a directory that is not there (createSymlinks and *)
(* Remove of installer/runtime/installer.go).                                 *)
THEOREM NeverDangling == Spec => []NoDanglingLink
PROOF
<1>1. Inv => NoDanglingLink
  BY DEF Inv
<1> QED
  BY InvInit, InvStep, <1>1, PTL DEF Spec

--------------------------------------------------------------------------------
(***************************************************************************)
(* The links are what state.json says.  What holds between two applies is  *)
(* what each runtime's goroutine starts from, loses when it begins to link *)
(* or to remove, and has again when it records (Matched, Progress).        *)
(***************************************************************************)

States == [spec : Version \cup {Alias}, version : Version \cup {Alias}, path : BOOLEAN]

StateTypes ==
    /\ disk \in [Runtime -> States \cup {None}]
    /\ cache \in [Runtime -> States \cup {None}]

\* Between applies the engine knows no more than state.json.
SavedAtRest == phase = "idle" => cache = disk

\* A directory that is not whole is being copied, or its copy or its removal was
\* cut short.
Copied == {<<r, target[r]>> : r \in {q \in Runtime : at[q] = "copy"}}

PartialCopies == \A d \in Dirs : dir[d] = "partial" => d \in halved \cup Copied

\* A file in a bin directory that is no link was written by a bootstrap, at a
\* place of its runtime.
FilesOwned ==
    \A p \in Places : link[p] # None /\ ~IsLink(link[p]) =>
        \E q \in Runtime : link[p] = Own(q) /\ p \in Ours(q)

\* The places of the binaries that are still to be linked.
ToLink(r) == {<<BinDir[r], todo[r][i]>> : i \in 1 .. Len(todo[r])}

\* What is at a place of r when this version is recorded.
Right(r, p, version) ==
    CASE Way[r] = "download" -> link[p] = <<r, version>>
      [] Way[r] = "binDir" -> link[p] = Own(r)
      [] OTHER -> link[p] # None

AtWork == {"unlink", "link", "record", "removeFiles"}

\* How far the install or the removal of r has come.
Progress(r) ==
    /\ at[r] \in {"fetch", "copy"} => Way[r] = "download"
    /\ at[r] = "bootstrap" => Way[r] # "download"
    /\ at[r] \in {"fetch", "copy", "bootstrap"} => todo[r] = Binaries[r]
    /\ at[r] \in {"unlink", "link"} =>
          /\ Way[r] # "binDir"
          /\ \A p \in Alone(r) : link[p] = <<r, target[r]>> \/ p \in ToLink(r)
    /\ at[r] = "record" => \A p \in Alone(r) : Right(r, p, target[r])
    /\ at[r] = "removeFiles" =>
          \A p \in Alone(r) : link[p] = None \/ (link[p] = Own(r) /\ Way[r] # "download")

\* The links of r are what the engine knows of it.
Matches(r) ==
    \A p \in Alone(r) :
        IF cache[r] # None THEN Right(r, p, cache[r].version)
        ELSE link[p] = None \/ (link[p] = Own(r) /\ r \notin Removable)

MatchedOrAtWork(r) == r \in cut \/ at[r] \in AtWork \/ Matches(r)

Truth ==
    /\ StateTypes /\ SavedAtRest /\ PartialCopies /\ FilesOwned
    /\ \A r \in Runtime : Progress(r)
    /\ \A r \in Runtime : MatchedOrAtWork(r)

\* None is neither a link nor a file.
LEMMA NoneIsNoLink ==
    /\ \A r \in Runtime, v \in Version \cup {Alias} :
          <<r, v>> # None /\ IsLink(<<r, v>>) /\ <<r, v>>[1] = r
    /\ \A r \in Runtime : Own(r) # None /\ ~IsLink(Own(r)) /\ Own(r)[1] = r
PROOF
<1>1. \A r \in Runtime, v \in Version \cup {Alias, None} : <<r, v>> # None
  BY RuntimeAssumption DEF RuntimeAssumption
<1> QED
  BY <1>1, RuntimeAssumption DEF RuntimeAssumption, IsLink, Own

\* The place of a runtime that no other has is no other's.
LEMMA AloneIsOurs ==
    ASSUME NEW r \in Runtime, NEW p \in Alone(r)
    PROVE  p \in Places /\ p \in Ours(r) /\ \A q \in Runtime \ {r} : p \notin Ours(q)
PROOF
  BY OursArePlaces DEF Alone

\* The goroutine of another runtime leaves alone what only r has.
LEMMA OthersKeep ==
    ASSUME Inv, Truth, NEW q \in Runtime, NEW r \in Runtime, q # r,
           Install(q) \/ Remove(q) \/ RemoveFiles(q)
    PROVE  /\ \A p \in Alone(r) : link'[p] = link[p]
           /\ at'[r] = at[r] /\ todo'[r] = todo[r] /\ target'[r] = target[r]
           /\ cache'[r] = cache[r] /\ (r \in cut' <=> r \in cut)
PROOF
<1> USE DEF Inv, Typed, Truth, StateTypes
<1>1. \A p \in Alone(r) : p \in Places /\ p \notin Ours(q)
  BY AloneIsOurs
<1>2. CASE Reconcile(q)
  BY <1>2 DEF Reconcile, Goto, SameCut, places
<1>3. CASE InstallFails(q) \/ CopyFails(q)
  BY <1>3 DEF InstallFails, CopyFails, Goto, SameCut, places
<1>4. CASE Move(q) \/ Copy(q)
  BY <1>4 DEF Move, Copy, Goto, SameCut
<1>5. CASE Bootstrap(q)
  BY <1>1, <1>5 DEF Bootstrap, Goto, SameCut
<1>6. CASE Unlink(q)
  <2>1. <<BinDir[q], Head(todo[q])>> \in Ours(q)
    <3>1. todo[q] \in Seq(Binary) /\ todo[q] # <<>>
      BY <1>6 DEF Unlink
    <3>2. Head(todo[q]) = todo[q][1] /\ 1 \in 1 .. Len(todo[q])
      BY <3>1
    <3> QED
      BY <3>2 DEF LinksOwn, LinksItsOwn
  <2> QED
    BY <1>1, <1>6, <2>1 DEF Unlink, Goto, SameCut
<1>7. CASE Link(q)
  <2>1. <<BinDir[q], Head(todo[q])>> \in Ours(q)
    BY <1>7, LinkHasTarget DEF Link
  <2> QED
    BY <1>1, <1>7, <2>1 DEF Link, Goto, SameCut
<1>8. CASE LinkFails(q)
  BY <1>8 DEF LinkFails, Goto, places
<1>9. CASE Record(q)
  BY <1>9 DEF Record, Goto, places
<1>10. CASE Remove(q)
  BY <1>1, <1>10 DEF Remove, Goto, SameCut
<1>11. CASE RemoveFiles(q)
  <2>1. ASSUME NEW p \in Alone(r)
        PROVE  link[p] # Own(q)
    <3>1. SUFFICES ASSUME link[p] = Own(q) PROVE FALSE
      OBVIOUS
    <3>2. PICK k \in Runtime : Own(q) = Own(k) /\ p \in Ours(k)
      BY <1>1, <3>1, NoneIsNoLink DEF FilesOwned
    <3> QED
      BY <1>1, <3>2, NoneIsNoLink
  <2> QED
    BY <1>1, <1>11, <2>1 DEF RemoveFiles, Goto, SameCut
<1> QED
  BY <1>2, <1>3, <1>4, <1>5, <1>6, <1>7, <1>8, <1>9, <1>10, <1>11 DEF Install

\* What is recorded of an installed runtime is a state.
LEMMA RecordedState ==
    ASSUME Inv, NEW r \in Runtime, at[r] = "record"
    PROVE  /\ target[r] \in Version \cup {Alias}
           /\ \A b \in BOOLEAN :
                 LET s == [spec |-> manifest[r], version |-> target[r], path |-> b]
                 IN  s \in States /\ s # None
PROOF
<1>1. manifest[r] \in Version \cup {Alias} /\ target[r] \in Version \cup {Alias}
  BY DEF Inv, Typed, Manifests, InPhase, Installing, LinksOwn, LinksItsOwn
<1>2. \A b \in BOOLEAN : [spec |-> manifest[r], version |-> target[r], path |-> b] \in States
  BY <1>1 DEF States
<1>3. None \notin States
  BY RuntimeAssumption DEF RuntimeAssumption, States
<1> QED
  BY <1>1, <1>2, <1>3

\* A step keeps the types of the states, and state.json at rest.
LEMMA SavedStep ==
    ASSUME Inv, Truth, [Next]_vars
    PROVE  StateTypes' /\ SavedAtRest'
PROOF
<1> USE DEF Truth, StateTypes, SavedAtRest
<1>1. CASE Begin
  BY <1>1 DEF Begin
<1>2. CASE EndLayer
  BY <1>2 DEF EndLayer
<1>3. CASE EndRemovals
  BY <1>3 DEF EndRemovals
<1>4. CASE Abandon
  BY <1>4 DEF Abandon
<1>5. ASSUME NEW r \in Runtime, Edit(r)
      PROVE  StateTypes' /\ SavedAtRest'
  BY <1>5 DEF Edit
<1>6. ASSUME NEW r \in Runtime, Install(r) \/ Remove(r) \/ RemoveFiles(r)
      PROVE  StateTypes' /\ SavedAtRest'
  <2>1. disk' = disk /\ phase' = phase
    BY <1>6 DEF Install, Reconcile, InstallFails, Move, Copy, CopyFails, Bootstrap, Unlink, Link,
       LinkFails, Record, Remove, RemoveFiles, Still
  <2>2. at[r] # "idle"
    BY <1>6 DEF Install, Reconcile, InstallFails, Move, Copy, CopyFails, Bootstrap, Unlink, Link,
       LinkFails, Record, Remove, RemoveFiles
  <2>3. phase # "idle"
    BY <2>2 DEF Inv, Typed, InPhase
  <2>4. CASE Record(r)
    <3>1. \E s \in States : cache' = [cache EXCEPT ![r] = s]
      BY <2>4, RecordedState DEF Record
    <3> QED
      BY <2>1, <2>3, <3>1
  <2>5. CASE RemoveFiles(r)
    BY <2>1, <2>3, <2>5 DEF RemoveFiles
  <2>6. CASE cache' = cache
    BY <2>1, <2>3, <2>6
  <2> QED
    BY <1>6, <2>4, <2>5, <2>6 DEF Install, Reconcile, InstallFails, Move, Copy, CopyFails, Bootstrap,
       Unlink, Link, LinkFails, Remove
<1>7. CASE UNCHANGED vars
  BY <1>7 DEF vars, store
<1> QED
  BY <1>1, <1>2, <1>3, <1>4, <1>5, <1>6, <1>7 DEF Next, Kill, RemovalsFail, RemoveFilesFails

\* A step leaves a directory half filled only when it copies, or is cut short.
LEMMA CopiesStep ==
    ASSUME Inv, Truth, [Next]_vars
    PROVE  PartialCopies'
PROOF
<1> USE DEF Truth, Inv, Typed
<1>1. SUFFICES ASSUME NEW d \in Dirs, dir'[d] = "partial"
               PROVE  d \in halved' \cup Copied'
  BY DEF PartialCopies, Dirs
<1>2. dir[d] = "partial" => d \in halved \/ \E q \in Runtime : at[q] = "copy" /\ d = <<q, target[q]>>
  BY DEF PartialCopies, Copied
<1>3. CASE Begin \/ EndLayer \/ EndRemovals
  <2>1. dir' = dir /\ halved' = halved /\ \A q \in Runtime : at[q] # "copy"
    BY <1>3 DEF Begin, EndLayer, EndRemovals, places, InPhase, Installing
  <2> QED
    BY <1>1, <1>2, <2>1
<1>4. CASE Abandon
  <2>1. PICK part \in SUBSET {e \in Going : dir[e] # "none"} :
            /\ dir' = [e \in Dirs |-> IF e \in part THEN "partial" ELSE dir[e]]
            /\ halved' = halved \cup part \cup Copied
    BY <1>4 DEF Abandon, Copied
  <2> QED
    BY <1>1, <1>2, <2>1 DEF Copied
<1>5. CASE (\E r \in Runtime : Edit(r)) \/ UNCHANGED vars
  <2>1. UNCHANGED <<dir, halved, at, target>>
    BY <1>5 DEF Edit, vars, places
  <2> QED
    BY <1>1, <1>2, <2>1 DEF Copied
<1>6. ASSUME NEW r \in Runtime, Install(r)
      PROVE  d \in halved' \cup Copied'
  <2>1. halved \subseteq halved'
        /\ \A q \in Runtime \ {r} : at[q] = "copy" => at'[q] = "copy" /\ target'[q] = target[q]
    BY <1>6 DEF Install, Reconcile, InstallFails, Move, Copy, CopyFails, Bootstrap, Unlink, Link,
       LinkFails, Record, Goto, SameCut
  <2>2. CASE Move(r)
    <3>1. d # <<r, target[r]>> => dir[d] = "partial"
      BY <1>1, <2>2 DEF Move
    <3>2. d = <<r, target[r]>> => at'[r] = "copy" /\ target'[r] = target[r]
      BY <1>1, <2>2 DEF Move, Goto
    <3>3. at[r] = "fetch"
      BY <2>2 DEF Move
    <3> QED
      BY <1>2, <2>1, <3>1, <3>2, <3>3 DEF Copied
  <2>3. CASE Copy(r)
    <3>1. dir[d] = "partial" /\ d # <<r, target[r]>>
      BY <1>1, <2>3 DEF Copy
    <3> QED
      BY <1>2, <2>1, <3>1 DEF Copied
  <2>4. CASE CopyFails(r)
    <3>1. dir[d] = "partial" /\ <<r, target[r]>> \in halved'
      BY <1>1, <2>4 DEF CopyFails, places
    <3> QED
      BY <1>2, <2>1, <3>1 DEF Copied
  <2>5. CASE \/ Reconcile(r) \/ InstallFails(r) \/ Bootstrap(r) \/ Unlink(r)
             \/ Link(r) \/ LinkFails(r) \/ Record(r)
    <3>1. dir[d] = "partial" /\ at[r] # "copy"
      BY <1>1, <2>5 DEF Reconcile, InstallFails, Bootstrap, Unlink, Link, LinkFails, Record, places
    <3> QED
      BY <1>2, <2>1, <3>1 DEF Copied
  <2> QED
    BY <1>6, <2>2, <2>3, <2>4, <2>5 DEF Install
<1>7. ASSUME NEW r \in Runtime, Remove(r) \/ RemoveFiles(r)
      PROVE  d \in halved' \cup Copied'
  <2>1. \A q \in Runtime : at[q] # "copy"
    BY <1>7 DEF Remove, RemoveFiles, InPhase, Installing, Removing
  <2>2. dir[d] = "partial" /\ (d \in halved => d \in halved')
    BY <1>1, <1>7 DEF Remove, RemoveFiles, SameCut
  <2> QED
    BY <1>2, <2>1, <2>2
<1> QED
  BY <1>3, <1>4, <1>5, <1>6, <1>7 DEF Next, Kill, RemovalsFail, RemoveFilesFails

\* A step writes no file but a bootstrap's own.
LEMMA FilesStep ==
    ASSUME Inv, Truth, [Next]_vars
    PROVE  FilesOwned'
PROOF
<1> USE DEF Truth, Inv, Typed
<1>1. SUFFICES ASSUME NEW p \in Places, link'[p] # None, ~IsLink(link'[p])
               PROVE  link'[p] = link[p] \/ \E q \in Runtime : link'[p] = Own(q) /\ p \in Ours(q)
  BY DEF FilesOwned, Ours, Own, IsLink
<1>2. CASE Begin \/ EndLayer \/ EndRemovals \/ Abandon \/ UNCHANGED vars
  BY <1>2 DEF Begin, EndLayer, EndRemovals, Abandon, vars, places
<1>3. CASE \E r \in Runtime : Edit(r)
  BY <1>3 DEF Edit, places
<1>4. ASSUME NEW r \in Runtime, Install(r) \/ Remove(r) \/ RemoveFiles(r)
      PROVE  link'[p] = link[p] \/ \E q \in Runtime : link'[p] = Own(q) /\ p \in Ours(q)
  <2>1. CASE link' = link
    BY <2>1
  <2>2. CASE Bootstrap(r)
    BY <2>2 DEF Bootstrap
  <2>3. CASE Unlink(r)
    BY <1>1, <2>3 DEF Unlink
  <2>4. CASE Link(r)
    <3>1. <<r, target[r]>> \in Dirs /\ IsLink(<<r, target[r]>>)
      BY <2>4, LinkHasTarget, NoneIsNoLink DEF Link, Dirs
    <3> QED
      BY <1>1, <2>4, <3>1 DEF Link
  <2>5. CASE Remove(r)
    BY <1>1, <2>5 DEF Remove
  <2>6. CASE RemoveFiles(r)
    BY <1>1, <2>6 DEF RemoveFiles
  <2> QED
    BY <1>4, <2>1, <2>2, <2>3, <2>4, <2>5, <2>6 DEF Install, Reconcile, InstallFails, Move, Copy,
       CopyFails, LinkFails, Record, places
<1> QED
  BY <1>2, <1>3, <1>4 DEF Next, Kill, RemovalsFail, RemoveFilesFails

\* The places of a runtime's binaries are the same in every state.
LEMMA SamePlaces ==
    ASSUME NEW r \in Runtime
    PROVE  Alone(r)' = Alone(r)
PROOF
  BY DEF Alone, Ours

\* Before the first link is made, every binary is to be linked.
LEMMA AllToLink ==
    ASSUME NEW r \in Runtime, todo[r] = Binaries[r]
    PROVE  ToLink(r) = Ours(r)
PROOF
<1>1. Binaries[r] \in Seq(Binary)
  BY RuntimeAssumption DEF RuntimeAssumption
<1> QED
  BY <1>1 DEF ToLink, Ours

\* What is first in a sequence, or in what comes after it, is all of it.
LEMMA HeadOrTail ==
    ASSUME NEW s \in Seq(Binary), s # <<>>, NEW i \in 1 .. Len(s)
    PROVE  \/ s[i] = Head(s)
           \/ \E j \in 1 .. Len(Tail(s)) : Tail(s)[j] = s[i]
PROOF
<1>1. CASE i = 1
  BY <1>1
<1>2. CASE i # 1
  <2>1. i - 1 \in 1 .. Len(Tail(s)) /\ Tail(s)[i - 1] = s[i]
    BY <1>2
  <2> QED
    BY <2>1
<1> QED
  BY <1>1, <1>2

\* A reconciliation leaves what its next step needs.
LEMMA ReconcileProgress ==
    ASSUME Inv, Truth, NEW r \in Runtime, Reconcile(r)
    PROVE  Progress(r)'
PROOF
<1> USE DEF Inv, Typed
<1>1. at[r] = "reconcile" /\ link' = link
  BY DEF Reconcile, places
<1>2. CASE ~NeedsUpdate(r)
  BY <1>1, <1>2 DEF Reconcile, Goto, Progress
<1>3. CASE NeedsUpdate(r)
  <2>1. /\ todo'[r] = Binaries[r]
        /\ at'[r] \in {"bootstrap", "unlink", "fetch"}
        /\ at'[r] = "bootstrap" <=> Way[r] # "download"
    BY <1>3 DEF Reconcile, Goto
  <2>2. ToLink(r)' = Ours(r)
    <3>1. DOMAIN Binaries[r] = 1 .. Len(Binaries[r])
      BY RuntimeAssumption DEF RuntimeAssumption
    <3>2. ToLink(r)' = {<<BinDir[r], todo'[r][i]>> : i \in 1 .. Len(todo'[r])}
      BY DEF ToLink
    <3> QED
      BY <2>1, <3>1, <3>2 DEF Ours
  <2> QED
    BY <2>1, <2>2, AloneIsOurs, SamePlaces DEF Progress
<1> QED
  BY <1>2, <1>3

\* A bootstrap records what it has found, or goes on to link all of it.
LEMMA BootstrapProgress ==
    ASSUME Inv, Truth, NEW r \in Runtime, Bootstrap(r)
    PROVE  Progress(r)'
PROOF
<1> USE DEF Inv, Typed
<1>1. at[r] = "bootstrap" /\ todo' = todo /\ todo[r] = Binaries[r]
  BY DEF Bootstrap, Truth, Progress
<1>2. ToLink(r)' = Ours(r)
  BY <1>1, AllToLink DEF ToLink
<1>3. \A p \in Ours(r) : p \in Places
  BY OursArePlaces
<1>4. Way[r] = "binDir" => \A p \in Ours(r) : link'[p] = Own(r) /\ Found(link'[p])
  BY <1>3, NoneIsNoLink DEF Bootstrap, Found
<1>5. Way[r] \in {"download", "binDir", "runtimesDir"}
  BY RuntimeAssumption DEF RuntimeAssumption
<1>6. CASE \A p \in Ours(r) : Found(link'[p])
  <2>1. at'[r] = "record"
    BY <1>6 DEF Bootstrap, Goto
  <2>2. Way[r] # "download"
    BY <1>1 DEF Truth, Progress
  <2>3. \A p \in Alone(r) : Right(r, p, target[r])'
    BY <1>4, <1>6, <2>2, AloneIsOurs DEF Right, Found
  <2> QED
    BY <2>1, <2>3, SamePlaces DEF Progress
<1>7. CASE ~ \A p \in Ours(r) : Found(link'[p])
  <2>1. at'[r] = "unlink" /\ Way[r] # "binDir"
    BY <1>4, <1>7 DEF Bootstrap, Goto
  <2> QED
    BY <1>2, <2>1, AloneIsOurs, SamePlaces DEF Progress
<1> QED
  BY <1>6, <1>7

\* A link is made at the place that was still to be linked.
LEMMA LinkProgress ==
    ASSUME Inv, Truth, NEW r \in Runtime, Link(r)
    PROVE  Progress(r)'
PROOF
<1> USE DEF Inv, Typed
<1> DEFINE place == <<BinDir[r], Head(todo[r])>>
<1>1. /\ at[r] = "link" /\ target' = target
      /\ link' = [link EXCEPT ![place] = <<r, target[r]>>]
      /\ todo'[r] = Tail(todo[r])
      /\ at'[r] = IF Len(todo[r]) = 1 THEN "record" ELSE "unlink"
  BY DEF Link, Goto
<1>2. todo[r] \in Seq(Binary) /\ todo[r] # <<>> /\ place \in Places
  BY <1>1, LinkHasTarget, OursArePlaces
<1>3. target[r] \in Version \cup {Alias}
  BY <1>1 DEF LinksOwn, LinksItsOwn, Installing
<1>4. Way[r] # "binDir" /\ \A p \in Alone(r) : link[p] = <<r, target[r]>> \/ p \in ToLink(r)
  BY <1>1 DEF Truth, Progress
<1>5. ASSUME NEW p \in Alone(r)
      PROVE  link'[p] = <<r, target'[r]>> \/ p \in ToLink(r)'
  <2>1. p \in Places
    BY AloneIsOurs
  <2>2. CASE p = place
    BY <1>1, <1>2, <2>2
  <2>3. CASE p # place /\ p \in ToLink(r)
    <3>1. PICK i \in 1 .. Len(todo[r]) : p = <<BinDir[r], todo[r][i]>>
      BY <2>3 DEF ToLink
    <3>2. todo[r][i] # Head(todo[r])
      BY <2>3, <3>1
    <3>3. \E j \in 1 .. Len(Tail(todo[r])) : Tail(todo[r])[j] = todo[r][i]
      BY <1>2, <3>2, HeadOrTail
    <3> QED
      BY <1>1, <3>1, <3>3 DEF ToLink
  <2>4. CASE p # place /\ link[p] = <<r, target[r]>>
    BY <1>1, <2>1, <2>4
  <2> QED
    BY <1>4, <2>2, <2>3, <2>4
<1>6. CASE Len(todo[r]) = 1
  <2>1. Len(todo'[r]) = 0
    BY <1>1, <1>2, <1>6
  <2>2. ToLink(r)' = {}
    BY <2>1 DEF ToLink
  <2>3. \A p \in Alone(r) : Right(r, p, target[r])'
    <3>1. \A p \in Alone(r) : link'[p] = <<r, target'[r]>>
      BY <1>5, <2>2
    <3>2. <<r, target'[r]>> # None
      BY <1>1, <1>3, NoneIsNoLink
    <3> QED
      BY <1>4, <3>1, <3>2 DEF Right
  <2> QED
    BY <1>1, <1>6, <2>3, SamePlaces DEF Progress
<1>7. CASE Len(todo[r]) # 1
  BY <1>1, <1>4, <1>5, <1>7, SamePlaces DEF Progress
<1> QED
  BY <1>6, <1>7

\* What a removal leaves at the places of r alone is a file of its bootstrap.
LEMMA RemoveProgress ==
    ASSUME Inv, Truth, NEW r \in Runtime, Remove(r)
    PROVE  Progress(r)'
PROOF
<1> USE DEF Inv, Typed
<1>1. at'[r] = "removeFiles"
  BY DEF Remove, Goto
<1>2. ASSUME NEW p \in Alone(r)
      PROVE  link'[p] = None \/ (link'[p] = Own(r) /\ Way[r] # "download")
  <2>1. p \in Places /\ p \in Ours(r) /\ \A q \in Runtime \ {r} : p \notin Ours(q)
    BY AloneIsOurs
  <2>2. CASE Way[r] = "download" \/ IsLink(link[p])
    BY <2>1, <2>2 DEF Remove
  <2>3. CASE Way[r] # "download" /\ ~IsLink(link[p])
    <3>1. link'[p] = link[p]
      BY <2>1, <2>3 DEF Remove
    <3>2. link[p] = None \/ link[p] = Own(r)
      BY <2>1, <2>3 DEF Truth, FilesOwned
    <3> QED
      BY <2>3, <3>1, <3>2
  <2> QED
    BY <2>2, <2>3
<1> QED
  BY <1>1, <1>2, SamePlaces DEF Progress, Own

\* A step of r's goroutine brings it to where the next one can begin.
LEMMA OwnProgress ==
    ASSUME Inv, Truth, NEW r \in Runtime, Install(r) \/ Remove(r) \/ RemoveFiles(r)
    PROVE  Progress(r)'
PROOF
<1> USE DEF Inv, Typed
<1>1. CASE InstallFails(r) \/ CopyFails(r) \/ LinkFails(r) \/ Record(r) \/ RemoveFiles(r)
  <2>1. at'[r] \in {"failed", "done", "idle"}
    BY <1>1 DEF InstallFails, CopyFails, LinkFails, Record, RemoveFiles, Goto
  <2> QED
    BY <2>1 DEF Progress
<1>2. CASE Move(r) \/ Copy(r)
  <2>1. /\ at[r] \in {"fetch", "copy"} /\ at'[r] \in {"copy", "unlink"}
        /\ todo' = todo /\ link' = link
    BY <1>2 DEF Move, Copy, Goto
  <2>2. Way[r] = "download" /\ todo[r] = Binaries[r]
    BY <2>1 DEF Truth, Progress
  <2>3. ToLink(r)' = Ours(r)
    BY <2>1, <2>2, AllToLink DEF ToLink
  <2> QED
    BY <2>1, <2>2, <2>3, AloneIsOurs, SamePlaces DEF Progress
<1>3. CASE Unlink(r)
  <2>1. /\ at[r] = "unlink" /\ at'[r] = "link" /\ UNCHANGED <<todo, target>>
        /\ todo[r] # <<>>
        /\ link' = [link EXCEPT ![<<BinDir[r], Head(todo[r])>>] = None]
    BY <1>3 DEF Unlink, Goto
  <2>2. <<BinDir[r], Head(todo[r])>> \in ToLink(r)
    <3>1. Head(todo[r]) = todo[r][1] /\ 1 \in 1 .. Len(todo[r])
      BY <2>1
    <3> QED
      BY <3>1 DEF ToLink
  <2>3. ToLink(r)' = ToLink(r)
    BY <2>1 DEF ToLink
  <2>4. Way[r] # "binDir" /\ \A p \in Alone(r) : link[p] = <<r, target[r]>> \/ p \in ToLink(r)
    BY <2>1 DEF Truth, Progress
  <2>5. ASSUME NEW p \in Alone(r), p \notin ToLink(r)
        PROVE  link'[p] = <<r, target'[r]>>
    <3>1. p \in Places /\ p # <<BinDir[r], Head(todo[r])>> /\ link[p] = <<r, target[r]>>
      BY <2>2, <2>4, <2>5, AloneIsOurs
    <3> QED
      BY <2>1, <3>1
  <2> QED
    BY <2>1, <2>3, <2>4, <2>5, SamePlaces DEF Progress
<1> QED
  BY <1>1, <1>2, <1>3, ReconcileProgress, BootstrapProgress, LinkProgress, RemoveProgress DEF Install

\* A step of r's goroutine leaves its links as recorded, or says that it has
\* not recorded them.
LEMMA OwnMatch ==
    ASSUME Inv, Truth, NEW r \in Runtime, Install(r) \/ Remove(r) \/ RemoveFiles(r)
    PROVE  MatchedOrAtWork(r)'
PROOF
<1> USE DEF Inv, Typed
<1>1. CASE Record(r)
  <2>1. at[r] = "record" /\ link' = link
    BY <1>1 DEF Record, places
  <2>2. \A p \in Alone(r) : Right(r, p, target[r])
    BY <2>1 DEF Truth, Progress
  <2>3. cache'[r] # None /\ cache'[r].version = target[r]
    BY <1>1, <2>1, RecordedState DEF Record, Truth, StateTypes
  <2>4. \A p \in Alone(r) : Right(r, p, cache[r].version)'
    BY <2>1, <2>2, <2>3 DEF Right, Own
  <2> QED
    BY <2>3, <2>4, SamePlaces DEF MatchedOrAtWork, Matches
<1>2. CASE RemoveFiles(r)
  <2>1. at[r] = "removeFiles" /\ cache'[r] = None
    BY <1>2 DEF RemoveFiles, Truth, StateTypes
  <2>2. \A p \in Alone(r) : link[p] = None \/ link[p] = Own(r)
    BY <2>1 DEF Truth, Progress
  <2>3. \A p \in Alone(r) : link'[p] = None \/ (link'[p] = Own(r) /\ r \notin Removable)
    BY <1>2, <2>2, AloneIsOurs DEF RemoveFiles
  <2> QED
    BY <2>1, <2>3, SamePlaces DEF MatchedOrAtWork, Matches, Own
<1>3. CASE LinkFails(r)
  BY <1>3 DEF LinkFails, MatchedOrAtWork
<1>4. CASE \/ Reconcile(r) \/ InstallFails(r) \/ Move(r) \/ Copy(r) \/ CopyFails(r)
           \/ Bootstrap(r) \/ Unlink(r) \/ Link(r) \/ Remove(r)
  <2>1. cache' = cache /\ cut' = cut
    BY <1>4 DEF Reconcile, InstallFails, Move, Copy, CopyFails, Bootstrap, Unlink, Link, Remove, SameCut
  <2>2. CASE at'[r] \in AtWork
    BY <2>2 DEF MatchedOrAtWork
  <2>3. CASE at'[r] \notin AtWork
    <3>1. link' = link /\ at[r] \notin AtWork
      BY <1>4, <2>3 DEF Reconcile, InstallFails, Move, Copy, CopyFails, Bootstrap, Unlink, Link, Remove,
         Goto, AtWork, places
    <3>2. r \in cut \/ Matches(r)
      BY <3>1 DEF Truth, MatchedOrAtWork
    <3> QED
      BY <2>1, <3>1, <3>2, SamePlaces DEF MatchedOrAtWork, Matches, Right, Own
  <2> QED
    BY <2>2, <2>3
<1> QED
  BY <1>1, <1>2, <1>3, <1>4 DEF Install

\* A step, whosever it is, keeps how far each runtime has come.
LEMMA ProgressStep ==
    ASSUME Inv, Truth, [Next]_vars, NEW r \in Runtime
    PROVE  Progress(r)'
PROOF
<1> USE DEF Inv, Typed
<1>1. CASE Begin \/ EndLayer \/ EndRemovals \/ Abandon
  <2>1. at'[r] \in {"reconcile", "remove", "idle"}
    BY <1>1 DEF Begin, EndLayer, EndRemovals, Abandon
  <2> QED
    BY <2>1 DEF Progress
<1>2. CASE (\E q \in Runtime : Edit(q)) \/ UNCHANGED vars
  <2>1. UNCHANGED <<at, todo, target, link>>
    BY <1>2 DEF Edit, vars, places
  <2> QED
    BY <2>1, SamePlaces DEF Truth, Progress, Right, ToLink, Own
<1>3. CASE Install(r) \/ Remove(r) \/ RemoveFiles(r)
  BY <1>3, OwnProgress
<1>4. ASSUME NEW q \in Runtime, q # r, Install(q) \/ Remove(q) \/ RemoveFiles(q)
      PROVE  Progress(r)'
  <2>1. /\ \A p \in Alone(r) : link'[p] = link[p]
        /\ at'[r] = at[r] /\ todo'[r] = todo[r] /\ target'[r] = target[r]
    BY <1>4, OthersKeep
  <2>2. ToLink(r)' = ToLink(r)
    BY <2>1 DEF ToLink
  <2>3. \A p \in Alone(r) : Right(r, p, target[r])' <=> Right(r, p, target[r])
    BY <2>1 DEF Right, Own
  <2>4. Progress(r)
    BY DEF Truth
  <2> HIDE DEF Inv, Typed
  <2> QED
    BY <2>1, <2>2, <2>3, <2>4, SamePlaces DEF Progress, Own
<1> QED
  BY <1>1, <1>2, <1>3, <1>4 DEF Next, Kill, RemovalsFail, RemoveFilesFails

\* A step leaves the links of each runtime as the engine knows them, but of one
\* that is at work or was cut short.
LEMMA MatchedStep ==
    ASSUME Inv, Truth, [Next]_vars, NEW r \in Runtime
    PROVE  MatchedOrAtWork(r)'
PROOF
<1> USE DEF Inv, Typed
<1>1. CASE Begin \/ EndLayer \/ EndRemovals \/ (\E q \in Runtime : Edit(q)) \/ UNCHANGED vars
  <2>1. UNCHANGED <<link, cut, cache>>
    <3>1. CASE Begin
      BY <3>1 DEF Begin, places, Truth, SavedAtRest
    <3>2. CASE EndLayer \/ EndRemovals
      BY <3>2 DEF EndLayer, EndRemovals, places
    <3>3. CASE (\E q \in Runtime : Edit(q)) \/ UNCHANGED vars
      BY <3>3 DEF Edit, vars, store, places
    <3> QED
      BY <1>1, <3>1, <3>2, <3>3
  <2>2. CASE at[r] \notin AtWork
    <3>1. r \in cut \/ Matches(r)
      BY <2>2 DEF Truth, MatchedOrAtWork
    <3> QED
      BY <2>1, <3>1, SamePlaces DEF MatchedOrAtWork, Matches, Right, Own
  <2>3. CASE at[r] \in AtWork
    <3>1. at'[r] = at[r]
      BY <1>1, <2>3 DEF Begin, EndLayer, EndRemovals, Edit, vars, AtWork, InPhase, Installing, Removing
    <3> QED
      BY <2>3, <3>1 DEF MatchedOrAtWork
  <2> QED
    BY <2>2, <2>3
<1>2. CASE Abandon
  <2>1. SUFFICES ASSUME r \notin cut'
                 PROVE  Matches(r)'
    BY DEF MatchedOrAtWork
  <2>2. /\ link' = link /\ cache' = disk /\ r \notin cut
        /\ at[r] \notin AtWork /\ cache[r] = disk[r]
    BY <1>2, <2>1 DEF Abandon, AtWork
  <2>3. Matches(r) /\ cache'[r] = cache[r]
    BY <2>2 DEF Truth, MatchedOrAtWork
  <2> QED
    BY <2>2, <2>3, SamePlaces DEF Matches, Right, Own
<1>3. CASE Install(r) \/ Remove(r) \/ RemoveFiles(r)
  BY <1>3, OwnMatch
<1>4. ASSUME NEW q \in Runtime, q # r, Install(q) \/ Remove(q) \/ RemoveFiles(q)
      PROVE  MatchedOrAtWork(r)'
  <2>1. /\ \A p \in Alone(r) : link'[p] = link[p]
        /\ at'[r] = at[r] /\ cache'[r] = cache[r] /\ (r \in cut' <=> r \in cut)
    BY <1>4, OthersKeep
  <2> QED
    BY <2>1, SamePlaces DEF Truth, MatchedOrAtWork, Matches, Right, Own
<1> QED
  BY <1>1, <1>2, <1>3, <1>4 DEF Next, Kill, RemovalsFail, RemoveFilesFails

LEMMA TruthInit == Init => Truth
PROOF
<1> SUFFICES ASSUME Init PROVE Truth
  OBVIOUS
<1>1. /\ \A r \in Runtime : at[r] = "idle" /\ disk[r] = None
      /\ \A p \in Places : link[p] = None
      /\ cache = disk /\ \A d \in Dirs : dir[d] = "none"
  BY DEF Init
<1>2. StateTypes /\ SavedAtRest /\ PartialCopies /\ FilesOwned
  BY <1>1 DEF Init, StateTypes, SavedAtRest, PartialCopies, FilesOwned
<1>3. \A r \in Runtime : Progress(r)
  BY <1>1 DEF Progress
<1>4. \A r \in Runtime : MatchedOrAtWork(r)
  BY <1>1, AloneIsOurs DEF MatchedOrAtWork, Matches
<1> QED
  BY <1>2, <1>3, <1>4 DEF Truth

LEMMA TruthStep == Inv /\ Truth /\ [Next]_vars => Truth'
PROOF
<1> SUFFICES ASSUME Inv, Truth, [Next]_vars PROVE Truth'
  OBVIOUS
<1>1. StateTypes' /\ SavedAtRest'
  BY SavedStep
<1>2. PartialCopies' /\ FilesOwned'
  BY CopiesStep, FilesStep
<1>3. \A r \in Runtime : Progress(r)'
  BY ProgressStep
<1>4. \A r \in Runtime : MatchedOrAtWork(r)'
  BY MatchedStep
<1> QED
  BY <1>1, <1>2, <1>3, <1>4 DEF Truth

\* What the engine knows at rest is what state.json says, and what it links to
\* is there.
LEMMA AtRest ==
    ASSUME Inv, Truth
    PROVE  LinksMatchState
PROOF
<1> USE DEF Inv, Typed
<1>1. SUFFICES ASSUME phase = "idle", NEW r \in Runtime \ cut, NEW p \in Alone(r)
               PROVE  IF disk[r] # None
                      THEN CASE Way[r] = "download" ->
                                  /\ link[p] = <<r, disk[r].version>>
                                  /\ dir[link[p]] = "whole" \/ link[p] \in halved
                             [] Way[r] = "binDir" -> link[p] = Own(r)
                             [] OTHER -> Found(link[p])
                      ELSE link[p] = None \/ (link[p] = Own(r) /\ r \notin Removable)
  BY DEF LinksMatchState
<1>2. cache = disk
  BY <1>1 DEF Truth, SavedAtRest
<1>3. at[r] \notin AtWork
  BY <1>1 DEF InPhase, Installing, Removing, AtWork
<1>4. Matches(r) /\ p \in Places
  BY <1>3, AloneIsOurs DEF Truth, MatchedOrAtWork
<1>5. CASE disk[r] = None
  BY <1>2, <1>4, <1>5 DEF Matches
<1>6. CASE disk[r] # None
  <2>1. Right(r, p, disk[r].version) /\ disk[r] \in States
    BY <1>2, <1>4, <1>6 DEF Matches, Truth, StateTypes
  <2>2. disk[r].version \in Version \cup {Alias}
    BY <2>1 DEF States
  <2>3. CASE Way[r] = "download"
    <3>1. link[p] = <<r, disk[r].version>>
      BY <2>1, <2>3 DEF Right
    <3>2. IsLink(link[p]) /\ link[p] \in Dirs
      BY <2>2, <3>1, NoneIsNoLink DEF Dirs
    <3>3. dir[link[p]] \in {"partial", "whole"}
      BY <1>4, <3>2 DEF NoDanglingLink
    <3>4. dir[link[p]] = "whole" \/ link[p] \in halved
      <4>1. Copied = {}
        BY <1>1 DEF Copied, InPhase, Installing
      <4> QED
        BY <3>2, <3>3, <4>1 DEF Truth, PartialCopies
    <3> QED
      BY <1>6, <2>3, <3>1, <3>4
  <2>4. CASE Way[r] = "binDir"
    BY <1>6, <2>1, <2>4 DEF Right
  <2>5. CASE Way[r] \notin {"download", "binDir"}
    <3>1. link[p] # None
      BY <2>1, <2>5 DEF Right
    <3>2. Found(link[p])
      BY <1>4, <3>1 DEF Found, NoDanglingLink
    <3> QED
      BY <1>6, <2>5, <3>2
  <2> QED
    BY <2>3, <2>4, <2>5
<1> QED
  BY <1>5, <1>6

(* In every behaviour, for any number of runtimes with binaries of any names: *)
(* after an apply that succeeded, each binary that only one runtime has is     *)
(* linked to the version that state.json records for it, whose directory is    *)
(* whole unless its copy or removal was once cut short, and is gone when the   *)
(* runtime is.  Runtimes whose links a kill or a failure cut short are left    *)
(* out until they are recorded or removed (Install, createSymlinks and Remove  *)
(* of installer/runtime/installer.go, executeRemovals of engine.go).           *)
THEOREM LinksAreRecorded == Spec => []LinksMatchState
PROOF
<1>1. Inv /\ Truth => LinksMatchState
  BY AtRest
<1> QED
  BY InvInit, InvStep, TruthInit, TruthStep, <1>1, PTL DEF Spec

(***************************************************************************)
(* Repositories.  Of a repository that no kill has cut short and that has  *)
(* kept its type and its installer, at every step the engine's copy of the *)
(* state says what is there, the clone in progress aside.                  *)
(***************************************************************************)
RepoStates ==
    [type : {"git", "delegation"}, url : Url, ref : Installer, path : (Installer \X Repo) \cup {None}]

RepoPlaces == Installer \X Repo

RepoTypes ==
    /\ wanted \in [Repo -> R!Specs \cup {None}]
    /\ known \in [Repo -> RepoStates \cup {None}] /\ recorded \in [Repo -> RepoStates \cup {None}]
    /\ clone \in [RepoPlaces -> [url : Url, whole : BOOLEAN] \cup {None}]
    /\ entry \in [RepoPlaces -> Url \cup {None}]
    /\ step \in {"idle", "running", "removing"}
    /\ pending \subseteq Repo /\ lost \subseteq Repo
    /\ cloning \in Repo \cup {None}

\* What is taken up is wanted, or listed and no more wanted; a clone in progress
\* is of a repository that is still taken up.
TakenUp ==
    /\ step = "idle" => known = recorded /\ cloning = None /\ pending = {}
    /\ step = "running" => \A r \in pending : wanted[r] # None
    /\ step = "removing" => cloning = None /\ \A r \in pending : known[r] # None
    /\ cloning # None => step = "running" /\ cloning \in pending /\ wanted[cloning].type = "git"

\* The state has the path of a clone where installers put it.
PathsAsCloned ==
    \A r \in Repo : \A st \in {known[r], recorded[r]} :
        st # None /\ st.type = "git" => st.path = <<st.ref, r>>

IsClone(r, i) == known[r] # None /\ known[r].type = "git" /\ known[r].ref = i

IsEntry(r, i) == known[r] # None /\ known[r].type = "delegation" /\ known[r].ref = i

\* Nothing but what the state lists is there, and all of it.
Accurate(r) ==
    \A i \in Installer :
        /\ IsClone(r, i) => clone[<<i, r>>] # None /\ clone[<<i, r>>].whole
        /\ IsEntry(r, i) => entry[<<i, r>>] # None
        /\ clone[<<i, r>>] # None => IsClone(r, i) \/ (cloning = r /\ wanted[r].ref = i)
        /\ entry[<<i, r>>] # None => IsEntry(r, i) \/ r \notin RepoRemovable

AllAccurate == \A r \in Repo \ lost : Accurate(r)

\* What is being cloned is there in part, and was not there before.
ClonedAnew ==
    cloning \in Repo =>
        /\ clone[<<wanted[cloning].ref, cloning>>] # None
        /\ cloning \notin lost => ~IsClone(cloning, wanted[cloning].ref)

RepoInv == RepoTypes /\ TakenUp /\ PathsAsCloned /\ AllAccurate /\ ClonedAnew

LEMMA RepoInit == R!RepoAssumption /\ R!Init => RepoInv
BY DEF R!RepoAssumption, R!Init, RepoInv, RepoTypes, TakenUp, PathsAsCloned, AllAccurate, Accurate,
       ClonedAnew, IsClone, IsEntry, RepoPlaces

\* What the state says of a repository when it is configured.
LEMMA ConfiguredState ==
    ASSUME R!RepoAssumption, RepoInv, NEW r \in pending, wanted[r] # None, R!Configured(r)
    PROVE  /\ known' \in [Repo -> RepoStates \cup {None}]
           /\ known'[r] # None /\ known'[r].type = wanted[r].type /\ known'[r].ref = wanted[r].ref
           /\ wanted[r].type = "git" => known'[r].path = <<wanted[r].ref, r>>
           /\ \A q \in Repo \ {r} : known'[q] = known[q]
           /\ pending' = pending \ {r}
           /\ lost \subseteq lost' /\ lost' \subseteq Repo
           /\ r \in lost' \/ known[r] = None
              \/ (known[r].type = wanted[r].type /\ known[r].ref = wanted[r].ref)
<1>1. r \in Repo /\ wanted[r] \in R!Specs
  BY DEF RepoInv, RepoTypes
<1> DEFINE st == [type |-> wanted[r].type, url |-> wanted[r].url, ref |-> wanted[r].ref,
                  path |-> IF wanted[r].type = "git" THEN <<wanted[r].ref, r>> ELSE None]
<1>2. st \in RepoStates
  BY <1>1 DEF R!Specs, RepoStates
<1>3. st # None
  BY <1>2 DEF R!RepoAssumption, RepoStates
<1>4. known' = [known EXCEPT ![r] = st]
  BY DEF R!Configured
<1>5. pending' = pending \ {r}
      /\ lost' = IF known[r] # None /\ (known[r].type # wanted[r].type \/ known[r].ref # wanted[r].ref)
                 THEN lost \cup {r} ELSE lost
  BY DEF R!Configured
<1>6. st.type = wanted[r].type /\ st.ref = wanted[r].ref
      /\ (wanted[r].type = "git" => st.path = <<wanted[r].ref, r>>)
  OBVIOUS
<1> HIDE DEF st
<1>7. known \in [Repo -> RepoStates \cup {None}] /\ lost \subseteq Repo
  BY DEF RepoInv, RepoTypes
<1> QED
  BY <1>1, <1>2, <1>3, <1>4, <1>5, <1>6, <1>7

\* A step with one repository leaves the others as they are.
LEMMA Elsewhere ==
    ASSUME AllAccurate, NEW r \in Repo, wanted' = wanted, lost \subseteq lost',
           \A q \in Repo \ {r} : known'[q] = known[q],
           \A i \in Installer, q \in Repo \ {r} :
               clone'[<<i, q>>] = clone[<<i, q>>] /\ entry'[<<i, q>>] = entry[<<i, q>>],
           cloning' = cloning \/ {cloning, cloning'} \subseteq {r, None}, None \notin Repo,
           r \notin lost' => Accurate(r)'
    PROVE  AllAccurate'
<1> SUFFICES ASSUME NEW q \in Repo \ {r}, q \notin lost'
             PROVE  Accurate(q)'
  BY DEF AllAccurate
<1>1. Accurate(q) /\ known'[q] = known[q] /\ wanted'[q] = wanted[q] /\ (cloning' = q <=> cloning = q)
  BY DEF AllAccurate
<1> QED
  BY <1>1 DEF Accurate, IsClone, IsEntry

\* What a step does with a clone, or with an entry, is done at one place.
LEMMA ClonePlace ==
    ASSUME RepoTypes, NEW i \in Installer, NEW r \in Repo, NEW v \in [url : Url, whole : BOOLEAN] \cup {None},
           clone' = [clone EXCEPT ![<<i, r>>] = v]
    PROVE  /\ clone' \in [RepoPlaces -> [url : Url, whole : BOOLEAN] \cup {None}]
           /\ \A k \in Installer, q \in Repo : q # r \/ k # i => clone'[<<k, q>>] = clone[<<k, q>>]
BY DEF RepoTypes, RepoPlaces

LEMMA EntryPlace ==
    ASSUME RepoTypes, NEW i \in Installer, NEW r \in Repo, NEW v \in Url \cup {None},
           entry' = [entry EXCEPT ![<<i, r>>] = v]
    PROVE  /\ entry' \in [RepoPlaces -> Url \cup {None}]
           /\ \A k \in Installer, q \in Repo : q # r \/ k # i => entry'[<<k, q>>] = entry[<<k, q>>]
BY DEF RepoTypes, RepoPlaces

\* A repository that is configured becomes what the state says, if it was there
\* or has just come there.
LEMMA ConfiguredAccurate ==
    ASSUME R!RepoAssumption, RepoInv, NEW r \in pending, wanted[r] # None, R!Configured(r), r \notin lost',
           \A i \in Installer : i # wanted[r].ref =>
               clone'[<<i, r>>] = clone[<<i, r>>] /\ entry'[<<i, r>>] = entry[<<i, r>>],
           cloning \in {None, r}, cloning' = None,
           wanted[r].type = "git" =>
               /\ clone'[<<wanted[r].ref, r>>] # None
               /\ \/ clone'[<<wanted[r].ref, r>>].whole
                  \/ cloning = None /\ clone'[<<wanted[r].ref, r>>] = clone[<<wanted[r].ref, r>>]
               /\ entry'[<<wanted[r].ref, r>>] = entry[<<wanted[r].ref, r>>],
           wanted[r].type = "delegation" =>
               /\ entry'[<<wanted[r].ref, r>>] # None
               /\ clone'[<<wanted[r].ref, r>>] = clone[<<wanted[r].ref, r>>]
               /\ cloning = None
    PROVE  Accurate(r)'
<1>1. r \in Repo /\ None \notin Repo /\ wanted[r].type \in {"git", "delegation"} /\ wanted[r].ref \in Installer
  BY DEF RepoInv, RepoTypes, R!Specs, R!RepoAssumption
<1>2. /\ known'[r] # None /\ known'[r].type = wanted[r].type /\ known'[r].ref = wanted[r].ref
      /\ known[r] = None \/ (known[r].type = wanted[r].type /\ known[r].ref = wanted[r].ref)
      /\ r \notin lost
  BY ConfiguredState
<1>3. Accurate(r)
  BY <1>1, <1>2 DEF RepoInv, AllAccurate
<1> SUFFICES ASSUME NEW i \in Installer
             PROVE  /\ IsClone(r, i)' => clone'[<<i, r>>] # None /\ clone'[<<i, r>>].whole
                    /\ IsEntry(r, i)' => entry'[<<i, r>>] # None
                    /\ clone'[<<i, r>>] # None => IsClone(r, i)'
                    /\ entry'[<<i, r>>] # None => IsEntry(r, i)' \/ r \notin RepoRemovable
  BY DEF Accurate
<1>4. CASE i = wanted[r].ref
  BY <1>1, <1>2, <1>3, <1>4 DEF Accurate, IsClone, IsEntry
<1>5. CASE i # wanted[r].ref
  BY <1>1, <1>2, <1>3, <1>5 DEF Accurate, IsClone, IsEntry
<1> QED
  BY <1>4, <1>5

\* An apply that ends without a flush leaves the repositories as state.json says,
\* but for those that it has changed.
LEMMA AbandonRepos ==
    ASSUME R!RepoAssumption, RepoInv, NEW underway \in SUBSET Repo, R!Abandon(underway),
           cloning # None => cloning \in underway,
           clone' \in [RepoPlaces -> [url : Url, whole : BOOLEAN] \cup {None}],
           entry' \in [RepoPlaces -> Url \cup {None}],
           \A q \in Repo \ underway, i \in Installer :
               clone'[<<i, q>>] = clone[<<i, q>>] /\ entry'[<<i, q>>] = entry[<<i, q>>]
    PROVE  RepoInv'
<1> USE DEF RepoInv
<1>1. None \notin Repo
  BY DEF R!RepoAssumption
<1>2. /\ UNCHANGED <<wanted, recorded>> /\ known' = recorded /\ cloning' = None
      /\ step' = "idle" /\ pending' = {}
      /\ lost' = lost \cup underway \cup {q \in Repo : known[q] # recorded[q]}
  BY DEF R!Abandon
<1>3. AllAccurate'
  <2> SUFFICES ASSUME NEW q \in Repo, q \notin lost' PROVE Accurate(q)'
    BY DEF AllAccurate
  <2>1. q \notin lost /\ q \notin underway /\ cloning # q /\ known'[q] = known[q]
    BY <1>1, <1>2
  <2> QED
    BY <1>1, <1>2, <2>1 DEF AllAccurate, Accurate, IsClone, IsEntry
<1> QED
  BY <1>1, <1>2, <1>3 DEF RepoTypes, TakenUp, PathsAsCloned, ClonedAnew

LEMMA RepoStep ==
    ASSUME R!RepoAssumption, RepoInv, [R!Next]_(R!repoVars)
    PROVE  RepoInv'
<1> USE DEF RepoInv
<1>1. None \notin Repo
  BY DEF R!RepoAssumption
<1>2. ASSUME NEW r \in Repo, r \in pending, step = "running"
      PROVE  wanted[r] # None /\ wanted[r].ref \in Installer /\ wanted[r].url \in Url
  BY <1>2 DEF TakenUp, RepoTypes, R!Specs
<1>3. ASSUME NEW r \in Repo, R!Edit(r) PROVE RepoInv'
  <2>1. /\ step = "idle" /\ cloning = None /\ UNCHANGED <<recorded, known, clone, entry, step, pending, cloning, lost>>
        /\ wanted' \in [Repo -> R!Specs \cup {None}]
    BY <1>3 DEF R!Edit, TakenUp, RepoTypes
  <2> QED
    BY <1>1, <2>1 DEF RepoTypes, TakenUp, PathsAsCloned, AllAccurate, Accurate, ClonedAnew, IsClone, IsEntry
<1>4. CASE R!Begin
  BY <1>4 DEF R!Begin, RepoTypes, TakenUp, PathsAsCloned, AllAccurate, Accurate, ClonedAnew, IsClone, IsEntry
<1>5. CASE R!EndRunning
  BY <1>5 DEF R!EndRunning, RepoTypes, TakenUp, PathsAsCloned, AllAccurate, Accurate, ClonedAnew, IsClone, IsEntry
<1>6. CASE R!EndRemoving
  BY <1>6 DEF R!EndRemoving, RepoTypes, TakenUp, PathsAsCloned, AllAccurate, Accurate, ClonedAnew, IsClone, IsEntry
<1>7. CASE R!Kill \/ R!OthersFail
  <2>1. PICK underway \in SUBSET Repo : R!Abandon(underway) /\ (cloning # None => cloning \in underway)
    BY <1>1, <1>7 DEF R!Kill, R!OthersFail, TakenUp, RepoTypes
  <2> QED
    BY <1>7, <2>1, AbandonRepos DEF R!Kill, R!OthersFail, RepoTypes
<1>8. ASSUME NEW r \in Repo, R!Pull(r) PROVE RepoInv'
  <2>1. /\ step = "running" /\ r \in pending /\ cloning = None /\ wanted[r].type = "git"
        /\ clone[<<wanted[r].ref, r>>] # None /\ R!Configured(r)
        /\ UNCHANGED <<wanted, recorded, clone, entry, step, cloning>>
    BY <1>8 DEF R!Pull, R!Running, R!Same
  <2>2. wanted[r] # None /\ wanted[r].ref \in Installer
    BY <1>2, <2>1
  <2>3. /\ known' \in [Repo -> RepoStates \cup {None}] /\ known'[r] # None
        /\ known'[r].type = wanted[r].type /\ known'[r].ref = wanted[r].ref
        /\ wanted[r].type = "git" => known'[r].path = <<wanted[r].ref, r>>
        /\ \A q \in Repo \ {r} : known'[q] = known[q]
        /\ pending' = pending \ {r} /\ lost \subseteq lost' /\ lost' \subseteq Repo
    BY <2>1, <2>2, ConfiguredState
  <2>4. r \notin lost' => Accurate(r)'
    BY <1>1, <2>1, <2>2, ConfiguredAccurate
  <2>5. AllAccurate'
    BY <1>1, <2>1, <2>3, <2>4, Elsewhere
  <2>6. RepoTypes' /\ TakenUp' /\ PathsAsCloned' /\ ClonedAnew'
    BY <1>1, <2>1, <2>2, <2>3 DEF RepoTypes, TakenUp, PathsAsCloned, ClonedAnew
  <2> QED
    BY <2>5, <2>6
<1>9. ASSUME NEW r \in Repo, R!StartClone(r) PROVE RepoInv'
  <2> DEFINE c == [url |-> wanted[r].url, whole |-> FALSE]
  <2>1. /\ step = "running" /\ r \in pending /\ cloning = None /\ wanted[r].type = "git"
        /\ clone[<<wanted[r].ref, r>>] = None /\ clone' = [clone EXCEPT ![<<wanted[r].ref, r>>] = c]
        /\ cloning' = r
        /\ UNCHANGED <<wanted, recorded, known, entry, step, pending, lost>>
    BY <1>9 DEF R!StartClone, R!Running, R!Same
  <2>2. wanted[r] # None /\ wanted[r].ref \in Installer /\ wanted[r].url \in Url
    BY <1>2, <2>1
  <2>3. c \in [url : Url, whole : BOOLEAN] /\ c # None
    <3>1. c \in [url : Url, whole : BOOLEAN]
      BY <2>2
    <3> QED
      BY <3>1 DEF R!RepoAssumption
  <2> HIDE DEF c
  <2>4. /\ clone'[<<wanted[r].ref, r>>] = c
        /\ clone' \in [RepoPlaces -> [url : Url, whole : BOOLEAN] \cup {None}]
        /\ \A k \in Installer, q \in Repo : q # r \/ k # wanted[r].ref => clone'[<<k, q>>] = clone[<<k, q>>]
    <3>1. clone'[<<wanted[r].ref, r>>] = c
      BY <2>1, <2>2 DEF RepoTypes, RepoPlaces
    <3> QED
      BY <2>1, <2>2, <2>3, <3>1, ClonePlace
  <2>5. r \notin lost => Accurate(r) /\ ~IsClone(r, wanted[r].ref)
    BY <2>1, <2>2 DEF AllAccurate, Accurate
  <2>6. r \notin lost' => Accurate(r)'
    <3> SUFFICES ASSUME r \notin lost', NEW i \in Installer
                 PROVE  /\ IsClone(r, i)' => clone'[<<i, r>>] # None /\ clone'[<<i, r>>].whole
                        /\ IsEntry(r, i)' => entry'[<<i, r>>] # None
                        /\ clone'[<<i, r>>] # None => IsClone(r, i)' \/ (cloning' = r /\ wanted'[r].ref = i)
                        /\ entry'[<<i, r>>] # None => IsEntry(r, i)' \/ r \notin RepoRemovable
      BY DEF Accurate
    <3>1. Accurate(r) /\ ~IsClone(r, wanted[r].ref)
      BY <2>1, <2>5
    <3>2. CASE i = wanted[r].ref
      BY <2>1, <3>1, <3>2 DEF Accurate, IsClone, IsEntry
    <3>3. CASE i # wanted[r].ref
      BY <1>1, <2>1, <2>4, <3>1, <3>3 DEF Accurate, IsClone, IsEntry
    <3> QED
      BY <3>2, <3>3
  <2>7. AllAccurate'
    BY <1>1, <2>1, <2>4, <2>6, Elsewhere
  <2>8. RepoTypes' /\ TakenUp' /\ PathsAsCloned'
    BY <1>1, <2>1, <2>4 DEF RepoTypes, TakenUp, PathsAsCloned
  <2>9. ClonedAnew'
    <3>1. clone'[<<wanted[r].ref, r>>] # None
      BY <2>3, <2>4
    <3> QED
      BY <2>1, <2>5, <3>1 DEF ClonedAnew, IsClone
  <2> QED
    BY <2>7, <2>8, <2>9
<1>10. ASSUME NEW r \in Repo, R!EndClone(r) PROVE RepoInv'
  <2> DEFINE p == <<wanted[r].ref, r>>
  <2> DEFINE c == [clone[p] EXCEPT !.whole = TRUE]
  <2>1. /\ cloning = r /\ cloning' = None /\ R!Configured(r) /\ clone' = [clone EXCEPT ![p] = c]
        /\ UNCHANGED <<wanted, recorded, entry, step>>
    BY <1>10 DEF R!EndClone, R!Same
  <2>2. /\ step = "running" /\ r \in pending /\ wanted[r].type = "git"
        /\ wanted[r] # None /\ wanted[r].ref \in Installer
    BY <1>1, <1>2, <2>1 DEF TakenUp
  <2>7. clone[p] \in [url : Url, whole : BOOLEAN]
    BY <2>1, <2>2 DEF ClonedAnew, RepoTypes, RepoPlaces
  <2>8. c \in [url : Url, whole : BOOLEAN] /\ c # None /\ c.whole
    <3>1. c \in [url : Url, whole : BOOLEAN] /\ c.whole
      BY <2>7
    <3> QED
      BY <3>1 DEF R!RepoAssumption
  <2>9. /\ clone' \in [RepoPlaces -> [url : Url, whole : BOOLEAN] \cup {None}]
        /\ clone'[p] # None /\ clone'[p].whole
        /\ \A k \in Installer, q \in Repo : q # r \/ k # wanted[r].ref => clone'[<<k, q>>] = clone[<<k, q>>]
    <3>1. clone' = [clone EXCEPT ![<<wanted[r].ref, r>>] = c]
      BY <2>1
    <3> HIDE DEF c
    <3>2. clone'[<<wanted[r].ref, r>>] = c
      BY <2>2, <3>1 DEF RepoTypes, RepoPlaces
    <3> QED
      BY <2>2, <2>8, <3>1, <3>2, ClonePlace
  <2> HIDE DEF c
  <2>3. /\ known' \in [Repo -> RepoStates \cup {None}] /\ known'[r] # None
        /\ known'[r].type = wanted[r].type /\ known'[r].ref = wanted[r].ref
        /\ wanted[r].type = "git" => known'[r].path = <<wanted[r].ref, r>>
        /\ \A q \in Repo \ {r} : known'[q] = known[q]
        /\ pending' = pending \ {r} /\ lost \subseteq lost' /\ lost' \subseteq Repo
    BY <2>1, <2>2, ConfiguredState
  <2>4. r \notin lost' => Accurate(r)'
    BY <1>1, <2>1, <2>2, ConfiguredAccurate, <2>9
  <2>5. AllAccurate'
    BY <1>1, <2>1, <2>3, <2>4, Elsewhere, <2>9
  <2>6. RepoTypes' /\ TakenUp' /\ PathsAsCloned' /\ ClonedAnew'
    BY <1>1, <2>1, <2>2, <2>3, <2>9 DEF RepoTypes, TakenUp, PathsAsCloned, ClonedAnew
  <2> QED
    BY <2>5, <2>6
<1>11. ASSUME NEW r \in Repo, R!CloneFails(r) PROVE RepoInv'
  <2>1. /\ cloning = r /\ cloning' = None /\ clone' = [clone EXCEPT ![<<wanted[r].ref, r>>] = None]
        /\ pending' = pending \ {r} /\ UNCHANGED <<wanted, recorded, known, entry, step, lost>>
    BY <1>11 DEF R!CloneFails, R!Same
  <2>2. step = "running" /\ r \in pending /\ wanted[r] # None /\ wanted[r].ref \in Installer
    BY <1>1, <1>2, <2>1 DEF TakenUp
  <2>3. /\ clone' \in [RepoPlaces -> [url : Url, whole : BOOLEAN] \cup {None}]
        /\ clone'[<<wanted[r].ref, r>>] = None
        /\ \A k \in Installer, q \in Repo : q # r \/ k # wanted[r].ref => clone'[<<k, q>>] = clone[<<k, q>>]
    <3>1. clone'[<<wanted[r].ref, r>>] = None
      BY <2>1, <2>2 DEF RepoTypes, RepoPlaces
    <3> QED
      BY <2>1, <2>2, <3>1, ClonePlace
  <2>4. r \notin lost => Accurate(r) /\ ~IsClone(r, wanted[r].ref)
    BY <1>1, <2>1 DEF AllAccurate, ClonedAnew
  <2>5. r \notin lost' => Accurate(r)'
    <3> SUFFICES ASSUME r \notin lost', NEW i \in Installer
                 PROVE  /\ IsClone(r, i)' => clone'[<<i, r>>] # None /\ clone'[<<i, r>>].whole
                        /\ IsEntry(r, i)' => entry'[<<i, r>>] # None
                        /\ clone'[<<i, r>>] # None => IsClone(r, i)'
                        /\ entry'[<<i, r>>] # None => IsEntry(r, i)' \/ r \notin RepoRemovable
      BY DEF Accurate
    <3>1. Accurate(r) /\ ~IsClone(r, wanted[r].ref)
      BY <2>1, <2>4
    <3>2. CASE i = wanted[r].ref
      BY <2>1, <2>3, <3>1, <3>2 DEF Accurate, IsClone, IsEntry
    <3>3. CASE i # wanted[r].ref
      BY <1>1, <2>1, <2>3, <3>1, <3>3 DEF Accurate, IsClone, IsEntry
    <3> QED
      BY <3>2, <3>3
  <2>6. AllAccurate'
    BY <1>1, <2>1, <2>3, <2>5, Elsewhere
  <2>7. RepoTypes' /\ TakenUp' /\ PathsAsCloned' /\ ClonedAnew'
    BY <1>1, <2>1, <2>2, <2>3 DEF RepoTypes, TakenUp, PathsAsCloned, ClonedAnew
  <2> QED
    BY <2>6, <2>7
<1>12. ASSUME NEW r \in Repo, R!Delegate(r) PROVE RepoInv'
  <2> DEFINE p == <<wanted[r].ref, r>>
  <2>1. /\ step = "running" /\ r \in pending /\ cloning = None /\ wanted[r].type = "delegation"
        /\ entry' = IF entry[p] = None THEN [entry EXCEPT ![p] = wanted[r].url] ELSE entry
        /\ R!Configured(r) /\ UNCHANGED <<wanted, recorded, clone, step, cloning>>
    BY <1>12 DEF R!Delegate, R!Running, R!Same
  <2>2. wanted[r] # None /\ wanted[r].ref \in Installer /\ wanted[r].url \in Url /\ wanted[r].url # None
    BY <1>2, <2>1 DEF R!RepoAssumption
  <2>7. /\ entry' \in [RepoPlaces -> Url \cup {None}]
        /\ entry'[p] # None
        /\ \A k \in Installer, q \in Repo : q # r \/ k # wanted[r].ref => entry'[<<k, q>>] = entry[<<k, q>>]
    <3>1. CASE entry[p] = None
      <4>1. entry' = [entry EXCEPT ![<<wanted[r].ref, r>>] = wanted[r].url]
        BY <2>1, <3>1
      <4>2. entry'[<<wanted[r].ref, r>>] = wanted[r].url
        BY <2>2, <4>1 DEF RepoTypes, RepoPlaces
      <4> QED
        BY <2>2, <4>1, <4>2, EntryPlace
    <3>2. CASE entry[p] # None
      BY <2>1, <3>2 DEF RepoTypes
    <3> QED
      BY <3>1, <3>2
  <2>3. /\ known' \in [Repo -> RepoStates \cup {None}] /\ known'[r] # None
        /\ known'[r].type = wanted[r].type /\ known'[r].ref = wanted[r].ref
        /\ wanted[r].type = "git" => known'[r].path = <<wanted[r].ref, r>>
        /\ \A q \in Repo \ {r} : known'[q] = known[q]
        /\ pending' = pending \ {r} /\ lost \subseteq lost' /\ lost' \subseteq Repo
    BY <2>1, <2>2, ConfiguredState
  <2>4. r \notin lost' => Accurate(r)'
    BY <1>1, <2>1, <2>2, ConfiguredAccurate, <2>7
  <2>5. AllAccurate'
    BY <1>1, <2>1, <2>3, <2>4, Elsewhere, <2>7
  <2>6. RepoTypes' /\ TakenUp' /\ PathsAsCloned' /\ ClonedAnew'
    BY <1>1, <2>1, <2>2, <2>3, <2>7 DEF RepoTypes, TakenUp, PathsAsCloned, ClonedAnew
  <2> QED
    BY <2>5, <2>6
<1>13. ASSUME NEW r \in Repo, R!DelegateFails(r) PROVE RepoInv'
  <2>1. /\ step = "running" /\ cloning = None /\ pending' = pending \ {r}
        /\ UNCHANGED <<wanted, recorded, known, clone, entry, step, cloning, lost>>
    BY <1>13 DEF R!DelegateFails, R!Running, R!Same
  <2>2. AllAccurate'
    <3> SUFFICES ASSUME NEW q \in Repo, q \notin lost' PROVE Accurate(q)'
      BY DEF AllAccurate
    <3>1. Accurate(q)
      BY <2>1 DEF AllAccurate
    <3> QED
      BY <2>1, <3>1 DEF Accurate, IsClone, IsEntry
  <2> QED
    BY <1>1, <2>1, <2>2 DEF RepoTypes, TakenUp, PathsAsCloned, ClonedAnew
<1>14. ASSUME NEW r \in Repo, R!Remove(r) PROVE RepoInv'
  <2> DEFINE st == known[r]
  <2>1. /\ step = "removing" /\ r \in pending /\ known' = [known EXCEPT ![r] = None] /\ pending' = pending \ {r}
        /\ UNCHANGED <<wanted, recorded, step, cloning, lost>>
    BY <1>14 DEF R!Remove, R!Same
  <2>2. st \in RepoStates /\ st # None /\ cloning = None /\ (st.type = "git" => st.path = <<st.ref, r>>)
    BY <2>1 DEF TakenUp, RepoTypes, PathsAsCloned
  <2>3. st.ref \in Installer /\ st.type \in {"git", "delegation"} /\ <<st.ref, r>> # None
    BY <2>2 DEF RepoStates, R!RepoAssumption
  <2>4. /\ st.type = "git" => clone' = [clone EXCEPT ![<<st.ref, r>>] = None] /\ entry' = entry
        /\ st.type = "delegation" =>
              /\ clone' = clone
              /\ entry' = IF r \in RepoRemovable THEN [entry EXCEPT ![<<st.ref, r>>] = None] ELSE entry
    <3>1. IF st.type = "git"
          THEN /\ clone' = IF st.path # None THEN [clone EXCEPT ![st.path] = None] ELSE clone
               /\ entry' = entry
          ELSE /\ entry' = IF r \in RepoRemovable THEN [entry EXCEPT ![<<st.ref, r>>] = None] ELSE entry
               /\ clone' = clone
      BY <1>14 DEF R!Remove
    <3> QED
      BY <2>2, <2>3, <3>1
  <2> HIDE DEF st
  <2>5. /\ clone' \in [RepoPlaces -> [url : Url, whole : BOOLEAN] \cup {None}]
        /\ entry' \in [RepoPlaces -> Url \cup {None}]
        /\ \A k \in Installer, q \in Repo : q # r \/ k # st.ref =>
              clone'[<<k, q>>] = clone[<<k, q>>] /\ entry'[<<k, q>>] = entry[<<k, q>>]
        /\ st.type = "git" => clone'[<<st.ref, r>>] = None /\ entry'[<<st.ref, r>>] = entry[<<st.ref, r>>]
        /\ st.type = "delegation" =>
              clone'[<<st.ref, r>>] = clone[<<st.ref, r>>] /\ (entry'[<<st.ref, r>>] = None \/ r \notin RepoRemovable)
    <3>1. CASE st.type = "git"
      <4>1. entry' = entry /\ clone' = [clone EXCEPT ![<<st.ref, r>>] = None]
        BY <2>4, <3>1
      <4>2. clone'[<<st.ref, r>>] = None
        BY <2>3, <4>1 DEF RepoTypes, RepoPlaces
      <4> QED
        BY <2>3, <3>1, <4>1, <4>2, ClonePlace DEF RepoTypes, RepoPlaces
    <3>2. CASE st.type = "delegation" /\ r \in RepoRemovable
      <4>1. clone' = clone /\ entry' = [entry EXCEPT ![<<st.ref, r>>] = None]
        BY <2>4, <3>2
      <4>2. entry'[<<st.ref, r>>] = None
        BY <2>3, <4>1 DEF RepoTypes, RepoPlaces
      <4> QED
        BY <2>3, <3>2, <4>1, <4>2, EntryPlace DEF RepoTypes, RepoPlaces
    <3>3. CASE st.type = "delegation" /\ r \notin RepoRemovable
      BY <2>4, <3>3 DEF RepoTypes
    <3> QED
      BY <2>3, <3>1, <3>2, <3>3
  <2>6. known'[r] = None /\ \A q \in Repo \ {r} : known'[q] = known[q]
    BY <2>1 DEF RepoTypes
  <2>7. r \notin lost' => Accurate(r)'
    <3> SUFFICES ASSUME r \notin lost', NEW i \in Installer
                 PROVE  clone'[<<i, r>>] = None /\ (entry'[<<i, r>>] = None \/ r \notin RepoRemovable)
      BY <2>6 DEF Accurate, IsClone, IsEntry
    <3>1. Accurate(r) /\ cloning # r
      BY <1>1, <2>1, <2>2 DEF AllAccurate
    <3>2. CASE i = st.ref
      BY <2>2, <2>3, <2>5, <3>1, <3>2 DEF Accurate, IsClone, IsEntry, st
    <3>3. CASE i # st.ref
      BY <2>2, <2>5, <3>1, <3>3 DEF Accurate, IsClone, IsEntry, st
    <3> QED
      BY <3>2, <3>3
  <2>8. AllAccurate'
    BY <1>1, <2>1, <2>5, <2>6, <2>7, Elsewhere
  <2>9. RepoTypes' /\ TakenUp' /\ PathsAsCloned' /\ ClonedAnew'
    BY <1>1, <2>1, <2>2, <2>5 DEF RepoTypes, TakenUp, PathsAsCloned, ClonedAnew
  <2> QED
    BY <2>8, <2>9
<1>16. ASSUME NEW r \in Repo, R!RemoveFails(r) PROVE RepoInv'
  <2> DEFINE st == known[r]
  <2> DEFINE underway == IF clone' = clone /\ entry' = entry THEN {} ELSE {r}
  <2>1. step = "removing" /\ r \in pending /\ cloning = None /\ R!Abandon(underway)
    BY <1>16 DEF R!RemoveFails, TakenUp
  <2>2. st \in RepoStates /\ (st.type = "git" => st.path = <<st.ref, r>>)
    BY <2>1 DEF TakenUp, RepoTypes, PathsAsCloned
  <2>3. st.ref \in Installer
    BY <2>2 DEF RepoStates
  <2>4. /\ clone' \in [RepoPlaces -> [url : Url, whole : BOOLEAN] \cup {None}]
        /\ \A i \in Installer, q \in Repo \ {r} : clone'[<<i, q>>] = clone[<<i, q>>]
    <3>1. CASE clone' = clone
      BY <3>1 DEF RepoTypes
    <3>2. CASE clone' # clone
      <4>1. /\ clone[<<st.ref, r>>] # None
            /\ clone' = [clone EXCEPT ![<<st.ref, r>>].whole = FALSE]
        BY <1>16, <2>2, <3>2 DEF R!RemoveFails
      <4> DEFINE c == [clone[<<st.ref, r>>] EXCEPT !.whole = FALSE]
      <4>2. clone[<<st.ref, r>>] \in [url : Url, whole : BOOLEAN]
        BY <2>3, <4>1 DEF RepoTypes, RepoPlaces
      <4>3. c \in [url : Url, whole : BOOLEAN]
        BY <4>2
      <4>4. clone' = [clone EXCEPT ![<<st.ref, r>>] = c]
        BY <4>1
      <4> HIDE DEF c, st
      <4>5. /\ clone' \in [RepoPlaces -> [url : Url, whole : BOOLEAN] \cup {None}]
            /\ \A k \in Installer, q \in Repo :
                  q # r \/ k # st.ref => clone'[<<k, q>>] = clone[<<k, q>>]
        BY <2>3, <4>3, <4>4, ClonePlace
      <4> QED
        BY <4>5
    <3> QED
      BY <3>1, <3>2
  <2>5. /\ entry' \in [RepoPlaces -> Url \cup {None}]
        /\ \A i \in Installer, q \in Repo \ {r} : entry'[<<i, q>>] = entry[<<i, q>>]
    <3>1. CASE entry' = entry
      BY <3>1 DEF RepoTypes
    <3>2. CASE entry' # entry
      <4>1. entry' = [entry EXCEPT ![<<st.ref, r>>] = None]
        BY <1>16, <3>2 DEF R!RemoveFails
      <4> HIDE DEF st
      <4>2. /\ entry' \in [RepoPlaces -> Url \cup {None}]
            /\ \A k \in Installer, q \in Repo :
                  q # r \/ k # st.ref => entry'[<<k, q>>] = entry[<<k, q>>]
        BY <2>3, <4>1, EntryPlace
      <4> QED
        BY <4>2
    <3> QED
      BY <3>1, <3>2
  <2>6. underway \subseteq Repo
        /\ \A q \in Repo \ underway, i \in Installer :
              clone'[<<i, q>>] = clone[<<i, q>>] /\ entry'[<<i, q>>] = entry[<<i, q>>]
    <3>1. CASE clone' = clone /\ entry' = entry
      BY <3>1
    <3>2. CASE ~(clone' = clone /\ entry' = entry)
      BY <2>4, <2>5, <3>2
    <3> QED
      BY <3>1, <3>2
  <2> HIDE DEF st, underway
  <2> QED
    BY <2>1, <2>4, <2>5, <2>6, AbandonRepos
<1>15. CASE UNCHANGED R!repoVars
  BY <1>15 DEF R!repoVars, RepoTypes, TakenUp, PathsAsCloned, AllAccurate, Accurate, ClonedAnew, IsClone, IsEntry
<1> QED
  BY <1>3, <1>4, <1>5, <1>6, <1>7, <1>8, <1>9, <1>10, <1>11, <1>12, <1>13, <1>14, <1>15, <1>16 DEF R!Next

\* For any repositories, installers, edits, failures and kills: after an apply that
\* succeeded, the clones and the installers' entries are those of state.json.
THEOREM RepositoriesAreRecorded == R!Spec => []ReposMatchState
<1>1. RepoInv => ReposMatchState
  <2> SUFFICES ASSUME RepoInv, step = "idle", NEW r \in Repo \ lost
               PROVE  LET st == recorded[r]
                      IN  IF st # None
                          THEN IF st.type = "git"
                               THEN st.path # None /\ clone[st.path] # None /\ clone[st.path].whole
                               ELSE entry[<<st.ref, r>>] # None
                          ELSE \A i \in Installer :
                                  /\ clone[<<i, r>>] = None
                                  /\ entry[<<i, r>>] = None \/ r \notin RepoRemovable
    BY DEF ReposMatchState, R!ReposMatchState
  <2>1. Accurate(r) /\ recorded = known /\ cloning = None
    BY DEF RepoInv, AllAccurate, TakenUp, RepoTypes
  <2>2. CASE known[r] = None
    <3>1. None \notin Repo
      BY RepositoryAssumption DEF R!RepoAssumption
    <3> QED
      BY <2>1, <2>2, <3>1 DEF Accurate, IsClone, IsEntry
  <2>3. CASE known[r] # None
    <3>1. known[r] \in RepoStates /\ (known[r].type = "git" => known[r].path = <<known[r].ref, r>>)
      BY <2>3 DEF RepoInv, RepoTypes, PathsAsCloned
    <3>2. known[r].ref \in Installer /\ known[r].type \in {"git", "delegation"}
      BY <3>1 DEF RepoStates
    <3>3. <<known[r].ref, r>> # None
      BY <3>2, RepositoryAssumption DEF R!RepoAssumption
    <3> QED
      BY <2>1, <2>3, <3>1, <3>2, <3>3 DEF Accurate, IsClone, IsEntry
  <2> QED
    BY <2>2, <2>3
<1> QED
  BY <1>1, RepoInit, RepoStep, RepositoryAssumption, PTL DEF R!Spec

(***************************************************************************)
(* Installs: what is proved of the parts holds of the whole.               *)
(***************************************************************************)
LEMMA RuntimesArePart == InstallsSpec => Spec
<1>1. InstallsInit => Init
  BY DEF InstallsInit
<1>2. ASSUME [InstallsNext]_<<explored, vars, repositoryVars>> PROVE [Next]_vars
  BY <1>2 DEF InstallsNext
<1> QED
  BY <1>1, <1>2, PTL DEF InstallsSpec, Spec

LEMMA RepositoriesArePart == InstallsSpec => R!Spec
<1>1. InstallsInit => R!Init
  BY DEF InstallsInit
<1>2. ASSUME [InstallsNext]_<<explored, vars, repositoryVars>> PROVE [R!Next]_(R!repoVars)
  BY <1>2 DEF InstallsNext, repositoryVars, R!repoVars
<1> QED
  BY <1>1, <1>2, PTL DEF InstallsSpec, R!Spec

================================================================================
