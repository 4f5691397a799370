------------------------------ MODULE ApplyProofs ------------------------------
(***************************************************************************)
(* Proofs about what comes before the engine and what comes after it:      *)
(* Manifests, from the paths to the resources that a command accepts, and  *)
(* ApplyReport, with the view and the logs of an apply.                    *)
(***************************************************************************)
EXTENDS Manifests, ApplyReport, FiniteSetTheorems, TLAPS

(***************************************************************************)
(* Manifests: the signatures of imported modules.  A module is remembered  *)
(* as verified only when its dependencies are handed over.                 *)
(***************************************************************************)
DirDeps(d) == FirstPartyDeps(ModuleIn[d])

RememberedHanded == \A d \in verifiedDirs : DirDeps(d) \subseteq handed

\* Where package files are about to be evaluated.
DepsHanded ==
    (phase = "evaluate" /\ ByInstances(path) /\ ~VerificationOff) => DepsOf(path) \subseteq handed

ImportsInv == RememberedHanded /\ DepsHanded /\ ImportsChecked

\* Before evaluating, the loader has handed over what is imported.
LEMMA VerifiedFirst ==
    ASSUME ImportsInv, VerifyModuleDeps
    PROVE  ImportsInv'
<1> DEFINE d == FindCueModDir[DirOfPath(path)]
<1>1. /\ phase' = "evaluate" /\ path' = path /\ command' = command /\ evaluated' = evaluated
      /\ handed \subseteq handed'
  BY DEF VerifyModuleDeps
<1>2. VerificationOff' <=> VerificationOff
  BY <1>1 DEF VerificationOff, HasVerifier
<1>3. CASE VerificationOff \/ ~InModule(path) \/ Verified(d)
  <2>1. UNCHANGED <<verifiedDirs, handed, proven>>
    BY <1>3 DEF VerifyModuleDeps
  <2>2. ~VerificationOff => DepsOf(path) \subseteq handed
    BY <1>3 DEF ImportsInv, RememberedHanded, Verified, DepsOf, DirDeps, ModuleOf
  <2> QED
    BY <1>1, <1>2, <2>1, <2>2 DEF ImportsInv, RememberedHanded, DepsHanded, ImportsChecked, DepsOf, InModule,
       ModuleOf, DirOfPath
<1>4. CASE ~(VerificationOff \/ ~InModule(path) \/ Verified(d))
  <2>1. PICK reachable \in BOOLEAN :
          /\ verifiedDirs' = verifiedDirs \cup {d}
          /\ handed' = handed \cup DepsOf(path)
          /\ proven' = proven \cup {m \in DepsOf(path) : VerifyOne(m, reachable)}
    BY <1>4 DEF VerifyModuleDeps
  <2>2. DepsOf(path) = DirDeps(d)
    BY <1>4 DEF DepsOf, DirDeps, ModuleOf
  <2>3. RememberedHanded'
    BY <2>1, <2>2 DEF ImportsInv, RememberedHanded, DirDeps
  <2>4. DepsHanded'
    BY <1>1, <2>1 DEF DepsHanded, DepsOf, InModule, ModuleOf, DirOfPath
  <2>5. ASSUME NEW m \in DepsOf(path), VerifyOne(m, reachable)
        PROVE  \E l \in Registry[m].layers :
                   l.by = "tomei" /\ l.whole /\ (l.form = "cosign" => (l.covers /\ l.names = Registry[m].digest))
    BY <2>5 DEF VerifyOne, Signatures, VerifySigstoreBundle, VerifySimpleSigningBinding
  <2>6. ImportsChecked'
    BY <1>1, <1>2, <2>1, <2>5 DEF ImportsInv, ImportsChecked
  <2> QED
    BY <2>3, <2>4, <2>6 DEF ImportsInv
<1> QED
  BY <1>3, <1>4

\* What is evaluated was looked at just before.
LEMMA EvaluatedAfter ==
    ASSUME ImportsInv, Evaluate
    PROVE  ImportsInv'
<1>1. /\ evaluated' = evaluated \cup {[dir |-> DirOfPath(path), files |-> Taking(path, machine), instances |-> ByInstances(path)]}
      /\ phase = "evaluate" /\ phase' = "open"
      /\ UNCHANGED <<command, verifiedDirs, handed, proven>>
  BY DEF Evaluate
<1>2. VerificationOff' <=> VerificationOff
  BY <1>1 DEF VerificationOff, HasVerifier
<1>3. (ByInstances(path) /\ ~VerificationOff) =>
        \/ FindCueModDir[DirOfPath(path)] = ""
        \/ FirstPartyDeps(ModuleIn[FindCueModDir[DirOfPath(path)]]) \subseteq handed
  BY <1>1 DEF ImportsInv, DepsHanded, DepsOf, InModule, ModuleOf
<1>4. RememberedHanded' /\ DepsHanded'
  BY <1>1 DEF ImportsInv, RememberedHanded, DepsHanded
<1>5. ASSUME ~VerificationOff, NEW e \in evaluated', e.instances
      PROVE  \/ FindCueModDir[e.dir] = ""
             \/ FirstPartyDeps(ModuleIn[FindCueModDir[e.dir]]) \subseteq handed
  <2>1. CASE e \in evaluated
    BY <1>5, <2>1 DEF ImportsInv, ImportsChecked
  <2>2. CASE e = [dir |-> DirOfPath(path), files |-> Taking(path, machine), instances |-> ByInstances(path)]
    BY <1>3, <1>5, <2>2
  <2> QED
    BY <1>1, <2>1, <2>2
<1>6. \A d \in proven' : \E l \in Registry[d].layers :
          l.by = "tomei" /\ l.whole /\ (l.form = "cosign" => (l.covers /\ l.names = Registry[d].digest))
  BY <1>1 DEF ImportsInv, ImportsChecked
<1>7. ImportsChecked'
  BY <1>1, <1>2, <1>5, <1>6 DEF ImportsChecked
<1> QED
  BY <1>4, <1>7 DEF ImportsInv

\* No import of a package is evaluated before its signature was asked for.
LEMMA ImportsStep ==
    ASSUME ImportsInv, [ManifestsNext]_manifestsVars
    PROVE  ImportsInv'
<1>1. CASE VerifyModuleDeps
  BY <1>1, VerifiedFirst
<1>2. CASE Evaluate
  BY <1>2, EvaluatedAfter
<1>3. CASE NextCommand
  <2>1. phase' = "open" /\ verifiedDirs' = {} /\ handed' = {} /\ proven' = {} /\ evaluated' = {}
    BY <1>3 DEF NextCommand, NewLoader
  <2> QED
    BY <2>1 DEF ImportsInv, RememberedHanded, DepsHanded, ImportsChecked
<1>4. CASE OpenPath
  <2>1. UNCHANGED <<command, verifiedDirs, handed, proven, evaluated>>
    BY <1>4 DEF OpenPath
  <2>2. phase' = "evaluate" => ~ByInstances(path')
    BY <1>4 DEF OpenPath
  <2>3. VerificationOff' <=> VerificationOff
    BY <2>1 DEF VerificationOff, HasVerifier
  <2> QED
    BY <2>1, <2>2, <2>3 DEF ImportsInv, RememberedHanded, DepsHanded, ImportsChecked, ByInstances
<1>5. ASSUME NEW ok, End(ok) PROVE ImportsInv'
  <2>1. phase' = "idle" /\ UNCHANGED <<command, verifiedDirs, handed, proven, evaluated>>
    BY <1>5 DEF End, loader
  <2>2. VerificationOff' <=> VerificationOff
    BY <2>1 DEF VerificationOff, HasVerifier
  <2> QED
    BY <2>1, <2>2 DEF ImportsInv, RememberedHanded, DepsHanded, ImportsChecked
<1>6. CASE PathMissing \/ BrokenModule \/ EvaluationFails
  BY <1>5, <1>6 DEF PathMissing, BrokenModule, EvaluationFails, Fail
<1>7. CASE Decide
  BY <1>5, <1>7 DEF Decide
<1>8. CASE UNCHANGED manifestsVars
  <2>1. UNCHANGED <<command, path, phase, verifiedDirs, handed, proven, evaluated>>
    BY <1>8 DEF manifestsVars, loader
  <2>2. VerificationOff' <=> VerificationOff
    BY <2>1 DEF VerificationOff, HasVerifier
  <2> QED
    BY <2>1, <2>2 DEF ImportsInv, RememberedHanded, DepsHanded, ImportsChecked, ByInstances, DepsOf, InModule,
       ModuleOf, DirOfPath
<1> QED
  BY <1>1, <1>2, <1>3, <1>4, <1>6, <1>7, <1>8 DEF ManifestsNext

\* For any disk, any paths and any registry: what apply and plan evaluate has
\* had its first-party imports handed to the verifier, whatever the loader
\* remembers of earlier paths, and none is found signed but by a signature of
\* tomei's.
THEOREM ImportsAreChecked == ManifestsSpec => []ImportsChecked
<1>1. ManifestsInit => ImportsInv
  BY DEF ManifestsInit, ImportsInv, RememberedHanded, DepsHanded, ImportsChecked
<1>2. ImportsInv /\ [ManifestsNext]_manifestsVars => ImportsInv'
  BY ImportsStep
<1>3. ImportsInv => ImportsChecked
  BY DEF ImportsInv
<1> QED
  BY <1>1, <1>2, <1>3, PTL DEF ManifestsSpec

(***************************************************************************)
(* Manifests: what a list of paths amounts to, in any order.               *)
(***************************************************************************)
AnyResource == {ValueAt(v) : v \in ValuesOf(File)}

LEMMA SeqOfSet ==
    ASSUME NEW S, IsFiniteSet(S)
    PROVE  Cardinality(S) \in Nat /\ SetToSeq(S) \in [1 .. Cardinality(S) -> S]
<1>1. Cardinality(S) \in Nat /\ ExistsBijection(1 .. Cardinality(S), S)
  BY FS_CardinalityType
<1>2. \E f \in [1 .. Cardinality(S) -> S] : IsInjective(f)
  BY <1>1 DEF ExistsBijection, Bijection, Injection
<1> QED
  BY <1>1, <1>2 DEF SetToSeq

\* What is parsed is a sequence of resources.
LEMMA Parsed ==
    ASSUME NEW p, NEW m
    PROVE  ParseResources(p, m) \in Seq(AnyResource)
<1>1. Found(p, m) \subseteq ValuesOf(File)
  <2>1. Taking(p, m) \subseteq File
    BY DEF Taking, Included, CueFiles
  <2> QED
    BY <2>1 DEF Found, Values, ValuesOf
<1>2. IsFiniteSet(Found(p, m))
  BY <1>1, ManifestsAssumption, FS_Subset DEF ManifestsAssumption
<1> DEFINE found == SetToSeq(Found(p, m))
<1>3. Cardinality(Found(p, m)) \in Nat /\ found \in [1 .. Cardinality(Found(p, m)) -> Found(p, m)]
  BY <1>2, SeqOfSet
<1> HIDE DEF found
<1>4. [i \in DOMAIN found |-> ValueAt(found[i])] \in [1 .. Cardinality(Found(p, m)) -> AnyResource]
  BY <1>1, <1>3 DEF AnyResource
<1> QED
  BY <1>3, <1>4 DEF ParseResources, found

\* A set meets another resource: one of its members has the name of it, or of
\* one of its members.
Hit(r, q) ==
    /\ IsSet(r)
    /\ \E t \in Members(r) :
          IF IsSet(q) THEN \E u \in Members(q) : Id(u) = Id(t) ELSE IsEnabled(q) /\ Id(q) = Id(t)

Clash(s) == \E i, j \in DOMAIN s : i # j /\ Hit(s[i], s[j])

\* The order in which sets are expanded does not decide whether names conflict.
LEMMA ConflictIsClash ==
    ASSUME NEW s \in Seq(AnyResource)
    PROVE  ExpandConflicts(s) <=> Clash(s)
<1>1. ASSUME NEW i \in DOMAIN s, IsSet(s[i]), NEW t \in Members(s[i]), Id(t) \in Taken(s, i)
      PROVE  Clash(s)
  <2>1. CASE Id(t) \in Standalone(s, i)
    <3>1. PICK j \in DOMAIN s : ~IsSet(s[j]) /\ IsEnabled(s[j]) /\ Id(s[j]) = Id(t)
      BY <2>1 DEF Standalone
    <3> QED
      BY <1>1, <3>1 DEF Clash, Hit
  <2>2. CASE Id(t) \notin Standalone(s, i)
    <3>1. PICK j \in DOMAIN s : j < i /\ IsSet(s[j]) /\ \E u \in Members(s[j]) : Id(u) = Id(t)
      BY <1>1, <2>2 DEF Taken
    <3>2. j # i
      BY <3>1
    <3> QED
      BY <1>1, <3>1, <3>2 DEF Clash, Hit
  <2> QED
    BY <2>1, <2>2
<1>2. ASSUME NEW i \in DOMAIN s, NEW j \in DOMAIN s, i # j, Hit(s[i], s[j])
      PROVE  ExpandConflicts(s)
  <2>1. PICK t \in Members(s[i]) :
            IF IsSet(s[j]) THEN \E u \in Members(s[j]) : Id(u) = Id(t) ELSE IsEnabled(s[j]) /\ Id(s[j]) = Id(t)
    BY <1>2 DEF Hit
  <2>2. IsSet(s[i])
    BY <1>2 DEF Hit
  <2>3. CASE ~IsSet(s[j])
    <3>1. Id(t) \in Standalone(s, i)
      BY <2>1, <2>3 DEF Standalone
    <3> QED
      BY <2>2, <3>1 DEF ExpandConflicts, Taken
  <2>4. CASE IsSet(s[j]) /\ j < i
    <3>1. Id(t) \in Taken(s, i)
      BY <2>1, <2>4 DEF Taken
    <3> QED
      BY <2>2, <3>1 DEF ExpandConflicts
  <2>5. CASE IsSet(s[j]) /\ i < j
    <3>1. PICK u \in Members(s[j]) : Id(u) = Id(t)
      BY <2>1, <2>5
    <3>2. Id(u) \in Taken(s, j)
      BY <2>2, <2>5, <3>1 DEF Taken
    <3> QED
      BY <2>5, <3>2 DEF ExpandConflicts
  <2> QED
    BY <1>2, <2>3, <2>4, <2>5
<1> QED
  BY <1>1, <1>2 DEF ExpandConflicts, Clash

Meets(s, t) == \E i \in DOMAIN s, j \in DOMAIN t : Hit(s[i], t[j]) \/ Hit(t[j], s[i])

LEMMA ClashOfTwo ==
    ASSUME NEW s \in Seq(AnyResource), NEW t \in Seq(AnyResource)
    PROVE  /\ Clash(s \o t) <=> (Clash(s) \/ Clash(t) \/ Meets(s, t))
           /\ ToSet(s \o t) = ToSet(s) \cup ToSet(t)
<1> DEFINE w == s \o t
<1>1. /\ \A i \in DOMAIN s : i \in DOMAIN w /\ w[i] = s[i]
      /\ \A j \in DOMAIN t : Len(s) + j \in DOMAIN w /\ w[Len(s) + j] = t[j]
      /\ \A k \in DOMAIN w : k \in DOMAIN s \/ (k - Len(s) \in DOMAIN t /\ Len(s) + (k - Len(s)) = k)
      /\ \A i \in DOMAIN s, j \in DOMAIN t : i # Len(s) + j
      /\ \A i, j \in DOMAIN t : i # j => Len(s) + i # Len(s) + j
  OBVIOUS
<1>2. ToSet(w) = ToSet(s) \cup ToSet(t)
  <2>1. ToSet(w) \subseteq ToSet(s) \cup ToSet(t)
    <3> SUFFICES ASSUME NEW k \in DOMAIN w PROVE w[k] \in ToSet(s) \cup ToSet(t)
      BY DEF ToSet
    <3> HIDE DEF w
    <3> QED
      BY <1>1 DEF ToSet
  <2> HIDE DEF w
  <2>2. ToSet(s) \subseteq ToSet(w) /\ ToSet(t) \subseteq ToSet(w)
    BY <1>1 DEF ToSet
  <2> QED
    BY <2>1, <2>2
<1> HIDE DEF w
<1>3. (Clash(s) \/ Clash(t) \/ Meets(s, t)) => Clash(w)
  <2>1. Clash(s) => Clash(w)
    BY <1>1 DEF Clash
  <2>2. ASSUME Clash(t) PROVE Clash(w)
    <3>1. PICK i, j \in DOMAIN t : i # j /\ Hit(t[i], t[j])
      BY <2>2 DEF Clash
    <3>2. Len(s) + i \in DOMAIN w /\ Len(s) + j \in DOMAIN w /\ Len(s) + i # Len(s) + j
      BY <1>1, <3>1
    <3>3. Hit(w[Len(s) + i], w[Len(s) + j])
      BY <1>1, <3>1
    <3> QED
      BY <3>2, <3>3 DEF Clash
  <2>3. ASSUME Meets(s, t) PROVE Clash(w)
    <3>1. PICK i \in DOMAIN s, j \in DOMAIN t : Hit(s[i], t[j]) \/ Hit(t[j], s[i])
      BY <2>3 DEF Meets
    <3>2. i \in DOMAIN w /\ Len(s) + j \in DOMAIN w /\ i # Len(s) + j
      BY <1>1
    <3>3. w[i] = s[i] /\ w[Len(s) + j] = t[j]
      BY <1>1
    <3> QED
      BY <3>1, <3>2, <3>3 DEF Clash
  <2> QED
    BY <2>1, <2>2, <2>3
<1>4. ASSUME Clash(w) PROVE Clash(s) \/ Clash(t) \/ Meets(s, t)
  <2>1. PICK i, j \in DOMAIN w : i # j /\ Hit(w[i], w[j])
    BY <1>4 DEF Clash
  <2>2. CASE i \in DOMAIN s /\ j \in DOMAIN s
    BY <1>1, <2>1, <2>2 DEF Clash
  <2>3. CASE i \in DOMAIN s /\ j \notin DOMAIN s
    <3>1. w[i] = s[i] /\ j - Len(s) \in DOMAIN t /\ w[j] = t[j - Len(s)]
      BY <1>1, <2>3
    <3> QED
      BY <2>1, <2>3, <3>1 DEF Meets
  <2>4. CASE i \notin DOMAIN s /\ j \in DOMAIN s
    <3>1. w[j] = s[j] /\ i - Len(s) \in DOMAIN t /\ w[i] = t[i - Len(s)]
      BY <1>1, <2>4
    <3> QED
      BY <2>1, <2>4, <3>1 DEF Meets
  <2>5. CASE i \notin DOMAIN s /\ j \notin DOMAIN s
    <3>1. /\ i - Len(s) \in DOMAIN t /\ w[i] = t[i - Len(s)]
          /\ j - Len(s) \in DOMAIN t /\ w[j] = t[j - Len(s)]
          /\ i = Len(s) + (i - Len(s)) /\ j = Len(s) + (j - Len(s))
      BY <1>1, <2>5
    <3>2. i - Len(s) # j - Len(s)
      BY <2>1, <3>1
    <3>3. Hit(t[i - Len(s)], t[j - Len(s)])
      BY <2>1, <3>1
    <3> QED
      BY <3>1, <3>2, <3>3 DEF Clash
  <2> QED
    BY <2>2, <2>3, <2>4, <2>5
<1> QED
  BY <1>2, <1>3, <1>4 DEF w

\* What command c reads at p, and whether it can.
Out(m, c, p) == IF c.name = "eval" \/ CueFiles(p) = {} THEN <<>> ELSE ParseResources(p, m)

Loads(m, c, p) ==
    /\ p \in Dir \cup File
    /\ CueFiles(p) = {} \/ (~DoesNotLoad(p, m) /\ (c.name = "eval" \/ ~ParseFails(p, m)))

LEMMA OutIsSeq ==
    ASSUME NEW m, NEW c, NEW p
    PROVE  Out(m, c, p) \in Seq(AnyResource)
<1>1. ParseResources(p, m) \in Seq(AnyResource)
  BY Parsed
<1>2. <<>> \in Seq(AnyResource)
  OBVIOUS
<1> QED
  BY <1>1, <1>2 DEF Out

\* What the first n paths of a amount to: that they load, which resources they
\* give, whether names conflict in them, and whether there is anything.
AllLoad(m, c, a, n) == \A k \in 1 .. n : Loads(m, c, a[k])

Read(m, c, a, n) == UNION {ToSet(Out(m, c, a[k])) : k \in 1 .. n}

Clashing(m, c, a, n) ==
    \/ \E k \in 1 .. n : Clash(Out(m, c, a[k]))
    \/ \E k, l \in 1 .. n : k # l /\ Meets(Out(m, c, a[k]), Out(m, c, a[l]))

Something(a, n) == \E k \in 1 .. n : CueFiles(a[k]) # {}

\* A path that gives nothing changes nothing.
LEMMA NothingMore ==
    ASSUME NEW m, NEW c, NEW a, NEW n \in Nat, Out(m, c, a[n + 1]) = <<>>
    PROVE  /\ Read(m, c, a, n + 1) = Read(m, c, a, n)
           /\ Clashing(m, c, a, n + 1) <=> Clashing(m, c, a, n)
<1>1. 1 .. (n + 1) = (1 .. n) \cup {n + 1}
  OBVIOUS
<1>2. ToSet(<<>>) = {} /\ ~Clash(<<>>)
  BY DEF ToSet, Clash
<1>3. \A s : ~Meets(<<>>, s) /\ ~Meets(s, <<>>)
  BY DEF Meets
<1>4. Read(m, c, a, n + 1) = Read(m, c, a, n)
  <2>1. Read(m, c, a, n + 1) = Read(m, c, a, n) \cup ToSet(Out(m, c, a[n + 1]))
    BY <1>1 DEF Read
  <2> QED
    BY <1>2, <2>1
<1>5. Clashing(m, c, a, n + 1) => Clashing(m, c, a, n)
  BY <1>1, <1>2, <1>3 DEF Clashing
<1>6. Clashing(m, c, a, n) => Clashing(m, c, a, n + 1)
  BY <1>1 DEF Clashing
<1> QED
  BY <1>4, <1>5, <1>6

\* One more path: its resources, and the conflicts in it and with those before.
LEMMA OneMore ==
    ASSUME NEW m, NEW c, NEW a, NEW n \in Nat
    PROVE  /\ Read(m, c, a, n + 1) = Read(m, c, a, n) \cup ToSet(Out(m, c, a[n + 1]))
           /\ Clashing(m, c, a, n + 1) <=>
                 \/ Clashing(m, c, a, n)
                 \/ Clash(Out(m, c, a[n + 1]))
                 \/ \E k \in 1 .. n : Meets(Out(m, c, a[k]), Out(m, c, a[n + 1]))
<1>1. 1 .. (n + 1) = (1 .. n) \cup {n + 1} /\ n + 1 \notin 1 .. n
  OBVIOUS
<1>2. \A s, t : Meets(s, t) <=> Meets(t, s)
  BY DEF Meets
<1>3. Read(m, c, a, n + 1) = Read(m, c, a, n) \cup ToSet(Out(m, c, a[n + 1]))
  BY <1>1 DEF Read
<1>4. ASSUME Clashing(m, c, a, n + 1)
      PROVE  \/ Clashing(m, c, a, n)
             \/ Clash(Out(m, c, a[n + 1]))
             \/ \E k \in 1 .. n : Meets(Out(m, c, a[k]), Out(m, c, a[n + 1]))
  <2>1. CASE \E k \in 1 .. (n + 1) : Clash(Out(m, c, a[k]))
    BY <1>1, <2>1 DEF Clashing
  <2>2. ASSUME NEW k \in 1 .. (n + 1), NEW l \in 1 .. (n + 1), k # l, Meets(Out(m, c, a[k]), Out(m, c, a[l]))
        PROVE  \/ Clashing(m, c, a, n)
               \/ \E i \in 1 .. n : Meets(Out(m, c, a[i]), Out(m, c, a[n + 1]))
    <3>1. CASE k = n + 1
      BY <1>1, <1>2, <2>2, <3>1
    <3>2. CASE l = n + 1
      BY <1>1, <2>2, <3>2
    <3>3. CASE k # n + 1 /\ l # n + 1
      BY <1>1, <2>2, <3>3 DEF Clashing
    <3> QED
      BY <3>1, <3>2, <3>3
  <2> QED
    BY <1>4, <2>1, <2>2 DEF Clashing
<1>5. Clashing(m, c, a, n) => Clashing(m, c, a, n + 1)
  BY <1>1 DEF Clashing
<1>6. Clash(Out(m, c, a[n + 1])) => Clashing(m, c, a, n + 1)
  BY <1>1 DEF Clashing
<1>7. (\E k \in 1 .. n : Meets(Out(m, c, a[k]), Out(m, c, a[n + 1]))) => Clashing(m, c, a, n + 1)
  BY <1>1 DEF Clashing
<1> QED
  BY <1>3, <1>4, <1>5, <1>6, <1>7

\* What has been read so far meets a path exactly when one of the paths does.
LEMMA MeetsOne ==
    ASSUME NEW m, NEW c, NEW a, NEW n \in Nat, NEW s, NEW t, ToSet(s) = Read(m, c, a, n)
    PROVE  Meets(s, t) <=> \E k \in 1 .. n : Meets(Out(m, c, a[k]), t)
<1>1. ASSUME Meets(s, t) PROVE \E k \in 1 .. n : Meets(Out(m, c, a[k]), t)
  <2>1. PICK i \in DOMAIN s, j \in DOMAIN t : Hit(s[i], t[j]) \/ Hit(t[j], s[i])
    BY <1>1 DEF Meets
  <2>2. s[i] \in Read(m, c, a, n)
    BY DEF ToSet
  <2>3. PICK k \in 1 .. n : s[i] \in ToSet(Out(m, c, a[k]))
    BY <2>2 DEF Read
  <2>4. PICK h \in DOMAIN Out(m, c, a[k]) : Out(m, c, a[k])[h] = s[i]
    BY <2>3 DEF ToSet
  <2> QED
    BY <2>1, <2>4 DEF Meets
<1>2. ASSUME NEW k \in 1 .. n, Meets(Out(m, c, a[k]), t) PROVE Meets(s, t)
  <2>1. PICK h \in DOMAIN Out(m, c, a[k]), j \in DOMAIN t :
            Hit(Out(m, c, a[k])[h], t[j]) \/ Hit(t[j], Out(m, c, a[k])[h])
    BY <1>2 DEF Meets
  <2>2. Out(m, c, a[k])[h] \in ToSet(s)
    BY DEF ToSet, Read
  <2>3. PICK i \in DOMAIN s : s[i] = Out(m, c, a[k])[h]
    BY <2>2 DEF ToSet
  <2> QED
    BY <2>1, <2>3 DEF Meets
<1> QED
  BY <1>1, <1>2

Opened == Len(args) - Len(todo)

ReadSoFar(n) ==
    /\ AllLoad(machine, command, args, n)
    /\ ToSet(loaded) = Read(machine, command, args, n)
    /\ Clash(loaded) <=> Clashing(machine, command, args, n)
    /\ values > 0 <=> Something(args, n)

LoadTypes ==
    /\ args \in Seq(STRING) /\ todo \in Seq(STRING)
    /\ loaded \in Seq(AnyResource) /\ values \in Nat
    /\ phase \in {"idle", "open", "verify", "evaluate"}

\* Where the loader is in its arguments.
LoadPlace ==
    /\ Len(todo) <= Len(args)
    /\ \A i \in 1 .. Len(todo) : todo[i] = args[Opened + i]
    /\ phase \in {"verify", "evaluate"} =>
          Opened >= 1 /\ path = args[Opened] /\ CueFiles(path) # {} /\ path \in Dir \cup File
    /\ phase = "verify" => ByInstances(path)

LoadRead ==
    /\ phase = "open" => ReadSoFar(Opened)
    /\ phase \in {"verify", "evaluate"} => ReadSoFar(Opened - 1)

\* The tools and the other resources that are enabled.
Expanded(resources) == UNION {IF IsSet(r) THEN Members(r) ELSE {r} : r \in {q \in resources : IsEnabled(q)}}

\* What a command says, from the set of what was read.
Accepted(c, resources, clash, some) ==
    CASE c.name = "validate" ->
            ~clash /\ (\A r \in Expanded(resources) : r.valid) /\ ~Cyclic(Expanded(resources))
      [] c.name = "plan" ->
            resources # {} => (~clash /\ ~Cyclic(AppendBuiltinInstallers(Expanded(resources))))
      [] c.name = "apply" ->
            /\ ~clash /\ ~Cyclic(AppendBuiltinInstallers(Expanded(resources)))
            /\ \A r \in Expanded(resources) : r.kind = "Installer" => r.valid
      [] OTHER -> some

Good(m, c, a) ==
    /\ AllLoad(m, c, a, Len(a))
    /\ Accepted(c, Read(m, c, a, Len(a)), Clashing(m, c, a, Len(a)), Something(a, Len(a)))

\* How a command ended is what its arguments amount to.
Right(m, d) ==
    /\ d.args \in Seq(STRING) /\ d.ok \in BOOLEAN
    /\ d.ok <=> Good(m, d.command, d.args)
    /\ d.resources = IF d.ok /\ d.command.name # "eval"
                     THEN Expanded(Read(m, d.command, d.args, Len(d.args)))
                     ELSE {}
    /\ \A r \in d.resources : ~Redefined(r, d.resources) => r \in d.kept

LoadInv == LoadTypes /\ LoadPlace /\ LoadRead /\ \A d \in done : Right(machine, d)

\* A command accepts by the set it has read, its conflicts and nothing else.
LEMMA AcceptsBySet ==
    ASSUME loaded \in Seq(AnyResource), NEW clash \in BOOLEAN, Clash(loaded) <=> clash,
           NEW some \in BOOLEAN, values > 0 <=> some
    PROVE  /\ Accepts(loaded) \in BOOLEAN
           /\ Accepts(loaded) <=> Accepted(command, ToSet(loaded), clash, some)
           /\ ExpandSets(loaded) = Expanded(ToSet(loaded))
<1>1. ExpandConflicts(loaded) <=> clash
  BY ConflictIsClash
<1>2. ExpandSets(loaded) = Expanded(ToSet(loaded))
  BY DEF ExpandSets, Expanded, Live
<1>3. loaded # <<>> <=> ToSet(loaded) # {}
  BY DEF ToSet
<1> DEFINE X == ExpandSets(loaded)
<1> HIDE DEF X
<1>4. RunValidate(loaded) <=> (~clash /\ (\A r \in X : r.valid) /\ ~Cyclic(X))
  BY <1>1 DEF RunValidate, X
<1>5. ResolvePlan(loaded) <=> (ToSet(loaded) # {} => (~clash /\ ~Cyclic(AppendBuiltinInstallers(X))))
  BY <1>1, <1>3 DEF ResolvePlan, X
<1>6. RunUserApply(loaded) <=>
        (~clash /\ ~Cyclic(AppendBuiltinInstallers(X)) /\ \A r \in X : r.kind = "Installer" => r.valid)
  BY <1>1 DEF RunUserApply, X
<1>7. Expanded(ToSet(loaded)) = X
  BY <1>2 DEF X
<1>8. /\ RunValidate(loaded) \in BOOLEAN /\ ResolvePlan(loaded) \in BOOLEAN /\ RunUserApply(loaded) \in BOOLEAN
      /\ (values > 0) \in BOOLEAN
  BY DEF RunValidate, ResolvePlan, RunUserApply
<1>9. Accepts(loaded) <=> Accepted(command, ToSet(loaded), clash, some)
  <2>1. CASE command.name = "validate"
    BY <1>4, <1>7, <2>1 DEF Accepts, Accepted
  <2>2. CASE command.name = "plan"
    BY <1>5, <1>7, <2>2 DEF Accepts, Accepted
  <2>3. CASE command.name = "apply"
    BY <1>6, <1>7, <2>3 DEF Accepts, Accepted
  <2>4. CASE command.name \notin {"validate", "plan", "apply"}
    BY <2>4 DEF Accepts, Accepted
  <2> QED
    BY <2>1, <2>2, <2>3, <2>4
<1>10. Accepts(loaded) \in BOOLEAN
  BY <1>8 DEF Accepts
<1> QED
  BY <1>2, <1>9, <1>10

\* Of an id with one definition that definition is kept.
LEMMA OnlyOneIsKept ==
    ASSUME NEW resources \in Seq(AnyResource), NEW r \in ExpandSets(resources),
           ~Redefined(r, ExpandSets(resources))
    PROVE  r \in BuildResourceMap(resources)
<1>1. ASSUME NEW i \in DOMAIN resources, ~IsSet(resources[i]), IsEnabled(resources[i]), Id(resources[i]) = Id(r)
      PROVE  resources[i] = r
  <2>1. resources[i] \in Live(resources)
    BY <1>1 DEF Live, ToSet
  <2>2. resources[i] \in ExpandSets(resources)
    BY <1>1, <2>1 DEF ExpandSets
  <2> QED
    BY <1>1, <2>2 DEF Redefined
<1>2. \A i \in DOMAIN resources : i >= i
  OBVIOUS
<1> QED
  BY <1>1, <1>2 DEF BuildResourceMap

\* The end of a command is recorded as it should be.
LEMMA EndedRight ==
    ASSUME LoadInv, NEW ok \in BOOLEAN, End(ok),
           ok <=> Good(machine, command, args),
           ok => ExpandSets(loaded) = Expanded(Read(machine, command, args, Len(args)))
    PROVE  LoadInv'
<1> DEFINE d == [command |-> command, args |-> args, ok |-> ok,
                 resources |-> IF ok /\ command.name # "eval" THEN ExpandSets(loaded) ELSE {},
                 kept |-> IF ok /\ command.name # "eval" THEN BuildResourceMap(loaded) ELSE {}]
<1>1. phase' = "idle" /\ done' = done \cup {d} /\ UNCHANGED <<machine, args, todo, loaded, values>>
  BY DEF End, loader
<1>2. /\ d.command = command /\ d.args = args /\ d.ok = ok
      /\ d.resources = IF ok /\ command.name # "eval" THEN ExpandSets(loaded) ELSE {}
      /\ d.kept = IF ok /\ command.name # "eval" THEN BuildResourceMap(loaded) ELSE {}
  OBVIOUS
<1> HIDE DEF d
<1>6. \A r \in d.resources : ~Redefined(r, d.resources) => r \in d.kept
  BY <1>2, OnlyOneIsKept DEF LoadInv, LoadTypes
<1>3. Right(machine, d)
  BY <1>2, <1>6 DEF Right, LoadInv, LoadTypes
<1>4. \A e \in done' : Right(machine, e)
  BY <1>1, <1>3 DEF LoadInv
<1>5. LoadTypes' /\ LoadPlace' /\ LoadRead'
  BY <1>1 DEF LoadInv, LoadTypes, LoadPlace, LoadRead, Opened
<1> QED
  BY <1>1, <1>4, <1>5 DEF LoadInv

\* A command that cannot go on has a path that does not load.
LEMMA FailedRight ==
    ASSUME LoadInv, PathMissing \/ BrokenModule \/ EvaluationFails
    PROVE  LoadInv'
<1>1. \E k \in 1 .. Len(args) : ~Loads(machine, command, args[k])
  <2>1. CASE PathMissing
    <3>1. todo # <<>> /\ Head(todo) \notin Dir \cup File
      BY <2>1 DEF PathMissing
    <3>2. 1 \in 1 .. Len(todo) /\ Head(todo) = todo[1] /\ Opened + 1 \in 1 .. Len(args)
      BY <3>1 DEF LoadInv, LoadTypes, LoadPlace, Opened
    <3> QED
      BY <3>1, <3>2 DEF LoadInv, LoadPlace, Loads
  <2>2. CASE BrokenModule
    <3>1. phase = "verify" /\ DoesNotLoad(path, machine)
      BY <2>2 DEF BrokenModule, DoesNotLoad, LoadInv, LoadPlace
    <3>2. Opened \in 1 .. Len(args) /\ path = args[Opened] /\ CueFiles(path) # {}
      BY <3>1 DEF LoadInv, LoadTypes, LoadPlace, Opened
    <3> QED
      BY <3>1, <3>2 DEF Loads
  <2>3. CASE EvaluationFails
    <3>1. phase = "evaluate" /\ (DoesNotLoad(path, machine) \/ (command.name # "eval" /\ ParseFails(path, machine)))
      BY <2>3 DEF EvaluationFails, DoesNotParse
    <3>2. Opened \in 1 .. Len(args) /\ path = args[Opened] /\ CueFiles(path) # {}
      BY <3>1 DEF LoadInv, LoadTypes, LoadPlace, Opened
    <3> QED
      BY <3>1, <3>2 DEF Loads
  <2> QED
    BY <2>1, <2>2, <2>3
<1>2. ~Good(machine, command, args)
  BY <1>1 DEF Good, AllLoad
<1>3. End(FALSE)
  BY DEF PathMissing, BrokenModule, EvaluationFails, Fail
<1> QED
  BY <1>2, <1>3, EndedRight

LEMMA DecidedRight ==
    ASSUME LoadInv, Decide
    PROVE  LoadInv'
<1> DEFINE n == Len(args)
<1>1. phase = "open" /\ Opened = n /\ End(Accepts(loaded))
  BY DEF Decide, LoadInv, LoadTypes, Opened
<1>2. ReadSoFar(n)
  BY <1>1 DEF LoadInv, LoadRead
<1> HIDE DEF n
<1>3. Clashing(machine, command, args, n) \in BOOLEAN /\ Something(args, n) \in BOOLEAN
  BY DEF Clashing, Something
<1>4. /\ Accepts(loaded) \in BOOLEAN
      /\ Accepts(loaded) <=>
            Accepted(command, ToSet(loaded), Clashing(machine, command, args, n), Something(args, n))
      /\ ExpandSets(loaded) = Expanded(ToSet(loaded))
  <2>1. loaded \in Seq(AnyResource)
    BY DEF LoadInv, LoadTypes
  <2> QED
    BY <1>2, <1>3, <2>1, AcceptsBySet DEF ReadSoFar
<1>5. Accepts(loaded) <=> Good(machine, command, args)
  BY <1>2, <1>4 DEF ReadSoFar, Good, n
<1>6. ExpandSets(loaded) = Expanded(Read(machine, command, args, Len(args)))
  BY <1>2, <1>4 DEF ReadSoFar, n
<1> QED
  BY <1>1, <1>4, <1>5, <1>6, EndedRight

LEMMA OpenedRight ==
    ASSUME LoadInv, OpenPath
    PROVE  LoadInv'
<1> DEFINE p == Head(todo)
<1> DEFINE n == Opened
<1>1. /\ phase = "open" /\ todo # <<>> /\ p \in Dir \cup File /\ todo' = Tail(todo)
      /\ UNCHANGED <<machine, command, args, loaded, values, done>>
  BY DEF OpenPath
<1>2. /\ n \in Nat /\ Opened' = n + 1 /\ n + 1 <= Len(args) /\ p = args[n + 1]
      /\ todo' \in Seq(STRING) /\ Len(todo') <= Len(args')
      /\ \A i \in 1 .. Len(todo') : todo'[i] = args'[n + 1 + i]
  <2>1. /\ Len(todo) \in Nat /\ Len(args) \in Nat /\ Len(todo) >= 1
        /\ todo' \in Seq(STRING) /\ Len(todo') = Len(todo) - 1
        /\ p = todo[1] /\ \A i \in 1 .. Len(todo') : todo'[i] = todo[i + 1]
    BY <1>1 DEF LoadInv, LoadTypes
  <2>2. Opened + 1 <= Len(args) /\ Opened \in Nat
    BY <2>1 DEF Opened, LoadInv, LoadPlace
  <2>3. Opened' = Opened + 1
    BY <1>1, <2>1 DEF Opened
  <2>4. todo[1] = args[Opened + 1]
    BY <2>1 DEF LoadInv, LoadPlace
  <2>5. ASSUME NEW i \in 1 .. Len(todo') PROVE todo'[i] = args'[Opened + 1 + i]
    <3> HIDE DEF n
    <3>1. i \in Nat /\ i + 1 \in 1 .. Len(todo)
      BY <2>1
    <3>2. Opened + (i + 1) = Opened + 1 + i
      BY <2>2, <3>1
    <3>3. todo[i + 1] = args[Opened + (i + 1)]
      BY <3>1 DEF LoadInv, LoadPlace
    <3> QED
      BY <1>1, <2>1, <3>2, <3>3
  <2> QED
    BY <1>1, <2>1, <2>2, <2>3, <2>4, <2>5 DEF LoadInv, LoadPlace
<1>3. ReadSoFar(n)
  BY <1>1 DEF LoadInv, LoadRead
<1>4. \A d \in done' : Right(machine', d)
  BY <1>1 DEF LoadInv
<1>5. CASE CueFiles(p) = {}
  <2>1. phase' = "open"
    BY <1>1, <1>5 DEF OpenPath
  <2>2. Out(machine, command, args[n + 1]) = <<>> /\ Loads(machine, command, args[n + 1])
    BY <1>1, <1>2, <1>5 DEF Out, Loads
  <2>3. 1 .. (n + 1) = (1 .. n) \cup {n + 1}
    BY <1>2
  <2> HIDE DEF n, p
  <2>4. /\ AllLoad(machine, command, args, n + 1)
        /\ Something(args, n + 1) <=> Something(args, n)
        /\ Read(machine, command, args, n + 1) = Read(machine, command, args, n)
        /\ Clashing(machine, command, args, n + 1) <=> Clashing(machine, command, args, n)
    <3>1. AllLoad(machine, command, args, n + 1)
      BY <1>3, <2>2, <2>3 DEF ReadSoFar, AllLoad
    <3>2. Something(args, n + 1) <=> Something(args, n)
      BY <1>2, <1>5, <2>3 DEF Something
    <3> QED
      BY <1>2, <2>2, <3>1, <3>2, NothingMore
  <2>5. ReadSoFar(n + 1)
    BY <1>3, <2>4 DEF ReadSoFar
  <2>6. LoadRead'
    BY <1>1, <1>2, <2>1, <2>5 DEF LoadRead, ReadSoFar
  <2>7. LoadTypes'
    BY <1>1, <1>2, <2>1 DEF LoadInv, LoadTypes
  <2>8. LoadPlace'
    BY <1>1, <1>2, <2>1 DEF LoadPlace
  <2> QED
    BY <1>4, <2>6, <2>7, <2>8 DEF LoadInv
<1>6. CASE CueFiles(p) # {}
  <2>1. path' = p /\ phase' = IF ByInstances(p) THEN "verify" ELSE "evaluate"
    BY <1>6 DEF OpenPath
  <2> HIDE DEF n, p
  <2>2. ReadSoFar(Opened' - 1)
    BY <1>2, <1>3
  <2>3. LoadRead'
    BY <1>1, <2>1, <2>2 DEF LoadRead, ReadSoFar
  <2>4. LoadTypes'
    BY <1>1, <1>2, <2>1 DEF LoadInv, LoadTypes
  <2>5. LoadPlace'
    BY <1>1, <1>2, <1>6, <2>1 DEF LoadPlace, ByInstances, CueFiles
  <2> QED
    BY <1>4, <2>3, <2>4, <2>5 DEF LoadInv
<1> QED
  BY <1>5, <1>6

LEMMA EvaluatedRight ==
    ASSUME LoadInv, Evaluate
    PROVE  LoadInv'
<1> DEFINE n == Opened - 1
<1> DEFINE out == Out(machine, command, args[n + 1])
<1>1. /\ phase = "evaluate" /\ phase' = "open" /\ values' = values + 1
      /\ ~DoesNotLoad(path, machine) /\ (command.name = "eval" \/ ~ParseFails(path, machine))
      /\ loaded' = IF command.name = "eval" THEN loaded ELSE loaded \o ParseResources(path, machine)
      /\ UNCHANGED <<machine, command, args, todo, done>>
  BY DEF Evaluate, DoesNotParse
<1>2. n \in Nat /\ n + 1 = Opened /\ path = args[n + 1] /\ CueFiles(path) # {} /\ path \in Dir \cup File
  BY <1>1 DEF LoadInv, LoadTypes, LoadPlace, Opened
<1>3. ReadSoFar(n)
  BY <1>1 DEF LoadInv, LoadRead
<1>4. out = IF command.name = "eval" THEN <<>> ELSE ParseResources(path, machine)
  BY <1>2 DEF Out
<1>5. Loads(machine, command, args[n + 1])
  BY <1>1, <1>2 DEF Loads
<1>6. out \in Seq(AnyResource) /\ loaded \in Seq(AnyResource) /\ values \in Nat
  BY OutIsSeq DEF LoadInv, LoadTypes
<1>7. loaded' = loaded \o out
  BY <1>1, <1>4, <1>6
<1>8. 1 .. (n + 1) = (1 .. n) \cup {n + 1}
  BY <1>2
<1> HIDE DEF n, out
<1>9. AllLoad(machine, command, args, n + 1) /\ Something(args, n + 1) /\ values' > 0 /\ values' \in Nat
  <2>1. AllLoad(machine, command, args, n + 1)
    BY <1>3, <1>5, <1>8 DEF ReadSoFar, AllLoad
  <2>2. Something(args, n + 1)
    BY <1>2, <1>8 DEF Something
  <2>3. values' > 0 /\ values' \in Nat
    BY <1>1, <1>6
  <2> QED
    BY <2>1, <2>2, <2>3
<1>10. ToSet(loaded \o out) = Read(machine, command, args, n + 1)
  <2>1. ToSet(loaded \o out) = ToSet(loaded) \cup ToSet(out)
    BY <1>6, ClashOfTwo
  <2>2. Read(machine, command, args, n + 1) = Read(machine, command, args, n) \cup ToSet(out)
    BY <1>2, OneMore DEF out
  <2> QED
    BY <1>3, <2>1, <2>2 DEF ReadSoFar
<1>11. Clash(loaded \o out) <=> Clashing(machine, command, args, n + 1)
  <2>1. Clash(loaded \o out) <=> (Clash(loaded) \/ Clash(out) \/ Meets(loaded, out))
    BY <1>6, ClashOfTwo
  <2>2. Clashing(machine, command, args, n + 1) <=>
          \/ Clashing(machine, command, args, n)
          \/ Clash(out)
          \/ \E k \in 1 .. n : Meets(Out(machine, command, args[k]), out)
    BY <1>2, OneMore DEF out
  <2>3. Meets(loaded, out) <=> \E k \in 1 .. n : Meets(Out(machine, command, args[k]), out)
    BY <1>2, <1>3, MeetsOne DEF ReadSoFar
  <2> QED
    BY <1>3, <2>1, <2>2, <2>3 DEF ReadSoFar
<1>12. Opened' = n + 1 /\ loaded' \in Seq(AnyResource)
  <2>1. Opened' = Opened
    BY <1>1 DEF Opened
  <2>2. loaded \o out \in Seq(AnyResource)
    BY <1>6
  <2> QED
    BY <1>2, <1>7, <2>1, <2>2
<1>13. LoadRead'
  BY <1>1, <1>7, <1>9, <1>10, <1>11, <1>12 DEF LoadRead, ReadSoFar
<1>14. LoadTypes' /\ LoadPlace'
  BY <1>1, <1>9, <1>12 DEF LoadInv, LoadTypes, LoadPlace, Opened
<1> QED
  BY <1>1, <1>13, <1>14 DEF LoadInv

\* The loader knows what the paths behind it amount to.
LEMMA LoadStep ==
    ASSUME LoadInv, [ManifestsNext]_manifestsVars
    PROVE  LoadInv'
<1>1. CASE VerifyModuleDeps
  <2>1. /\ phase = "verify" /\ phase' = "evaluate"
        /\ UNCHANGED <<machine, command, args, todo, path, loaded, values, done>>
    BY <1>1 DEF VerifyModuleDeps
  <2> QED
    BY <2>1 DEF LoadInv, LoadTypes, LoadPlace, LoadRead, ReadSoFar, Opened, CueFiles
<1>2. CASE NextCommand
  <2>1. PICK c \in Commands, paths \in {ps \in PathLists : SamePlaces(ps, args)} : NewLoader(c, paths)
    BY <1>2 DEF NextCommand
  <2>2. /\ args' = paths /\ phase' = "open" /\ todo' = paths /\ loaded' = <<>> /\ values' = 0
        /\ UNCHANGED <<machine, done>>
    BY <1>2, <2>1 DEF NextCommand, NewLoader
  <2>3. paths \in Seq(STRING) /\ Opened' = 0
    BY <2>2, ManifestsAssumption DEF ManifestsAssumption, Opened
  <2>4. ReadSoFar(0)'
    BY <2>2 DEF ReadSoFar, AllLoad, Read, Clashing, Something, ToSet, Clash
  <2>5. LoadTypes' /\ LoadPlace' /\ LoadRead'
    BY <2>2, <2>3, <2>4 DEF LoadTypes, LoadPlace, LoadRead
  <2> QED
    BY <2>2, <2>5 DEF LoadInv
<1>3. CASE UNCHANGED manifestsVars
  BY <1>3 DEF manifestsVars, loader, LoadInv, LoadTypes, LoadPlace, LoadRead, ReadSoFar, Opened, ByInstances, CueFiles
<1> QED
  BY <1>1, <1>2, <1>3, OpenedRight, EvaluatedRight, FailedRight, DecidedRight DEF ManifestsNext

LEMMA LoadInit ==
    ASSUME ManifestsInit
    PROVE  LoadInv
<1>1. /\ args \in Seq(STRING) /\ phase = "open" /\ todo = args /\ loaded = <<>> /\ values = 0 /\ done = {}
  BY ManifestsAssumption DEF ManifestsInit, ManifestsAssumption
<1>0. Len(args) \in Nat /\ Opened = 0
  BY <1>1 DEF Opened
<1>2. ReadSoFar(0)
  BY <1>1 DEF ReadSoFar, AllLoad, Read, Clashing, Something, ToSet, Clash
<1>3. LoadTypes /\ LoadRead
  BY <1>1, <1>0, <1>2 DEF LoadTypes, LoadRead
<1>4. LoadPlace
  BY <1>1, <1>0 DEF LoadPlace
<1> QED
  BY <1>1, <1>3, <1>4 DEF LoadInv

(***************************************************************************)
(* Manifests: two commands that are given the same places.                 *)
(***************************************************************************)
Occurrences(p, a) == {i \in DOMAIN a : a[i] = p}

\* Two positions of a are answered by two positions of b.
LEMMA PlacesMove ==
    ASSUME NEW a \in Seq(STRING), NEW b \in Seq(STRING), SamePlaces(a, b)
    PROVE  /\ \A k \in 1 .. Len(a) : \E l \in 1 .. Len(b) : b[l] = a[k]
           /\ \A k, l \in 1 .. Len(a) : k # l =>
                 \E i, j \in 1 .. Len(b) : i # j /\ b[i] = a[k] /\ b[j] = a[l]
<1>0. DOMAIN a = 1 .. Len(a) /\ DOMAIN b = 1 .. Len(b) /\ Len(a) \in Nat /\ Len(b) \in Nat
  OBVIOUS
<1>1. ASSUME NEW p PROVE IsFiniteSet(Occurrences(p, a)) /\ IsFiniteSet(Occurrences(p, b))
  <2>1. IsFiniteSet(DOMAIN a) /\ IsFiniteSet(DOMAIN b)
    BY <1>0, FS_Interval
  <2> QED
    BY <2>1, FS_Subset DEF Occurrences
<1>2. ASSUME NEW k \in 1 .. Len(a)
      PROVE  Cardinality(Occurrences(a[k], a)) = Cardinality(Occurrences(a[k], b))
  <2>1. a[k] \in ToSet(a)
    BY <1>0 DEF ToSet
  <2> QED
    BY <2>1 DEF SamePlaces, Times, Occurrences
<1>3. ASSUME NEW k \in 1 .. Len(a) PROVE \E l \in 1 .. Len(b) : b[l] = a[k]
  <2>1. k \in Occurrences(a[k], a)
    BY <1>0 DEF Occurrences
  <2>2. Occurrences(a[k], b) # {}
    BY <1>1, <1>2, <2>1, FS_EmptySet
  <2> QED
    BY <1>0, <2>2 DEF Occurrences
<1>4. ASSUME NEW k \in 1 .. Len(a), NEW l \in 1 .. Len(a), k # l
      PROVE  \E i, j \in 1 .. Len(b) : i # j /\ b[i] = a[k] /\ b[j] = a[l]
  <2>1. CASE a[k] # a[l]
    <3>1. PICK i \in 1 .. Len(b) : b[i] = a[k]
      BY <1>3
    <3>2. PICK j \in 1 .. Len(b) : b[j] = a[l]
      BY <1>3
    <3> QED
      BY <2>1, <3>1, <3>2
  <2>2. CASE a[k] = a[l]
    <3>1. k \in Occurrences(a[k], a) /\ l \in Occurrences(a[k], a)
      BY <1>0, <2>2 DEF Occurrences
    <3>2. Cardinality(Occurrences(a[k], a)) # 1
      BY <1>1, <1>4, <3>1, FS_Singleton
    <3>3. Cardinality(Occurrences(a[k], b)) # 1
      BY <1>2, <3>2
    <3>4. PICK i \in 1 .. Len(b) : b[i] = a[k]
      BY <1>3
    <3>5. i \in Occurrences(a[k], b)
      BY <1>0, <3>4 DEF Occurrences
    <3>6. Occurrences(a[k], b) # {i}
      BY <1>1, <3>3, FS_Singleton
    <3>7. PICK j \in Occurrences(a[k], b) : j # i
      BY <3>5, <3>6
    <3> QED
      BY <1>0, <2>2, <3>4, <3>7 DEF Occurrences
  <2> QED
    BY <2>1, <2>2
<1> QED
  BY <1>3, <1>4

\* What the paths amount to, one way.
LEMMA AmountsTo ==
    ASSUME NEW m, NEW c, NEW a \in Seq(STRING), NEW b \in Seq(STRING), SamePlaces(a, b)
    PROVE  /\ AllLoad(m, c, b, Len(b)) => AllLoad(m, c, a, Len(a))
           /\ Read(m, c, a, Len(a)) \subseteq Read(m, c, b, Len(b))
           /\ Clashing(m, c, a, Len(a)) => Clashing(m, c, b, Len(b))
           /\ Something(a, Len(a)) => Something(b, Len(b))
<1>1. \A k \in 1 .. Len(a) : \E l \in 1 .. Len(b) : b[l] = a[k]
  BY PlacesMove
<1>2. \A k, l \in 1 .. Len(a) : k # l => \E i, j \in 1 .. Len(b) : i # j /\ b[i] = a[k] /\ b[j] = a[l]
  BY PlacesMove
<1>3. AllLoad(m, c, b, Len(b)) => AllLoad(m, c, a, Len(a))
  BY <1>1 DEF AllLoad
<1>4. Read(m, c, a, Len(a)) \subseteq Read(m, c, b, Len(b))
  BY <1>1 DEF Read
<1>5. Something(a, Len(a)) => Something(b, Len(b))
  BY <1>1 DEF Something
<1>6. ASSUME NEW k \in 1 .. Len(a), Clash(Out(m, c, a[k])) PROVE Clashing(m, c, b, Len(b))
  BY <1>1, <1>6 DEF Clashing
<1>7. ASSUME NEW k \in 1 .. Len(a), NEW l \in 1 .. Len(a), k # l, Meets(Out(m, c, a[k]), Out(m, c, a[l]))
      PROVE  Clashing(m, c, b, Len(b))
  <2>1. PICK i, j \in 1 .. Len(b) : i # j /\ b[i] = a[k] /\ b[j] = a[l]
    BY <1>2, <1>7
  <2>2. Meets(Out(m, c, b[i]), Out(m, c, b[j]))
    BY <1>7, <2>1
  <2> QED
    BY <2>1, <2>2 DEF Clashing
<1> QED
  BY <1>3, <1>4, <1>5, <1>6, <1>7 DEF Clashing

\* The same places amount to the same.
LEMMA AmountTheSame ==
    ASSUME NEW m, NEW c, NEW a \in Seq(STRING), NEW b \in Seq(STRING), SamePlaces(a, b)
    PROVE  /\ AllLoad(m, c, a, Len(a)) <=> AllLoad(m, c, b, Len(b))
           /\ Read(m, c, a, Len(a)) = Read(m, c, b, Len(b))
           /\ Clashing(m, c, a, Len(a)) = Clashing(m, c, b, Len(b))
           /\ Something(a, Len(a)) = Something(b, Len(b))
<1>1. SamePlaces(b, a)
  BY DEF SamePlaces
<1>2. /\ AllLoad(m, c, a, Len(a)) => AllLoad(m, c, b, Len(b))
      /\ Read(m, c, b, Len(b)) \subseteq Read(m, c, a, Len(a))
      /\ Clashing(m, c, b, Len(b)) => Clashing(m, c, a, Len(a))
      /\ Something(b, Len(b)) => Something(a, Len(a))
  BY <1>1, AmountsTo
<1>3. /\ AllLoad(m, c, b, Len(b)) => AllLoad(m, c, a, Len(a))
      /\ Read(m, c, a, Len(a)) \subseteq Read(m, c, b, Len(b))
      /\ Clashing(m, c, a, Len(a)) => Clashing(m, c, b, Len(b))
      /\ Something(a, Len(a)) => Something(b, Len(b))
  BY AmountsTo
<1>4. /\ Clashing(m, c, a, Len(a)) \in BOOLEAN /\ Clashing(m, c, b, Len(b)) \in BOOLEAN
      /\ Something(a, Len(a)) \in BOOLEAN /\ Something(b, Len(b)) \in BOOLEAN
  BY DEF Clashing, Something
<1> QED
  BY <1>2, <1>3, <1>4

\* A built-in installer needs nothing, so it closes no cycle.
LEMMA BuiltinsCloseNoCycle ==
    ASSUME NEW X, Cyclic(AppendBuiltinInstallers(X))
    PROVE  Cyclic(X)
<1> DEFINE Y == AppendBuiltinInstallers(X)
<1>1. ASSUME NEW r \in Y, r.needs # {} PROVE r \in X
  <2>1. ASSUME NEW n PROVE BuiltinInstaller(n).needs = {}
    BY DEF BuiltinInstaller
  <2> QED
    BY <1>1, <2>1 DEF AppendBuiltinInstallers
<1> HIDE DEF Y
<1>2. PICK S \in SUBSET {Id(r) : r \in Y} \ {{}} :
          \A id \in S : \E r \in Y : Id(r) = id /\ r.needs \cap S # {}
  BY DEF Cyclic, Y
<1>3. \A id \in S : \E r \in X : Id(r) = id /\ r.needs \cap S # {}
  <2> TAKE id \in S
  <2>1. PICK r \in Y : Id(r) = id /\ r.needs \cap S # {}
    BY <1>2
  <2>2. r \in X
    BY <1>1, <2>1
  <2> QED
    BY <2>1, <2>2
<1>4. S \in SUBSET {Id(r) : r \in X} \ {{}}
  BY <1>2, <1>3
<1> QED
  BY <1>3, <1>4 DEF Cyclic

\* validate, plan and apply read the same at a path.
LEMMA ReadAlike ==
    ASSUME NEW m, NEW c, NEW e, NEW a, NEW n, c.name # "eval", e.name # "eval"
    PROVE  /\ AllLoad(m, c, a, n) <=> AllLoad(m, e, a, n)
           /\ Read(m, c, a, n) = Read(m, e, a, n)
           /\ Clashing(m, c, a, n) <=> Clashing(m, e, a, n)
<1>1. \A p : Out(m, c, p) = Out(m, e, p) /\ (Loads(m, c, p) <=> Loads(m, e, p))
  BY DEF Out, Loads
<1> QED
  BY <1>1 DEF AllLoad, Read, Clashing

LEMMA OrderFromRight ==
    ASSUME LoadInv
    PROVE  OrderDecidesRedefinedOnly
<1> SUFFICES ASSUME NEW a \in done, NEW b \in done, a.command = b.command, SamePlaces(a.args, b.args)
             PROVE  /\ a.ok = b.ok /\ a.resources = b.resources
                    /\ \A r \in a.resources : ~Redefined(r, a.resources) => r \in a.kept \cap b.kept
  BY DEF OrderDecidesRedefinedOnly
<1>1. Right(machine, a) /\ Right(machine, b)
  BY DEF LoadInv
<1> DEFINE c == a.command
<1>2. /\ AllLoad(machine, c, a.args, Len(a.args)) <=> AllLoad(machine, c, b.args, Len(b.args))
      /\ Read(machine, c, a.args, Len(a.args)) = Read(machine, c, b.args, Len(b.args))
      /\ Clashing(machine, c, a.args, Len(a.args)) = Clashing(machine, c, b.args, Len(b.args))
      /\ Something(a.args, Len(a.args)) = Something(b.args, Len(b.args))
  <2>1. a.args \in Seq(STRING) /\ b.args \in Seq(STRING)
    BY <1>1 DEF Right
  <2> QED
    BY <2>1, AmountTheSame
<1>3. Good(machine, c, a.args) <=> Good(machine, c, b.args)
  BY <1>2 DEF Good
<1>4. a.ok = b.ok
  BY <1>1, <1>3 DEF Right
<1>5. a.resources = b.resources
  BY <1>1, <1>2, <1>4 DEF Right
<1>6. \A r \in a.resources : ~Redefined(r, a.resources) => r \in a.kept \cap b.kept
  BY <1>1, <1>5 DEF Right
<1> QED
  BY <1>4, <1>5, <1>6

LEMMA ValidatedFromRight ==
    ASSUME LoadInv
    PROVE  ValidatedApplies
<1> SUFFICES ASSUME NEW a \in done, NEW b \in done, a.command.name = "validate", a.ok,
                    b.command.name \in {"plan", "apply"}, SamePlaces(a.args, b.args)
             PROVE  b.ok /\ a.resources = b.resources
  BY DEF ValidatedApplies
<1>1. Right(machine, a) /\ Right(machine, b)
  BY DEF LoadInv
<1> DEFINE c == a.command
<1> DEFINE e == b.command
<1> DEFINE X == Read(machine, e, b.args, Len(b.args))
<1>2. a.args \in Seq(STRING) /\ b.args \in Seq(STRING)
  BY <1>1 DEF Right
<1>3. /\ AllLoad(machine, c, a.args, Len(a.args)) <=> AllLoad(machine, c, b.args, Len(b.args))
      /\ Read(machine, c, a.args, Len(a.args)) = Read(machine, c, b.args, Len(b.args))
      /\ Clashing(machine, c, a.args, Len(a.args)) = Clashing(machine, c, b.args, Len(b.args))
  BY <1>2, AmountTheSame
<1>4. /\ AllLoad(machine, c, b.args, Len(b.args)) <=> AllLoad(machine, e, b.args, Len(b.args))
      /\ Read(machine, c, b.args, Len(b.args)) = X
      /\ Clashing(machine, c, b.args, Len(b.args)) <=> Clashing(machine, e, b.args, Len(b.args))
  BY ReadAlike
<1>5. Good(machine, c, a.args)
  BY <1>1 DEF Right
<1> HIDE DEF X
<1>6. /\ AllLoad(machine, e, b.args, Len(b.args)) /\ ~Clashing(machine, e, b.args, Len(b.args))
      /\ \A r \in Expanded(X) : r.valid
      /\ ~Cyclic(Expanded(X))
  BY <1>3, <1>4, <1>5 DEF Good, Accepted
<1>7. ~Cyclic(AppendBuiltinInstallers(Expanded(X)))
  BY <1>6, BuiltinsCloseNoCycle
<1>8. Accepted(e, X, Clashing(machine, e, b.args, Len(b.args)), Something(b.args, Len(b.args)))
  BY <1>6, <1>7 DEF Accepted
<1>9. Good(machine, e, b.args)
  BY <1>6, <1>8 DEF Good, X
<1>10. b.ok
  BY <1>1, <1>9 DEF Right
<1>11. a.resources = Expanded(X) /\ b.resources = Expanded(X)
  BY <1>1, <1>3, <1>4, <1>10 DEF Right, X
<1> QED
  BY <1>10, <1>11

\* For any disk, any tags, sets and conditions: the order of the paths does not
\* decide whether they are accepted, or which resources they give, to the last
\* field; it decides only which definition is used (buildResourceMap) of a
\* resource that has two.
THEOREM OrderIsForRedefined == ManifestsSpec => []OrderDecidesRedefinedOnly
<1>1. LoadInv /\ [ManifestsNext]_manifestsVars => LoadInv'
  BY LoadStep
<1> QED
  BY <1>1, LoadInit, OrderFromRight, PTL DEF ManifestsSpec

\* For any disk: what validate accepted, plan and apply accept at the same
\* places, in any order, with the same resources.
THEOREM ValidatedIsAccepted == ManifestsSpec => []ValidatedApplies
<1>1. LoadInv /\ [ManifestsNext]_manifestsVars => LoadInv'
  BY LoadStep
<1> QED
  BY <1>1, LoadInit, ValidatedFromRight, PTL DEF ManifestsSpec

(***************************************************************************)
(* ApplyReport: what the events have said of a resource, layer by layer,   *)
(* and its last word.                                                      *)
(***************************************************************************)
Heards == Seq([Resource -> Said \cup {None}])

NoWords == [r \in Resource |-> None]

MentionsIn(w, r) == {i \in DOMAIN w : w[i][r] # None}

HasLast(w, r) ==
    MentionsIn(w, r) # {} => \E i \in MentionsIn(w, r) : \A j \in MentionsIn(w, r) : i >= j

Word(w, r) == IF MentionsIn(w, r) = {} THEN None ELSE w[Max(MentionsIn(w, r))][r]

LEMMA SaidIsSaid == None \notin Said /\ None \notin TaskState
BY NoneAssumption DEF NoneAssumption

\* What the present layer has said is the last word.
LEMMA WordNow ==
    ASSUME NEW w \in Heards, NEW r \in Resource, Len(w) > 0, w[Len(w)][r] # None
    PROVE  Word(w, r) = w[Len(w)][r] /\ HasLast(w, r)
<1>1. Len(w) \in MentionsIn(w, r) /\ \A j \in MentionsIn(w, r) : j \in Nat /\ j <= Len(w)
  BY DEF Heards, MentionsIn
<1>2. Len(w) \in Nat
  BY DEF Heards
<1> DEFINE M == MentionsIn(w, r)
<1> HIDE DEF M
<1>3. Max(M) = Len(w)
  <2>1. Len(w) \in M /\ \A j \in M : Len(w) >= j
    BY <1>1, <1>2 DEF M
  <2>2. Max(M) \in M /\ \A j \in M : Max(M) >= j
    BY <2>1 DEF Max
  <2> QED
    BY <1>1, <1>2, <2>1, <2>2 DEF M
<1> QED
  BY <1>1, <1>2, <1>3 DEF Word, HasLast, M

\* A new layer says nothing yet.
LEMMA WordKept ==
    ASSUME NEW w \in Heards, NEW r \in Resource, HasLast(w, r)
    PROVE  /\ Append(w, NoWords) \in Heards
           /\ Word(Append(w, NoWords), r) = Word(w, r)
           /\ HasLast(Append(w, NoWords), r)
<1> DEFINE v == Append(w, NoWords)
<1>1. /\ v \in Heards /\ DOMAIN v = DOMAIN w \cup {Len(w) + 1} /\ v[Len(w) + 1] = NoWords
      /\ \A i \in DOMAIN w : v[i] = w[i]
  <2>1. NoWords \in [Resource -> Said \cup {None}]
    BY DEF NoWords
  <2> QED
    BY <2>1 DEF Heards
<1> HIDE DEF v
<1>2. v[Len(w) + 1][r] = None
  BY <1>1 DEF NoWords
<1>3. MentionsIn(v, r) = MentionsIn(w, r)
  BY <1>1, <1>2 DEF MentionsIn
<1>4. HasLast(v, r)
  BY <1>3 DEF HasLast
<1>5. MentionsIn(w, r) # {} => Max(MentionsIn(w, r)) \in DOMAIN w
  <2> DEFINE M == MentionsIn(w, r)
  <2>1. M \subseteq DOMAIN w
    BY DEF MentionsIn
  <2>2. M # {} => \E i \in M : \A j \in M : i >= j
    BY DEF HasLast
  <2> HIDE DEF M
  <2>3. M # {} => Max(M) \in M
    BY <2>2 DEF Max
  <2> QED
    BY <2>1, <2>3 DEF M
<1>6. Word(v, r) = Word(w, r)
  BY <1>1, <1>3, <1>5 DEF Word
<1> QED
  BY <1>1, <1>4, <1>6 DEF v

Saying(w, q, x) == [w EXCEPT ![Len(w)] = [w[Len(w)] EXCEPT ![q] = x]]

\* An event changes the last word of its resource only.
LEMMA WordChanged ==
    ASSUME NEW w \in Heards, NEW q \in Resource, NEW x \in Said, Len(w) > 0,
           \A r \in Resource : HasLast(w, r)
    PROVE  /\ Saying(w, q, x) \in Heards /\ Len(Saying(w, q, x)) = Len(w)
           /\ Saying(w, q, x)[Len(w)] = [w[Len(w)] EXCEPT ![q] = x]
           /\ Word(Saying(w, q, x), q) = x
           /\ \A r \in Resource : HasLast(Saying(w, q, x), r)
           /\ \A r \in Resource \ {q} : Word(Saying(w, q, x), r) = Word(w, r)
           /\ \A i \in DOMAIN w : i # Len(w) => Saying(w, q, x)[i] = w[i]
<1> DEFINE v == Saying(w, q, x)
<1>0. v = [w EXCEPT ![Len(w)] = [w[Len(w)] EXCEPT ![q] = x]]
  BY DEF Saying
<1> HIDE DEF v
<1>1. Len(w) \in DOMAIN w /\ w[Len(w)] \in [Resource -> Said \cup {None}]
  BY DEF Heards
<1>2. [w[Len(w)] EXCEPT ![q] = x] \in [Resource -> Said \cup {None}]
  BY <1>1
<1>3. v \in Heards /\ Len(v) = Len(w) /\ DOMAIN v = DOMAIN w
  BY <1>0, <1>1, <1>2 DEF Heards
<1>4. v[Len(w)] = [w[Len(w)] EXCEPT ![q] = x] /\ \A i \in DOMAIN w : i # Len(w) => v[i] = w[i]
  BY <1>0, <1>1 DEF Heards
<1>5. v[Len(v)][q] = x /\ x # None
  BY <1>1, <1>3, <1>4, SaidIsSaid
<1>6. Word(v, q) = x /\ HasLast(v, q)
  BY <1>3, <1>5, WordNow
<1>7. ASSUME NEW r \in Resource \ {q} PROVE HasLast(v, r) /\ Word(v, r) = Word(w, r)
  <2>1. \A i \in DOMAIN w : v[i][r] = w[i][r]
    BY <1>1, <1>4
  <2>2. MentionsIn(v, r) = MentionsIn(w, r)
    BY <1>3, <2>1 DEF MentionsIn
  <2>3. HasLast(v, r)
    BY <2>2 DEF HasLast
  <2>4. MentionsIn(w, r) # {} => Max(MentionsIn(w, r)) \in DOMAIN w
    <3> DEFINE M == MentionsIn(w, r)
    <3>1. M \subseteq DOMAIN w
      BY DEF MentionsIn
    <3>2. M # {} => \E i \in M : \A j \in M : i >= j
      BY DEF HasLast
    <3> HIDE DEF M
    <3>3. M # {} => Max(M) \in M
      BY <3>2 DEF Max
    <3> QED
      BY <3>1, <3>3 DEF M
  <2> QED
    BY <2>1, <2>2, <2>3, <2>4 DEF Word
<1> QED
  BY <1>3, <1>4, <1>6, <1>7 DEF v

(***************************************************************************)
(* ApplyReport: types, and where the engine is.                            *)
(***************************************************************************)
Labels == {"new", "opened", "running", "flush", "cleanup", "close", "over", "dead"}

LogFiles == [Resource -> Nat \cup {None}]

Stores == [session : Second, dirCreated : BOOLEAN, writers : LogFiles,
           metadata : SUBSET Resource, failed : SUBSET Resource]

StoreTypes == sessions \in [Second -> LogFiles \cup {None}] /\ store \in [Apply -> Stores]

ReportTypes ==
    /\ clock \in Second /\ pc \in [Apply -> Labels] /\ locked \in Apply \cup {None}
    /\ plan \in [Apply -> Seq([phase : Phases, nodes : SUBSET Resource])]
    /\ layer \in [Apply -> Nat] /\ running \in SUBSET Resource
    /\ told \in [Apply -> Heards]

\* Of the events that the engine has sent.
EventsSaid(a) ==
    /\ Len(told[a]) = layer[a] /\ layer[a] <= Len(plan[a])
    /\ \A r \in Resource : HasLast(told[a], r)
    /\ pc[a] \in {"new", "opened"} => layer[a] = 0

EnginePlace ==
    /\ \A a \in Apply : pc[a] = "running" <=> locked = a
    /\ locked = None => running = {}
    /\ \A a \in Apply : locked = a =>
          \A r \in running : layer[a] > 0 /\ Heard(a)[r] # None /\ Heard(a)[r].outcome = "running"

ReportInv == ReportTypes /\ (\A a \in Apply : EventsSaid(a)) /\ EnginePlace

LEMMA NoLogsAreFiles ==
    /\ NoLogs \in LogFiles /\ NoLogs # None /\ None \notin LogFiles /\ Second \subseteq Nat
BY LogAssumption DEF LogAssumption, NoLogs, LogFiles, Second

LEMMA ReportInit ==
    ASSUME Init
    PROVE  ReportInv
<1>1. /\ clock \in Second /\ pc = [a \in Apply |-> "new"] /\ locked = None
      /\ plan = [a \in Apply |-> <<>>] /\ layer = [a \in Apply |-> 0] /\ running = {}
      /\ told = [a \in Apply |-> <<>>]
  BY DEF Init
<1>2. ReportTypes
  BY <1>1 DEF ReportTypes, Labels, Heards
<1>3. ASSUME NEW a \in Apply PROVE EventsSaid(a)
  <2>1. told[a] = <<>> /\ layer[a] = 0 /\ plan[a] = <<>>
    BY <1>1
  <2>2. \A r \in Resource : MentionsIn(<<>>, r) = {}
    BY DEF MentionsIn
  <2> QED
    BY <2>1, <2>2 DEF EventsSaid, HasLast
<1>4. EnginePlace
  BY <1>1, LogAssumption DEF LogAssumption, EnginePlace
<1> QED
  BY <1>2, <1>3, <1>4 DEF ReportInv

\* An event about resource r says x.
Tells(a, r, x) == told' = [told EXCEPT ![a] = Saying(told[a], r, x)]

LEMMA TellsOne ==
    ASSUME ReportInv, NEW a \in Apply, NEW r \in Resource, NEW x \in Said, layer[a] > 0, Tells(a, r, x),
           UNCHANGED <<pc, plan, layer>>
    PROVE  /\ told' \in [Apply -> Heards]
           /\ \A b \in Apply : EventsSaid(b)'
           /\ Heard(a)' = [Heard(a) EXCEPT ![r] = x]
           /\ Word(told'[a], r) = x
           /\ \A q \in Resource \ {r} : Word(told'[a], q) = Word(told[a], q)
           /\ \A b \in Apply \ {a} : told'[b] = told[b]
<1> DEFINE w == told[a]
<1> DEFINE v == Saying(w, r, x)
<1>1. w \in Heards /\ Len(w) = layer[a] /\ Len(w) > 0 /\ \A q \in Resource : HasLast(w, q)
  BY DEF ReportInv, ReportTypes, EventsSaid
<1>2. told' = [told EXCEPT ![a] = v] /\ told \in [Apply -> Heards]
  BY DEF Tells, ReportInv, ReportTypes
<1>4. Heard(a) = w[Len(w)]
  BY <1>1 DEF Heard
<1> HIDE DEF w
<1>5. /\ v \in Heards /\ Len(v) = Len(w)
      /\ v[Len(w)] = [w[Len(w)] EXCEPT ![r] = x]
      /\ Word(v, r) = x
      /\ \A q \in Resource : HasLast(v, q)
      /\ \A q \in Resource \ {r} : Word(v, q) = Word(w, q)
  BY <1>1, WordChanged
<1> HIDE DEF v
<1>6. told'[a] = v /\ told' \in [Apply -> Heards] /\ \A b \in Apply \ {a} : told'[b] = told[b]
  BY <1>2, <1>5
<1>7. \A b \in Apply \ {a} : EventsSaid(b)'
  BY <1>6 DEF ReportInv, EventsSaid
<1>8. EventsSaid(a)'
  BY <1>1, <1>5, <1>6 DEF ReportInv, EventsSaid, w
<1>9. Heard(a)' = [Heard(a) EXCEPT ![r] = x]
  BY <1>1, <1>4, <1>5, <1>6 DEF Heard
<1> QED
  BY <1>5, <1>6, <1>7, <1>8, <1>9 DEF w

\* What the three kinds of events say.
LEMMA EventTells ==
    ASSUME ReportInv, NEW a \in Apply, NEW r \in Resource
    PROVE  /\ Start(a, r) => Tells(a, r, [lines |-> 0, outcome |-> "running"])
           /\ (Output(a, r) /\ layer[a] > 0) =>
                 Tells(a, r, [lines |-> Heard(a)[r].lines + 1, outcome |-> Heard(a)[r].outcome])
           /\ \A x \in {"done", "failed"} : (Ends(a, r, x) /\ layer[a] > 0) =>
                 Tells(a, r, [lines |-> Heard(a)[r].lines, outcome |-> x])
<1>1. told[a] \in Heards /\ Len(told[a]) = layer[a] /\ layer[a] \in Nat
  BY DEF ReportInv, ReportTypes, EventsSaid
<1>2. ASSUME layer[a] > 0 PROVE told[a][layer[a]] \in [Resource -> Said \cup {None}]
  BY <1>1, <1>2 DEF Heards
<1>3. Start(a, r) => Tells(a, r, [lines |-> 0, outcome |-> "running"])
  BY <1>1 DEF Start, Tells, Saying
<1>4. ASSUME layer[a] > 0, Heard(a)[r] # None
      PROVE  Heard(a)[r] \in Said
  BY <1>2, <1>4 DEF Heard
<1>5. ASSUME Emits(a), r \in running
      PROVE  layer[a] > 0 /\ Heard(a)[r] \in Said
  BY <1>4, <1>5 DEF Emits, ReportInv, EnginePlace
<1>6. ASSUME Output(a, r)
      PROVE  Tells(a, r, [lines |-> Heard(a)[r].lines + 1, outcome |-> Heard(a)[r].outcome])
  <2>1. Heard(a)[r] \in Said /\ told' = [told EXCEPT ![a][layer[a]][r].lines = @ + 1]
    BY <1>5, <1>6 DEF Output
  <2>2. [Heard(a)[r] EXCEPT !.lines = @ + 1] = [lines |-> Heard(a)[r].lines + 1, outcome |-> Heard(a)[r].outcome]
    BY <2>1 DEF Said
  <2> QED
    BY <1>1, <2>1, <2>2 DEF Tells, Saying, Heard
<1>7. ASSUME NEW x \in {"done", "failed"}, Ends(a, r, x)
      PROVE  Tells(a, r, [lines |-> Heard(a)[r].lines, outcome |-> x])
  <2>1. Heard(a)[r] \in Said /\ told' = [told EXCEPT ![a][layer[a]][r].outcome = x]
    BY <1>5, <1>7 DEF Ends
  <2>2. [Heard(a)[r] EXCEPT !.outcome = x] = [lines |-> Heard(a)[r].lines, outcome |-> x]
    BY <2>1 DEF Said
  <2> QED
    BY <1>1, <2>1, <2>2 DEF Tells, Saying, Heard
<1> QED
  BY <1>3, <1>6, <1>7

\* What an event finds: the engine is in a layer, and the resource runs.
LEMMA EventFinds ==
    ASSUME ReportInv, NEW a \in Apply, NEW r \in Resource
    PROVE  /\ Start(a, r) => layer[a] > 0 /\ Heard(a)[r] = None
           /\ (Emits(a) /\ r \in running) =>
                 /\ layer[a] > 0 /\ Heard(a)[r] \in Said /\ Heard(a)[r].outcome = "running"
                 /\ Word(told[a], r) = Heard(a)[r]
           /\ Emits(a) => locked = a
<1>1. told[a] \in Heards /\ Len(told[a]) = layer[a] /\ layer[a] \in Nat
  BY DEF ReportInv, ReportTypes, EventsSaid
<1>2. ASSUME layer[a] > 0 PROVE told[a][layer[a]] \in [Resource -> Said \cup {None}]
  BY <1>1, <1>2 DEF Heards
<1>3. ASSUME Emits(a), r \in running
      PROVE  layer[a] > 0 /\ Heard(a)[r] \in Said /\ Heard(a)[r].outcome = "running"
  BY <1>2, <1>3 DEF Emits, Heard, ReportInv, EnginePlace
<1>4. ASSUME Emits(a), r \in running
      PROVE  Word(told[a], r) = Heard(a)[r]
  <2>1. told[a][Len(told[a])][r] # None
    BY <1>1, <1>3, <1>4, SaidIsSaid DEF Heard
  <2> QED
    BY <1>1, <1>3, <1>4, <2>1, WordNow DEF Heard
<1> QED
  BY <1>3, <1>4 DEF Start, Emits, ReportInv, EnginePlace

LEMMA ReportEvent ==
    ASSUME ReportInv, NEW a \in Apply, NEW r \in Resource,
           Start(a, r) \/ Output(a, r) \/ Ends(a, r, "done") \/ Ends(a, r, "failed")
    PROVE  ReportInv'
<1>1. UNCHANGED <<clock, pc, locked, plan, layer>> /\ locked = a /\ layer[a] > 0 /\ Emits(a)
  BY EventFinds DEF Start, Output, Ends, Emits
<1>2. \E x \in Said : Tells(a, r, x) /\ (r \in running' => x.outcome = "running")
  <2>1. CASE Start(a, r)
    <3>1. [lines |-> 0, outcome |-> "running"] \in Said
      BY DEF Said
    <3> QED
      BY <2>1, <3>1, EventTells
  <2>2. CASE Output(a, r)
    <3>1. Heard(a)[r] \in Said /\ Heard(a)[r].outcome = "running"
      BY <2>2, EventFinds DEF Output
    <3>2. [lines |-> Heard(a)[r].lines + 1, outcome |-> Heard(a)[r].outcome] \in Said
      BY <3>1 DEF Said
    <3> QED
      BY <1>1, <2>2, <3>1, <3>2, EventTells
  <2>3. ASSUME NEW x \in {"done", "failed"}, Ends(a, r, x)
        PROVE  [lines |-> Heard(a)[r].lines, outcome |-> x] \in Said /\ r \notin running'
    <3>1. Heard(a)[r] \in Said
      BY <2>3, EventFinds DEF Ends
    <3> QED
      BY <2>3, <3>1 DEF Said, Ends
  <2>4. CASE Ends(a, r, "done") \/ Ends(a, r, "failed")
    BY <1>1, <2>3, <2>4, EventTells
  <2> QED
    BY <2>1, <2>2, <2>4
<1>3. PICK x \in Said : Tells(a, r, x) /\ (r \in running' => x.outcome = "running")
  BY <1>2
<1>4. /\ told' \in [Apply -> Heards] /\ \A b \in Apply : EventsSaid(b)'
      /\ Heard(a)' = [Heard(a) EXCEPT ![r] = x]
  BY <1>1, <1>3, TellsOne
<1>5. running' \subseteq running \cup {r}
  BY DEF Start, Output, Ends
<1>6. ReportTypes'
  BY <1>1, <1>4, <1>5 DEF ReportInv, ReportTypes
<1>7. Heard(a) \in [Resource -> Said \cup {None}]
  BY <1>1 DEF ReportInv, ReportTypes, EventsSaid, Heards, Heard
<1>8. ASSUME NEW q \in running'
      PROVE  layer'[a] > 0 /\ Heard(a)'[q] # None /\ Heard(a)'[q].outcome = "running"
  <2>1. CASE q = r
    BY <1>1, <1>3, <1>4, <1>7, <2>1, SaidIsSaid
  <2>2. CASE q # r
    BY <1>1, <1>4, <1>5, <1>7, <2>2 DEF ReportInv, EnginePlace, ReportTypes
  <2> QED
    BY <2>1, <2>2
<1>9. EnginePlace'
  <2>1. \A b \in Apply : pc'[b] = "running" <=> locked' = b
    BY <1>1 DEF ReportInv, EnginePlace
  <2>2. locked' # None /\ \A b \in Apply : locked' = b => b = a
    BY <1>1, LogAssumption DEF LogAssumption
  <2> QED
    BY <1>1, <1>8, <2>1, <2>2 DEF EnginePlace
<1> QED
  BY <1>4, <1>6, <1>9 DEF ReportInv

\* A new layer says nothing yet.
LEMMA LayerSays ==
    ASSUME ReportInv, NEW a \in Apply, LayerStart(a)
    PROVE  /\ told' = [told EXCEPT ![a] = Append(told[a], NoWords)]
           /\ told' \in [Apply -> Heards]
           /\ \A b \in Apply : EventsSaid(b)'
           /\ \A b \in Apply, r \in Resource : Word(told'[b], r) = Word(told[b], r)
<1>1. told[a] \in Heards /\ Len(told[a]) = layer[a] /\ layer[a] \in Nat /\ \A r \in Resource : HasLast(told[a], r)
  BY DEF ReportInv, ReportTypes, EventsSaid
<1>2. /\ told' = [told EXCEPT ![a] = Append(told[a], NoWords)]
      /\ layer' = [layer EXCEPT ![a] = @ + 1] /\ layer[a] < Len(plan[a])
      /\ UNCHANGED <<pc, plan>> /\ pc[a] = "running"
  BY DEF LayerStart, NoWords, Emits
<1>3. Append(told[a], NoWords) \in Heards /\ Len(Append(told[a], NoWords)) = layer[a] + 1
  <2>1. Append(told[a], NoWords) \in Heards
    <3>1. NoWords \in [Resource -> Said \cup {None}]
      BY DEF NoWords
    <3> QED
      BY <1>1, <3>1 DEF Heards
  <2> QED
    BY <1>1, <2>1 DEF Heards
<1>4. \A r \in Resource : HasLast(Append(told[a], NoWords), r)
                          /\ Word(Append(told[a], NoWords), r) = Word(told[a], r)
  BY <1>1, WordKept
<1> DEFINE v == Append(told[a], NoWords)
<1> HIDE DEF v
<1>5. told'[a] = v /\ \A b \in Apply \ {a} : told'[b] = told[b]
  BY <1>2 DEF ReportInv, ReportTypes, v
<1>6. layer'[a] = layer[a] + 1 /\ \A b \in Apply \ {a} : layer'[b] = layer[b]
  BY <1>2 DEF ReportInv, ReportTypes
<1>7. told' \in [Apply -> Heards]
  BY <1>2, <1>3 DEF ReportInv, ReportTypes
<1>8. \A b \in Apply \ {a} : EventsSaid(b)'
  BY <1>2, <1>5, <1>6 DEF ReportInv, EventsSaid
<1>9. EventsSaid(a)'
  <2>1. layer[a] \in Nat /\ Len(plan[a]) \in Nat
    BY <1>1 DEF ReportInv, ReportTypes
  <2> QED
    BY <1>2, <1>3, <1>4, <1>5, <1>6, <2>1 DEF EventsSaid, v
<1> QED
  BY <1>2, <1>4, <1>5, <1>7, <1>8, <1>9 DEF v

LEMMA ReportLayer ==
    ASSUME ReportInv, NEW a \in Apply, LayerStart(a)
    PROVE  ReportInv'
<1>1. /\ UNCHANGED <<clock, pc, locked, plan, running>> /\ running = {}
      /\ layer' = [layer EXCEPT ![a] = @ + 1]
  BY DEF LayerStart
<1>2. told' \in [Apply -> Heards] /\ \A b \in Apply : EventsSaid(b)'
  BY LayerSays
<1>3. layer' \in [Apply -> Nat]
  BY <1>1 DEF ReportInv, ReportTypes
<1>4. ReportTypes'
  BY <1>1, <1>2, <1>3 DEF ReportInv, ReportTypes
<1>5. EnginePlace'
  BY <1>1 DEF ReportInv, EnginePlace
<1> QED
  BY <1>2, <1>4, <1>5 DEF ReportInv

\* Nothing is said, and the engine is where it was.
LEMMA ReportQuiet ==
    ASSUME ReportInv, clock' \in Second, pc' \in [Apply -> Labels],
           UNCHANGED <<locked, plan, layer, running, told>>,
           \A a \in Apply : (pc'[a] = "running" <=> pc[a] = "running")
                            /\ (pc'[a] \in {"new", "opened"} => pc[a] \in {"new", "opened"})
    PROVE  ReportInv'
<1>1. ReportTypes'
  BY DEF ReportInv, ReportTypes
<1>2. \A a \in Apply : EventsSaid(a)'
  BY DEF ReportInv, EventsSaid
<1>3. EnginePlace'
  BY DEF ReportInv, EnginePlace, Heard
<1> QED
  BY <1>1, <1>2, <1>3 DEF ReportInv

LEMMA ReportLocks ==
    ASSUME ReportInv, NEW a \in Apply, Begin(a) \/ Return(a) \/ Kill(a)
    PROVE  ReportInv'
<1>1. /\ clock' = clock /\ UNCHANGED <<layer, told>> /\ pc' \in [Apply -> Labels]
      /\ \A b \in Apply \ {a} : pc'[b] = pc[b]
      /\ pc'[a] \notin {"new", "opened"}
  <2>1. pc \in [Apply -> Labels]
    BY DEF ReportInv, ReportTypes
  <2> QED
    BY <2>1 DEF Begin, Return, Kill, Goto, Labels
<1>2. CASE Begin(a)
  <2>1. CASE locked = None
    <3>1. PICK p \in Plans[a] : plan' = [plan EXCEPT ![a] = p]
      BY <1>2, <2>1 DEF Begin
    <3>2. locked' = a /\ pc'[a] = "running" /\ running' = running /\ pc[a] = "opened"
      BY <1>2, <2>1 DEF Begin, Goto, ReportInv, ReportTypes
    <3>3. p \in Seq([phase : Phases, nodes : SUBSET Resource])
      BY PlansAssumption DEF PlansAssumption
    <3>4. plan'[a] = p /\ \A b \in Apply \ {a} : plan'[b] = plan[b]
      BY <3>1 DEF ReportInv, ReportTypes
    <3>5. ReportTypes'
      BY <1>1, <3>1, <3>2, <3>3 DEF ReportInv, ReportTypes
    <3>6. \A b \in Apply \ {a} : EventsSaid(b)'
      BY <1>1, <3>4 DEF ReportInv, EventsSaid
    <3>7. EventsSaid(a)'
      <4>1. layer[a] = 0 /\ Len(p) \in Nat
        BY <3>2, <3>3 DEF ReportInv, EventsSaid
      <4> QED
        BY <1>1, <3>4, <4>1 DEF ReportInv, EventsSaid
    <3>8. EnginePlace'
      BY <1>1, <2>1, <3>2, LogAssumption DEF ReportInv, EnginePlace, LogAssumption
    <3> QED
      BY <3>5, <3>6, <3>7, <3>8 DEF ReportInv
  <2>2. CASE locked # None
    <3>1. UNCHANGED <<locked, plan, running>> /\ pc[a] # "running" /\ pc'[a] # "running"
      BY <1>2, <2>2 DEF Begin, Goto, ReportInv, ReportTypes
    <3> QED
      BY <1>1, <3>1, ReportQuiet DEF ReportInv, ReportTypes
  <2> QED
    BY <2>1, <2>2
<1>3. CASE Return(a) \/ Kill(a)
  <2>1. /\ plan' = plan /\ pc'[a] # "running" /\ pc[a] # "new" /\ pc[a] # "opened"
        /\ locked' = IF locked = a THEN None ELSE locked
        /\ running' = IF locked = a THEN {} ELSE running
    <3>1. CASE Return(a)
      BY <3>1 DEF Return, Emits, Goto, ReportInv, ReportTypes, EnginePlace
    <3>2. CASE Kill(a)
      BY <3>2 DEF Kill, Goto, ReportInv, ReportTypes
    <3> QED
      BY <1>3, <3>1, <3>2
  <2>2. ReportTypes'
    BY <1>1, <2>1 DEF ReportInv, ReportTypes
  <2>3. \A b \in Apply : EventsSaid(b)'
    BY <1>1, <2>1 DEF ReportInv, EventsSaid
  <2>4. EnginePlace'
    BY <1>1, <2>1, LogAssumption DEF ReportInv, EnginePlace, LogAssumption, Heard
  <2> QED
    BY <2>2, <2>3, <2>4 DEF ReportInv
<1> QED
  BY <1>2, <1>3

LEMMA ReportStep ==
    ASSUME ReportInv, [Next]_vars
    PROVE  ReportInv'
<1>1. pc \in [Apply -> Labels] /\ clock \in Second
  BY DEF ReportInv, ReportTypes
<1>2. CASE Tick
  BY <1>1, <1>2, ReportQuiet, LogAssumption DEF Tick, Second, LogAssumption
<1>3. ASSUME NEW a \in Apply, Open(a) \/ Finish(a) \/ RemoveOld(a) \/ CloseStore(a) \/ CtrlC(a)
      PROVE  ReportInv'
  <2>1. /\ clock' = clock /\ UNCHANGED <<locked, plan, layer, running, told>>
        /\ pc' = pc \/ \E l \in Labels \ {"new", "running"} :
                          pc' = [pc EXCEPT ![a] = l] /\ pc[a] # "running" /\ (l = "opened" => pc[a] = "new")
    BY <1>3 DEF Open, Finish, RemoveOld, CloseStore, CtrlC, Goto, Labels
  <2> QED
    BY <1>1, <2>1, ReportQuiet
<1>4. ASSUME NEW a \in Apply, NEW r \in Resource, Progress(a, r) PROVE ReportInv'
  BY <1>1, <1>4, ReportQuiet DEF Progress, reportVars
<1>5. CASE UNCHANGED vars
  BY <1>1, <1>5, ReportQuiet DEF vars, reportVars
<1>6. ASSUME NEW a \in Apply, NEW r \in Resource, Start(a, r) \/ Output(a, r) \/ Complete(a, r) \/ Error(a, r)
      PROVE  ReportInv'
  BY <1>6, ReportEvent DEF Complete, Error
<1> QED
  BY <1>2, <1>3, <1>4, <1>5, <1>6, ReportLayer, ReportLocks DEF Next

(***************************************************************************)
(* ApplyReport: the logs.                                                  *)
(***************************************************************************)
Begun(a) == pc[a] # "new"

Past == {"cleanup", "close", "over", "dead"}

\* What has failed failed in the present layer.
FailedSaid(a) ==
    \A r \in store[a].failed : layer[a] > 0 /\ Heard(a)[r] # None /\ Heard(a)[r].outcome = "failed"

Untouched(a) ==
    pc[a] \in {"new", "opened"} => ~store[a].dirCreated /\ store[a].metadata = {} /\ store[a].failed = {}

\* Whose session a directory is.
Known(u) ==
    \/ \E b \in Apply : Begun(b) /\ store[b].session = u
    \/ u < clock /\ \A b \in Apply : Begun(b) => u < store[b].session

\* Why it is there, and where its logs come from.
Explained(u) ==
    sessions[u] # None =>
        /\ \/ \E c \in Apply : store[c].session = u /\ store[c].dirCreated /\ pc[c] # "over"
           \/ \E r \in Resource : sessions[u][r] # None
        /\ \A r \in Resource : sessions[u][r] # None =>
              \E c \in Apply : /\ store[c].session = u /\ pc[c] \in Past
                               /\ r \in store[c].failed /\ r \in store[c].metadata

SessionsPlace ==
    /\ \A a \in Apply : Begun(a) => store[a].session <= clock /\ Explained(store[a].session)
    /\ \A u \in Second : sessions[u] # None => Known(u)

\* What store s has of a resource whose last word is w.
Tracked(s, r, w) ==
    IF w = None
    THEN r \notin s.metadata /\ r \notin s.failed
    ELSE /\ r \in s.failed <=> w.outcome = "failed"
         /\ r \in s.metadata <=> w.outcome # "done"
         /\ w.outcome # "done" => s.writers[r] = w.lines

LogOf(w) == IF w # None /\ w.outcome = "failed" THEN w.lines ELSE None

\* The session of an apply that began in a second of its own, of which the
\* events have said w; few others have begun after it.
Kept(s, dir, w, label, few) ==
    /\ ~s.dirCreated => dir = None /\ s.metadata = {} /\ \A r \in Resource : Word(w, r) = None
    /\ (s.dirCreated /\ dir # None) =>
          /\ label \in {"running", "flush"} => dir = NoLogs /\ \A r \in Resource : Tracked(s, r, Word(w, r))
          /\ label \in {"cleanup", "close", "over"} => \A r \in Resource : dir[r] = LogOf(Word(w, r))
          /\ label = "over" => dir # NoLogs
    /\ (s.dirCreated /\ few /\ (label = "over" => \E r \in Resource : LogOf(Word(w, r)) # None)) => dir # None

Few(a) == Cardinality(Later(a)) < Keep

Owned(a) ==
    (Begun(a) /\ OwnSecond(a)) => Kept(store[a], sessions[store[a].session], told[a], pc[a], Few(a))

LogInv ==
    /\ StoreTypes /\ SessionsPlace
    /\ \A a \in Apply : FailedSaid(a) /\ Untouched(a) /\ Owned(a)

\* Apply a does something to its own session, if anything.
Acts(a) ==
    /\ clock' = clock /\ Begun(a) /\ Begun(a)' /\ store'[a].session = store[a].session
    /\ \A b \in Apply \ {a} :
          pc'[b] = pc[b] /\ store'[b] = store[b] /\ told'[b] = told[b] /\ layer'[b] = layer[b]
    /\ \A u \in Second : u # store[a].session => sessions'[u] = sessions[u]

LEMMA SameSeconds ==
    ASSUME NEW a \in Apply, Acts(a), NEW b \in Apply
    PROVE  /\ store'[b].session = store[b].session /\ Begun(b)' = Begun(b)
           /\ OwnSecond(b)' = OwnSecond(b) /\ Few(b)' = Few(b)
<1>1. \A c \in Apply : store'[c].session = store[c].session /\ (pc'[c] # "new" <=> pc[c] # "new")
  BY DEF Acts, Begun
<1>2. Later(b)' = Later(b)
  BY <1>1 DEF Later
<1> QED
  BY <1>1, <1>2 DEF Begun, OwnSecond, Few

\* Nothing changes for the others.
LEMMA OneActs ==
    ASSUME LogInv, NEW a \in Apply, Acts(a), StoreTypes', FailedSaid(a)', Untouched(a)',
           Explained(store[a].session)',
           OwnSecond(a) => Kept(store'[a], sessions'[store[a].session], told'[a], pc'[a], Few(a))
    PROVE  LogInv'
<1>1. \A b \in Apply : /\ store'[b].session = store[b].session /\ Begun(b)' = Begun(b)
                       /\ OwnSecond(b)' = OwnSecond(b) /\ Few(b)' = Few(b)
  BY SameSeconds
<1>2. \A b \in Apply : store[b].session \in Second
  BY DEF LogInv, StoreTypes, Stores
<1>3. ASSUME NEW b \in Apply \ {a} PROVE FailedSaid(b)' /\ Untouched(b)' /\ Owned(b)'
  <2>1. pc'[b] = pc[b] /\ store'[b] = store[b] /\ told'[b] = told[b] /\ layer'[b] = layer[b]
    BY DEF Acts
  <2>2. FailedSaid(b)' /\ Untouched(b)'
    BY <2>1 DEF LogInv, FailedSaid, Untouched, Heard
  <2>3. ASSUME Begun(b), OwnSecond(b)
        PROVE  Kept(store'[b], sessions'[store[b].session], told'[b], pc'[b], Few(b))
    <3>1. store[b].session # store[a].session
      BY <2>3 DEF OwnSecond, Acts, Begun
    <3>2. sessions'[store[b].session] = sessions[store[b].session]
      BY <1>2, <3>1 DEF Acts
    <3> QED
      BY <2>1, <2>3, <3>2 DEF LogInv, Owned
  <2> QED
    BY <1>1, <2>2, <2>3 DEF Owned
<1>4. Owned(a)'
  BY <1>1 DEF Owned, Acts
<1>5. ASSUME NEW u \in Second, sessions'[u] # None PROVE Known(u)'
  <2>1. CASE u = store[a].session
    BY <1>1, <2>1 DEF Known, Acts
  <2>2. CASE u # store[a].session
    <3>1. Known(u)
      BY <1>5, <2>2 DEF Acts, LogInv, SessionsPlace
    <3> QED
      BY <1>1, <3>1 DEF Known, Acts
  <2> QED
    BY <2>1, <2>2
<1>6. ASSUME NEW b \in Apply, Begun(b) PROVE store'[b].session <= clock' /\ Explained(store[b].session)'
  <2>1. store[b].session <= clock /\ Explained(store[b].session)
    BY <1>6 DEF LogInv, SessionsPlace
  <2> DEFINE u == store[b].session
  <2>2. CASE u = store[a].session
    <3>1. store'[b].session = store'[a].session
      BY <1>1, <2>2
    <3>2. Explained(store[b].session)'
      BY <3>1 DEF Explained
    <3> QED
      BY <1>1, <2>1, <3>2 DEF Acts
  <2>3. CASE u # store[a].session
    <3>1. sessions'[u] = sessions[u]
      BY <1>2, <2>3 DEF Acts
    <3>2. \A c \in Apply : store[c].session = u => c # a /\ store'[c] = store[c] /\ pc'[c] = pc[c]
      BY <2>3 DEF Acts
    <3> HIDE DEF u
    <3>3. Explained(u)
      BY <2>1 DEF u
    <3>4. sessions'[u] # None =>
        /\ \/ \E c \in Apply : store'[c].session = u /\ store'[c].dirCreated /\ pc'[c] # "over"
           \/ \E r \in Resource : sessions'[u][r] # None
        /\ \A r \in Resource : sessions'[u][r] # None =>
              \E c \in Apply : /\ store'[c].session = u /\ pc'[c] \in Past
                               /\ r \in store'[c].failed /\ r \in store'[c].metadata
      BY <3>1, <3>2, <3>3 DEF Explained
    <3>5. store'[b].session = u
      BY <1>1 DEF u
    <3>6. Explained(store[b].session)'
      BY <3>4, <3>5 DEF Explained
    <3> QED
      BY <1>1, <2>1, <3>6 DEF Acts
  <2> QED
    BY <2>2, <2>3
<1>7. SessionsPlace'
  <2>1. \A b \in Apply : Begun(b)' => (store[b].session <= clock)' /\ Explained(store[b].session)'
    BY <1>1, <1>6
  <2> QED
    BY <1>5, <2>1 DEF SessionsPlace
<1> QED
  BY <1>3, <1>4, <1>7 DEF LogInv

LEMMA KeptByWords ==
    ASSUME NEW s, NEW dir, NEW w, NEW v, NEW l, NEW few, \A r \in Resource : Word(v, r) = Word(w, r),
           Kept(s, dir, w, l, few)
    PROVE  Kept(s, dir, v, l, few)
BY DEF Kept

\* The directory stays explained when apply a leaves it as it is.
LEMMA StillExplained ==
    ASSUME LogInv, NEW a \in Apply, Acts(a), sessions'[store[a].session] = sessions[store[a].session],
           store'[a].dirCreated = store[a].dirCreated, pc'[a] = "over" => pc[a] = "over",
           pc[a] \in Past => /\ pc'[a] \in Past
                             /\ store'[a].failed = store[a].failed /\ store'[a].metadata = store[a].metadata
    PROVE  Explained(store[a].session)'
<1>1. Explained(store[a].session)
  BY DEF LogInv, SessionsPlace, Acts
<1>2. \A c \in Apply : /\ store'[c].session = store[c].session /\ store'[c].dirCreated = store[c].dirCreated
                       /\ pc'[c] = "over" => pc[c] = "over"
                       /\ pc[c] \in Past => /\ pc'[c] \in Past
                                            /\ store'[c].failed = store[c].failed
                                            /\ store'[c].metadata = store[c].metadata
  BY DEF Acts
<1>3. store'[a].session = store[a].session
  BY DEF Acts
<1> DEFINE u == store[a].session
<1>4. Explained(u) /\ sessions'[u] = sessions[u] /\ store'[a].session = u
  BY <1>1, <1>3
<1> HIDE DEF u
<1>5. sessions'[u] # None =>
        /\ \/ \E c \in Apply : store'[c].session = u /\ store'[c].dirCreated /\ pc'[c] # "over"
           \/ \E r \in Resource : sessions'[u][r] # None
        /\ \A r \in Resource : sessions'[u][r] # None =>
              \E c \in Apply : /\ store'[c].session = u /\ pc'[c] \in Past
                               /\ r \in store'[c].failed /\ r \in store'[c].metadata
  BY <1>2, <1>4 DEF Explained
<1> QED
  BY <1>4, <1>5 DEF Explained

\* The engine takes apply a, leaves it, or begins a layer; or a is killed.
LEMMA LogQuiet ==
    ASSUME ReportInv, LogInv, NEW a \in Apply, UNCHANGED <<clock, sessions, store>>,
           \A b \in Apply \ {a} : pc'[b] = pc[b] /\ told'[b] = told[b] /\ layer'[b] = layer[b],
           \A r \in Resource : Word(told'[a], r) = Word(told[a], r),
           FailedSaid(a)', Begun(a),
           \/ pc'[a] = pc[a]
           \/ pc[a] = "opened" /\ pc'[a] \in {"running", "flush"}
           \/ pc[a] = "running" /\ pc'[a] = "flush"
           \/ pc[a] \in {"running", "flush", "cleanup", "close"} /\ pc'[a] = "dead"
    PROVE  LogInv'
<1>1. Acts(a)
  BY DEF Acts, Begun
<1>2. StoreTypes' /\ Untouched(a)'
  BY DEF LogInv, StoreTypes, Untouched
<1>3. Explained(store[a].session)'
  BY <1>1, StillExplained DEF Past
<1>4. ASSUME OwnSecond(a)
      PROVE  Kept(store[a], sessions[store[a].session], told'[a], pc'[a], Few(a))
  <2>1. Kept(store[a], sessions[store[a].session], told'[a], pc[a], Few(a))
    BY <1>4, KeptByWords DEF LogInv, Owned
  <2>2. pc[a] = "opened" => ~store[a].dirCreated
    BY DEF LogInv, Untouched
  <2> QED
    BY <2>1, <2>2 DEF Kept
<1> QED
  BY <1>1, <1>2, <1>3, <1>4, OneActs

LEMMA LogEngine ==
    ASSUME ReportInv, LogInv, NEW a \in Apply,
           Begin(a) \/ Return(a) \/ Kill(a) \/ CtrlC(a) \/ LayerStart(a) \/ \E r \in Resource : Progress(a, r)
    PROVE  LogInv'
<1>1. pc \in [Apply -> Labels]
  BY DEF ReportInv, ReportTypes
<1>2. CASE Begin(a) \/ Return(a) \/ Kill(a)
  <2>1. /\ UNCHANGED <<clock, sessions, store, told, layer>>
        /\ \A b \in Apply \ {a} : pc'[b] = pc[b]
        /\ \/ pc[a] = "opened" /\ pc'[a] \in {"running", "flush"}
           \/ pc[a] = "running" /\ pc'[a] = "flush"
           \/ pc[a] \in {"running", "flush", "cleanup", "close"} /\ pc'[a] = "dead"
    BY <1>1, <1>2 DEF Begin, Return, Kill, Goto, Emits, logVars
  <2>2. FailedSaid(a)'
    BY <2>1 DEF LogInv, FailedSaid, Heard
  <2> QED
    BY <2>1, <2>2, LogQuiet DEF Begun
<1>3. CASE CtrlC(a) \/ \E r \in Resource : Progress(a, r)
  <2>1. UNCHANGED <<clock, sessions, store, told, layer, pc>> /\ pc[a] = "running"
    BY <1>3 DEF CtrlC, Progress, Emits, logVars, reportVars
  <2>2. FailedSaid(a)'
    BY <2>1 DEF LogInv, FailedSaid, Heard
  <2> QED
    BY <2>1, <2>2, LogQuiet DEF Begun
<1>4. CASE LayerStart(a)
  <2>1. /\ UNCHANGED <<clock, sessions, store, pc>> /\ pc[a] = "running" /\ ~Failed(a)
        /\ layer' = [layer EXCEPT ![a] = @ + 1]
    BY <1>4 DEF LayerStart, Emits, logVars
  <2>2. /\ \A b \in Apply \ {a} : told'[b] = told[b] /\ layer'[b] = layer[b]
        /\ \A r \in Resource : Word(told'[a], r) = Word(told[a], r)
    <3>1. told' = [told EXCEPT ![a] = Append(told[a], NoWords)]
      BY <1>4, LayerSays
    <3>2. \A r \in Resource : Word(told'[a], r) = Word(told[a], r)
      BY <1>4, LayerSays
    <3> QED
      BY <2>1, <3>1, <3>2 DEF ReportInv, ReportTypes
  <2>3. store[a].failed = {}
    <3>1. store[a].failed \subseteq Resource
      BY DEF LogInv, StoreTypes, Stores
    <3> QED
      BY <2>1, <3>1 DEF Failed, LogInv, FailedSaid
  <2>4. FailedSaid(a)'
    BY <2>1, <2>3 DEF FailedSaid
  <2> QED
    BY <2>1, <2>2, <2>4, LogQuiet DEF Begun
<1> QED
  BY <1>2, <1>3, <1>4

\* An event leaves the others alone.
LEMMA EventActs ==
    ASSUME ReportInv, LogInv, NEW a \in Apply, NEW r \in Resource, NEW x \in Said, Tells(a, r, x),
           UNCHANGED <<clock, pc, plan, layer>>, layer[a] > 0, pc[a] = "running",
           NEW s \in Stores, store' = [store EXCEPT ![a] = s], s.session = store[a].session,
           \A u \in Second : u # store[a].session => sessions'[u] = sessions[u]
    PROVE  Acts(a) /\ store'[a] = s
<1>1. \A b \in Apply \ {a} : told'[b] = told[b]
  BY TellsOne
<1>2. store'[a] = s /\ \A b \in Apply \ {a} : store'[b] = store[b]
  BY DEF LogInv, StoreTypes
<1> QED
  BY <1>1, <1>2 DEF Acts, Begun

LEMMA LogStart ==
    ASSUME ReportInv, LogInv, NEW a \in Apply, NEW r \in Resource, Start(a, r)
    PROVE  LogInv'
<1> DEFINE s == store[a]
<1> DEFINE t == s.session
<1> DEFINE dir == IF s.dirCreated \/ sessions[t] # None THEN sessions[t] ELSE NoLogs
<1> DEFINE n == IF dir = None
                THEN s
                ELSE [s EXCEPT !.dirCreated = TRUE, !.writers[r] = 0, !.metadata = @ \cup {r}]
<1> DEFINE x == [lines |-> 0, outcome |-> "running"]
<1>1. /\ UNCHANGED <<clock, pc, plan, layer>> /\ pc[a] = "running"
      /\ sessions' = [sessions EXCEPT ![t] = dir] /\ store' = [store EXCEPT ![a] = n]
  BY DEF Start, RecordStart, Emits
<1>2. layer[a] > 0 /\ Heard(a)[r] = None /\ Tells(a, r, x) /\ x \in Said
  BY EventFinds, EventTells DEF Said
<1>3. s \in Stores /\ t \in Second /\ dir \in LogFiles \cup {None}
  BY NoLogsAreFiles DEF LogInv, StoreTypes, Stores
<1>4. n \in Stores /\ n.session = t /\ n.failed = s.failed
  BY <1>3 DEF Stores, LogFiles
<1>5. \A u \in Second : u # t => sessions'[u] = sessions[u]
  BY <1>1 DEF LogInv, StoreTypes
<1>6. sessions'[t] = dir
  BY <1>1, <1>3 DEF LogInv, StoreTypes
<1>7. /\ dir # None => /\ n.dirCreated /\ n.metadata = s.metadata \cup {r} /\ n.writers[r] = 0
                       /\ \A q \in Resource \ {r} : n.writers[q] = s.writers[q]
      /\ dir = None => n = s /\ s.dirCreated /\ sessions[t] = None
  BY <1>3, NoLogsAreFiles DEF Stores, LogFiles
<1>8. dir # None => IF s.dirCreated THEN dir = sessions[t] /\ sessions[t] # None ELSE dir \in {sessions[t], NoLogs}
  OBVIOUS
<1>9. ~s.dirCreated /\ sessions[t] = None => dir = NoLogs
  OBVIOUS
<1> HIDE DEF n, x, dir
<1>10. Acts(a) /\ store'[a] = n
  BY <1>1, <1>2, <1>4, <1>5, EventActs
<1>11. StoreTypes'
  BY <1>1, <1>3, <1>4 DEF LogInv, StoreTypes
<1>12. Heard(a)' = [Heard(a) EXCEPT ![r] = x] /\ Heard(a) \in [Resource -> Said \cup {None}]
  <2>1. Heard(a)' = [Heard(a) EXCEPT ![r] = x]
    BY <1>1, <1>2, TellsOne
  <2>2. Heard(a) \in [Resource -> Said \cup {None}]
    BY <1>2 DEF Heard, ReportInv, ReportTypes, EventsSaid, Heards
  <2> QED
    BY <2>1, <2>2
<1>13. r \notin s.failed
  BY <1>2 DEF LogInv, FailedSaid
<1>14. FailedSaid(a)' /\ Untouched(a)'
  <2>1. \A q \in s.failed : q # r /\ q \in Resource
    BY <1>3, <1>13 DEF Stores
  <2>2. \A q \in s.failed : Heard(a)'[q] = Heard(a)[q]
    BY <1>12, <2>1
  <2>3. \A q \in s.failed : layer[a] > 0 /\ Heard(a)[q] # None /\ Heard(a)[q].outcome = "failed"
    BY DEF LogInv, FailedSaid
  <2>4. FailedSaid(a)'
    BY <1>1, <1>4, <1>10, <2>2, <2>3 DEF FailedSaid
  <2> QED
    BY <1>1, <2>4 DEF Untouched
<1>15. Explained(t)
  BY <1>10 DEF LogInv, SessionsPlace, Acts
<1>16. Explained(store[a].session)'
  <2>1. \A c \in Apply : pc[c] \in Past => c # a /\ store'[c] = store[c]
    BY <1>1, <1>10 DEF Past, Acts
  <2>2. \A c \in Apply : pc'[c] = pc[c]
    BY <1>1
  <2>3. ASSUME NEW q \in Resource, dir # None, dir[q] # None
        PROVE  \E c \in Apply : /\ store'[c].session = t /\ pc'[c] \in Past
                                /\ q \in store'[c].failed /\ q \in store'[c].metadata
    <3>1. sessions[t] # None /\ sessions[t][q] # None
      BY <1>8, <2>3 DEF NoLogs
    <3>2. PICK c \in Apply : /\ store[c].session = t /\ pc[c] \in Past
                             /\ q \in store[c].failed /\ q \in store[c].metadata
      BY <1>15, <3>1 DEF Explained
    <3> QED
      BY <2>1, <2>2, <3>2
  <2>4. dir # None => store'[a].dirCreated /\ pc'[a] # "over"
    BY <1>1, <1>7, <1>10
  <2>5. store'[a].session = t
    BY <1>4, <1>10
  <2> HIDE DEF t, s
  <2> QED
    BY <1>6, <2>3, <2>4, <2>5 DEF Explained
<1>17. Word(told'[a], r) = x /\ \A q \in Resource \ {r} : Word(told'[a], q) = Word(told[a], q)
  BY <1>1, <1>2, TellsOne
<1>18. ASSUME OwnSecond(a)
       PROVE  Kept(store'[a], sessions'[store[a].session], told'[a], pc'[a], Few(a))
  <2>1. Kept(s, sessions[t], told[a], "running", Few(a))
    BY <1>1, <1>18 DEF LogInv, Owned, Begun
  <2>2. CASE dir = None
    BY <1>1, <1>6, <1>7, <1>10, <2>1, <2>2 DEF Kept
  <2>3. CASE dir # None
    <3>1. dir = NoLogs /\ \A q \in Resource : Tracked(s, q, Word(told[a], q))
      <4>1. CASE s.dirCreated
        BY <1>8, <2>1, <2>3, <4>1 DEF Kept
      <4>2. CASE ~s.dirCreated
        <5>1. dir = NoLogs /\ s.metadata = {} /\ \A q \in Resource : Word(told[a], q) = None
          BY <1>9, <2>1, <4>2 DEF Kept
        <5>2. ASSUME NEW q \in Resource PROVE q \notin s.failed
          <6>1. told[a] \in Heards /\ Len(told[a]) = layer[a]
            BY DEF ReportInv, ReportTypes, EventsSaid
          <6>2. Heard(a)[q] # None => Word(told[a], q) = Heard(a)[q]
            BY <1>2, <6>1, WordNow DEF Heard
          <6> QED
            BY <5>1, <6>2 DEF LogInv, FailedSaid
        <5> QED
          BY <5>1, <5>2 DEF Tracked
      <4> QED
        BY <4>1, <4>2
    <3>2. \A q \in Resource \ {r} : Tracked(n, q, Word(told'[a], q))
      BY <1>4, <1>7, <1>17, <2>3, <3>1 DEF Tracked
    <3>3. Tracked(n, r, Word(told'[a], r))
      BY <1>2, <1>4, <1>7, <1>13, <1>17, <2>3, SaidIsSaid DEF Tracked, x
    <3> QED
      BY <1>1, <1>6, <1>7, <1>10, <2>3, <3>1, <3>2, <3>3 DEF Kept
  <2> QED
    BY <2>2, <2>3
<1> QED
  BY <1>10, <1>11, <1>14, <1>16, <1>18, OneActs

\* Of the resources only r changes in store s, as x tells.
Marks(a, r, s, x) ==
    /\ s \in Stores /\ s.session = store[a].session /\ s.dirCreated = store[a].dirCreated
    /\ \A q \in Resource \ {r} : /\ q \in s.failed <=> q \in store[a].failed
                                 /\ q \in s.metadata <=> q \in store[a].metadata
                                 /\ s.writers[q] = store[a].writers[q]
    /\ r \in s.failed => x.outcome = "failed"
    /\ Tracked(store[a], r, Heard(a)[r]) => Tracked(s, r, x)

\* A running resource says x, and the store is told.
LEMMA LogRunning ==
    ASSUME ReportInv, LogInv, NEW a \in Apply, NEW r \in running, Emits(a), NEW x \in Said, Tells(a, r, x),
           UNCHANGED <<clock, pc, plan, layer, sessions>>,
           NEW s, store' = [store EXCEPT ![a] = s], Marks(a, r, s, x)
    PROVE  LogInv'
<1>0. /\ s \in Stores /\ s.session = store[a].session /\ s.dirCreated = store[a].dirCreated
      /\ \A q \in Resource \ {r} : /\ q \in s.failed <=> q \in store[a].failed
                                   /\ q \in s.metadata <=> q \in store[a].metadata
                                   /\ s.writers[q] = store[a].writers[q]
      /\ r \in s.failed => x.outcome = "failed"
      /\ Tracked(store[a], r, Heard(a)[r]) => Tracked(s, r, x)
  BY DEF Marks
<1>1. r \in Resource /\ pc[a] = "running"
  BY DEF ReportInv, ReportTypes, Emits
<1>2. layer[a] > 0 /\ Heard(a)[r] \in Said /\ Word(told[a], r) = Heard(a)[r]
  BY <1>1, EventFinds
<1>3. Acts(a) /\ store'[a] = s
  BY <1>0, <1>1, <1>2, EventActs
<1>4. StoreTypes'
  BY <1>0 DEF LogInv, StoreTypes
<1>5. /\ Heard(a)' = [Heard(a) EXCEPT ![r] = x] /\ Word(told'[a], r) = x
      /\ \A q \in Resource \ {r} : Word(told'[a], q) = Word(told[a], q)
  BY <1>1, <1>2, TellsOne
<1>6. Heard(a) \in [Resource -> Said \cup {None}]
  BY <1>2 DEF Heard, ReportInv, ReportTypes, EventsSaid, Heards
<1>7. ASSUME NEW q \in s.failed
      PROVE  layer'[a] > 0 /\ Heard(a)'[q] # None /\ Heard(a)'[q].outcome = "failed"
  <2>1. q \in Resource
    BY <1>0 DEF Stores
  <2>2. CASE q = r
    BY <1>0, <1>1, <1>2, <1>5, <1>6, <2>2, SaidIsSaid
  <2>3. CASE q # r
    <3>1. q \in store[a].failed
      BY <1>0, <2>1, <2>3
    <3>2. Heard(a)'[q] = Heard(a)[q]
      BY <1>5, <1>6, <2>1, <2>3
    <3> QED
      BY <3>1, <3>2 DEF LogInv, FailedSaid
  <2> QED
    BY <2>2, <2>3
<1>8. FailedSaid(a)' /\ Untouched(a)'
  BY <1>1, <1>3, <1>7 DEF FailedSaid, Untouched
<1>9. Explained(store[a].session)'
  BY <1>0, <1>1, <1>3, StillExplained DEF Past
<1>10. ASSUME OwnSecond(a)
       PROVE  Kept(store'[a], sessions'[store[a].session], told'[a], pc'[a], Few(a))
  <2>1. Kept(store[a], sessions[store[a].session], told[a], "running", Few(a))
    BY <1>1, <1>10 DEF LogInv, Owned, Begun
  <2>2. store[a].dirCreated
    BY <1>1, <1>2, <2>1, SaidIsSaid DEF Kept
  <2>3. ASSUME sessions[store[a].session] # None
        PROVE  \A q \in Resource : Tracked(s, q, Word(told'[a], q))
    <3>1. \A q \in Resource : Tracked(store[a], q, Word(told[a], q))
      BY <2>1, <2>2, <2>3 DEF Kept
    <3>2. Tracked(s, r, Word(told'[a], r))
      BY <1>0, <1>1, <1>2, <1>5, <3>1
    <3>3. \A q \in Resource \ {r} : Tracked(s, q, Word(told'[a], q))
      BY <1>0, <1>5, <3>1 DEF Tracked
    <3> QED
      BY <3>2, <3>3
  <2> QED
    BY <1>0, <1>1, <1>3, <2>1, <2>2, <2>3 DEF Kept
<1> QED
  BY <1>3, <1>4, <1>8, <1>9, <1>10, OneActs

LEMMA LogEvents ==
    ASSUME ReportInv, LogInv, NEW a \in Apply, NEW r \in Resource,
           Output(a, r) \/ Complete(a, r) \/ Error(a, r)
    PROVE  LogInv'
<1> DEFINE s == store[a]
<1>1. r \in running /\ Emits(a) /\ UNCHANGED <<clock, pc, plan, layer, sessions>>
  BY DEF Output, Complete, Error, Ends, RecordOutput, RecordComplete, RecordError
<1>2. s \in Stores /\ s.writers \in LogFiles /\ s.failed \in SUBSET Resource /\ s.metadata \in SUBSET Resource
  BY DEF LogInv, StoreTypes, Stores
<1>3. layer[a] > 0 /\ Heard(a)[r] \in Said /\ Heard(a)[r].outcome = "running" /\ Heard(a)[r].lines \in Nat
  BY <1>1, EventFinds DEF Said
<1>4. r \notin s.failed
  BY <1>3 DEF LogInv, FailedSaid
<1>5. CASE Output(a, r)
  <2> DEFINE x == [lines |-> Heard(a)[r].lines + 1, outcome |-> Heard(a)[r].outcome]
  <2> DEFINE n == [s EXCEPT !.writers[r] = IF @ = None THEN None ELSE @ + 1]
  <2>1. x \in Said /\ Tells(a, r, x)
    <3>1. x \in Said
      BY <1>3 DEF Said
    <3>2. Tells(a, r, x)
      BY <1>3, <1>5, EventTells
    <3> QED
      BY <3>1, <3>2
  <2>2. store' = [store EXCEPT ![a] = n]
    BY <1>5 DEF Output, RecordOutput
  <2>3. /\ n \in Stores /\ n.session = s.session /\ n.dirCreated = s.dirCreated
        /\ n.failed = s.failed /\ n.metadata = s.metadata
        /\ n.writers[r] = IF s.writers[r] = None THEN None ELSE s.writers[r] + 1
        /\ \A q \in Resource \ {r} : n.writers[q] = s.writers[q]
    BY <1>2 DEF Stores, LogFiles
  <2>4. Tracked(s, r, Heard(a)[r]) => Tracked(n, r, x)
    <3>1. None \notin Nat
      BY LogAssumption DEF LogAssumption
    <3>2. x # None /\ Heard(a)[r] # None
      BY <1>3, <2>1, SaidIsSaid
    <3> QED
      BY <1>3, <1>4, <2>3, <3>1, <3>2 DEF Tracked
  <2>5. \A q \in Resource \ {r} : /\ q \in n.failed <=> q \in s.failed
                                  /\ q \in n.metadata <=> q \in s.metadata
                                  /\ n.writers[q] = s.writers[q]
    BY <2>3
  <2>6. r \notin n.failed
    BY <1>4, <2>3
  <2> HIDE DEF x, n
  <2>7. Marks(a, r, n, x)
    BY <2>3, <2>4, <2>5, <2>6 DEF Marks
  <2> QED
    BY <1>1, <2>1, <2>2, <2>7, LogRunning
<1>6. CASE Complete(a, r)
  <2> DEFINE x == [lines |-> Heard(a)[r].lines, outcome |-> "done"]
  <2> DEFINE n == [s EXCEPT !.writers[r] = None, !.metadata = @ \ {r}]
  <2>1. x \in Said /\ Tells(a, r, x)
    BY <1>3, <1>6, EventTells DEF Said, Complete
  <2>2. store' = [store EXCEPT ![a] = n]
    BY <1>6 DEF Complete, RecordComplete
  <2>3. /\ n \in Stores /\ n.session = s.session /\ n.dirCreated = s.dirCreated
        /\ n.failed = s.failed /\ n.metadata = s.metadata \ {r}
        /\ \A q \in Resource \ {r} : n.writers[q] = s.writers[q]
    BY <1>2 DEF Stores, LogFiles
  <2>4. Tracked(n, r, x)
    BY <1>4, <2>1, <2>3, SaidIsSaid DEF Tracked
  <2>5. \A q \in Resource \ {r} : /\ q \in n.failed <=> q \in s.failed
                                  /\ q \in n.metadata <=> q \in s.metadata
                                  /\ n.writers[q] = s.writers[q]
    BY <2>3
  <2>6. r \notin n.failed
    BY <1>4, <2>3
  <2> HIDE DEF x, n
  <2>7. Marks(a, r, n, x)
    BY <2>3, <2>4, <2>5, <2>6 DEF Marks
  <2> QED
    BY <1>1, <2>1, <2>2, <2>7, LogRunning
<1>7. CASE Error(a, r)
  <2> DEFINE x == [lines |-> Heard(a)[r].lines, outcome |-> "failed"]
  <2> DEFINE n == [s EXCEPT !.failed = @ \cup {r}]
  <2>1. x \in Said /\ Tells(a, r, x)
    BY <1>3, <1>7, EventTells DEF Said, Error
  <2>2. store' = [store EXCEPT ![a] = n]
    BY <1>7 DEF Error, RecordError
  <2>3. /\ n \in Stores /\ n.session = s.session /\ n.dirCreated = s.dirCreated
        /\ n.failed = s.failed \cup {r} /\ n.metadata = s.metadata /\ n.writers = s.writers
    BY <1>2 DEF Stores, LogFiles
  <2>4. Tracked(s, r, Heard(a)[r]) => Tracked(n, r, x)
    BY <1>3, <2>1, <2>3, SaidIsSaid DEF Tracked
  <2>5. x.outcome = "failed"
    OBVIOUS
  <2> HIDE DEF x, n
  <2>6. Marks(a, r, n, x)
    BY <2>3, <2>4, <2>5 DEF Marks
  <2> QED
    BY <1>1, <2>1, <2>2, <2>6, LogRunning
<1> QED
  BY <1>5, <1>6, <1>7

\* A word is what an event says, or nothing was said.
LEMMA WordType ==
    ASSUME ReportInv, NEW a \in Apply, NEW r \in Resource
    PROVE  Word(told[a], r) \in Said \cup {None}
<1> DEFINE M == MentionsIn(told[a], r)
<1>1. told[a] \in Heards /\ M \subseteq DOMAIN told[a]
  BY DEF ReportInv, ReportTypes, MentionsIn
<1>2. M # {} => \E i \in M : \A j \in M : i >= j
  BY DEF ReportInv, EventsSaid, HasLast
<1> HIDE DEF M
<1>3. M # {} => Max(M) \in M
  BY <1>2 DEF Max
<1>4. \A i \in DOMAIN told[a] : told[a][i] \in [Resource -> Said \cup {None}]
  BY <1>1 DEF Heards
<1>5. CASE M = {}
  BY <1>5 DEF Word, M
<1>6. CASE M # {}
  <2>1. Word(told[a], r) = told[a][Max(M)][r] /\ Max(M) \in DOMAIN told[a]
    BY <1>1, <1>3, <1>6 DEF Word, M
  <2> QED
    BY <1>4, <2>1
<1> QED
  BY <1>5, <1>6

LEMMA LogFinish ==
    ASSUME ReportInv, LogInv, NEW a \in Apply, Finish(a)
    PROVE  LogInv'
<1> DEFINE s == store[a]
<1> DEFINE t == s.session
<1> DEFINE dir == sessions[t]
<1> DEFINE n == IF s.failed = {} THEN s ELSE cleanupTmpFiles(s)
<1> DEFINE made == IF s.failed = {} THEN dir ELSE WithLogs(dir, s)
<1>1. s \in Stores /\ t \in Second /\ dir \in LogFiles \cup {None} /\ pc \in [Apply -> Labels]
  BY DEF LogInv, StoreTypes, Stores, ReportInv, ReportTypes
<1>2. /\ UNCHANGED <<clock, told, layer>> /\ pc[a] = "flush" /\ pc'[a] = "cleanup"
      /\ \A b \in Apply \ {a} : pc'[b] = pc[b]
  BY <1>1 DEF Finish, Goto
<1>3. sessions' = [sessions EXCEPT ![t] = made] /\ store' = [store EXCEPT ![a] = n]
  BY <1>2 DEF Finish, Flush, logVars, LogInv, StoreTypes
<1>4. /\ n \in Stores /\ n.session = t /\ n.failed = s.failed /\ n.metadata = s.metadata
      /\ n.dirCreated = s.dirCreated
  BY <1>1, NoLogsAreFiles DEF Stores, cleanupTmpFiles
<1>5. \A r \in Resource : readTmpFile(s, r) \in Nat
  BY <1>1 DEF readTmpFile, Stores, LogFiles
<1>6. /\ made \in LogFiles \cup {None} /\ (made = None <=> dir = None)
      /\ dir # None => \A r \in Resource :
            made[r] = IF r \in s.failed /\ r \in s.metadata THEN readTmpFile(s, r) ELSE dir[r]
  <2>1. CASE s.failed = {} \/ dir = None
    BY <1>1, <2>1 DEF WithLogs
  <2>2. CASE s.failed # {} /\ dir # None
    <3>1. made = [r \in Resource |-> IF r \in s.failed \cap s.metadata THEN readTmpFile(s, r) ELSE dir[r]]
      BY <2>2 DEF WithLogs
    <3>2. made \in LogFiles
      BY <1>1, <1>5, <2>2, <3>1 DEF LogFiles
    <3> QED
      BY <2>2, <3>1, <3>2, NoLogsAreFiles
  <2> QED
    BY <2>1, <2>2
<1> HIDE DEF n, made
<1>7. store'[a] = n /\ sessions'[t] = made /\ StoreTypes'
  <2>1. store' \in [Apply -> Stores] /\ store'[a] = n
    BY <1>3, <1>4 DEF LogInv, StoreTypes
  <2> HIDE DEF t, s, dir
  <2>2. sessions \in [Second -> LogFiles \cup {None}] /\ made \in LogFiles \cup {None}
    BY <1>6 DEF LogInv, StoreTypes
  <2>3. sessions' \in [Second -> LogFiles \cup {None}]
    BY <1>3, <2>2
  <2>4. sessions'[t] = made
    BY <1>1, <1>3, <2>2
  <2> QED
    BY <2>1, <2>3, <2>4 DEF StoreTypes
<1>8. Acts(a)
  BY <1>1, <1>2, <1>3, <1>4, <1>7 DEF Acts, Begun, LogInv, StoreTypes
<1>9. FailedSaid(a)' /\ Untouched(a)'
  BY <1>2, <1>4, <1>7 DEF LogInv, FailedSaid, Untouched, Heard
<1>10. None \notin Nat
  BY LogAssumption DEF LogAssumption
<1>11. Explained(store[a].session)'
  <2>1. Explained(t)
    BY <1>8 DEF LogInv, SessionsPlace, Acts
  <2>2. \A c \in Apply : /\ store'[c].session = store[c].session /\ store'[c].dirCreated = store[c].dirCreated
                         /\ store'[c].failed = store[c].failed /\ store'[c].metadata = store[c].metadata
                         /\ pc[c] # "over" => pc'[c] # "over"
                         /\ pc[c] \in Past => pc'[c] \in Past
    BY <1>2, <1>4, <1>7, <1>8 DEF Acts, Past
  <2>3. ASSUME NEW r \in Resource, made # None, made[r] # None
        PROVE  \E c \in Apply : /\ store'[c].session = t /\ pc'[c] \in Past
                                /\ r \in store'[c].failed /\ r \in store'[c].metadata
    <3>1. CASE r \in s.failed /\ r \in s.metadata
      BY <1>2, <1>4, <1>7, <3>1 DEF Past
    <3>2. CASE ~(r \in s.failed /\ r \in s.metadata)
      <4>1. dir # None /\ dir[r] # None
        BY <1>6, <2>3, <3>2
      <4>2. PICK c \in Apply : /\ store[c].session = t /\ pc[c] \in Past
                               /\ r \in store[c].failed /\ r \in store[c].metadata
        BY <2>1, <4>1 DEF Explained
      <4> QED
        BY <2>2, <4>2
    <3> QED
      BY <3>1, <3>2
  <2>4. made # None => \/ \E c \in Apply : store'[c].session = t /\ store'[c].dirCreated /\ pc'[c] # "over"
                       \/ \E r \in Resource : made[r] # None
    <3>1. \A r \in Resource : (made # None /\ dir[r] # None) => made[r] # None
      BY <1>5, <1>6, <1>10
    <3>2. made # None => \/ \E c \in Apply : store[c].session = t /\ store[c].dirCreated /\ pc[c] # "over"
                         \/ \E r \in Resource : dir[r] # None
      BY <1>6, <2>1 DEF Explained
    <3> HIDE DEF t, dir, s
    <3> QED
      BY <2>2, <3>1, <3>2
  <2>5. store'[a].session = t
    BY <1>4, <1>7
  <2> HIDE DEF t, dir, s
  <2> QED
    BY <1>7, <2>3, <2>4, <2>5 DEF Explained
<1>12. ASSUME OwnSecond(a)
       PROVE  Kept(store'[a], sessions'[store[a].session], told'[a], pc'[a], Few(a))
  <2>1. Kept(s, dir, told[a], "flush", Few(a))
    BY <1>2, <1>12 DEF LogInv, Owned, Begun
  <2>2. ASSUME s.dirCreated, dir # None, NEW r \in Resource
        PROVE  made[r] = LogOf(Word(told[a], r))
    <3>1. dir = NoLogs /\ Tracked(s, r, Word(told[a], r))
      BY <2>1, <2>2 DEF Kept
    <3>2. dir[r] = None
      BY <3>1 DEF NoLogs
    <3>3. Word(told[a], r) \in Said \cup {None}
      BY WordType
    <3>4. CASE LogOf(Word(told[a], r)) = None
      <4>1. ~(Word(told[a], r) # None /\ Word(told[a], r).outcome = "failed")
        BY <1>10, <3>3, <3>4 DEF LogOf, Said
      <4>2. ~(r \in s.failed /\ r \in s.metadata)
        BY <3>1, <4>1 DEF Tracked
      <4> QED
        BY <1>6, <2>2, <3>2, <3>4, <4>2
    <3>5. CASE LogOf(Word(told[a], r)) # None
      <4>1. Word(told[a], r) # None /\ Word(told[a], r).outcome = "failed" /\ Word(told[a], r).lines \in Nat
        BY <3>3, <3>5 DEF LogOf, Said
      <4>2. r \in s.failed /\ r \in s.metadata /\ s.writers[r] = Word(told[a], r).lines
        BY <3>1, <4>1 DEF Tracked
      <4>3. readTmpFile(s, r) = Word(told[a], r).lines
        BY <1>10, <4>1, <4>2 DEF readTmpFile
      <4> QED
        BY <1>6, <2>2, <4>1, <4>2, <4>3 DEF LogOf
    <3> QED
      BY <3>4, <3>5
  <2> QED
    BY <1>2, <1>4, <1>6, <1>7, <2>1, <2>2 DEF Kept
<1> QED
  BY <1>7, <1>8, <1>9, <1>11, <1>12, OneActs

LEMMA LogClose ==
    ASSUME ReportInv, LogInv, NEW a \in Apply, CloseStore(a)
    PROVE  LogInv'
<1> DEFINE s == store[a]
<1> DEFINE t == s.session
<1> DEFINE dir == sessions[t]
<1> DEFINE n == cleanupTmpFiles(s)
<1> DEFINE left == IF s.dirCreated THEN removeIfEmpty(dir) ELSE dir
<1>1. s \in Stores /\ t \in Second /\ dir \in LogFiles \cup {None} /\ pc \in [Apply -> Labels]
  BY DEF LogInv, StoreTypes, Stores, ReportInv, ReportTypes
<1>2. /\ UNCHANGED <<clock, told, layer>> /\ pc[a] = "close" /\ pc'[a] = "over"
      /\ \A b \in Apply \ {a} : pc'[b] = pc[b]
  BY <1>1 DEF CloseStore, Goto
<1>3. sessions' = [sessions EXCEPT ![t] = left] /\ store' = [store EXCEPT ![a] = n]
  BY <1>2 DEF CloseStore, Close, LogInv, StoreTypes
<1>4. /\ n \in Stores /\ n.session = t /\ n.failed = s.failed /\ n.metadata = s.metadata
      /\ n.dirCreated = s.dirCreated
  BY <1>1, NoLogsAreFiles DEF Stores, cleanupTmpFiles
<1>5. /\ left \in LogFiles \cup {None} /\ (left # None => left = dir)
      /\ s.dirCreated /\ left # None => dir # NoLogs
      /\ s.dirCreated /\ dir # NoLogs => left = dir
      /\ ~s.dirCreated => left = dir
  BY <1>1 DEF removeIfEmpty
<1> HIDE DEF n, left
<1>6. store'[a] = n /\ sessions'[t] = left /\ StoreTypes'
  BY <1>1, <1>3, <1>4, <1>5 DEF LogInv, StoreTypes
<1>7. Acts(a)
  BY <1>1, <1>2, <1>3, <1>4, <1>6 DEF Acts, Begun, LogInv, StoreTypes
<1>8. FailedSaid(a)' /\ Untouched(a)'
  BY <1>2, <1>4, <1>6 DEF LogInv, FailedSaid, Untouched, Heard
<1>9. Explained(store[a].session)'
  <2>1. Explained(t)
    BY <1>7 DEF LogInv, SessionsPlace, Acts
  <2>2. \A c \in Apply : /\ store'[c].session = store[c].session /\ store'[c].dirCreated = store[c].dirCreated
                         /\ store'[c].failed = store[c].failed /\ store'[c].metadata = store[c].metadata
                         /\ pc[c] \in Past => pc'[c] \in Past
                         /\ c # a => pc'[c] = pc[c]
    BY <1>2, <1>4, <1>6, <1>7 DEF Acts, Past
  <2>3. left # None => \/ \E c \in Apply : store'[c].session = t /\ store'[c].dirCreated /\ pc'[c] # "over"
                       \/ \E r \in Resource : left[r] # None
    <3>1. CASE s.dirCreated /\ left # None
      <4>1. dir # NoLogs /\ dir \in LogFiles /\ left = dir
        BY <1>1, <1>5, <3>1
      <4>2. \E r \in Resource : dir[r] # None
        BY <4>1 DEF LogFiles, NoLogs
      <4> QED
        BY <4>1, <4>2
    <3>2. CASE ~s.dirCreated /\ left # None
      <4>1. left = dir
        BY <1>5, <3>2
      <4>2. \/ \E c \in Apply : store[c].session = t /\ store[c].dirCreated /\ pc[c] # "over"
            \/ \E r \in Resource : dir[r] # None
        BY <2>1, <3>2, <4>1 DEF Explained
      <4> QED
        BY <2>2, <3>2, <4>1, <4>2
    <3> QED
      BY <3>1, <3>2
  <2>4. ASSUME NEW r \in Resource, left # None, left[r] # None
        PROVE  \E c \in Apply : /\ store'[c].session = t /\ pc'[c] \in Past
                                /\ r \in store'[c].failed /\ r \in store'[c].metadata
    <3>1. PICK c \in Apply : /\ store[c].session = t /\ pc[c] \in Past
                             /\ r \in store[c].failed /\ r \in store[c].metadata
      BY <1>5, <2>1, <2>4 DEF Explained
    <3> QED
      BY <2>2, <3>1
  <2>5. store'[a].session = t
    BY <1>4, <1>6
  <2> HIDE DEF t, dir, s
  <2> QED
    BY <1>6, <2>3, <2>4, <2>5 DEF Explained
<1>10. ASSUME OwnSecond(a)
       PROVE  Kept(store'[a], sessions'[store[a].session], told'[a], pc'[a], Few(a))
  <2>1. Kept(s, dir, told[a], "close", Few(a))
    BY <1>2, <1>10 DEF LogInv, Owned, Begun
  <2>2. ASSUME s.dirCreated, Few(a), NEW r \in Resource, LogOf(Word(told[a], r)) # None
        PROVE  left # None
    <3>1. dir # None /\ dir[r] = LogOf(Word(told[a], r))
      BY <2>1, <2>2 DEF Kept
    <3>2. dir # NoLogs
      BY <2>2, <3>1 DEF NoLogs
    <3> QED
      BY <1>5, <2>2, <3>1, <3>2
  <2> QED
    BY <1>2, <1>4, <1>5, <1>6, <2>1, <2>2 DEF Kept
<1> QED
  BY <1>6, <1>7, <1>8, <1>9, <1>10, OneActs

\* The sessions that are newer than one of its own second's are of applies that
\* began later.
LEMMA FewNewer ==
    ASSUME LogInv, NEW b \in Apply, Begun(b), Few(b), store[b].session \in Sessions
    PROVE  store[b].session \in Newest(Keep, Sessions)
<1> DEFINE t == store[b].session
<1> DEFINE T == {u \in Sessions : u > t}
<1> DEFINE D == {c \in Later(b) : store[c].session \in T}
<1>1. \A c \in Apply : store[c].session \in Second
  BY DEF LogInv, StoreTypes, Stores
<1>2. ASSUME NEW u \in T PROVE \E c \in D : store[c].session = u
  <2>1. u \in Second /\ sessions[u] # None /\ u > t
    BY DEF Sessions
  <2>2. Known(u)
    BY <2>1 DEF LogInv, SessionsPlace
  <2>3. ~(u < t)
    BY <1>1, <2>1, NoLogsAreFiles
  <2>4. PICK c \in Apply : Begun(c) /\ store[c].session = u
    BY <2>2, <2>3 DEF Known
  <2> QED
    BY <2>1, <2>4 DEF Later, Begun
<1>3. IsFiniteSet(Later(b)) /\ D \in SUBSET Later(b)
  BY LogAssumption, FS_Subset DEF LogAssumption, Later
<1>4. IsFiniteSet(D) /\ Cardinality(D) <= Cardinality(Later(b))
  BY <1>3, FS_Subset
<1> DEFINE f == [c \in D |-> store[c].session]
<1>5. f \in Surjection(D, T)
  <2>1. f \in [D -> T]
    OBVIOUS
  <2>2. \A u \in T : \E c \in D : f[c] = u
    BY <1>2
  <2> QED
    BY <2>1, <2>2 DEF Surjection
<1> HIDE DEF f, D, T
<1>6. IsFiniteSet(T) /\ Cardinality(T) <= Cardinality(D)
  BY <1>4, <1>5, FS_Surjection
<1>7. Cardinality(T) \in Nat /\ Cardinality(D) \in Nat /\ Cardinality(Later(b)) \in Nat /\ Keep \in Nat
  BY <1>3, <1>4, <1>6, FS_CardinalityType, LogAssumption DEF LogAssumption
<1>8. Cardinality(T) < Keep
  BY <1>4, <1>6, <1>7 DEF Few
<1> QED
  BY <1>8 DEF Newest, T

LEMMA LogRemoveOld ==
    ASSUME ReportInv, LogInv, NEW a \in Apply, RemoveOld(a)
    PROVE  LogInv'
<1>1. /\ UNCHANGED <<clock, told, layer, store>> /\ pc[a] = "cleanup" /\ pc'[a] = "close"
      /\ \A b \in Apply \ {a} : pc'[b] = pc[b]
      /\ sessions' = [t \in Second |-> IF t \in Newest(Keep, Sessions) THEN sessions[t] ELSE None]
  BY DEF RemoveOld, Cleanup, Goto, ReportInv, ReportTypes
<1>2. \A b \in Apply : /\ Begun(b)' <=> Begun(b)
                       /\ pc[b] \in Past <=> pc'[b] \in Past
                       /\ pc[b] = "over" <=> pc'[b] = "over"
                       /\ pc[b] \in {"running", "flush"} <=> pc'[b] \in {"running", "flush"}
                       /\ pc[b] \in {"cleanup", "close", "over"} <=> pc'[b] \in {"cleanup", "close", "over"}
                       /\ pc[b] \in {"new", "opened"} <=> pc'[b] \in {"new", "opened"}
  BY <1>1 DEF Begun, Past
<1>3. StoreTypes'
  BY <1>1 DEF LogInv, StoreTypes
<1>4. \A b \in Apply : FailedSaid(b)' /\ Untouched(b)'
  BY <1>1, <1>2 DEF LogInv, FailedSaid, Untouched, Heard
<1>5. \A b \in Apply : store[b].session \in Second
  BY DEF LogInv, StoreTypes, Stores
<1>6. ASSUME NEW u \in Second, sessions'[u] # None
      PROVE  sessions'[u] = sessions[u] /\ sessions[u] # None
  BY <1>1, <1>6
<1>7. ASSUME NEW u \in Second, sessions'[u] # None PROVE Known(u)'
  <2>1. Known(u)
    BY <1>6, <1>7 DEF LogInv, SessionsPlace
  <2> QED
    BY <1>1, <1>2, <2>1 DEF Known
<1>8. ASSUME NEW b \in Apply, Begun(b) PROVE Explained(store[b].session)'
  <2> DEFINE u == store[b].session
  <2>1. Explained(u) /\ u \in Second /\ store'[b].session = u
    BY <1>1, <1>5, <1>8 DEF LogInv, SessionsPlace
  <2>2. sessions'[u] # None => sessions'[u] = sessions[u] /\ sessions[u] # None
    BY <1>6, <2>1
  <2> HIDE DEF u
  <2>3. sessions'[u] # None =>
        /\ \/ \E c \in Apply : store'[c].session = u /\ store'[c].dirCreated /\ pc'[c] # "over"
           \/ \E r \in Resource : sessions'[u][r] # None
        /\ \A r \in Resource : sessions'[u][r] # None =>
              \E c \in Apply : /\ store'[c].session = u /\ pc'[c] \in Past
                               /\ r \in store'[c].failed /\ r \in store'[c].metadata
    BY <1>1, <1>2, <2>1, <2>2 DEF Explained
  <2> QED
    BY <2>1, <2>3 DEF Explained
<1>9. SessionsPlace'
  <2>1. \A b \in Apply : Begun(b)' => (store[b].session <= clock)'
    BY <1>1, <1>2 DEF LogInv, SessionsPlace
  <2> QED
    BY <1>2, <1>7, <1>8, <2>1 DEF SessionsPlace
<1>10. \A b \in Apply : Few(b)' = Few(b) /\ OwnSecond(b)' = OwnSecond(b)
  <2>1. \A b \in Apply : Later(b)' = Later(b)
    BY <1>1, <1>2 DEF Later, Begun
  <2> QED
    BY <1>1, <1>2, <2>1 DEF Few, OwnSecond, Begun
<1>11. ASSUME NEW b \in Apply, Begun(b), OwnSecond(b)
       PROVE  Kept(store[b], sessions'[store[b].session], told[b], pc'[b], Few(b))
  <2> DEFINE u == store[b].session
  <2>1. Kept(store[b], sessions[u], told[b], pc[b], Few(b))
    BY <1>11 DEF LogInv, Owned
  <2>2. sessions'[u] # None => sessions'[u] = sessions[u]
    BY <1>5, <1>6
  <2>3. (Few(b) /\ sessions[u] # None) => sessions'[u] = sessions[u]
    <3>1. (Few(b) /\ sessions[u] # None) => u \in Newest(Keep, Sessions)
      BY <1>5, <1>11, FewNewer DEF Sessions
    <3> QED
      BY <1>1, <1>5, <3>1
  <2> HIDE DEF u
  <2>4. Kept(store[b], sessions'[u], told[b], pc'[b], Few(b))
    BY <1>2, <2>1, <2>2, <2>3 DEF Kept
  <2> QED
    BY <2>4 DEF u
<1>12. \A b \in Apply : Owned(b)'
  BY <1>1, <1>2, <1>10, <1>11 DEF Owned
<1> QED
  BY <1>3, <1>4, <1>9, <1>12 DEF LogInv

LEMMA SessionsAreSeconds ==
    ASSUME LogInv
    PROVE  \A b \in Apply : store[b].session \in Second /\ store[b].session \in Int
<1> SUFFICES ASSUME NEW b \in Apply
             PROVE  store[b].session \in Second /\ store[b].session \in Int
  OBVIOUS
<1>1. store[b].session \in Second
  BY DEF LogInv, StoreTypes, Stores
<1>2. \A u \in Second : u \in Int
  BY NoLogsAreFiles
<1> QED
  BY <1>1, <1>2

\* An apply begins in a second that is not another's, or is.
LEMMA LogOpen ==
    ASSUME ReportInv, LogInv, NEW a \in Apply, Open(a)
    PROVE  LogInv'
<1> DEFINE n == [Closed EXCEPT !.session = clock]
<1>1. /\ UNCHANGED <<clock, told, layer, sessions>> /\ pc[a] = "new" /\ pc'[a] = "opened"
      /\ \A b \in Apply \ {a} : pc'[b] = pc[b]
      /\ store' = [store EXCEPT ![a] = n]
  BY DEF Open, NewStore, Goto, ReportInv, ReportTypes
<1>2. /\ n \in Stores /\ n.session = clock /\ ~n.dirCreated /\ n.metadata = {} /\ n.failed = {}
      /\ clock \in Second
  BY NoLogsAreFiles DEF Closed, Stores, ReportInv, ReportTypes
<1> HIDE DEF n
<1>3. store'[a] = n /\ \A b \in Apply \ {a} : store'[b] = store[b]
  BY <1>1 DEF LogInv, StoreTypes
<1>4. StoreTypes'
  BY <1>1, <1>2 DEF LogInv, StoreTypes
<1>5. ~Begun(a) /\ Begun(a)' /\ \A b \in Apply \ {a} : Begun(b)' = Begun(b)
  BY <1>1 DEF Begun
<1>6. \A b \in Apply : FailedSaid(b)' /\ Untouched(b)'
  <2>1. FailedSaid(a)' /\ Untouched(a)'
    BY <1>2, <1>3 DEF FailedSaid, Untouched
  <2>2. \A b \in Apply \ {a} : FailedSaid(b)' /\ Untouched(b)'
    BY <1>1, <1>3 DEF LogInv, FailedSaid, Untouched, Heard
  <2> QED
    BY <2>1, <2>2
<1>7. \A b \in Apply : store[b].session \in Second /\ store[b].session \in Int
  BY SessionsAreSeconds
<1>8. clock \in Int /\ \A u \in Second : u \in Int
  BY <1>2, NoLogsAreFiles
<1>9. ASSUME NEW u \in Second, sessions[u] # None PROVE Known(u)'
  <2>1. Known(u)
    BY <1>9 DEF LogInv, SessionsPlace
  <2>2. CASE \E b \in Apply : Begun(b) /\ store[b].session = u
    BY <1>3, <1>5, <2>2 DEF Known
  <2>3. CASE u < clock /\ \A b \in Apply : Begun(b) => u < store[b].session
    BY <1>1, <1>2, <1>3, <1>5, <2>3 DEF Known
  <2> QED
    BY <2>1, <2>2, <2>3 DEF Known
<1>10. (\A b \in Apply \ {a} : Begun(b) => store[b].session # clock) => sessions[clock] = None
  <2>1. sessions[clock] # None => Known(clock)
    BY <1>2 DEF LogInv, SessionsPlace
  <2> QED
    BY <1>2, <1>5, <1>8, <2>1 DEF Known
<1>11. ASSUME NEW u \in Second, Explained(u)
       PROVE  sessions'[u] # None =>
        /\ \/ \E c \in Apply : store'[c].session = u /\ store'[c].dirCreated /\ pc'[c] # "over"
           \/ \E r \in Resource : sessions'[u][r] # None
        /\ \A r \in Resource : sessions'[u][r] # None =>
              \E c \in Apply : /\ store'[c].session = u /\ pc'[c] \in Past
                               /\ r \in store'[c].failed /\ r \in store'[c].metadata
  <2>1. ~store[a].dirCreated /\ pc[a] \notin Past
    BY <1>1 DEF LogInv, Untouched, Past
  <2>2. \A c \in Apply : (store[c].dirCreated \/ pc[c] \in Past) => store'[c] = store[c] /\ pc'[c] = pc[c]
    BY <1>1, <1>3, <2>1
  <2> QED
    BY <1>1, <1>11, <2>2 DEF Explained
<1>12. ASSUME NEW b \in Apply, Begun(b)'
       PROVE  store'[b].session <= clock' /\ Explained(store[b].session)'
  <2>1. CASE b # a
    <3>1. Begun(b) /\ store'[b] = store[b]
      BY <1>3, <1>5, <1>12, <2>1
    <3>2. store[b].session <= clock /\ Explained(store[b].session)
      BY <3>1 DEF LogInv, SessionsPlace
    <3> QED
      BY <1>1, <1>7, <1>11, <3>1, <3>2 DEF Explained
  <2>2. CASE b = a
    <3>1. store'[b].session = clock
      BY <1>2, <1>3, <2>2
    <3>2. CASE \A c \in Apply \ {a} : Begun(c) => store[c].session # clock
      BY <1>1, <1>8, <1>10, <3>1, <3>2 DEF Explained
    <3>3. CASE \E c \in Apply \ {a} : Begun(c) /\ store[c].session = clock
      <4>1. Explained(clock)
        BY <3>3 DEF LogInv, SessionsPlace
      <4> QED
        BY <1>1, <1>2, <1>8, <1>11, <3>1, <4>1 DEF Explained
    <3> QED
      BY <3>2, <3>3
  <2> QED
    BY <2>1, <2>2
<1>13. SessionsPlace'
  <2>1. \A b \in Apply : Begun(b)' => (store[b].session <= clock)' /\ Explained(store[b].session)'
    BY <1>12
  <2>2. \A u \in Second : sessions'[u] # None => Known(u)'
    BY <1>1, <1>9
  <2> QED
    BY <2>1, <2>2 DEF SessionsPlace
<1>14. ASSUME NEW b \in Apply \ {a}, Begun(b)', OwnSecond(b)'
       PROVE  Kept(store[b], sessions[store[b].session], told[b], pc[b], Few(b)')
  <2>1. Begun(b) /\ OwnSecond(b)
    BY <1>3, <1>5, <1>14 DEF OwnSecond, Begun
  <2>2. Kept(store[b], sessions[store[b].session], told[b], pc[b], Few(b))
    BY <2>1 DEF LogInv, Owned
  <2>3. Few(b)' => Few(b)
    <3>1. Later(b) \subseteq Later(b)'
      BY <1>3, <1>5 DEF Later, Begun
    <3> DEFINE after == Later(b)'
    <3>2. IsFiniteSet(after)
      BY LogAssumption, FS_Subset DEF LogAssumption, Later
    <3> HIDE DEF after
    <3>3. IsFiniteSet(Later(b)) /\ Cardinality(Later(b)) <= Cardinality(after)
      BY <3>1, <3>2, FS_Subset DEF after
    <3>4. Cardinality(Later(b)) \in Nat /\ Cardinality(after) \in Nat /\ Keep \in Nat
      BY <3>2, <3>3, FS_CardinalityType, LogAssumption DEF LogAssumption
    <3>5. Cardinality(after) < Keep => Cardinality(Later(b)) < Keep
      BY <3>3, <3>4
    <3> QED
      BY <3>5 DEF Few, after
  <2> HIDE DEF Few
  <2> QED
    BY <2>2, <2>3 DEF Kept
<1>15. ASSUME OwnSecond(a)'
       PROVE  Kept(n, sessions[clock], told[a], "opened", Few(a)')
  <2>1. sessions[clock] = None
    BY <1>2, <1>3, <1>5, <1>10, <1>15 DEF OwnSecond, Begun
  <2>2. told[a] \in Heards /\ Len(told[a]) = 0
    BY <1>1 DEF ReportInv, ReportTypes, EventsSaid
  <2>3. \A r \in Resource : MentionsIn(told[a], r) = {}
    BY <2>2 DEF MentionsIn, Heards
  <2> QED
    BY <1>2, <2>1, <2>3 DEF Kept, Word
<1>16. \A b \in Apply : Owned(b)'
  <2>1. Owned(a)'
    BY <1>1, <1>2, <1>3, <1>15 DEF Owned
  <2>2. \A b \in Apply \ {a} : Owned(b)'
    BY <1>1, <1>3, <1>14 DEF Owned
  <2> QED
    BY <2>1, <2>2
<1> QED
  BY <1>4, <1>6, <1>13, <1>16 DEF LogInv

LEMMA LogTick ==
    ASSUME ReportInv, LogInv, Tick \/ UNCHANGED vars
    PROVE  LogInv'
<1>1. /\ UNCHANGED <<sessions, store, pc, told, layer>> /\ clock' \in Int /\ clock \in Int /\ clock <= clock'
  BY NoLogsAreFiles DEF Tick, vars, logVars, reportVars, ReportInv, ReportTypes
<1>2. \A b \in Apply : store[b].session \in Int
  BY SessionsAreSeconds
<1>3. StoreTypes'
  BY <1>1 DEF LogInv, StoreTypes
<1>4. \A b \in Apply : FailedSaid(b)' /\ Untouched(b)'
  BY <1>1 DEF LogInv, FailedSaid, Untouched, Heard
<1>5. \A u \in Second : sessions'[u] # None => Known(u)'
  <2>1. \A u \in Second : u \in Int
    BY NoLogsAreFiles
  <2>2. \A u \in Second : sessions[u] # None => Known(u)
    BY DEF LogInv, SessionsPlace
  <2> QED
    BY <1>1, <2>1, <2>2 DEF Known, Begun
<1>6. \A b \in Apply : Begun(b)' => (store[b].session <= clock)' /\ Explained(store[b].session)'
  <2>1. \A b \in Apply : Begun(b) => store[b].session <= clock /\ Explained(store[b].session)
    BY DEF LogInv, SessionsPlace
  <2> QED
    BY <1>1, <1>2, <2>1 DEF Begun, Explained
<1>7. \A b \in Apply : Owned(b)'
  <2>1. \A b \in Apply : Few(b)' = Few(b) /\ OwnSecond(b)' = OwnSecond(b)
    BY <1>1 DEF Few, OwnSecond, Later
  <2> HIDE DEF Few, OwnSecond
  <2> QED
    BY <1>1, <2>1 DEF LogInv, Owned, Begun
<1> QED
  BY <1>3, <1>4, <1>5, <1>6, <1>7 DEF LogInv, SessionsPlace

LEMMA LogInitially ==
    ASSUME Init
    PROVE  LogInv
<1>1. /\ sessions \in [Second -> {None, NoLogs}] /\ store = [a \in Apply |-> Closed]
      /\ clock \in Second /\ \A t \in Second : sessions[t] # None => t < clock
      /\ pc = [a \in Apply |-> "new"]
  BY DEF Init, LogInit
<1>2. 0 \in Second
  BY LogAssumption DEF LogAssumption, Second
<1>3. StoreTypes
  BY <1>1, <1>2, NoLogsAreFiles DEF StoreTypes, Stores, Closed
<1>4. \A a \in Apply : ~Begun(a) /\ FailedSaid(a) /\ Untouched(a) /\ Owned(a)
  BY <1>1 DEF Begun, FailedSaid, Untouched, Owned, Closed
<1>5. SessionsPlace
  BY <1>1, <1>4 DEF SessionsPlace, Known
<1> QED
  BY <1>3, <1>4, <1>5 DEF LogInv

LEMMA LogStep ==
    ASSUME ReportInv, LogInv, [Next]_vars
    PROVE  LogInv'
<1>1. CASE Tick \/ UNCHANGED vars
  BY <1>1, LogTick
<1>2. ASSUME NEW a \in Apply, Open(a) \/ Finish(a) \/ RemoveOld(a) \/ CloseStore(a)
      PROVE  LogInv'
  BY <1>2, LogOpen, LogFinish, LogRemoveOld, LogClose
<1>3. ASSUME NEW a \in Apply,
             Begin(a) \/ Return(a) \/ Kill(a) \/ CtrlC(a) \/ LayerStart(a) \/ \E r \in Resource : Progress(a, r)
      PROVE  LogInv'
  BY <1>3, LogEngine
<1>4. ASSUME NEW a \in Apply, NEW r \in Resource, Start(a, r) \/ Output(a, r) \/ Complete(a, r) \/ Error(a, r)
      PROVE  LogInv'
  BY <1>4, LogStart, LogEvents
<1> QED
  BY <1>1, <1>2, <1>3, <1>4 DEF Next

\* The failures are the logs that the last words call for.
LEMMA FailuresAreLogs ==
    ASSUME ReportInv, NEW a \in Apply
    PROVE  Failures(a) = {[name |-> r, output |-> LogOf(Word(told[a], r))] :
                             r \in {q \in Resource : LogOf(Word(told[a], q)) # None}}
<1>1. None \notin Nat
  BY LogAssumption DEF LogAssumption
<1>2. ASSUME NEW r \in Resource
      PROVE  /\ (Mentions(a, r) # {} /\ Final(a, r).outcome = "failed") <=> LogOf(Word(told[a], r)) # None
             /\ (Mentions(a, r) # {} /\ Final(a, r).outcome = "failed") => Final(a, r).lines = LogOf(Word(told[a], r))
  <2>1. Mentions(a, r) = MentionsIn(told[a], r)
    BY DEF Mentions, MentionsIn
  <2>2. Word(told[a], r) \in Said \cup {None}
    BY WordType
  <2>3. CASE Mentions(a, r) = {}
    BY <2>1, <2>3 DEF Word, LogOf
  <2>4. CASE Mentions(a, r) # {}
    <3>1. Final(a, r) = Word(told[a], r)
      BY <2>1, <2>4 DEF Final, Word
    <3>2. Word(told[a], r) # None
      <4> DEFINE M == MentionsIn(told[a], r)
      <4>1. \E i \in M : \A j \in M : i >= j
        BY <2>1, <2>4 DEF ReportInv, EventsSaid, HasLast
      <4> HIDE DEF M
      <4>2. Max(M) \in M
        BY <4>1 DEF Max
      <4>3. told[a][Max(M)][r] # None
        BY <4>2 DEF M, MentionsIn
      <4> QED
        BY <2>1, <2>4, <4>3 DEF Word, M
    <3> QED
      BY <1>1, <2>2, <2>4, <3>1, <3>2 DEF LogOf, Said
  <2> QED
    BY <2>3, <2>4
<1>3. {q \in Resource : Mentions(a, q) # {} /\ Final(a, q).outcome = "failed"}
      = {q \in Resource : LogOf(Word(told[a], q)) # None}
  BY <1>2
<1>4. \A r \in {q \in Resource : LogOf(Word(told[a], q)) # None} : Final(a, r).lines = LogOf(Word(told[a], r))
  BY <1>2
<1> QED
  BY <1>3, <1>4 DEF Failures

\* What a session of a later apply would be there for.
LEMMA LatestIsLast ==
    ASSUME ReportInv, LogInv, NEW a \in Apply, Begun(a), IsLatest(a), NEW u \in Sessions
    PROVE  ~(u > store[a].session)
<1> SUFFICES ASSUME u > store[a].session
             PROVE  FALSE
  OBVIOUS
<1>1. u \in Second /\ sessions[u] # None
  BY DEF Sessions
<1>2. \A b \in Apply : store[b].session \in Int
  BY SessionsAreSeconds
<1>3. Known(u) /\ u \in Int
  BY <1>1, NoLogsAreFiles DEF LogInv, SessionsPlace
<1>4. PICK b \in Apply : Begun(b) /\ store[b].session = u
  BY <1>2, <1>3 DEF Known
<1>5. Explained(u)
  BY <1>4 DEF LogInv, SessionsPlace
<1>6. ASSUME NEW c \in Apply, store[c].session = u, Begun(c)
      PROVE  pc[c] = "opened" \/ (pc[c] = "over" /\ Failures(c) = {})
  BY <1>6 DEF IsLatest, Later, Begun
<1>7. CASE \E r \in Resource : sessions[u][r] # None
  <2>1. PICK r \in Resource : sessions[u][r] # None
    BY <1>7
  <2>2. PICK c \in Apply : store[c].session = u /\ pc[c] \in Past /\ r \in store[c].failed
    BY <1>1, <1>5, <2>1 DEF Explained
  <2>3. Failures(c) = {}
    BY <1>6, <2>2 DEF Past, Begun
  <2>4. layer[c] > 0 /\ Heard(c)[r] # None /\ Heard(c)[r].outcome = "failed"
    BY <2>2 DEF LogInv, FailedSaid
  <2>5. told[c] \in Heards /\ Len(told[c]) = layer[c]
    BY DEF ReportInv, ReportTypes, EventsSaid
  <2>6. Word(told[c], r) = Heard(c)[r]
    BY <2>4, <2>5, WordNow DEF Heard
  <2>7. LogOf(Word(told[c], r)) # None
    <3>1. Word(told[c], r) \in Said \cup {None} /\ None \notin Nat
      BY WordType, LogAssumption DEF LogAssumption
    <3> QED
      BY <2>4, <2>6, <3>1 DEF LogOf, Said
  <2>8. [name |-> r, output |-> LogOf(Word(told[c], r))] \in Failures(c)
    BY <2>7, FailuresAreLogs
  <2> QED
    BY <2>3, <2>8
<1>8. CASE ~\E r \in Resource : sessions[u][r] # None
  <2>1. PICK c \in Apply : store[c].session = u /\ store[c].dirCreated /\ pc[c] # "over"
    BY <1>1, <1>5, <1>8 DEF Explained
  <2>2. pc[c] \notin {"new", "opened"}
    BY <2>1 DEF LogInv, Untouched
  <2> QED
    BY <1>6, <2>1, <2>2 DEF Begun
<1> QED
  BY <1>7, <1>8

LEMMA LogsFromKept ==
    ASSUME ReportInv, LogInv
    PROVE  LogsTellFailures
<1> SUFFICES ASSUME NEW a \in Apply, pc[a] = "over", OwnSecond(a)
             PROVE  LET t == store[a].session
                    IN  IF Failures(a) = {}
                        THEN sessions[t] = None
                        ELSE /\ sessions[t] = None \/ Logs(t) = Failures(a)
                             /\ IsLatest(a) => LatestLogs = Failures(a)
  BY DEF LogsTellFailures
<1> DEFINE t == store[a].session
<1> DEFINE dir == sessions[t]
<1> DEFINE log == [r \in Resource |-> LogOf(Word(told[a], r))]
<1>1. t \in Second /\ dir \in LogFiles \cup {None} /\ Begun(a)
  BY DEF LogInv, StoreTypes, Stores, Begun
<1>2. Kept(store[a], dir, told[a], "over", Few(a))
  BY <1>1 DEF LogInv, Owned
<1>3. Failures(a) = {[name |-> r, output |-> log[r]] : r \in {q \in Resource : log[q] # None}}
  BY FailuresAreLogs
<1>4. Failures(a) = {} <=> \A r \in Resource : log[r] = None
  BY <1>3
<1>5. dir # None => dir # NoLogs /\ \A r \in Resource : dir[r] = log[r]
  BY <1>2 DEF Kept
<1>6. (Few(a) /\ \E r \in Resource : log[r] # None) => dir # None
  <2>1. ~store[a].dirCreated => \A r \in Resource : log[r] = None
    BY <1>2 DEF Kept, LogOf
  <2>2. (store[a].dirCreated /\ Few(a) /\ \E r \in Resource : LogOf(Word(told[a], r)) # None) => dir # None
    BY <1>2 DEF Kept
  <2> QED
    BY <2>1, <2>2
<1> HIDE DEF log
<1>7. ASSUME Failures(a) = {} PROVE dir = None
  <2>1. (dir \in LogFiles /\ \A r \in Resource : dir[r] = None) => dir = NoLogs
    BY DEF LogFiles, NoLogs
  <2> QED
    BY <1>1, <1>4, <1>5, <1>7, <2>1
<1>8. ASSUME dir # None PROVE Logs(t) = Failures(a)
  <2>1. Logs(t) = {[name |-> r, output |-> dir[r]] : r \in {q \in Resource : dir[q] # None}}
    BY DEF Logs, ReadResourceLog, ReadSessionLogs
  <2>2. {q \in Resource : dir[q] # None} = {q \in Resource : log[q] # None}
    BY <1>5, <1>8
  <2> QED
    BY <1>3, <1>5, <1>8, <2>1, <2>2
<1>9. ASSUME Failures(a) # {}, IsLatest(a) PROVE LatestLogs = Failures(a)
  <2>1. Few(a)
    BY <1>9 DEF IsLatest, Few
  <2>2. dir # None
    BY <1>4, <1>6, <1>9, <2>1
  <2>3. t \in Sessions
    BY <1>1, <2>2 DEF Sessions
  <2>4. \A u \in Sessions : t >= u
    <3>1. \A u \in Sessions : u \in Int
      BY NoLogsAreFiles DEF Sessions
    <3>2. \A u \in Sessions : ~(u > t)
      BY <1>1, <1>9, LatestIsLast
    <3> QED
      BY <2>3, <3>1, <3>2
  <2> HIDE DEF t
  <2>5. Max(Sessions) = t
    <3>1. Max(Sessions) \in Sessions /\ \A u \in Sessions : Max(Sessions) >= u
      BY <2>3, <2>4 DEF Max
    <3>2. \A u \in Sessions : u \in Int
      BY NoLogsAreFiles DEF Sessions
    <3> QED
      BY <2>3, <2>4, <3>1, <3>2
  <2>6. LatestLogs = Logs(t)
    BY <2>3, <2>5 DEF LatestLogs, Logs
  <2> QED
    BY <1>8, <2>2, <2>6
<1> QED
  BY <1>7, <1>8, <1>9

\* For any applies, plans, outputs, clock, number of sessions kept and kills: the
\* logs of an apply in a second of its own are its failures, and the latest are
\* those of the last that had some.  (RecordStart to Close.)
THEOREM LogsAreKept == Spec => []LogsTellFailures
<1>1. Init => ReportInv /\ LogInv
  BY ReportInit, LogInitially
<1>2. ReportInv /\ LogInv /\ [Next]_vars => ReportInv' /\ LogInv'
  BY ReportStep, LogStep
<1> QED
  BY <1>1, <1>2, LogsFromKept, PTL DEF Spec

(***************************************************************************)
(* ApplyReport: the view.                                                  *)
(***************************************************************************)
Graph(p) == Cardinality({j \in DOMAIN p : p[j].phase = "dag"})

\* Rebuilds and removals come after the layers of the graph.
Shaped(p) ==
    \E d \in 0 .. Len(p) :
        /\ \A i \in DOMAIN p : p[i].phase = "dag" <=> i <= d
        /\ d = 0 => Len(p) <= 1

Tasks == [Resource -> TaskState \cup {None}]

Models ==
    [allLayerNodes : Seq(SUBSET Resource), totalLayers : Nat, currentLayer : Nat, currentPhase : Phases,
     completedLayers : Seq([phase : Phases, tasks : Tasks,
                            taskOrder : Seq(Resource), completedOrder : Seq(Resource)]),
     tasks : Tasks, taskOrder : Seq(Resource), completedOrder : Seq(Resource),
     quit : BOOLEAN, interrupted : BOOLEAN]

Once(s) == \A i, j \in DOMAIN s : s[i] = s[j] => i = j

Shown(lines) == IF lines < MaxLogLines THEN lines ELSE MaxLogLines

Started(h) == {r \in Resource : h[r] # None}

Stopped(h) == {r \in Resource : h[r] # None /\ h[r].outcome # "running"}

\* The tasks of l are what the events of a layer, h, have said.
Shows(l, h) ==
    /\ \A r \in Resource : l.tasks[r] # None <=> h[r] # None
    /\ \A r \in Started(h) : l.tasks[r].status = h[r].outcome /\ l.tasks[r].lines = Shown(h[r].lines)
    /\ Once(l.taskOrder) /\ ToSet(l.taskOrder) = Started(h)
    /\ Once(l.completedOrder) /\ ToSet(l.completedOrder) = Stopped(h)

\* Of a plan p of which the events of the layers so far said w.
Layered(m, p, w) ==
    /\ m.totalLayers = Graph(p)
    /\ Len(m.allLayerNodes) = IF Len(w) < Graph(p) THEN Graph(p) ELSE Len(w)
    /\ \A i \in DOMAIN m.allLayerNodes : m.allLayerNodes[i] = p[i].nodes
    /\ m.currentLayer = Len(w) /\ m.currentPhase = p[Len(w)].phase
    /\ Len(m.completedLayers) = IF m.quit /\ Graph(p) > 0 THEN Len(w) ELSE Len(w) - 1
    /\ \A i \in DOMAIN m.completedLayers :
          m.completedLayers[i].phase = p[i].phase /\ Shows(m.completedLayers[i], w[i])
    /\ Shows(m, w[Len(w)])

Displays(m, p, w) == IF w = <<>> THEN m.quit \/ m = NewApplyModel ELSE Layered(m, p, w)

PhasesOf(c) ==
    CASE c = "done"        -> {"dag"}
      [] c = "reinstalled" -> {"taint"}
      [] c = "removed"     -> {"remove"}
      [] OTHER             -> Phases

OutcomeOf(c) == IF c = "failed" THEN "failed" ELSE "done"

\* What count c counts.
Ended(p, w, c) ==
    {x \in (DOMAIN w) \X Resource :
        /\ p[x[1]].phase \in PhasesOf(c)
        /\ w[x[1]][x[2]] # None /\ w[x[1]][x[2]].outcome = OutcomeOf(c)}

Told(a) ==
    /\ pc[a] \in {"new", "opened", "running"} => ~view[a].quit
    /\ \A c \in Counts : results[a][c] = Cardinality(Ended(plan[a], told[a], c))
    /\ a \in Interactive => Displays(view[a], plan[a], told[a])

Sees(a) ==
    /\ Shaped(plan[a]) /\ (view[a].interrupted => view[a].quit)
    /\ ~view[a].interrupted => Told(a)

ViewInv ==
    /\ view \in [Apply -> Models] /\ results \in [Apply -> [Counts -> Nat]]
    /\ \A a \in Apply : Sees(a)

LEMMA OneToOne ==
    ASSUME NEW S, NEW T, IsFiniteSet(S), NEW f \in [S -> T],
           \A i, j \in S : f[i] = f[j] => i = j, \A t \in T : \E i \in S : f[i] = t
    PROVE  IsFiniteSet(T) /\ Cardinality(T) = Cardinality(S)
<1>1. f \in Bijection(S, T)
  BY DEF Bijection, Injection, Surjection, IsInjective
<1> QED
  BY <1>1, FS_Bijection DEF ExistsBijection

\* A sequence without repetitions has as many elements as it is long.
LEMMA OnceCounts ==
    ASSUME NEW s \in Seq(Resource), Once(s)
    PROVE  IsFiniteSet(ToSet(s)) /\ Cardinality(ToSet(s)) = Len(s)
<1>1. Len(s) \in Nat /\ DOMAIN s = 1 .. Len(s)
  OBVIOUS
<1>2. IsFiniteSet(1 .. Len(s)) /\ Cardinality(1 .. Len(s)) = Len(s)
  BY <1>1, FS_Interval
<1>3. s \in [1 .. Len(s) -> ToSet(s)] /\ \A t \in ToSet(s) : \E i \in 1 .. Len(s) : s[i] = t
  BY <1>1 DEF ToSet
<1>4. \A i, j \in 1 .. Len(s) : s[i] = s[j] => i = j
  BY <1>1 DEF Once
<1> QED
  BY <1>2, <1>3, <1>4, OneToOne

\* What a block should show of a layer of which the events said h.
RightList(t, h) ==
    LET lines == ToSet(t.ended) \cup ToSet(t.running)
    IN  /\ Len(t.ended) + Cardinality(DOMAIN t.running) = Cardinality(Started(h))
        /\ {x.task : x \in lines} = Started(h)
        /\ \A x \in lines : RightLine(x, h[x.task])
        /\ \A x \in ToSet(t.ended) : x.shows \in {"done", "failed"}

LEMMA RightLines ==
    ASSUME NEW l, l.tasks \in Tasks, NEW h \in [Resource -> Said \cup {None}], Shows(l, h), NEW r \in Started(h)
    PROVE  /\ RightLine(Line(r, l.tasks[r]), h[r]) /\ Line(r, l.tasks[r]).task = r
           /\ r \in Stopped(h) => Line(r, l.tasks[r]).shows \in {"done", "failed"}
<1>1. r \in Resource /\ h[r] \in Said /\ l.tasks[r] \in TaskState
  BY DEF Started, Shows, Tasks
<1>2. l.tasks[r].status = h[r].outcome /\ l.tasks[r].lines = Shown(h[r].lines)
  BY DEF Shows
<1> QED
  BY <1>1, <1>2 DEF RightLine, Line, Shown, Stopped, Said, TaskState

LEMMA ListFits ==
    ASSUME NEW l, l.tasks \in Tasks, l.taskOrder \in Seq(Resource), l.completedOrder \in Seq(Resource),
           NEW h \in [Resource -> Said \cup {None}], Shows(l, h)
    PROVE  RightList(TaskList(l), h)
<1> DEFINE t == TaskList(l)
<1> DEFINE rest == {j \in DOMAIN l.taskOrder : l.taskOrder[j] \notin ToSet(l.completedOrder)}
<1>1. /\ t.ended = [i \in DOMAIN l.completedOrder |-> Line(l.completedOrder[i], l.tasks[l.completedOrder[i]])]
      /\ t.running = [i \in rest |-> Line(l.taskOrder[i], l.tasks[l.taskOrder[i]])]
  BY DEF TaskList
<1>2. /\ Once(l.taskOrder) /\ ToSet(l.taskOrder) = Started(h)
      /\ Once(l.completedOrder) /\ ToSet(l.completedOrder) = Stopped(h)
  BY DEF Shows
<1>3. Stopped(h) \subseteq Started(h) /\ Started(h) \subseteq Resource /\ IsFiniteSet(Started(h))
  <2>1. IsFiniteSet(Resource) /\ Started(h) \in SUBSET Resource
    BY LogAssumption DEF LogAssumption, Started
  <2> QED
    BY <2>1, FS_Subset DEF Started, Stopped
<1> HIDE DEF t
<1>4. Len(t.ended) = Cardinality(Stopped(h)) /\ IsFiniteSet(Stopped(h))
  <2>1. Len(t.ended) = Len(l.completedOrder)
    BY <1>1
  <2> QED
    BY <1>2, <2>1, OnceCounts
<1>5. Cardinality(rest) = Cardinality(Started(h) \ Stopped(h))
  <2>1. IsFiniteSet(rest)
    <3>1. IsFiniteSet(1 .. Len(l.taskOrder)) /\ rest \in SUBSET (1 .. Len(l.taskOrder))
      BY FS_Interval
    <3> QED
      BY <3>1, FS_Subset
  <2> DEFINE f == [j \in rest |-> l.taskOrder[j]]
  <2>2. f \in [rest -> Started(h) \ Stopped(h)]
    BY <1>2 DEF ToSet
  <2>3. \A i, j \in rest : f[i] = f[j] => i = j
    BY <1>2 DEF Once
  <2>4. \A r \in Started(h) \ Stopped(h) : \E i \in rest : f[i] = r
    BY <1>2 DEF ToSet
  <2> HIDE DEF f, rest
  <2> QED
    BY <2>1, <2>2, <2>3, <2>4, OneToOne
<1>6. Len(t.ended) + Cardinality(DOMAIN t.running) = Cardinality(Started(h))
  <2>1. Cardinality(Started(h) \ Stopped(h)) = Cardinality(Started(h)) - Cardinality(Started(h) \cap Stopped(h))
    BY <1>3, FS_Difference
  <2>2. Started(h) \cap Stopped(h) = Stopped(h)
    BY <1>3
  <2>3. Cardinality(Started(h)) \in Nat /\ Cardinality(Stopped(h)) \in Nat
    BY <1>3, <1>4, FS_CardinalityType
  <2>4. DOMAIN t.running = rest
    BY <1>1
  <2> HIDE DEF rest
  <2>5. Cardinality(Started(h) \ Stopped(h)) = Cardinality(Started(h)) - Cardinality(Stopped(h))
    BY <2>1, <2>2
  <2>6. Cardinality(DOMAIN t.running) = Cardinality(Started(h)) - Cardinality(Stopped(h))
    BY <1>5, <2>4, <2>5
  <2> QED
    BY <1>4, <2>3, <2>6
<1>7. ASSUME NEW r \in Started(h)
      PROVE  /\ RightLine(Line(r, l.tasks[r]), h[r]) /\ Line(r, l.tasks[r]).task = r
             /\ r \in Stopped(h) => Line(r, l.tasks[r]).shows \in {"done", "failed"}
  BY RightLines
<1>8. ToSet(t.ended) = {Line(r, l.tasks[r]) : r \in Stopped(h)}
  <2>1. ToSet(t.ended) = {Line(l.completedOrder[i], l.tasks[l.completedOrder[i]]) : i \in DOMAIN l.completedOrder}
    <3>1. /\ DOMAIN t.ended = DOMAIN l.completedOrder
          /\ \A i \in DOMAIN l.completedOrder :
                t.ended[i] = Line(l.completedOrder[i], l.tasks[l.completedOrder[i]])
      BY <1>1
    <3> QED
      BY <3>1 DEF ToSet
  <2>2. Stopped(h) = {l.completedOrder[i] : i \in DOMAIN l.completedOrder}
    BY <1>2 DEF ToSet
  <2> QED
    BY <2>1, <2>2
<1>9. ToSet(t.running) = {Line(r, l.tasks[r]) : r \in Started(h) \ Stopped(h)}
  <2>1. ToSet(t.running) = {Line(l.taskOrder[i], l.tasks[l.taskOrder[i]]) : i \in rest}
    <3> HIDE DEF rest
    <3>1. /\ DOMAIN t.running = rest
          /\ \A i \in rest : t.running[i] = Line(l.taskOrder[i], l.tasks[l.taskOrder[i]])
      BY <1>1
    <3> QED
      BY <3>1 DEF ToSet
  <2>2. Started(h) \ Stopped(h) = {l.taskOrder[i] : i \in rest}
    BY <1>2 DEF ToSet
  <2> HIDE DEF rest
  <2> QED
    BY <2>1, <2>2
<1>10. ToSet(t.ended) \cup ToSet(t.running) = {Line(r, l.tasks[r]) : r \in Started(h)}
  BY <1>3, <1>8, <1>9
<1> DEFINE lines == ToSet(t.ended) \cup ToSet(t.running)
<1>11. \A x \in lines : \E r \in Started(h) : x = Line(r, l.tasks[r])
  BY <1>10
<1>12. \A r \in Started(h) : Line(r, l.tasks[r]) \in lines
  BY <1>10
<1>13. \A x \in ToSet(t.ended) : x.shows \in {"done", "failed"}
  BY <1>3, <1>7, <1>8
<1> HIDE DEF lines
<1>14. {x.task : x \in lines} = Started(h)
  BY <1>7, <1>11, <1>12
<1>15. \A x \in lines : RightLine(x, h[x.task])
  BY <1>7, <1>11
<1> QED
  BY <1>6, <1>13, <1>14, <1>15 DEF RightList, lines, t

PlanSeqs == Seq([phase : Phases, nodes : SUBSET Resource])

LEMMA Elements ==
    ASSUME NEW S, NEW s \in Seq(S)
    PROVE  Len(s) \in Nat /\ DOMAIN s = 1 .. Len(s) /\ \A i \in 1 .. Len(s) : s[i] \in S
OBVIOUS

LEMMA Listed ==
    ASSUME NEW S, NEW n \in Nat, NEW f \in [1 .. n -> S]
    PROVE  f \in Seq(S) /\ Len(f) = n
OBVIOUS

LEMMA Joined ==
    ASSUME NEW S, NEW A \in Seq(S), NEW B \in Seq(S)
    PROVE  /\ A \o B \in Seq(S) /\ Len(A \o B) = Len(A) + Len(B)
           /\ \A i \in 1 .. Len(A) : (A \o B)[i] = A[i]
           /\ \A i \in 1 .. Len(B) : (A \o B)[Len(A) + i] = B[i]
OBVIOUS

LEMMA GraphIs ==
    ASSUME NEW p \in PlanSeqs, Shaped(p)
    PROVE  /\ Graph(p) \in 0 .. Len(p) /\ (Graph(p) = 0 => Len(p) <= 1)
           /\ \A i \in DOMAIN p : p[i].phase = "dag" <=> i <= Graph(p)
           /\ DagLayers(p) \in Seq(SUBSET Resource) /\ Len(DagLayers(p)) = Graph(p)
           /\ \A i \in 1 .. Graph(p) : DagLayers(p)[i] = p[i].nodes
<1>1. PICK d \in 0 .. Len(p) : (\A i \in DOMAIN p : p[i].phase = "dag" <=> i <= d) /\ (d = 0 => Len(p) <= 1)
  BY DEF Shaped
<1>2. Len(p) \in Nat /\ DOMAIN p = 1 .. Len(p)
  BY DEF PlanSeqs
<1>3. {j \in DOMAIN p : p[j].phase = "dag"} = 1 .. d
  BY <1>1, <1>2
<1>4. Cardinality(1 .. d) = d
  BY <1>1, <1>2, FS_Interval
<1>5. Graph(p) = d
  BY <1>3, <1>4 DEF Graph
<1>6. DagLayers(p) = [i \in 1 .. d |-> p[i].nodes]
  BY <1>3, <1>4 DEF DagLayers
<1>7. \A i \in 1 .. d : p[i].nodes \in SUBSET Resource
  <2>1. \A i \in 1 .. Len(p) : p[i] \in [phase : Phases, nodes : SUBSET Resource]
    BY Elements DEF PlanSeqs
  <2> QED
    BY <1>1, <1>2, <2>1
<1> QED
  BY <1>1, <1>2, <1>5, <1>6, <1>7

LEMMA ThreeParts ==
    ASSUME NEW S, NEW A \in Seq(S), NEW B \in Seq(S), NEW C \in Seq(S)
    PROVE  /\ A \o B \o C \in Seq(S) /\ Len(A \o B \o C) = Len(A) + Len(B) + Len(C)
           /\ \A i \in 1 .. Len(A) : (A \o B \o C)[i] = A[i]
           /\ \A i \in 1 .. Len(B) : (A \o B \o C)[Len(A) + i] = B[i]
           /\ \A i \in 1 .. Len(C) : (A \o B \o C)[Len(A) + Len(B) + i] = C[i]
<1> DEFINE D == A \o B
<1>1. /\ D \in Seq(S) /\ Len(D) = Len(A) + Len(B)
      /\ \A i \in 1 .. Len(A) : D[i] = A[i]
      /\ \A i \in 1 .. Len(B) : D[Len(A) + i] = B[i]
  BY Joined
<1>2. Len(A) \in Nat /\ Len(B) \in Nat /\ Len(C) \in Nat
  BY Elements
<1> HIDE DEF D
<1> DEFINE F == D \o C
<1>3. /\ F \in Seq(S) /\ Len(F) = Len(D) + Len(C)
      /\ \A i \in 1 .. Len(D) : F[i] = D[i]
      /\ \A i \in 1 .. Len(C) : F[Len(D) + i] = C[i]
  <2>1. D \in Seq(S) /\ C \in Seq(S)
    BY <1>1
  <2> QED
    BY <2>1, Joined
<1> HIDE DEF F
<1>4. /\ \A i \in 1 .. Len(A) : F[i] = A[i]
      /\ \A i \in 1 .. Len(B) : F[Len(A) + i] = B[i]
      /\ \A i \in 1 .. Len(C) : F[Len(A) + Len(B) + i] = C[i]
  <2>1. ASSUME NEW i \in 1 .. Len(A) PROVE F[i] = A[i]
    <3>1. i \in 1 .. Len(D)
      BY <1>1, <1>2
    <3> QED
      BY <1>1, <1>3, <3>1
  <2>2. ASSUME NEW i \in 1 .. Len(B) PROVE F[Len(A) + i] = B[i]
    <3>1. Len(A) + i \in 1 .. Len(D)
      BY <1>1, <1>2
    <3> QED
      BY <1>1, <1>3, <3>1
  <2>3. \A i \in 1 .. Len(C) : F[Len(A) + Len(B) + i] = C[i]
    BY <1>1, <1>3
  <2> QED
    BY <2>1, <2>2, <2>3
<1> QED
  BY <1>1, <1>3, <1>4 DEF D, F

Nothing == [ended |-> <<>>, running |-> <<>>]

\* The frame has a block for every layer that has begun or is to come.
LEMMA FrameIs ==
    ASSUME NEW p \in PlanSeqs, Shaped(p), NEW w \in Heards, Len(w) \in 1 .. Len(p),
           NEW m \in Models, Layered(m, p, w)
    PROVE  /\ Len(Frame(m)) = IF Len(w) < Graph(p) THEN Graph(p) ELSE Len(w)
           /\ DOMAIN Frame(m) = 1 .. Len(Frame(m))
           /\ \A i \in DOMAIN m.completedLayers :
                 Frame(m)[i] = Block(m, i, m.completedLayers[i].phase, TaskList(m.completedLayers[i]))
           /\ Len(m.completedLayers) < Len(w) => Frame(m)[Len(w)] = Block(m, Len(w), m.currentPhase, TaskList(m))
           /\ \A i \in Len(w) + 1 .. Graph(p) : Frame(m)[i] = Block(m, i, "dag", Nothing)
<1> DEFINE n == Len(w)
<1> DEFINE g == Graph(p)
<1> DEFINE k == Len(m.completedLayers)
<1>1. n \in Nat /\ n > 0 /\ g \in Nat /\ (g = 0 => n = 1)
  <2>1. Len(p) \in Nat
    BY DEF PlanSeqs
  <2>2. g \in 0 .. Len(p) /\ (g = 0 => Len(p) <= 1)
    BY GraphIs
  <2>3. n \in 1 .. Len(p)
    OBVIOUS
  <2> HIDE DEF g, n
  <2> QED
    BY <2>1, <2>2, <2>3
<1>2. /\ m.totalLayers = g /\ m.currentLayer = n
      /\ Len(m.allLayerNodes) = IF n < g THEN g ELSE n
      /\ k = IF m.quit /\ g > 0 THEN n ELSE n - 1
  BY DEF Layered
<1>3. k \in Nat /\ DOMAIN m.completedLayers = 1 .. k
  BY DEF Models
<1> DEFINE blocks == [i \in 1 .. k |-> Block(m, i, m.completedLayers[i].phase, TaskList(m.completedLayers[i]))]
<1> DEFINE now == Block(m, m.currentLayer, m.currentPhase, TaskList(m))
<1> DEFINE live == IF k < n THEN <<now>> ELSE <<>>
<1> DEFINE c == IF g < n + 1 THEN 0 ELSE g - n
<1> DEFINE coming == [i \in 1 .. c |-> Block(m, n + i, "dag", Nothing)]
<1> DEFINE F == blocks \o live \o coming
<1> HIDE DEF g, n, k
<1>4. Frame(m) = F
  <2> DEFINE first == (IF k < m.currentLayer THEN m.currentLayer ELSE k) + 1
  <2>1. first = n + 1
    BY <1>1, <1>2
  <2>2. m.allLayerNodes # <<>>
    BY <1>1, <1>2
  <2>3. Frame(m) = blocks \o (IF m.allLayerNodes # <<>> /\ k < m.currentLayer THEN <<now>> ELSE <<>>)
                     \o [i \in 1 .. (IF m.totalLayers < first THEN 0 ELSE m.totalLayers - first + 1) |->
                            Block(m, first + i - 1, "dag", Nothing)]
    BY DEF Frame, Nothing, k
  <2>4. [i \in 1 .. (IF m.totalLayers < first THEN 0 ELSE m.totalLayers - first + 1) |->
                            Block(m, first + i - 1, "dag", Nothing)] = coming
    <3> HIDE DEF first
    <3>1. (IF m.totalLayers < first THEN 0 ELSE m.totalLayers - first + 1) = c
      BY <1>1, <1>2, <2>1
    <3>2. \A i \in 1 .. c : first + i - 1 = n + i
      BY <1>1, <2>1
    <3> QED
      BY <3>1, <3>2
  <2>5. (IF m.allLayerNodes # <<>> /\ k < m.currentLayer THEN <<now>> ELSE <<>>) = live
    BY <1>2, <2>2
  <2> HIDE DEF blocks, live, coming, first
  <2> QED
    BY <2>3, <2>4, <2>5
<1>5. /\ DOMAIN blocks = 1 .. k
      /\ \A i \in 1 .. k : blocks[i] = Block(m, i, m.completedLayers[i].phase, TaskList(m.completedLayers[i]))
  OBVIOUS
<1>6. DOMAIN coming = 1 .. c /\ \A i \in 1 .. c : coming[i] = Block(m, n + i, "dag", Nothing)
  OBVIOUS
<1> HIDE DEF now
<1>7. live = IF k < n THEN <<now>> ELSE <<>>
  OBVIOUS
<1>8. c \in Nat /\ (IF k < n THEN k + 1 ELSE k) = n /\ n + c = (IF n < g THEN g ELSE n)
      /\ \A i \in n + 1 .. g : i - n \in 1 .. c
  BY <1>1, <1>2
<1> DEFINE S == {blocks[i] : i \in 1 .. k} \cup {now} \cup {coming[i] : i \in 1 .. c}
<1>9. blocks \in [1 .. k -> S] /\ coming \in [1 .. c -> S] /\ now \in S
  OBVIOUS
<1> HIDE DEF blocks, live, coming, c, S
<1>10. blocks \in Seq(S) /\ Len(blocks) = k
  BY <1>3, <1>9, Listed
<1>11. coming \in Seq(S) /\ Len(coming) = c
  BY <1>8, <1>9, Listed
<1>12. /\ live \in Seq(S) /\ Len(live) = (IF k < n THEN 1 ELSE 0) /\ (k < n => live[1] = now)
  <2>1. CASE k < n
    BY <1>7, <1>9, <2>1
  <2>2. CASE ~(k < n)
    BY <1>7, <2>2
  <2> QED
    BY <2>1, <2>2
<1>13. /\ F \in Seq(S) /\ Len(F) = Len(blocks) + Len(live) + Len(coming)
       /\ \A i \in 1 .. Len(blocks) : F[i] = blocks[i]
       /\ \A i \in 1 .. Len(live) : F[Len(blocks) + i] = live[i]
       /\ \A i \in 1 .. Len(coming) : F[Len(blocks) + Len(live) + i] = coming[i]
  <2>1. blocks \in Seq(S) /\ live \in Seq(S) /\ coming \in Seq(S)
    BY <1>10, <1>11, <1>12
  <2>2. F = blocks \o live \o coming
    OBVIOUS
  <2> HIDE DEF F
  <2>3. /\ blocks \o live \o coming \in Seq(S)
        /\ Len(blocks \o live \o coming) = Len(blocks) + Len(live) + Len(coming)
        /\ \A i \in 1 .. Len(blocks) : (blocks \o live \o coming)[i] = blocks[i]
        /\ \A i \in 1 .. Len(live) : (blocks \o live \o coming)[Len(blocks) + i] = live[i]
        /\ \A i \in 1 .. Len(coming) : (blocks \o live \o coming)[Len(blocks) + Len(live) + i] = coming[i]
    BY <2>1, ThreeParts
  <2> QED
    BY <2>2, <2>3
<1> HIDE DEF F
<1>14. Len(F) = (IF n < g THEN g ELSE n)
  BY <1>3, <1>8, <1>10, <1>11, <1>12, <1>13
<1>15. DOMAIN F = 1 .. Len(F)
  BY <1>13, Elements
<1>16. ASSUME k < n PROVE F[n] = now
  <2>1. Len(live) = 1 /\ k + 1 = n
    BY <1>8, <1>12, <1>16
  <2>2. F[Len(blocks) + 1] = live[1]
    BY <1>13, <2>1
  <2> QED
    BY <1>10, <1>12, <1>16, <2>1, <2>2
<1>17. ASSUME NEW i \in n + 1 .. g PROVE F[i] = Block(m, i, "dag", Nothing)
  <2>1. i - n \in 1 .. c /\ n + (i - n) = i /\ Len(blocks) + Len(live) = n
    BY <1>1, <1>3, <1>8, <1>10, <1>12
  <2>2. F[n + (i - n)] = coming[i - n]
    BY <1>11, <1>13, <2>1
  <2>3. coming[i - n] = Block(m, n + (i - n), "dag", Nothing)
    BY <1>6, <2>1
  <2> QED
    BY <2>1, <2>2, <2>3
<1> QED
  BY <1>2, <1>3, <1>4, <1>5, <1>10, <1>13, <1>14, <1>15, <1>16, <1>17 DEF n, g, k, now

Words(w, i) == IF i <= Len(w) THEN w[i] ELSE NoWords

\* What layer i should look like.
RightBlock(b, p, w, i) == b.nodes = p[i].nodes /\ b.phase = p[i].phase /\ RightList(b.lines, Words(w, i))

LEMMA NothingFits == RightList(Nothing, NoWords)
<1>1. Started(NoWords) = {}
  BY DEF Started, NoWords
<1>2. ToSet(Nothing.ended) = {} /\ ToSet(Nothing.running) = {} /\ Len(Nothing.ended) = 0 /\ DOMAIN Nothing.running = {}
  BY DEF Nothing, ToSet
<1>3. Cardinality({}) = 0
  BY FS_EmptySet
<1> QED
  BY <1>1, <1>2, <1>3 DEF RightList

LEMMA BlocksFit ==
    ASSUME NEW p \in PlanSeqs, Shaped(p), NEW w \in Heards, Len(w) \in 1 .. Len(p),
           NEW m \in Models, Layered(m, p, w)
    PROVE  \A i \in DOMAIN Frame(m) : RightBlock(Frame(m)[i], p, w, i)
<1> DEFINE n == Len(w)
<1> DEFINE g == Graph(p)
<1> DEFINE k == Len(m.completedLayers)
<1> DEFINE F == Frame(m)
<1>1. n \in Nat /\ n > 0 /\ g \in Nat /\ Len(p) \in Nat /\ g <= Len(p) /\ n <= Len(p)
  <2>1. Len(p) \in Nat
    BY DEF PlanSeqs
  <2>2. g \in 0 .. Len(p)
    BY GraphIs
  <2>3. n \in 1 .. Len(p)
    OBVIOUS
  <2> HIDE DEF g, n
  <2> QED
    BY <2>1, <2>2, <2>3
<1>2. /\ Len(F) = (IF n < g THEN g ELSE n) /\ DOMAIN F = 1 .. Len(F)
      /\ \A i \in DOMAIN m.completedLayers :
            F[i] = Block(m, i, m.completedLayers[i].phase, TaskList(m.completedLayers[i]))
      /\ k < n => F[n] = Block(m, n, m.currentPhase, TaskList(m))
      /\ \A i \in n + 1 .. g : F[i] = Block(m, i, "dag", Nothing)
  BY FrameIs
<1>3. /\ Len(m.allLayerNodes) = IF n < g THEN g ELSE n
      /\ \A i \in DOMAIN m.allLayerNodes : m.allLayerNodes[i] = p[i].nodes
      /\ m.currentPhase = p[n].phase /\ k = IF m.quit /\ g > 0 THEN n ELSE n - 1
      /\ \A i \in DOMAIN m.completedLayers :
            m.completedLayers[i].phase = p[i].phase /\ Shows(m.completedLayers[i], w[i])
      /\ Shows(m, w[n])
  BY DEF Layered
<1>4. DOMAIN m.allLayerNodes = 1 .. Len(m.allLayerNodes) /\ DOMAIN m.completedLayers = 1 .. k
  BY Elements DEF Models
<1>5. /\ m.tasks \in Tasks /\ m.taskOrder \in Seq(Resource) /\ m.completedOrder \in Seq(Resource)
      /\ \A i \in DOMAIN m.completedLayers :
            /\ m.completedLayers[i].tasks \in Tasks /\ m.completedLayers[i].taskOrder \in Seq(Resource)
            /\ m.completedLayers[i].completedOrder \in Seq(Resource)
  <2> DEFINE L == [phase : Phases, tasks : Tasks, taskOrder : Seq(Resource), completedOrder : Seq(Resource)]
  <2>1. m.completedLayers \in Seq(L)
    BY DEF Models
  <2>2. \A i \in DOMAIN m.completedLayers : m.completedLayers[i] \in L
    <3> HIDE DEF L
    <3> QED
      BY <2>1, Elements
  <2> QED
    BY <2>2 DEF Models
<1>6. \A i \in 1 .. n : w[i] \in [Resource -> Said \cup {None}]
  BY Elements DEF Heards
<1> HIDE DEF F, g, n, k
<1>7. \A i \in DOMAIN F : m.allLayerNodes[i] = p[i].nodes
  BY <1>2, <1>3, <1>4
<1>8. ASSUME NEW i \in 1 .. k PROVE RightBlock(F[i], p, w, i)
  <2> DEFINE l == m.completedLayers[i]
  <2>1. F[i] = Block(m, i, l.phase, TaskList(l)) /\ l.phase = p[i].phase /\ Shows(l, w[i])
    BY <1>2, <1>3, <1>4
  <2>2. i \in 1 .. n /\ i \in DOMAIN F /\ Words(w, i) = w[i]
    BY <1>1, <1>2, <1>3 DEF Words, n
  <2>3. l.tasks \in Tasks /\ l.taskOrder \in Seq(Resource) /\ l.completedOrder \in Seq(Resource)
    BY <1>4, <1>5
  <2> HIDE DEF l
  <2>4. RightList(TaskList(l), w[i])
    BY <1>6, <2>1, <2>2, <2>3, ListFits
  <2> QED
    BY <1>7, <2>1, <2>2, <2>4 DEF RightBlock, Block
<1>9. ASSUME k < n PROVE RightBlock(F[n], p, w, n)
  <2>1. RightList(TaskList(m), w[n])
    BY <1>1, <1>3, <1>5, <1>6, ListFits
  <2>2. n \in DOMAIN F /\ Words(w, n) = w[n]
    BY <1>1, <1>2 DEF Words, n
  <2> QED
    BY <1>2, <1>3, <1>7, <1>9, <2>1, <2>2 DEF RightBlock, Block
<1>10. ASSUME NEW i \in n + 1 .. g PROVE RightBlock(F[i], p, w, i)
  <2>1. i \in DOMAIN F /\ i <= g /\ i \in 1 .. Len(p) /\ ~(i <= n)
    BY <1>1, <1>2
  <2>2. p[i].phase = "dag"
    <3>1. DOMAIN p = 1 .. Len(p)
      BY Elements DEF PlanSeqs
    <3> QED
      BY <2>1, <3>1, GraphIs DEF g
  <2>3. Words(w, i) = NoWords
    BY <2>1 DEF Words, n
  <2>4. RightList(Nothing, Words(w, i))
    BY <2>3, NothingFits
  <2>5. F[i] = [nodes |-> m.allLayerNodes[i], phase |-> "dag", lines |-> Nothing]
    BY <1>2 DEF Block
  <2>6. m.allLayerNodes[i] = p[i].nodes
    BY <1>7, <2>1
  <2> QED
    BY <2>2, <2>4, <2>5, <2>6 DEF RightBlock
<1>11. \A i \in DOMAIN F : i \in 1 .. k \/ (i = n /\ k < n) \/ i \in n + 1 .. g
  BY <1>1, <1>2, <1>3
<1> QED
  BY <1>8, <1>9, <1>10, <1>11 DEF F

LEMMA FrameFits ==
    ASSUME NEW a \in Apply, plan[a] \in PlanSeqs, Shaped(plan[a]), told[a] \in Heards,
           Len(told[a]) = layer[a], layer[a] \in 1 .. Len(plan[a]),
           view[a] \in Models, Layered(view[a], plan[a], told[a])
    PROVE  FrameShowsLayers(a)
<1> DEFINE F == Frame(view[a])
<1> DEFINE w == told[a]
<1>1. \A i \in DOMAIN F : RightBlock(F[i], plan[a], w, i)
  BY BlocksFit
<1>2. Len(F) = IF layer[a] < Graph(plan[a]) THEN Graph(plan[a]) ELSE layer[a]
  BY FrameIs
<1>3. Len(DagLayers(plan[a])) = Graph(plan[a])
  BY GraphIs
<1> HIDE DEF F
<1>4. ASSUME NEW i \in DOMAIN F
      PROVE  LET started == IF i <= layer[a] THEN {r \in Resource : told[a][i][r] # None} ELSE {}
                 ended == F[i].lines.ended
                 rest == F[i].lines.running
                 lines == ToSet(ended) \cup ToSet(rest)
             IN  /\ F[i].nodes = plan[a][i].nodes
                 /\ F[i].phase = plan[a][i].phase
                 /\ Len(ended) + Cardinality(DOMAIN rest) = Cardinality(started)
                 /\ {l.task : l \in lines} = started
                 /\ \A l \in lines : RightLine(l, told[a][i][l.task])
                 /\ \A l \in ToSet(ended) : l.shows \in {"done", "failed"}
  <2> DEFINE started == IF i <= layer[a] THEN {r \in Resource : told[a][i][r] # None} ELSE {}
  <2> DEFINE lines == ToSet(F[i].lines.ended) \cup ToSet(F[i].lines.running)
  <2>1. Started(Words(w, i)) = started
    BY DEF Words, Started, NoWords
  <2>2. /\ F[i].nodes = plan[a][i].nodes /\ F[i].phase = plan[a][i].phase
        /\ Len(F[i].lines.ended) + Cardinality(DOMAIN F[i].lines.running) = Cardinality(started)
        /\ {x.task : x \in lines} = started
        /\ \A x \in lines : RightLine(x, Words(w, i)[x.task])
        /\ \A x \in ToSet(F[i].lines.ended) : x.shows \in {"done", "failed"}
    BY <1>1, <2>1 DEF RightBlock, RightList
  <2> HIDE DEF lines
  <2>3. \A x \in lines : i <= layer[a]
    BY <2>2
  <2>4. i <= layer[a] => Words(w, i) = told[a][i]
    BY DEF Words
  <2>5. \A x \in lines : RightLine(x, told[a][i][x.task])
    BY <2>2, <2>3, <2>4
  <2> QED
    BY <2>2, <2>5 DEF lines
<1> QED
  BY <1>2, <1>3, <1>4 DEF FrameShowsLayers, F

LEMMA OnceAppended ==
    ASSUME NEW s \in Seq(Resource), NEW r \in Resource, Once(s), r \notin ToSet(s)
    PROVE  /\ Append(s, r) \in Seq(Resource) /\ Once(Append(s, r))
           /\ ToSet(Append(s, r)) = ToSet(s) \cup {r}
<1> DEFINE u == Append(s, r)
<1>1. /\ u \in Seq(Resource) /\ DOMAIN u = DOMAIN s \cup {Len(s) + 1} /\ Len(s) + 1 \notin DOMAIN s
      /\ u[Len(s) + 1] = r /\ \A i \in DOMAIN s : u[i] = s[i]
  OBVIOUS
<1> HIDE DEF u
<1>2. ToSet(u) = ToSet(s) \cup {r}
  BY <1>1 DEF ToSet
<1>3. \A i \in DOMAIN s : s[i] # r
  BY DEF ToSet
<1>4. Once(u)
  BY <1>1, <1>3 DEF Once
<1> QED
  BY <1>1, <1>2, <1>4 DEF u

\* Resource r says x after h, and l becomes n, with task t.
Follows(n, l, h, r, x, t) ==
    /\ t \in TaskState /\ t.status = x.outcome /\ t.lines = Shown(x.lines)
    /\ n.tasks = [l.tasks EXCEPT ![r] = t]
    /\ n.taskOrder = IF h[r] = None THEN Append(l.taskOrder, r) ELSE l.taskOrder
    /\ n.completedOrder = IF x.outcome = "running" THEN l.completedOrder ELSE Append(l.completedOrder, r)

LEMMA ShowsSays ==
    ASSUME NEW l, l.tasks \in Tasks, l.taskOrder \in Seq(Resource), l.completedOrder \in Seq(Resource),
           NEW h \in [Resource -> Said \cup {None}], Shows(l, h),
           NEW r \in Resource, r \notin Stopped(h), NEW x \in Said, NEW t, NEW n, Follows(n, l, h, r, x, t)
    PROVE  Shows(n, [h EXCEPT ![r] = x])
<1> DEFINE v == [h EXCEPT ![r] = x]
<1>1. x # None /\ t # None
  BY SaidIsSaid DEF Follows
<1>2. v \in [Resource -> Said \cup {None}] /\ v[r] = x /\ \A q \in Resource \ {r} : v[q] = h[q]
  OBVIOUS
<1> HIDE DEF v
<1>3. n.tasks[r] = t /\ \A q \in Resource \ {r} : n.tasks[q] = l.tasks[q]
  BY DEF Follows, Tasks
<1>4. \A q \in Resource : l.tasks[q] # None <=> h[q] # None
  BY DEF Shows
<1>5. \A q \in Started(h) : l.tasks[q].status = h[q].outcome /\ l.tasks[q].lines = Shown(h[q].lines)
  BY DEF Shows
<1>6. \A q \in Resource : n.tasks[q] # None <=> v[q] # None
  BY <1>1, <1>2, <1>3, <1>4
<1>7. ASSUME NEW q \in Started(v)
      PROVE  n.tasks[q].status = v[q].outcome /\ n.tasks[q].lines = Shown(v[q].lines)
  <2>1. CASE q = r
    BY <1>2, <1>3, <2>1 DEF Follows
  <2>2. CASE q # r
    <3>1. q \in Started(h)
      BY <1>2, <2>2 DEF Started
    <3>2. n.tasks[q] = l.tasks[q] /\ v[q] = h[q]
      BY <1>2, <1>3, <2>2 DEF Started
    <3> QED
      BY <1>5, <3>1, <3>2
  <2> QED
    BY <2>1, <2>2
<1>8. /\ Once(l.taskOrder) /\ ToSet(l.taskOrder) = Started(h)
      /\ Once(l.completedOrder) /\ ToSet(l.completedOrder) = Stopped(h)
  BY DEF Shows
<1>9. Once(n.taskOrder) /\ ToSet(n.taskOrder) = Started(v)
  <2>1. Started(v) = Started(h) \cup {r}
    BY <1>1, <1>2 DEF Started
  <2>2. CASE h[r] = None
    <3>1. r \notin ToSet(l.taskOrder)
      BY <1>8, <2>2 DEF Started
    <3>2. n.taskOrder = Append(l.taskOrder, r)
      BY <2>2 DEF Follows
    <3> QED
      BY <1>8, <2>1, <3>1, <3>2, OnceAppended
  <2>3. CASE h[r] # None
    <3>1. n.taskOrder = l.taskOrder
      BY <2>3 DEF Follows
    <3>2. Started(v) = Started(h)
      BY <2>1, <2>3 DEF Started
    <3> QED
      BY <1>8, <3>1, <3>2
  <2> QED
    BY <2>2, <2>3
<1>10. Once(n.completedOrder) /\ ToSet(n.completedOrder) = Stopped(v)
  <2>1. CASE x.outcome = "running"
    <3>1. n.completedOrder = l.completedOrder
      BY <2>1 DEF Follows
    <3>2. Stopped(v) = Stopped(h)
      BY <1>1, <1>2, <2>1 DEF Stopped
    <3> QED
      BY <1>8, <3>1, <3>2
  <2>2. CASE x.outcome # "running"
    <3>1. n.completedOrder = Append(l.completedOrder, r)
      BY <2>2 DEF Follows
    <3>2. Stopped(v) = Stopped(h) \cup {r}
      BY <1>1, <1>2, <2>2 DEF Stopped
    <3>3. r \notin ToSet(l.completedOrder)
      BY <1>8
    <3> QED
      BY <1>8, <3>1, <3>2, <3>3, OnceAppended
  <2> QED
    BY <2>1, <2>2
<1> QED
  BY <1>6, <1>7, <1>9, <1>10 DEF Shows, v

SameHeader(n, m) ==
    /\ n.allLayerNodes = m.allLayerNodes /\ n.totalLayers = m.totalLayers
    /\ n.currentLayer = m.currentLayer /\ n.currentPhase = m.currentPhase
    /\ n.completedLayers = m.completedLayers /\ n.quit = m.quit

\* An event about a resource of the present layer.
LEMMA LayeredSays ==
    ASSUME NEW p, NEW w \in Heards, Len(w) > 0, NEW m \in Models, ~m.quit, Layered(m, p, w),
           NEW r \in Resource, r \notin Stopped(w[Len(w)]), NEW x \in Said,
           NEW t, NEW n, Follows(n, m, w[Len(w)], r, x, t), SameHeader(n, m)
    PROVE  Layered(n, p, Saying(w, r, x))
<1> DEFINE v == Saying(w, r, x)
<1>1. Len(w) \in Nat /\ Len(w) \in DOMAIN w /\ DOMAIN w = 1 .. Len(w) /\ w[Len(w)] \in [Resource -> Said \cup {None}]
  BY Elements DEF Heards
<1>2. /\ Len(v) = Len(w) /\ v[Len(w)] = [w[Len(w)] EXCEPT ![r] = x]
      /\ \A i \in DOMAIN w : i # Len(w) => v[i] = w[i]
  BY <1>1 DEF Saying, Heards
<1> HIDE DEF v
<1>3. m.tasks \in Tasks /\ m.taskOrder \in Seq(Resource) /\ m.completedOrder \in Seq(Resource)
  BY DEF Models
<1>4. Shows(n, v[Len(w)])
  <2>1. Shows(m, w[Len(w)])
    BY DEF Layered
  <2>2. w[Len(w)] \in [Resource -> Said \cup {None}]
    BY <1>1
  <2>3. Shows(n, [w[Len(w)] EXCEPT ![r] = x])
    <3> DEFINE h == w[Len(w)]
    <3>1. h \in [Resource -> Said \cup {None}] /\ Shows(m, h) /\ r \notin Stopped(h) /\ Follows(n, m, h, r, x, t)
      BY <2>1, <2>2
    <3> HIDE DEF h
    <3>2. Shows(n, [h EXCEPT ![r] = x])
      BY <1>3, <3>1, ShowsSays
    <3> QED
      BY <3>2 DEF h
  <2> QED
    BY <1>2, <2>3
<1>5. DOMAIN m.completedLayers = 1 .. (Len(w) - 1)
  <2>1. Len(m.completedLayers) = Len(w) - 1
    BY DEF Layered
  <2>2. DOMAIN m.completedLayers = 1 .. Len(m.completedLayers)
    BY DEF Models
  <2> QED
    BY <2>1, <2>2
<1>6. \A i \in DOMAIN m.completedLayers : v[i] = w[i]
  BY <1>1, <1>2, <1>5
<1> QED
  BY <1>2, <1>4, <1>6 DEF Layered, SameHeader, v

\* A progress bar changes nothing that events say.
LEMMA LayeredProgress ==
    ASSUME NEW p, NEW w, NEW m \in Models, Layered(m, p, w), NEW r \in Resource, m.tasks[r] # None,
           NEW n, n.tasks = [m.tasks EXCEPT ![r].progress = TRUE],
           n.taskOrder = m.taskOrder, n.completedOrder = m.completedOrder, SameHeader(n, m)
    PROVE  Layered(n, p, w)
<1>1. m.tasks \in Tasks
  BY DEF Models
<1>2. m.tasks[r] \in TaskState /\ n.tasks[r] = [m.tasks[r] EXCEPT !.progress = TRUE]
  BY <1>1 DEF Tasks
<1>3. n.tasks[r] \in TaskState /\ n.tasks[r].status = m.tasks[r].status /\ n.tasks[r].lines = m.tasks[r].lines
  BY <1>2 DEF TaskState
<1>4. \A q \in Resource \ {r} : n.tasks[q] = m.tasks[q]
  BY <1>1 DEF Tasks
<1>5. n.tasks[r] # None
  BY <1>3, SaidIsSaid
<1>6. \A q \in Resource : (n.tasks[q] # None <=> m.tasks[q] # None)
                          /\ n.tasks[q].status = m.tasks[q].status /\ n.tasks[q].lines = m.tasks[q].lines
  BY <1>3, <1>4, <1>5
<1>7. ASSUME NEW h, Shows(m, h) PROVE Shows(n, h)
  BY <1>6, <1>7 DEF Shows, Started
<1> QED
  BY <1>7 DEF Layered, SameHeader

LayerTasks == [phase : Phases, tasks : Tasks, taskOrder : Seq(Resource), completedOrder : Seq(Resource)]

TasksOf(m) == [phase |-> m.currentPhase, tasks |-> m.tasks, taskOrder |-> m.taskOrder,
               completedOrder |-> m.completedOrder]

LEMMA SnapshotIs ==
    ASSUME NEW m \in Models
    PROVE  /\ Snapshot(m) = IF m.totalLayers = 0
                            THEN m
                            ELSE [m EXCEPT !.completedLayers = Append(m.completedLayers, TasksOf(m))]
           /\ Snapshot(m) \in Models /\ TasksOf(m) \in LayerTasks /\ m.completedLayers \in Seq(LayerTasks)
<1>1. TasksOf(m) \in LayerTasks /\ m.completedLayers \in Seq(LayerTasks)
  BY DEF TasksOf, LayerTasks, Models
<1>2. Append(m.completedLayers, TasksOf(m)) \in Seq(LayerTasks)
  BY <1>1
<1>3. Snapshot(m) = IF m.totalLayers = 0
                    THEN m
                    ELSE [m EXCEPT !.completedLayers = Append(m.completedLayers, TasksOf(m))]
  BY DEF Snapshot, TasksOf
<1> DEFINE c == Append(m.completedLayers, TasksOf(m))
<1> HIDE DEF c
<1>4. c \in Seq(LayerTasks) => [m EXCEPT !.completedLayers = c] \in Models
  BY DEF Models, LayerTasks
<1> QED
  BY <1>1, <1>2, <1>3, <1>4 DEF c

\* The completed layers with the present one.
LEMMA LayersWith ==
    ASSUME NEW p \in PlanSeqs, Shaped(p), NEW w \in Heards, Len(w) \in 1 .. Len(p),
           NEW m \in Models, ~m.quit, Layered(m, p, w), Graph(p) > 0,
           NEW c, c = Append(m.completedLayers, TasksOf(m))
    PROVE  /\ c \in Seq(LayerTasks) /\ Len(c) = Len(w)
           /\ \A i \in DOMAIN c : c[i].phase = p[i].phase /\ Shows(c[i], w[i])
<1> DEFINE n == Len(w)
<1> DEFINE old == m.completedLayers
<1>1. TasksOf(m) \in LayerTasks /\ old \in Seq(LayerTasks)
  BY SnapshotIs
<1>2. n \in Nat /\ Len(old) = n - 1
  <2>1. n \in Nat
    BY Elements DEF Heards
  <2> QED
    BY <2>1 DEF Layered
<1>3. DOMAIN old = 1 .. (n - 1)
  <2>1. DOMAIN old = 1 .. Len(old)
    BY <1>1, Elements
  <2> QED
    BY <1>2, <2>1
<1>4. \A i \in DOMAIN old : old[i].phase = p[i].phase /\ Shows(old[i], w[i])
  BY DEF Layered
<1>5. TasksOf(m).phase = p[n].phase /\ Shows(TasksOf(m), w[n])
  BY DEF Layered, TasksOf, Shows
<1>6. c = Append(old, TasksOf(m))
  OBVIOUS
<1> HIDE DEF n, old
<1> DEFINE t == TasksOf(m)
<1> HIDE DEF t
<1>7. /\ c \in Seq(LayerTasks) /\ Len(c) = n /\ DOMAIN c = 1 .. n
      /\ c[n] = t /\ \A i \in 1 .. (n - 1) : c[i] = old[i]
  BY <1>1, <1>2, <1>6 DEF t
<1>8. ASSUME NEW i \in 1 .. n PROVE c[i].phase = p[i].phase /\ Shows(c[i], w[i])
  <2>1. CASE i = n
    BY <1>5, <1>7, <2>1 DEF t
  <2>2. CASE i # n
    <3>1. i \in 1 .. (n - 1)
      BY <1>2, <2>2
    <3> QED
      BY <1>3, <1>4, <1>7, <3>1
  <2> QED
    BY <2>1, <2>2
<1> QED
  BY <1>7, <1>8 DEF n

LEMMA LayeredDone ==
    ASSUME NEW p \in PlanSeqs, Shaped(p), NEW w \in Heards, Len(w) \in 1 .. Len(p),
           NEW m \in Models, ~m.quit, Layered(m, p, w)
    PROVE  Layered([Snapshot(m) EXCEPT !.quit = TRUE], p, w)
<1> DEFINE d == [Snapshot(m) EXCEPT !.quit = TRUE]
<1>1. Graph(p) \in Nat /\ m.totalLayers = Graph(p)
  <2>1. Graph(p) \in 0 .. Len(p)
    BY GraphIs
  <2> QED
    BY <2>1 DEF Layered
<1>2. CASE Graph(p) = 0
  <2>1. d = [m EXCEPT !.quit = TRUE]
    BY <1>1, <1>2, SnapshotIs
  <2>2. /\ d.quit
        /\ d.tasks = m.tasks /\ d.taskOrder = m.taskOrder /\ d.completedOrder = m.completedOrder
        /\ d.allLayerNodes = m.allLayerNodes /\ d.totalLayers = m.totalLayers
        /\ d.currentLayer = m.currentLayer /\ d.currentPhase = m.currentPhase
        /\ d.completedLayers = m.completedLayers
    BY <2>1 DEF Models
  <2>3. ASSUME NEW h, Shows(m, h) PROVE Shows(d, h)
    BY <2>2, <2>3 DEF Shows
  <2> HIDE DEF d
  <2>4. Layered(d, p, w)
    BY <1>2, <2>2, <2>3 DEF Layered
  <2> QED
    BY <2>4 DEF d
<1>3. CASE Graph(p) > 0
  <2> DEFINE c == Append(m.completedLayers, TasksOf(m))
  <2>1. c \in Seq(LayerTasks) /\ Len(c) = Len(w) /\ \A i \in DOMAIN c : c[i].phase = p[i].phase /\ Shows(c[i], w[i])
    BY <1>3, LayersWith
  <2>2. Snapshot(m) = [m EXCEPT !.completedLayers = c]
    BY <1>1, <1>3, SnapshotIs
  <2> HIDE DEF c
  <2>3. /\ d.quit /\ d.completedLayers = c
        /\ d.tasks = m.tasks /\ d.taskOrder = m.taskOrder /\ d.completedOrder = m.completedOrder
        /\ d.allLayerNodes = m.allLayerNodes /\ d.totalLayers = m.totalLayers
        /\ d.currentLayer = m.currentLayer /\ d.currentPhase = m.currentPhase
    BY <2>2 DEF Models
  <2>4. ASSUME NEW h, Shows(m, h) PROVE Shows(d, h)
    BY <2>3, <2>4 DEF Shows
  <2> HIDE DEF d
  <2>5. Layered(d, p, w)
    BY <1>3, <2>1, <2>3, <2>4 DEF Layered
  <2> QED
    BY <2>5 DEF d
<1> QED
  BY <1>1, <1>2, <1>3

\* What a layer's first event makes of the view, and of a view of no layers first.
Informed(m, e) ==
    IF IsFirst(m) THEN [m EXCEPT !.allLayerNodes = e.all, !.totalLayers = Len(e.all)] ELSE m

Begins(m, e) == ResetTasks(NextHeader(Informed(m, e), e))

Typed(e) == /\ e.phase \in Phases /\ e.nodes \in SUBSET Resource
            /\ e.all \in Seq(SUBSET Resource) /\ e.layer \in Nat

LEMMA BeginsIs ==
    ASSUME NEW m \in Models, NEW e, Typed(e), NEW k, k = Informed(m, e), NEW b, b = Begins(m, e)
    PROVE  /\ k \in Models /\ b \in Models
           /\ b.tasks = NoTasks /\ b.taskOrder = <<>> /\ b.completedOrder = <<>>
           /\ b.currentPhase = e.phase /\ b.quit = m.quit /\ b.interrupted = m.interrupted
           /\ b.totalLayers = k.totalLayers
           /\ b.allLayerNodes = IF e.phase = "dag" THEN k.allLayerNodes ELSE Append(k.allLayerNodes, e.nodes)
           /\ b.currentLayer = IF e.phase = "dag" THEN e.layer ELSE Len(k.allLayerNodes) + 1
           /\ b.completedLayers = IF (e.phase # "dag" \/ e.layer > 1) /\ k.totalLayers # 0
                                  THEN Append(k.completedLayers, TasksOf(k))
                                  ELSE k.completedLayers
<1>0. e.phase \in Phases /\ e.nodes \in SUBSET Resource /\ e.all \in Seq(SUBSET Resource) /\ e.layer \in Nat
  BY DEF Typed
<1>1. Len(e.all) \in Nat
  BY <1>0
<1>2. k \in Models /\ k.quit = m.quit /\ k.interrupted = m.interrupted
  <2>1. CASE IsFirst(m)
    <3>1. k = [m EXCEPT !.allLayerNodes = e.all, !.totalLayers = Len(e.all)]
      BY <2>1 DEF Informed
    <3> QED
      BY <1>0, <1>1, <3>1 DEF Models
  <2>2. CASE ~IsFirst(m)
    BY <2>2 DEF Informed
  <2> QED
    BY <2>1, <2>2
<1> DEFINE s == IF e.phase # "dag" \/ e.layer > 1 THEN Snapshot(k) ELSE k
<1>3. /\ s \in Models /\ s.quit = k.quit /\ s.interrupted = k.interrupted
      /\ s.totalLayers = k.totalLayers /\ s.allLayerNodes = k.allLayerNodes
      /\ s.completedLayers = IF (e.phase # "dag" \/ e.layer > 1) /\ k.totalLayers # 0
                             THEN Append(k.completedLayers, TasksOf(k))
                             ELSE k.completedLayers
  <2>1. Snapshot(k) \in Models
    BY <1>2, SnapshotIs
  <2>2. Snapshot(k) = IF k.totalLayers = 0
                      THEN k
                      ELSE [k EXCEPT !.completedLayers = Append(k.completedLayers, TasksOf(k))]
    BY <1>2, SnapshotIs
  <2> DEFINE c == Append(k.completedLayers, TasksOf(k))
  <2> HIDE DEF c
  <2>3. /\ Snapshot(k).quit = k.quit /\ Snapshot(k).interrupted = k.interrupted
        /\ Snapshot(k).totalLayers = k.totalLayers /\ Snapshot(k).allLayerNodes = k.allLayerNodes
        /\ Snapshot(k).completedLayers = IF k.totalLayers # 0 THEN c ELSE k.completedLayers
    <3>1. CASE k.totalLayers = 0
      BY <2>2, <3>1
    <3>2. CASE k.totalLayers # 0
      <4>1. Snapshot(k) = [k EXCEPT !.completedLayers = c]
        BY <2>2, <3>2 DEF c
      <4> QED
        BY <1>2, <3>2, <4>1 DEF Models
    <3> QED
      BY <3>1, <3>2
  <2> QED
    BY <1>2, <2>1, <2>3 DEF c
<1>4. b = ResetTasks(IF e.phase # "dag"
                     THEN [s EXCEPT !.allLayerNodes = Append(s.allLayerNodes, e.nodes),
                                    !.currentLayer = Len(s.allLayerNodes) + 1,
                                    !.currentPhase = e.phase]
                     ELSE [s EXCEPT !.currentLayer = e.layer, !.currentPhase = e.phase])
  <2>1. NextHeader(k, e) = IF e.phase # "dag"
                           THEN [s EXCEPT !.allLayerNodes = Append(s.allLayerNodes, e.nodes),
                                          !.currentLayer = Len(s.allLayerNodes) + 1,
                                          !.currentPhase = e.phase]
                           ELSE [s EXCEPT !.currentLayer = e.layer, !.currentPhase = e.phase]
    <3>1. CASE e.phase # "dag"
      BY <3>1 DEF NextHeader
    <3>2. CASE e.phase = "dag"
      BY <3>2 DEF NextHeader
    <3> QED
      BY <3>1, <3>2
  <2> QED
    BY <2>1 DEF Begins
<1> HIDE DEF s
<1>5. NoTasks \in Tasks /\ <<>> \in Seq(Resource)
  BY DEF NoTasks, Tasks
<1>6. s.allLayerNodes \in Seq(SUBSET Resource)
  BY <1>3 DEF Models
<1>7. Append(s.allLayerNodes, e.nodes) \in Seq(SUBSET Resource) /\ Len(s.allLayerNodes) + 1 \in Nat
  BY <1>0, <1>6
<1>8. CASE e.phase # "dag"
  <2> DEFINE all == Append(s.allLayerNodes, e.nodes)
  <2> DEFINE now == Len(s.allLayerNodes) + 1
  <2> HIDE DEF all, now
  <2>1. b = ResetTasks([s EXCEPT !.allLayerNodes = all, !.currentLayer = now, !.currentPhase = e.phase])
    BY <1>4, <1>8 DEF all, now
  <2>2. all \in Seq(SUBSET Resource) /\ now \in Nat
    BY <1>7 DEF all, now
  <2>3. /\ b \in Models /\ b.tasks = NoTasks /\ b.taskOrder = <<>> /\ b.completedOrder = <<>>
        /\ b.currentPhase = e.phase /\ b.quit = s.quit /\ b.interrupted = s.interrupted
        /\ b.totalLayers = s.totalLayers /\ b.allLayerNodes = all /\ b.currentLayer = now
        /\ b.completedLayers = s.completedLayers
    BY <1>0, <1>3, <1>5, <2>1, <2>2 DEF ResetTasks, Models
  <2> QED
    BY <1>2, <1>3, <1>8, <2>3 DEF all, now
<1>9. CASE e.phase = "dag"
  <2>1. b = ResetTasks([s EXCEPT !.currentLayer = e.layer, !.currentPhase = e.phase])
    BY <1>4, <1>9
  <2>2. /\ b \in Models /\ b.tasks = NoTasks /\ b.taskOrder = <<>> /\ b.completedOrder = <<>>
        /\ b.currentPhase = e.phase /\ b.quit = s.quit /\ b.interrupted = s.interrupted
        /\ b.totalLayers = s.totalLayers /\ b.allLayerNodes = s.allLayerNodes /\ b.currentLayer = e.layer
        /\ b.completedLayers = s.completedLayers
    BY <1>0, <1>3, <1>5, <2>1 DEF ResetTasks, Models
  <2> QED
    BY <1>2, <1>3, <1>9, <2>2
<1> QED
  BY <1>8, <1>9

LEMMA ShowsNothing ==
    ASSUME NEW n, n.tasks = NoTasks, n.taskOrder = <<>>, n.completedOrder = <<>>
    PROVE  Shows(n, NoWords)
<1>1. Started(NoWords) = {} /\ Stopped(NoWords) = {}
  BY DEF Started, Stopped, NoWords
<1>2. ToSet(<<>>) = {} /\ Once(<<>>)
  BY DEF ToSet, Once
<1>3. \A r \in Resource : n.tasks[r] = None /\ NoWords[r] = None
  BY DEF NoTasks, NoWords
<1> QED
  BY <1>1, <1>2, <1>3 DEF Shows

LEMMA EventTyped ==
    ASSUME NEW p \in PlanSeqs, Shaped(p), NEW i \in 1 .. Len(p)
    PROVE  /\ Typed(Event(p, i)) /\ Event(p, i).layer = i
           /\ Event(p, i).phase = p[i].phase /\ Event(p, i).nodes = p[i].nodes
           /\ Event(p, i).phase = "dag" <=> i <= Graph(p)
           /\ Event(p, i).phase = "dag" => Event(p, i).all = DagLayers(p)
           /\ Event(p, i).phase # "dag" => Event(p, i).all = <<>>
<1>1. p[i] \in [phase : Phases, nodes : SUBSET Resource] /\ Len(p) \in Nat /\ DOMAIN p = 1 .. Len(p)
  BY Elements DEF PlanSeqs
<1>2. DagLayers(p) \in Seq(SUBSET Resource) /\ (p[i].phase = "dag" <=> i <= Graph(p))
  BY <1>1, GraphIs
<1>3. /\ Event(p, i).phase = p[i].phase /\ Event(p, i).layer = i /\ Event(p, i).nodes = p[i].nodes
      /\ Event(p, i).all = IF p[i].phase = "dag" THEN DagLayers(p) ELSE <<>>
  BY DEF Event
<1>4. <<>> \in Seq(SUBSET Resource) /\ i \in Nat
  OBVIOUS
<1> HIDE DEF Event
<1> QED
  BY <1>1, <1>2, <1>3, <1>4 DEF Typed

\* Before its first layer's block is there, the view knows the layers.
LEMMA InformedIs ==
    ASSUME NEW p \in PlanSeqs, Shaped(p), NEW w \in Heards, Len(w) < Len(p),
           NEW m \in Models, ~m.quit, Displays(m, p, w),
           NEW e, e = Event(p, Len(w) + 1), NEW k, k = Informed(m, e), NEW b, b = Begins(m, e)
    PROVE  /\ k.totalLayers = Graph(p) /\ Len(k.allLayerNodes) = IF Len(w) < Graph(p) THEN Graph(p) ELSE Len(w)
           /\ \A i \in DOMAIN k.allLayerNodes : k.allLayerNodes[i] = p[i].nodes
           /\ Len(b.completedLayers) = Len(w)
           /\ \A i \in DOMAIN b.completedLayers :
                 b.completedLayers[i].phase = p[i].phase /\ Shows(b.completedLayers[i], w[i])
<1> DEFINE n == Len(w)
<1> DEFINE g == Graph(p)
<1>1. n \in Nat /\ Len(p) \in Nat /\ n < Len(p)
  BY Elements DEF Heards, PlanSeqs
<1>2. g \in Nat /\ (g = 0 => Len(p) <= 1)
  <2>1. g \in 0 .. Len(p) /\ (g = 0 => Len(p) <= 1)
    BY GraphIs
  <2> HIDE DEF g
  <2> QED
    BY <1>1, <2>1
<1>3. n + 1 \in 1 .. Len(p)
  BY <1>1
<1>4. /\ Typed(e) /\ e.layer = n + 1 /\ e.phase = p[n + 1].phase
      /\ e.phase = "dag" <=> n + 1 <= g
      /\ e.phase = "dag" => e.all = DagLayers(p)
      /\ e.phase # "dag" => e.all = <<>>
  BY <1>3, EventTyped
<1>5. b.completedLayers = IF (e.phase # "dag" \/ e.layer > 1) /\ k.totalLayers # 0
                          THEN Append(k.completedLayers, TasksOf(k))
                          ELSE k.completedLayers
  BY <1>4, BeginsIs
<1>6. CASE w = <<>>
  <2>1. n = 0 /\ m = NewApplyModel
    BY <1>6 DEF Displays
  <2>2. IsFirst(m) /\ m.completedLayers = <<>>
    BY <2>1 DEF IsFirst, NewApplyModel
  <2>3. k = [m EXCEPT !.allLayerNodes = e.all, !.totalLayers = Len(e.all)]
    BY <2>2 DEF Informed
  <2>4. k.allLayerNodes = e.all /\ k.totalLayers = Len(e.all) /\ k.completedLayers = <<>>
    BY <2>2, <2>3 DEF Models
  <2>5. Len(DagLayers(p)) = g /\ \A i \in 1 .. g : DagLayers(p)[i] = p[i].nodes
    BY GraphIs
  <2>6. Len(e.all) = g /\ \A i \in DOMAIN e.all : e.all[i] = p[i].nodes
    <3>1. CASE e.phase = "dag"
      <4>1. DOMAIN DagLayers(p) = 1 .. Len(DagLayers(p))
        BY GraphIs, Elements
      <4> QED
        BY <1>4, <2>5, <3>1, <4>1
    <3>2. CASE e.phase # "dag"
      <4>1. g = 0 /\ e.all = <<>>
        BY <1>2, <1>4, <2>1, <3>2
      <4> QED
        BY <4>1
    <3> QED
      BY <3>1, <3>2
  <2>7. b.completedLayers = <<>>
    <3>1. e.phase # "dag" => k.totalLayers = 0
      BY <1>2, <1>4, <2>1, <2>4, <2>6
    <3>2. ~(e.layer > 1)
      BY <1>4, <2>1
    <3> QED
      BY <1>5, <2>4, <3>1, <3>2
  <2> HIDE DEF n, g
  <2>8. /\ k.totalLayers = g /\ Len(k.allLayerNodes) = IF n < g THEN g ELSE n
        /\ \A i \in DOMAIN k.allLayerNodes : k.allLayerNodes[i] = p[i].nodes
    BY <1>2, <2>1, <2>4, <2>6
  <2> QED
    BY <2>1, <2>7, <2>8 DEF n, g
<1>7. CASE w # <<>>
  <2>1. Layered(m, p, w) /\ n > 0 /\ g > 0
    <3>1. n > 0
      BY <1>7 DEF Heards
    <3>2. g > 0
      <4> HIDE DEF n, g
      <4> QED
        BY <1>1, <1>2, <3>1
    <3> QED
      BY <1>7, <3>1, <3>2 DEF Displays
  <2>2. Len(m.allLayerNodes) = IF n < g THEN g ELSE n
    BY <2>1 DEF Layered
  <2>3. k = m
    <3>1. m.allLayerNodes # <<>>
      <4> HIDE DEF n, g
      <4> QED
        BY <1>1, <1>2, <2>1, <2>2
    <3> QED
      BY <3>1 DEF Informed, IsFirst
  <2>4. m.totalLayers = g /\ \A i \in DOMAIN m.allLayerNodes : m.allLayerNodes[i] = p[i].nodes
    BY <2>1 DEF Layered
  <2>5. b.completedLayers = Append(m.completedLayers, TasksOf(m))
    <3>1. e.layer > 1
      <4> HIDE DEF n, g
      <4> QED
        BY <1>1, <1>4, <2>1
    <3>2. k.totalLayers # 0
      <4> HIDE DEF n, g
      <4> QED
        BY <1>2, <2>1, <2>3, <2>4
    <3> QED
      BY <1>5, <2>3, <3>1, <3>2
  <2>6. n \in 1 .. Len(p)
    BY <1>1, <2>1
  <2>7. Len(b.completedLayers) = n /\ \A i \in DOMAIN b.completedLayers :
                 b.completedLayers[i].phase = p[i].phase /\ Shows(b.completedLayers[i], w[i])
    BY <2>1, <2>5, <2>6, LayersWith
  <2> QED
    BY <2>2, <2>3, <2>4, <2>7
<1> QED
  BY <1>6, <1>7

LEMMA LayeredBegins ==
    ASSUME NEW p \in PlanSeqs, Shaped(p), NEW w \in Heards, Len(w) < Len(p),
           NEW m \in Models, ~m.quit, Displays(m, p, w),
           NEW b, b = Begins(m, Event(p, Len(w) + 1))
    PROVE  Layered(b, p, Append(w, NoWords))
<1> DEFINE n == Len(w)
<1> DEFINE g == Graph(p)
<1> DEFINE e == Event(p, n + 1)
<1> DEFINE k == Informed(m, e)
<1> DEFINE v == Append(w, NoWords)
<1>1. n \in Nat /\ Len(p) \in Nat /\ n < Len(p)
  BY Elements DEF Heards, PlanSeqs
<1>2. g \in Nat
  <2>1. g \in 0 .. Len(p)
    BY GraphIs
  <2> HIDE DEF g
  <2> QED
    BY <1>1, <2>1
<1>3. n + 1 \in 1 .. Len(p)
  BY <1>1
<1>4. /\ Typed(e) /\ e.layer = n + 1 /\ e.phase = p[n + 1].phase /\ e.nodes = p[n + 1].nodes
      /\ (e.phase = "dag" <=> n + 1 <= g)
  BY <1>3, EventTyped
<1>5. b = Begins(m, e)
  OBVIOUS
<1> HIDE DEF e
<1>6. /\ b \in Models /\ k \in Models
      /\ b.tasks = NoTasks /\ b.taskOrder = <<>> /\ b.completedOrder = <<>>
      /\ b.currentPhase = e.phase /\ b.quit = m.quit /\ b.totalLayers = k.totalLayers
      /\ b.allLayerNodes = IF e.phase = "dag" THEN k.allLayerNodes ELSE Append(k.allLayerNodes, e.nodes)
      /\ b.currentLayer = IF e.phase = "dag" THEN e.layer ELSE Len(k.allLayerNodes) + 1
  BY <1>4, <1>5, BeginsIs
<1>7. /\ k.totalLayers = g /\ Len(k.allLayerNodes) = IF n < g THEN g ELSE n
      /\ \A i \in DOMAIN k.allLayerNodes : k.allLayerNodes[i] = p[i].nodes
      /\ Len(b.completedLayers) = n
      /\ \A i \in DOMAIN b.completedLayers :
            b.completedLayers[i].phase = p[i].phase /\ Shows(b.completedLayers[i], w[i])
  BY <1>5, InformedIs DEF e
<1>8. Shows(b, NoWords)
  BY <1>6, ShowsNothing
<1>9. Len(v) = n + 1 /\ v[n + 1] = NoWords /\ \A i \in 1 .. n : v[i] = w[i]
  BY DEF Heards
<1>10. DOMAIN b.completedLayers = 1 .. n
  <2>1. DOMAIN b.completedLayers = 1 .. Len(b.completedLayers)
    BY <1>6 DEF Models
  <2> QED
    BY <1>7, <2>1
<1>11. k.allLayerNodes \in Seq(SUBSET Resource)
  BY <1>6 DEF Models
<1> HIDE DEF n, g, k, v
<1>12. CASE e.phase = "dag"
  <2>1. b.allLayerNodes = k.allLayerNodes /\ b.currentLayer = n + 1 /\ n < g
    BY <1>1, <1>2, <1>4, <1>6, <1>12
  <2>2. Len(b.allLayerNodes) = IF n + 1 < g THEN g ELSE n + 1
    BY <1>1, <1>2, <1>4, <1>7, <1>12, <2>1
  <2> QED
    BY <1>4, <1>6, <1>7, <1>8, <1>9, <1>10, <2>1, <2>2 DEF Layered, v, n, g
<1>13. CASE e.phase # "dag"
  <2>1. ~(n < g) /\ ~(n + 1 < g) /\ Len(k.allLayerNodes) = n
    BY <1>1, <1>2, <1>4, <1>7, <1>13
  <2> DEFINE all == k.allLayerNodes
  <2> HIDE DEF all
  <2>2. b.allLayerNodes = Append(all, e.nodes) /\ all \in Seq(SUBSET Resource) /\ Len(all) = n
    BY <1>6, <1>11, <1>13, <2>1 DEF all
  <2>3. /\ Len(b.allLayerNodes) = n + 1 /\ DOMAIN b.allLayerNodes = DOMAIN all \cup {n + 1}
        /\ b.allLayerNodes[n + 1] = e.nodes /\ \A i \in DOMAIN all : b.allLayerNodes[i] = all[i]
    BY <1>1, <2>2
  <2>4. \A i \in DOMAIN b.allLayerNodes : b.allLayerNodes[i] = p[i].nodes
    BY <1>4, <1>7, <2>3 DEF all
  <2>5. b.currentLayer = n + 1
    BY <1>6, <1>13, <2>1
  <2> QED
    BY <1>4, <1>6, <1>7, <1>8, <1>9, <1>10, <2>1, <2>3, <2>4, <2>5 DEF Layered, v, n, g
<1> QED
  BY <1>12, <1>13

LEMMA EndedIsFinite ==
    ASSUME NEW p, NEW w \in Heards, NEW c
    PROVE  IsFiniteSet(Ended(p, w, c)) /\ Cardinality(Ended(p, w, c)) \in Nat
<1>1. DOMAIN w = 1 .. Len(w) /\ Len(w) \in Nat
  BY Elements DEF Heards
<1>2. IsFiniteSet(DOMAIN w) /\ IsFiniteSet(Resource)
  BY <1>1, FS_Interval, LogAssumption DEF LogAssumption
<1>3. IsFiniteSet((DOMAIN w) \X Resource)
  BY <1>2, FS_Product
<1>4. Ended(p, w, c) \in SUBSET ((DOMAIN w) \X Resource)
  BY DEF Ended
<1> QED
  BY <1>3, <1>4, FS_Subset, FS_CardinalityType

\* A new layer has ended nothing.
LEMMA EndedLayer ==
    ASSUME NEW p, NEW w \in Heards, NEW c
    PROVE  Ended(p, Append(w, NoWords), c) = Ended(p, w, c)
<1> DEFINE v == Append(w, NoWords)
<1>1. DOMAIN v = DOMAIN w \cup {Len(w) + 1} /\ v[Len(w) + 1] = NoWords /\ \A i \in DOMAIN w : v[i] = w[i]
  BY DEF Heards
<1> HIDE DEF v
<1>2. \A r \in Resource : v[Len(w) + 1][r] = None
  BY <1>1 DEF NoWords
<1>3. ASSUME NEW y \in (DOMAIN v) \X Resource
      PROVE  y \in Ended(p, v, c) <=> y \in Ended(p, w, c)
  <2>1. y = <<y[1], y[2]>> /\ y[1] \in DOMAIN v /\ y[2] \in Resource
    OBVIOUS
  <2>2. CASE y[1] = Len(w) + 1
    <3>1. y[1] \notin DOMAIN w
      BY <2>2, Elements DEF Heards
    <3>2. v[y[1]][y[2]] = None
      BY <1>2, <2>1, <2>2
    <3>3. y \notin Ended(p, v, c)
      BY <3>2 DEF Ended
    <3>4. y \notin Ended(p, w, c)
      BY <3>1 DEF Ended
    <3> QED
      BY <3>3, <3>4
  <2>3. CASE y[1] # Len(w) + 1
    <3>1. y[1] \in DOMAIN w /\ v[y[1]] = w[y[1]]
      BY <1>1, <2>1, <2>3
    <3> QED
      BY <2>1, <3>1 DEF Ended
  <2> QED
    BY <2>2, <2>3
<1>4. Ended(p, v, c) \subseteq (DOMAIN v) \X Resource /\ Ended(p, w, c) \subseteq (DOMAIN v) \X Resource
  BY <1>1 DEF Ended
<1>5. Ended(p, v, c) = Ended(p, w, c)
  BY <1>3, <1>4
<1> QED
  BY <1>5 DEF v

Adds(p, w, x, c) == IF x.outcome = OutcomeOf(c) /\ p[Len(w)].phase \in PhasesOf(c) THEN 1 ELSE 0

\* What an event ends is counted once.
LEMMA EndedSays ==
    ASSUME NEW p, NEW w \in Heards, Len(w) > 0, NEW r \in Resource, NEW x \in Said, NEW c,
           w[Len(w)][r] # None => w[Len(w)][r].outcome = "running"
    PROVE  Cardinality(Ended(p, Saying(w, r, x), c)) = Cardinality(Ended(p, w, c)) + Adds(p, w, x, c)
<1> DEFINE v == Saying(w, r, x)
<1> DEFINE n == Len(w)
<1> DEFINE here == <<n, r>>
<1>1. n \in DOMAIN w /\ w[n] \in [Resource -> Said \cup {None}]
  BY Elements DEF Heards
<1>2. /\ DOMAIN v = DOMAIN w /\ v[n] = [w[n] EXCEPT ![r] = x]
      /\ \A i \in DOMAIN w : i # n => v[i] = w[i]
  BY <1>1 DEF Saying, Heards
<1>3. v[n][r] = x /\ \A q \in Resource : q # r => v[n][q] = w[n][q]
  BY <1>1, <1>2
<1>4. x # None /\ OutcomeOf(c) # "running"
  BY SaidIsSaid DEF OutcomeOf
<1> HIDE DEF v, n
<1>5. here \notin Ended(p, w, c)
  BY <1>4 DEF Ended, n
<1>6. here \in Ended(p, v, c) <=> x.outcome = OutcomeOf(c) /\ p[n].phase \in PhasesOf(c)
  <2>1. here \in (DOMAIN v) \X Resource /\ here[1] = n /\ here[2] = r
    BY <1>1, <1>2
  <2> HIDE DEF here
  <2> QED
    BY <1>3, <1>4, <2>1 DEF Ended
<1>7. ASSUME NEW y \in (DOMAIN w) \X Resource, y # here
      PROVE  y \in Ended(p, v, c) <=> y \in Ended(p, w, c)
  <2>1. y = <<y[1], y[2]>> /\ y[1] \in DOMAIN w /\ y[2] \in Resource
    OBVIOUS
  <2>2. y[1] # n \/ y[2] # r
    BY <1>7, <2>1
  <2>3. v[y[1]][y[2]] = w[y[1]][y[2]]
    BY <1>2, <1>3, <2>1, <2>2
  <2> QED
    BY <1>2, <2>3 DEF Ended
<1>8. Ended(p, v, c) \subseteq (DOMAIN w) \X Resource /\ Ended(p, w, c) \subseteq (DOMAIN w) \X Resource
  BY <1>2 DEF Ended
<1>9. here \in (DOMAIN w) \X Resource
  BY <1>1
<1> HIDE DEF here
<1>10. CASE x.outcome = OutcomeOf(c) /\ p[n].phase \in PhasesOf(c)
  <2>1. Ended(p, v, c) = Ended(p, w, c) \cup {here}
    BY <1>6, <1>7, <1>8, <1>9, <1>10
  <2>2. Cardinality(Ended(p, w, c) \cup {here}) = Cardinality(Ended(p, w, c)) + 1
    BY <1>5, EndedIsFinite, FS_AddElement
  <2>3. Cardinality(Ended(p, v, c)) = Cardinality(Ended(p, w, c)) + 1
    BY <2>1, <2>2
  <2>4. Adds(p, w, x, c) = 1
    BY <1>10 DEF Adds, n
  <2> QED
    BY <2>3, <2>4 DEF v
<1>11. CASE ~(x.outcome = OutcomeOf(c) /\ p[n].phase \in PhasesOf(c))
  <2>1. Ended(p, v, c) = Ended(p, w, c)
    <3>1. here \notin Ended(p, v, c)
      BY <1>6, <1>11
    <3>2. ASSUME NEW y \in (DOMAIN w) \X Resource PROVE y \in Ended(p, v, c) <=> y \in Ended(p, w, c)
      <4>1. CASE y = here
        BY <1>5, <3>1, <4>1
      <4>2. CASE y # here
        BY <1>7, <4>2
      <4> QED
        BY <4>1, <4>2
    <3> QED
      BY <1>8, <3>2
  <2>2. Adds(p, w, x, c) = 0
    BY <1>11 DEF Adds, n
  <2>3. Cardinality(Ended(p, w, c)) \in Nat
    BY EndedIsFinite
  <2> QED
    BY <2>1, <2>2, <2>3 DEF v
<1> QED
  BY <1>10, <1>11

\* The view of a task is what was said of its resource.
Agrees(m, h, r) ==
    /\ m.tasks[r] # None <=> h[r] # None
    /\ h[r] # None => m.tasks[r].status = h[r].outcome /\ m.tasks[r].lines = Shown(h[r].lines)

\* The view of apply a has taken in that r says x.
Seen(a, r, h, x) ==
    \E n \in Models :
        /\ view' = [view EXCEPT ![a] = n] /\ n.interrupted = view[a].interrupted /\ SameHeader(n, view[a])
        /\ (a \in Interactive /\ ~view[a].quit) => \E t : Follows(n, view[a], h, r, x, t)

LEMMA SeenNot ==
    ASSUME view \in [Apply -> Models], NEW a \in Apply, NEW r, NEW h, NEW x, view' = view,
           ~(a \in Interactive /\ ~view[a].quit)
    PROVE  Seen(a, r, h, x)
<1>1. view[a] \in Models /\ view' = [view EXCEPT ![a] = view[a]] /\ SameHeader(view[a], view[a])
  BY DEF SameHeader
<1> QED
  BY <1>1 DEF Seen

LEMMA StartSeen ==
    ASSUME view \in [Apply -> Models], NEW a \in Apply, NEW r \in Resource, HandleStart(a, r),
           NEW h, h[r] = None, (a \in Interactive /\ ~view[a].quit) => Agrees(view[a], h, r)
    PROVE  Seen(a, r, h, [lines |-> 0, outcome |-> "running"]) /\ results' = results
<1> DEFINE m == view[a]
<1> DEFINE t == [status |-> "running", lines |-> 0, progress |-> FALSE]
<1> DEFINE x == [lines |-> 0, outcome |-> "running"]
<1> DEFINE n == [m EXCEPT !.tasks = [m.tasks EXCEPT ![r] = t], !.taskOrder = Append(m.taskOrder, r)]
<1>1. CASE ~(a \in Interactive /\ ~m.quit)
  <2>1. view' = view /\ results' = results
    BY <1>1 DEF HandleStart, Takes
  <2> QED
    BY <1>1, <2>1, SeenNot
<1>2. CASE a \in Interactive /\ ~m.quit
  <2>1. m.tasks[r] = None
    BY <1>2 DEF Agrees
  <2>2. view' = [view EXCEPT ![a].tasks[r] = t, ![a].taskOrder = Append(@, r)] /\ results' = results
    BY <1>2, <2>1 DEF HandleStart, Takes
  <2>3. m \in Models /\ m.tasks \in Tasks /\ m.taskOrder \in Seq(Resource)
    BY DEF Models
  <2>4. view' = [view EXCEPT ![a] = n]
    BY <2>2
  <2>5. t \in TaskState /\ t.status = x.outcome /\ t.lines = Shown(x.lines)
    BY ReportAssumption DEF ReportAssumption, TaskState, Shown
  <2> HIDE DEF t, x
  <2>6. [m.tasks EXCEPT ![r] = t] \in Tasks /\ Append(m.taskOrder, r) \in Seq(Resource)
    BY <2>3, <2>5 DEF Tasks
  <2> DEFINE tasks == [m.tasks EXCEPT ![r] = t]
  <2> DEFINE order == Append(m.taskOrder, r)
  <2> HIDE DEF tasks, order
  <2>7. /\ n \in Models /\ n.interrupted = m.interrupted /\ SameHeader(n, m)
        /\ n.tasks = tasks /\ n.taskOrder = order /\ n.completedOrder = m.completedOrder
    <3>1. n = [m EXCEPT !.tasks = tasks, !.taskOrder = order]
      BY DEF tasks, order
    <3>2. tasks \in Tasks /\ order \in Seq(Resource)
      BY <2>6 DEF tasks, order
    <3> HIDE DEF n
    <3> QED
      BY <2>3, <3>1, <3>2 DEF Models, SameHeader
  <2>8. x.outcome = "running"
    BY DEF x
  <2> HIDE DEF n
  <2>9. Follows(n, m, h, r, x, t)
    BY <2>5, <2>7, <2>8 DEF Follows, tasks, order
  <2> QED
    BY <2>2, <2>4, <2>7, <2>9 DEF Seen, x
<1> QED
  BY <1>1, <1>2

LEMMA OutputSeen ==
    ASSUME view \in [Apply -> Models], NEW a \in Apply, NEW r \in Resource, HandleOutput(a, r),
           NEW h, h[r] \in Said, h[r].outcome = "running",
           (a \in Interactive /\ ~view[a].quit) => Agrees(view[a], h, r)
    PROVE  Seen(a, r, h, [lines |-> h[r].lines + 1, outcome |-> h[r].outcome]) /\ results' = results
<1> DEFINE m == view[a]
<1> DEFINE x == [lines |-> h[r].lines + 1, outcome |-> h[r].outcome]
<1> DEFINE t == [m.tasks[r] EXCEPT !.lines = IF @ < MaxLogLines THEN @ + 1 ELSE @]
<1> DEFINE n == [m EXCEPT !.tasks = [m.tasks EXCEPT ![r] = t]]
<1>1. CASE ~(a \in Interactive /\ ~m.quit)
  <2>1. view' = view /\ results' = results
    BY <1>1 DEF HandleOutput, Takes
  <2> QED
    BY <1>1, <2>1, SeenNot
<1>2. CASE a \in Interactive /\ ~m.quit
  <2>1. m.tasks[r] # None /\ m.tasks[r].status = "running" /\ m.tasks[r].lines = Shown(h[r].lines)
    BY <1>2, SaidIsSaid DEF Agrees
  <2>2. view' = [view EXCEPT ![a].tasks[r].lines = IF @ < MaxLogLines THEN @ + 1 ELSE @] /\ results' = results
    BY <1>2, <2>1 DEF HandleOutput, Takes
  <2>3. m \in Models /\ m.tasks \in Tasks
    BY DEF Models
  <2>4. view' = [view EXCEPT ![a] = n]
    BY <2>2
  <2>5. m.tasks[r] \in TaskState /\ h[r].lines \in Nat /\ MaxLogLines \in Nat
    BY <2>1, <2>3, ReportAssumption DEF Tasks, Said, ReportAssumption
  <2>6. t \in TaskState /\ t.status = "running" /\ t.lines = Shown(x.lines)
    BY <2>1, <2>5 DEF TaskState, Shown
  <2>7. x.outcome = "running"
    OBVIOUS
  <2> HIDE DEF t, x
  <2>8. [m.tasks EXCEPT ![r] = t] \in Tasks
    BY <2>3, <2>6 DEF Tasks
  <2> DEFINE tasks == [m.tasks EXCEPT ![r] = t]
  <2> HIDE DEF tasks
  <2>9. /\ n \in Models /\ n.interrupted = m.interrupted /\ SameHeader(n, m)
        /\ n.tasks = tasks /\ n.taskOrder = m.taskOrder /\ n.completedOrder = m.completedOrder
    <3>1. n = [m EXCEPT !.tasks = tasks] /\ tasks \in Tasks
      BY <2>8 DEF tasks
    <3> HIDE DEF n
    <3> QED
      BY <2>3, <3>1 DEF Models, SameHeader
  <2>10. h[r] # None
    BY SaidIsSaid
  <2> HIDE DEF n
  <2>11. Follows(n, m, h, r, x, t)
    BY <2>6, <2>7, <2>9, <2>10 DEF Follows, tasks
  <2> QED
    BY <2>2, <2>4, <2>9, <2>11 DEF Seen, x
<1> QED
  BY <1>1, <1>2

\* A completion or a failure, which is counted where it is shown.
LEMMA EndSeen ==
    ASSUME view \in [Apply -> Models], NEW a \in Apply, NEW r \in Resource,
           NEW s \in {"done", "failed"}, NEW c, HandleEnd(a, r, s, c),
           NEW h, h[r] \in Said, (a \in Interactive /\ ~view[a].quit) => Agrees(view[a], h, r)
    PROVE  /\ Seen(a, r, h, [lines |-> h[r].lines, outcome |-> s])
           /\ results' = IF a \in Interactive /\ view[a].quit
                         THEN results
                         ELSE [results EXCEPT ![a][c] = @ + 1]
<1> DEFINE m == view[a]
<1> DEFINE x == [lines |-> h[r].lines, outcome |-> s]
<1> DEFINE t == [m.tasks[r] EXCEPT !.status = s]
<1> DEFINE n == [m EXCEPT !.tasks = [m.tasks EXCEPT ![r] = t], !.completedOrder = Append(m.completedOrder, r)]
<1>0. h[r] # None
  BY SaidIsSaid
<1>1. CASE a \notin Interactive
  <2>1. view' = view /\ results' = [results EXCEPT ![a][c] = @ + 1]
    BY <1>1 DEF HandleEnd
  <2> QED
    BY <1>1, <2>1, SeenNot
<1>2. CASE a \in Interactive /\ m.quit
  <2>1. view' = view /\ results' = results
    BY <1>2 DEF HandleEnd
  <2> QED
    BY <1>2, <2>1, SeenNot
<1>3. CASE a \in Interactive /\ ~m.quit
  <2>1. m.tasks[r] # None /\ m.tasks[r].lines = Shown(h[r].lines)
    BY <1>0, <1>3 DEF Agrees
  <2>2. /\ view' = [view EXCEPT ![a].tasks[r].status = s, ![a].completedOrder = Append(@, r)]
        /\ results' = [results EXCEPT ![a][c] = @ + 1]
    BY <1>3, <2>1 DEF HandleEnd
  <2>3. m \in Models /\ m.tasks \in Tasks /\ m.completedOrder \in Seq(Resource)
    BY DEF Models
  <2>4. view' = [view EXCEPT ![a] = n]
    BY <2>2
  <2>5. m.tasks[r] \in TaskState
    BY <2>1, <2>3 DEF Tasks
  <2>6. t \in TaskState /\ t.status = x.outcome /\ t.lines = Shown(x.lines)
    BY <2>1, <2>5 DEF TaskState
  <2>7. x.outcome # "running"
    OBVIOUS
  <2> HIDE DEF t, x
  <2>8. [m.tasks EXCEPT ![r] = t] \in Tasks /\ Append(m.completedOrder, r) \in Seq(Resource)
    BY <2>3, <2>6 DEF Tasks
  <2> DEFINE tasks == [m.tasks EXCEPT ![r] = t]
  <2> DEFINE order == Append(m.completedOrder, r)
  <2> HIDE DEF tasks, order
  <2>9. /\ n \in Models /\ n.interrupted = m.interrupted /\ SameHeader(n, m)
        /\ n.tasks = tasks /\ n.taskOrder = m.taskOrder /\ n.completedOrder = order
    <3>1. n = [m EXCEPT !.tasks = tasks, !.completedOrder = order] /\ tasks \in Tasks /\ order \in Seq(Resource)
      BY <2>8 DEF tasks, order
    <3> HIDE DEF n
    <3> QED
      BY <2>3, <3>1 DEF Models, SameHeader
  <2> HIDE DEF n
  <2>10. Follows(n, m, h, r, x, t)
    BY <1>0, <2>6, <2>7, <2>9 DEF Follows, tasks, order
  <2>11. Seen(a, r, h, x)
    BY <2>4, <2>9, <2>10 DEF Seen
  <2> QED
    BY <1>3, <2>2, <2>11 DEF x
<1> QED
  BY <1>1, <1>2, <1>3

\* For the other applies nothing is different.
Apart(a) ==
    \A b \in Apply \ {a} :
        pc'[b] = pc[b] /\ view'[b] = view[b] /\ results'[b] = results[b] /\ plan'[b] = plan[b] /\ told'[b] = told[b]

LEMMA SameSees ==
    ASSUME NEW b, Sees(b), pc'[b] \in {"new", "opened", "running"} => pc[b] \in {"new", "opened", "running"},
           view'[b] = view[b], results'[b] = results[b], plan'[b] = plan[b], told'[b] = told[b]
    PROVE  Sees(b)'
<1>1. Told(b) => Told(b)'
  BY DEF Told
<1> QED
  BY <1>1 DEF Sees

LEMMA OneSees ==
    ASSUME ViewInv, NEW a \in Apply, Apart(a), Sees(a)',
           view' \in [Apply -> Models], results' \in [Apply -> [Counts -> Nat]]
    PROVE  ViewInv'
<1>1. ASSUME NEW b \in Apply \ {a} PROVE Sees(b)'
  BY SameSees DEF ViewInv, Apart
<1> QED
  BY <1>1 DEF ViewInv

\* Resource r, which has not ended in this layer, says x, and the counts are right.
LEMMA ViewSays ==
    ASSUME ReportInv, ViewInv, NEW a \in Apply, NEW r \in Resource, NEW x \in Said,
           layer[a] > 0, pc[a] = "running", r \notin Stopped(Heard(a)),
           Tells(a, r, x), Seen(a, r, Heard(a), x), UNCHANGED <<pc, plan, layer>>,
           results' \in [Apply -> [Counts -> Nat]], \A b \in Apply \ {a} : results'[b] = results[b],
           ~view[a].interrupted =>
               \A c \in Counts : results'[a][c] = results[a][c] + Adds(plan[a], told[a], x, c)
    PROVE  ViewInv'
<1> DEFINE w == told[a]
<1> DEFINE p == plan[a]
<1>1. w \in Heards /\ Len(w) = layer[a] /\ Len(w) > 0 /\ Heard(a) = w[Len(w)]
  BY DEF ReportInv, ReportTypes, EventsSaid, Heard
<1>2. told'[a] = Saying(w, r, x) /\ \A b \in Apply \ {a} : told'[b] = told[b]
  BY DEF Tells, ReportInv, ReportTypes
<1>3. PICK n \in Models :
         /\ view' = [view EXCEPT ![a] = n] /\ n.interrupted = view[a].interrupted /\ SameHeader(n, view[a])
         /\ (a \in Interactive /\ ~view[a].quit) => \E t : Follows(n, view[a], Heard(a), r, x, t)
  BY DEF Seen
<1>4. view' \in [Apply -> Models] /\ view'[a] = n /\ \A b \in Apply \ {a} : view'[b] = view[b]
  BY <1>3 DEF ViewInv
<1>5. view[a] \in Models /\ Sees(a) /\ n.quit = view[a].quit
  BY <1>3 DEF ViewInv, SameHeader
<1>6. ASSUME ~n.interrupted PROVE Told(a)'
  <2>1. Told(a) /\ ~view[a].quit
    BY <1>3, <1>5, <1>6 DEF Sees, Told
  <2>2. \A c \in Counts : results'[a][c] = Cardinality(Ended(p, Saying(w, r, x), c))
    <3>1. w[Len(w)][r] # None => w[Len(w)][r].outcome = "running"
      BY <1>1 DEF Stopped
    <3>2. ASSUME NEW c PROVE Cardinality(Ended(p, Saying(w, r, x), c)) = Cardinality(Ended(p, w, c)) + Adds(p, w, x, c)
      <4> HIDE DEF w, p
      <4> QED
        BY <1>1, <3>1, EndedSays
    <3>3. \A c \in Counts : results[a][c] = Cardinality(Ended(p, w, c))
      BY <2>1 DEF Told
    <3>4. \A c \in Counts : results'[a][c] = results[a][c] + Adds(p, w, x, c)
      BY <1>3, <1>6
    <3> QED
      BY <3>2, <3>3, <3>4
  <2>3. a \in Interactive => Displays(n, p, Saying(w, r, x))
    <3> SUFFICES ASSUME a \in Interactive PROVE Displays(n, p, Saying(w, r, x))
      OBVIOUS
    <3>1. Layered(view[a], p, w)
      BY <1>1, <2>1 DEF Told, Displays
    <3>2. PICK t : Follows(n, view[a], Heard(a), r, x, t)
      BY <1>3, <2>1
    <3>3. Layered(n, p, Saying(w, r, x))
      <4>1. r \notin Stopped(w[Len(w)]) /\ Follows(n, view[a], w[Len(w)], r, x, t)
        BY <1>1, <3>2
      <4> DEFINE m == view[a]
      <4>2. m \in Models /\ ~m.quit /\ Layered(m, p, w) /\ SameHeader(n, m) /\ Follows(n, m, w[Len(w)], r, x, t)
        BY <1>3, <1>5, <2>1, <3>1, <4>1
      <4> HIDE DEF m, p, w
      <4> QED
        BY <1>1, <4>1, <4>2, LayeredSays
    <3>4. Saying(w, r, x) # <<>>
      BY <1>1 DEF Saying, Heards
    <3> QED
      BY <3>3, <3>4 DEF Displays
  <2>4. view'[a].quit = FALSE
    BY <1>4, <1>5, <2>1 DEF Models
  <2> QED
    BY <1>2, <1>4, <2>2, <2>3, <2>4 DEF Told
<1>7. Sees(a)'
  BY <1>3, <1>4, <1>5, <1>6 DEF Sees
<1>8. Apart(a)
  BY <1>2, <1>4 DEF Apart
<1> QED
  BY <1>4, <1>7, <1>8, OneSees

LEMMA InPlan ==
    ASSUME ReportInv, NEW a \in Apply
    PROVE  /\ plan[a] \in PlanSeqs /\ told[a] \in Heards /\ Len(told[a]) = layer[a] /\ layer[a] <= Len(plan[a])
           /\ layer[a] \in Nat
           /\ layer[a] > 0 => layer[a] \in 1 .. Len(plan[a])
<1>1. plan[a] \in PlanSeqs /\ told[a] \in Heards /\ Len(told[a]) = layer[a] /\ layer[a] <= Len(plan[a]) /\ layer[a] \in Nat
  BY DEF ReportInv, ReportTypes, EventsSaid, PlanSeqs
<1>2. Len(plan[a]) \in Nat
  BY <1>1 DEF PlanSeqs
<1> QED
  BY <1>1, <1>2

\* Before an event the view of its resource is what has been said of it.
LEMMA ViewAgrees ==
    ASSUME ReportInv, ViewInv, NEW a \in Apply, NEW r \in Resource, layer[a] > 0, pc[a] = "running"
    PROVE  /\ (a \in Interactive /\ ~view[a].quit) => Agrees(view[a], Heard(a), r)
           /\ ~view[a].interrupted => ~view[a].quit
<1>1. Len(told[a]) > 0 /\ Heard(a) = told[a][Len(told[a])] /\ told[a] # <<>>
  BY DEF ReportInv, ReportTypes, EventsSaid, Heard
<1>2. Sees(a)
  BY DEF ViewInv
<1>3. ASSUME a \in Interactive, ~view[a].quit PROVE Agrees(view[a], Heard(a), r)
  <2>1. Told(a)
    BY <1>2, <1>3 DEF Sees
  <2>2. Shows(view[a], Heard(a))
    BY <1>1, <1>3, <2>1 DEF Told, Displays, Layered
  <2> QED
    BY <2>2 DEF Shows, Started, Agrees
<1> QED
  BY <1>2, <1>3 DEF Sees, Told

\* What ends is counted under its name.
LEMMA CountedOnce ==
    ASSUME NEW p, NEW w, p[Len(w)].phase \in Phases, NEW x, NEW c \in Counts
    PROVE  /\ x.outcome = "done" => Adds(p, w, x, c) = IF c = Counted(p[Len(w)].phase) THEN 1 ELSE 0
           /\ x.outcome = "failed" => Adds(p, w, x, c) = IF c = "failed" THEN 1 ELSE 0
           /\ x.outcome = "running" => Adds(p, w, x, c) = 0
           /\ Counted(p[Len(w)].phase) \in Counts
BY DEF Adds, Counted, Counts, OutcomeOf, PhasesOf, Phases

LEMMA ViewEnds ==
    ASSUME ReportInv, ViewInv, NEW a \in Apply, NEW r \in Resource, NEW s \in {"done", "failed"}, Ends(a, r, s),
           NEW c, c = (IF s = "done" THEN Counted(Phase(a)) ELSE "failed"), HandleEnd(a, r, s, c)
    PROVE  ViewInv'
<1> DEFINE x == [lines |-> Heard(a)[r].lines, outcome |-> s]
<1>1. /\ layer[a] > 0 /\ Heard(a)[r] \in Said /\ Heard(a)[r].outcome = "running" /\ pc[a] = "running"
      /\ UNCHANGED <<pc, plan, layer>>
  BY EventFinds DEF Ends, Emits
<1>2. (a \in Interactive /\ ~view[a].quit) => Agrees(view[a], Heard(a), r)
  BY <1>1, ViewAgrees
<1>3. ~view[a].interrupted => ~view[a].quit
  BY <1>1, ViewAgrees
<1>4. Tells(a, r, x)
  BY <1>1, EventTells
<1>5. x \in Said /\ x.outcome = s
  BY <1>1 DEF Said
<1>6. view \in [Apply -> Models] /\ results \in [Apply -> [Counts -> Nat]]
  BY DEF ViewInv
<1>7. /\ Seen(a, r, Heard(a), x)
      /\ results' = IF a \in Interactive /\ view[a].quit THEN results ELSE [results EXCEPT ![a][c] = @ + 1]
  <2> DEFINE h == Heard(a)
  <2>1. h[r] \in Said /\ ((a \in Interactive /\ ~view[a].quit) => Agrees(view[a], h, r))
    BY <1>1, <1>2
  <2>2. x = [lines |-> h[r].lines, outcome |-> s]
    OBVIOUS
  <2>3. view \in [Apply -> Models] /\ HandleEnd(a, r, s, c)
    BY <1>6
  <2> HIDE DEF h, x
  <2>4. /\ Seen(a, r, h, [lines |-> h[r].lines, outcome |-> s])
        /\ results' = IF a \in Interactive /\ view[a].quit THEN results ELSE [results EXCEPT ![a][c] = @ + 1]
    BY <2>1, <2>3, EndSeen
  <2> QED
    BY <2>2, <2>4 DEF h
<1>8. Phase(a) \in Phases /\ Phase(a) = plan[a][Len(told[a])].phase
  <2>1. layer[a] \in 1 .. Len(plan[a]) /\ Len(told[a]) = layer[a] /\ plan[a] \in PlanSeqs
    BY <1>1, InPlan
  <2>2. plan[a][layer[a]] \in [phase : Phases, nodes : SUBSET Resource]
    BY <2>1, Elements DEF PlanSeqs
  <2> QED
    BY <2>1, <2>2 DEF Phase
<1> HIDE DEF x
<1>9. c \in Counts /\ \A d \in Counts : Adds(plan[a], told[a], x, d) = IF d = c THEN 1 ELSE 0
  BY <1>5, <1>8, CountedOnce DEF Counts
<1>10. results' \in [Apply -> [Counts -> Nat]] /\ \A b \in Apply \ {a} : results'[b] = results[b]
  BY <1>6, <1>7, <1>9
<1>11. ~view[a].interrupted => \A d \in Counts : results'[a][d] = results[a][d] + Adds(plan[a], told[a], x, d)
  BY <1>3, <1>6, <1>7, <1>9
<1>12. r \notin Stopped(Heard(a))
  BY <1>1 DEF Stopped
<1> QED
  BY <1>1, <1>4, <1>5, <1>7, <1>10, <1>11, <1>12, ViewSays

LEMMA ViewEvent ==
    ASSUME ReportInv, ViewInv, NEW a \in Apply, NEW r \in Resource,
           Start(a, r) \/ Output(a, r) \/ Complete(a, r) \/ Error(a, r)
    PROVE  ViewInv'
<1>1. view \in [Apply -> Models] /\ results \in [Apply -> [Counts -> Nat]]
  BY DEF ViewInv
<1>2. ASSUME NEW x \in Said, x.outcome = "running", Tells(a, r, x), Seen(a, r, Heard(a), x),
             r \notin Stopped(Heard(a)), layer[a] > 0, pc[a] = "running",
             UNCHANGED <<pc, plan, layer, results>>
      PROVE  ViewInv'
  <2>1. plan[a][Len(told[a])].phase \in Phases
    <3>1. layer[a] \in 1 .. Len(plan[a]) /\ Len(told[a]) = layer[a] /\ plan[a] \in PlanSeqs
      BY <1>2, InPlan
    <3>2. plan[a][layer[a]] \in [phase : Phases, nodes : SUBSET Resource]
      BY <3>1, Elements DEF PlanSeqs
    <3> QED
      BY <3>1, <3>2
  <2>2. \A c \in Counts : results'[a][c] = results[a][c] + Adds(plan[a], told[a], x, c)
    <3>1. \A c \in Counts : Adds(plan[a], told[a], x, c) = 0
      BY <1>2, <2>1, CountedOnce
    <3> QED
      BY <1>1, <1>2, <3>1
  <2> QED
    BY <1>1, <1>2, <2>2, ViewSays
<1>3. CASE Start(a, r)
  <2> DEFINE x == [lines |-> 0, outcome |-> "running"]
  <2>1. /\ layer[a] > 0 /\ Heard(a)[r] = None /\ pc[a] = "running" /\ UNCHANGED <<pc, plan, layer>>
        /\ HandleStart(a, r) /\ Tells(a, r, x)
    BY <1>3, EventFinds, EventTells DEF Start, Emits
  <2>2. (a \in Interactive /\ ~view[a].quit) => Agrees(view[a], Heard(a), r)
    BY <2>1, ViewAgrees
  <2>3. Seen(a, r, Heard(a), x) /\ results' = results
    BY <1>1, <2>1, <2>2, StartSeen
  <2>4. x \in Said /\ x.outcome = "running" /\ r \notin Stopped(Heard(a))
    BY <2>1 DEF Said, Stopped
  <2> HIDE DEF x
  <2> QED
    BY <1>2, <2>1, <2>3, <2>4
<1>4. CASE Output(a, r)
  <2> DEFINE x == [lines |-> Heard(a)[r].lines + 1, outcome |-> Heard(a)[r].outcome]
  <2>1. /\ layer[a] > 0 /\ Heard(a)[r] \in Said /\ Heard(a)[r].outcome = "running" /\ pc[a] = "running"
        /\ UNCHANGED <<pc, plan, layer>> /\ HandleOutput(a, r)
    BY <1>4, EventFinds DEF Output, Emits
  <2>2. Tells(a, r, x)
    BY <1>4, <2>1, EventTells
  <2>3. (a \in Interactive /\ ~view[a].quit) => Agrees(view[a], Heard(a), r)
    BY <2>1, ViewAgrees
  <2>4. Seen(a, r, Heard(a), x) /\ results' = results
    <3> DEFINE h == Heard(a)
    <3>1. h[r] \in Said /\ h[r].outcome = "running" /\ ((a \in Interactive /\ ~view[a].quit) => Agrees(view[a], h, r))
      BY <2>1, <2>3
    <3>2. x = [lines |-> h[r].lines + 1, outcome |-> h[r].outcome]
      OBVIOUS
    <3> HIDE DEF h, x
    <3> QED
      BY <1>1, <2>1, <3>1, <3>2, OutputSeen DEF h
  <2>5. x \in Said /\ x.outcome = "running" /\ r \notin Stopped(Heard(a))
    BY <2>1 DEF Said, Stopped
  <2> HIDE DEF x
  <2> QED
    BY <1>2, <2>1, <2>2, <2>4, <2>5
<1>5. CASE Complete(a, r)
  BY <1>5, ViewEnds DEF Complete, HandleComplete
<1>6. CASE Error(a, r)
  BY <1>6, ViewEnds DEF Error, HandleError
<1> QED
  BY <1>3, <1>4, <1>5, <1>6

LEMMA ViewProgress ==
    ASSUME ReportInv, ViewInv, NEW a \in Apply, NEW r \in Resource, Progress(a, r)
    PROVE  ViewInv'
<1> DEFINE m == view[a]
<1> DEFINE tasks == [m.tasks EXCEPT ![r].progress = TRUE]
<1> DEFINE n == [m EXCEPT !.tasks = tasks]
<1>1. /\ UNCHANGED <<pc, plan, told, results>> /\ HandleProgress(a, r)
      /\ view \in [Apply -> Models] /\ results \in [Apply -> [Counts -> Nat]]
  BY DEF Progress, reportVars, HandleProgress, ViewInv
<1>2. CASE view' = view
  BY <1>1, <1>2, SameSees DEF ViewInv
<1>3. CASE view' # view
  <2>1. Takes(a) /\ m.tasks[r] # None /\ view' = [view EXCEPT ![a].tasks[r].progress = TRUE]
    BY <1>1, <1>3 DEF HandleProgress
  <2>2. m \in Models /\ m.tasks \in Tasks /\ m.tasks[r] \in TaskState
    <3>1. m \in Models
      BY <1>1
    <3>2. m.tasks \in Tasks
      BY <3>1 DEF Models
    <3> QED
      BY <2>1, <3>1, <3>2 DEF Tasks
  <2>3. tasks \in Tasks
    BY <2>2 DEF Tasks, TaskState
  <2>4. view' = [view EXCEPT ![a] = n]
    BY <2>1
  <2> HIDE DEF tasks
  <2>5. n \in Models /\ n.tasks = tasks /\ n.taskOrder = m.taskOrder /\ n.completedOrder = m.completedOrder
        /\ SameHeader(n, m) /\ n.interrupted = m.interrupted /\ n.quit = m.quit
    BY <2>2, <2>3 DEF Models, SameHeader
  <2> HIDE DEF n
  <2>6. view' \in [Apply -> Models] /\ view'[a] = n /\ \A b \in Apply \ {a} : view'[b] = view[b]
    BY <1>1, <2>4, <2>5
  <2>7. ASSUME Told(a) PROVE Told(a)'
    <3>1. Displays(m, plan[a], told[a]) => Displays(n, plan[a], told[a])
      <4>1. CASE told[a] = <<>>
        <5>1. m # NewApplyModel
          BY <2>1 DEF NewApplyModel, NoTasks
        <5> QED
          BY <2>5, <4>1, <5>1 DEF Displays
      <4>2. CASE told[a] # <<>>
        <5>1. n.tasks = [m.tasks EXCEPT ![r].progress = TRUE]
          BY <2>5 DEF tasks
        <5>2. Layered(m, plan[a], told[a]) => Layered(n, plan[a], told[a])
          <6> DEFINE p == plan[a]
          <6> DEFINE w == told[a]
          <6> HIDE DEF m, p, w
          <6>1. Layered(m, p, w) => Layered(n, p, w)
            BY <2>1, <2>2, <2>5, <5>1, LayeredProgress
          <6> QED
            BY <6>1 DEF p, w
        <5> QED
          BY <4>2, <5>2 DEF Displays
      <4> QED
        BY <4>1, <4>2
    <3> QED
      BY <1>1, <2>5, <2>6, <2>7, <3>1 DEF Told
  <2>8. Sees(a)'
    BY <1>1, <2>5, <2>6, <2>7 DEF Sees, ViewInv
  <2>9. Apart(a)
    BY <1>1, <2>6 DEF Apart
  <2> QED
    BY <1>1, <2>6, <2>8, <2>9, OneSees
<1> QED
  BY <1>2, <1>3

LEMMA ViewLayer ==
    ASSUME ReportInv, ViewInv, NEW a \in Apply, LayerStart(a)
    PROVE  ViewInv'
<1> DEFINE m == view[a]
<1> DEFINE p == plan[a]
<1> DEFINE w == told[a]
<1> DEFINE e == Event(p, Len(w) + 1)
<1>1. p \in PlanSeqs /\ w \in Heards /\ Len(w) = layer[a] /\ layer[a] \in Nat
  BY InPlan
<1>2. /\ UNCHANGED <<pc, plan, results>> /\ pc[a] = "running" /\ Len(w) < Len(p)
      /\ HandleLayerStart(a, e)
      /\ view \in [Apply -> Models] /\ results \in [Apply -> [Counts -> Nat]]
  BY <1>1 DEF LayerStart, Emits, HandleLayerStart, ViewInv
<1>3. told'[a] = Append(w, NoWords) /\ \A b \in Apply \ {a} : told'[b] = told[b]
  BY LayerSays DEF ReportInv, ReportTypes
<1>4. Sees(a) /\ m \in Models
  BY <1>2 DEF ViewInv
<1>5. Len(w) + 1 \in 1 .. Len(p)
  BY <1>1, <1>2 DEF PlanSeqs
<1>6. Typed(e)
  <2>1. Shaped(p)
    BY <1>4 DEF Sees
  <2> HIDE DEF p, w
  <2> QED
    BY <1>1, <1>5, <2>1, EventTyped
<1> DEFINE b == Begins(m, e)
<1>7. view' = IF Takes(a) THEN [view EXCEPT ![a] = b] ELSE view
  BY <1>2 DEF HandleLayerStart, Begins, Informed
<1>8. b \in Models /\ b.quit = m.quit /\ b.interrupted = m.interrupted
  <2> HIDE DEF m, e
  <2> QED
    BY <1>4, <1>6, BeginsIs
<1> HIDE DEF b
<1>9. /\ view' \in [Apply -> Models] /\ \A c \in Apply \ {a} : view'[c] = view[c]
      /\ view'[a] = IF Takes(a) THEN b ELSE m
  BY <1>2, <1>7, <1>8
<1>10. ASSUME Told(a), ~m.interrupted PROVE Told(a)'
  <2>1. ~m.quit
    BY <1>2, <1>10 DEF Told
  <2>2. \A c \in Counts : Ended(p, Append(w, NoWords), c) = Ended(p, w, c)
    <3> HIDE DEF p, w
    <3> QED
      BY <1>1, EndedLayer
  <2>3. \A c \in Counts : results'[a][c] = Cardinality(Ended(p, Append(w, NoWords), c))
    BY <1>2, <1>10, <2>2 DEF Told
  <2>4. a \in Interactive => Layered(b, p, Append(w, NoWords))
    <3> SUFFICES ASSUME a \in Interactive PROVE Layered(b, p, Append(w, NoWords))
      OBVIOUS
    <3>1. Displays(m, p, w) /\ Shaped(p)
      BY <1>4, <1>10 DEF Told, Sees
    <3>2. b = Begins(m, Event(p, Len(w) + 1)) /\ Len(w) < Len(p)
      BY <1>2 DEF b
    <3> HIDE DEF m, p, w
    <3> QED
      BY <1>1, <1>4, <2>1, <3>1, <3>2, LayeredBegins
  <2>5. Append(w, NoWords) # <<>>
    <3>1. NoWords \in [Resource -> Said \cup {None}]
      BY DEF NoWords
    <3>2. Len(Append(w, NoWords)) = Len(w) + 1 /\ Len(w) \in Nat
      <4> HIDE DEF w
      <4> QED
        BY <1>1, <3>1 DEF Heards
    <3>3. Len(<<>>) = 0
      OBVIOUS
    <3> QED
      BY <3>2, <3>3
  <2>6. a \in Interactive => Displays(b, p, Append(w, NoWords)) /\ view'[a] = b
    BY <1>9, <2>1, <2>4, <2>5 DEF Displays, Takes
  <2>7. view'[a].quit = FALSE
    BY <1>4, <1>8, <1>9, <2>1 DEF Models
  <2> QED
    BY <1>2, <1>3, <2>3, <2>6, <2>7 DEF Told
<1>11. Sees(a)'
  BY <1>2, <1>4, <1>8, <1>9, <1>10 DEF Sees
<1>12. Apart(a)
  BY <1>2, <1>3, <1>9 DEF Apart
<1> QED
  BY <1>2, <1>9, <1>11, <1>12, OneSees

\* The apply's end, with or without the engine.
LEMMA ViewDone ==
    ASSUME ReportInv, ViewInv, NEW a \in Apply, HandleApplyDone(a), UNCHANGED <<plan, told>>,
           pc' = [pc EXCEPT ![a] = "flush"]
    PROVE  ViewInv'
<1> DEFINE m == view[a]
<1> DEFINE p == plan[a]
<1> DEFINE w == told[a]
<1> DEFINE d == [Snapshot(m) EXCEPT !.quit = TRUE]
<1>1. p \in PlanSeqs /\ w \in Heards /\ Len(w) = layer[a] /\ (layer[a] > 0 => layer[a] \in 1 .. Len(p)) /\ layer[a] \in Nat
  BY InPlan
<1>2. /\ view \in [Apply -> Models] /\ results \in [Apply -> [Counts -> Nat]] /\ results' = results
      /\ Sees(a) /\ m \in Models
      /\ pc'[a] = "flush" /\ \A b \in Apply \ {a} : pc'[b] = pc[b]
  BY DEF ViewInv, HandleApplyDone, ReportInv, ReportTypes
<1>3. view' = IF Takes(a) THEN [view EXCEPT ![a] = d] ELSE view
  BY DEF HandleApplyDone
<1>4. d \in Models /\ d.quit /\ d.interrupted = m.interrupted
  <2>1. Snapshot(m) \in Models /\ Snapshot(m).interrupted = m.interrupted
    <3>1. Snapshot(m) \in Models
      <4> HIDE DEF m
      <4> QED
        BY <1>2, SnapshotIs
    <3>2. Snapshot(m).interrupted = m.interrupted
      <4> HIDE DEF m
      <4> QED
        BY <1>2 DEF Snapshot, Models
    <3> QED
      BY <3>1, <3>2
  <2> DEFINE s == Snapshot(m)
  <2> HIDE DEF s
  <2>2. s \in Models /\ s.interrupted = m.interrupted /\ d = [s EXCEPT !.quit = TRUE]
    BY <2>1 DEF s
  <2> HIDE DEF d
  <2> QED
    BY <2>2 DEF Models
<1>5. /\ view' \in [Apply -> Models] /\ \A b \in Apply \ {a} : view'[b] = view[b]
      /\ view'[a] = IF Takes(a) THEN d ELSE m
  <2> HIDE DEF d
  <2> QED
    BY <1>2, <1>3, <1>4
<1>6. ASSUME Told(a) PROVE Told(a)'
  <2>1. \A c \in Counts : results'[a][c] = Cardinality(Ended(p, w, c))
    BY <1>2, <1>6 DEF Told
  <2>2. Takes(a) => Displays(d, p, w)
    <3> SUFFICES ASSUME Takes(a) PROVE Displays(d, p, w)
      OBVIOUS
    <3>1. Displays(m, p, w) /\ ~m.quit /\ Shaped(p)
      BY <1>2, <1>6 DEF Takes, Told, Sees
    <3>2. CASE w = <<>>
      BY <1>4, <3>2 DEF Displays
    <3>3. CASE w # <<>>
      <4>1. Len(w) \in 1 .. Len(p)
        <5>1. Len(w) > 0
          BY <1>1, <3>3 DEF Heards
        <5> QED
          BY <1>1, <5>1
      <4>2. Layered(m, p, w)
        BY <3>1, <3>3 DEF Displays
      <4>3. Layered(d, p, w)
        <5> HIDE DEF m, p, w
        <5> QED
          BY <1>1, <1>2, <3>1, <4>1, <4>2, LayeredDone
      <4> QED
        BY <3>3, <4>3 DEF Displays
    <3> QED
      BY <3>2, <3>3
  <2>3. a \in Interactive => Displays(view'[a], p, w)
    <3>1. CASE Takes(a)
      BY <1>5, <2>2, <3>1
    <3>2. CASE ~Takes(a)
      BY <1>5, <1>6, <3>2 DEF Told
    <3> QED
      BY <3>1, <3>2
  <2> QED
    BY <1>2, <2>1, <2>3 DEF Told
<1>7. Sees(a)'
  <2> HIDE DEF d
  <2> QED
    BY <1>2, <1>4, <1>5, <1>6 DEF Sees
<1>8. Apart(a)
  BY <1>2, <1>5 DEF Apart
<1> QED
  BY <1>2, <1>5, <1>7, <1>8, OneSees

\* The lock is there: an apply that has been told nothing gets its plan.
LEMMA ViewBegin ==
    ASSUME ReportInv, ViewInv, NEW a \in Apply, Begin(a)
    PROVE  ViewInv'
<1>1. /\ UNCHANGED <<layer, told>> /\ results' = results /\ pc[a] = "opened"
      /\ view \in [Apply -> Models] /\ results \in [Apply -> [Counts -> Nat]] /\ Sees(a)
  BY DEF Begin, HandleApplyDone, viewVars, ViewInv
<1>2. CASE locked = None
  <2>1. PICK p \in Plans[a] : plan' = [plan EXCEPT ![a] = p]
    BY <1>2 DEF Begin
  <2>2. view' = view /\ pc' = [pc EXCEPT ![a] = "running"]
    BY <1>2 DEF Begin, viewVars, Goto
  <2>3. plan'[a] = p /\ \A b \in Apply \ {a} : plan'[b] = plan[b] /\ pc'[b] = pc[b]
    BY <2>1, <2>2 DEF ReportInv, ReportTypes
  <2>4. Shaped(p)
    BY PlansAssumption DEF PlansAssumption, Shaped
  <2>5. told[a] = <<>>
    BY <1>1, InPlan DEF ReportInv, EventsSaid, Heards
  <2>6. \A q, c : Ended(q, <<>>, c) = {}
    BY DEF Ended
  <2>7. ASSUME Told(a) PROVE Told(a)'
    <3>1. \A c \in Counts : results'[a][c] = Cardinality(Ended(p, told[a], c))
      <4>1. \A c \in Counts : results[a][c] = Cardinality(Ended(plan[a], told[a], c))
        BY <2>7 DEF Told
      <4> QED
        BY <1>1, <2>5, <2>6, <4>1
    <3>2. a \in Interactive => Displays(view[a], p, told[a])
      BY <2>5, <2>7 DEF Told, Displays
    <3> QED
      BY <1>1, <2>2, <2>3, <2>7, <3>1, <3>2 DEF Told
  <2>8. Sees(a)'
    BY <1>1, <2>2, <2>3, <2>4, <2>7 DEF Sees
  <2>9. Apart(a)
    BY <1>1, <2>2, <2>3 DEF Apart
  <2> QED
    BY <1>1, <2>2, <2>8, <2>9, OneSees
<1>3. CASE locked # None
  BY <1>1, <1>3, ViewDone DEF Begin, Goto
<1> QED
  BY <1>2, <1>3

LEMMA ViewCtrlC ==
    ASSUME ReportInv, ViewInv, NEW a \in Apply, CtrlC(a)
    PROVE  ViewInv'
<1> DEFINE m == view[a]
<1> DEFINE n == [m EXCEPT !.interrupted = TRUE, !.quit = TRUE]
<1>1. /\ UNCHANGED <<pc, plan, told, results>> /\ view' = [view EXCEPT ![a].interrupted = TRUE, ![a].quit = TRUE]
      /\ view \in [Apply -> Models] /\ results \in [Apply -> [Counts -> Nat]] /\ Sees(a) /\ m \in Models
  BY DEF CtrlC, Interrupt, ViewInv
<1>2. view' = [view EXCEPT ![a] = n]
  BY <1>1
<1>3. n \in Models /\ n.interrupted /\ n.quit
  BY <1>1 DEF Models
<1> HIDE DEF n
<1>4. view' \in [Apply -> Models] /\ view'[a] = n /\ \A b \in Apply \ {a} : view'[b] = view[b]
  BY <1>1, <1>2, <1>3
<1>5. Sees(a)'
  BY <1>1, <1>3, <1>4 DEF Sees
<1>6. Apart(a)
  BY <1>1, <1>4 DEF Apart
<1> QED
  BY <1>1, <1>4, <1>5, <1>6, OneSees

\* Nothing is shown or said.
LEMMA ViewQuiet ==
    ASSUME ReportInv, ViewInv, UNCHANGED <<view, results, plan, told>>,
           \A a \in Apply : pc'[a] \in {"new", "opened", "running"} => pc[a] \in {"new", "opened", "running"}
    PROVE  ViewInv'
<1>1. ASSUME NEW a \in Apply PROVE Sees(a)'
  BY SameSees DEF ViewInv
<1> QED
  BY <1>1 DEF ViewInv

LEMMA ViewInitially ==
    ASSUME Init
    PROVE  ViewInv
<1>1. /\ view = [a \in Apply |-> NewApplyModel] /\ results = [a \in Apply |-> [c \in Counts |-> 0]]
      /\ plan = [a \in Apply |-> <<>>] /\ told = [a \in Apply |-> <<>>]
  BY DEF Init, ViewInit
<1>2. NewApplyModel \in Models /\ ~NewApplyModel.quit /\ ~NewApplyModel.interrupted
  <2>1. NoTasks \in Tasks
    BY DEF NoTasks, Tasks
  <2>2. <<>> \in Seq(SUBSET Resource) /\ <<>> \in Seq(Resource) /\ <<>> \in Seq(LayerTasks)
    OBVIOUS
  <2>3. "dag" \in Phases
    BY DEF Phases
  <2> QED
    BY <2>1, <2>2, <2>3 DEF NewApplyModel, Models, LayerTasks
<1>3. Shaped(<<>>)
  BY DEF Shaped
<1>4. \A p, c : Ended(p, <<>>, c) = {}
  BY DEF Ended
<1>5. Cardinality({}) = 0
  BY FS_EmptySet
<1>6. ASSUME NEW a \in Apply PROVE Sees(a)
  BY <1>1, <1>2, <1>3, <1>4, <1>5, <1>6 DEF Sees, Told, Displays
<1> QED
  BY <1>1, <1>2, <1>6 DEF ViewInv

LEMMA ViewStep ==
    ASSUME ReportInv, ViewInv, [Next]_vars
    PROVE  ViewInv'
<1>0. pc \in [Apply -> Labels]
  BY DEF ReportInv, ReportTypes
<1>1. CASE Tick \/ UNCHANGED vars
  BY <1>1, ViewQuiet DEF Tick, vars, viewVars, reportVars
<1>2. ASSUME NEW a \in Apply, Open(a) \/ Finish(a) \/ RemoveOld(a) \/ CloseStore(a) \/ Kill(a)
      PROVE  ViewInv'
  <2>1. UNCHANGED <<view, results, plan, told>>
    BY <1>2 DEF Open, Finish, RemoveOld, CloseStore, Kill, viewVars
  <2>2. \/ pc[a] = "new" /\ pc' = [pc EXCEPT ![a] = "opened"]
        \/ \E l \in {"cleanup", "close", "over", "dead"} : pc' = [pc EXCEPT ![a] = l]
    BY <1>2 DEF Open, Finish, RemoveOld, CloseStore, Kill, Goto
  <2>3. \A b \in Apply : pc'[b] \in {"new", "opened", "running"} => pc[b] \in {"new", "opened", "running"}
    BY <1>0, <2>2
  <2> QED
    BY <2>1, <2>3, ViewQuiet
<1>3. ASSUME NEW a \in Apply, Return(a) PROVE ViewInv'
  BY <1>3, ViewDone DEF Return, Goto
<1>4. ASSUME NEW a \in Apply, NEW r \in Resource,
             Start(a, r) \/ Output(a, r) \/ Complete(a, r) \/ Error(a, r) \/ Progress(a, r)
      PROVE  ViewInv'
  BY <1>4, ViewEvent, ViewProgress
<1> QED
  BY <1>1, <1>2, <1>3, <1>4, ViewBegin, ViewCtrlC, ViewLayer DEF Next

LEMMA ViewFromInv ==
    ASSUME ReportInv, ViewInv
    PROVE  ViewTellsTheApply
<1> SUFFICES ASSUME NEW a \in Apply, ~view[a].interrupted
             PROVE  /\ (a \in Interactive /\ layer[a] > 0) => FrameShowsLayers(a)
                    /\ results[a]["done"] = Cardinality(Outcomes(a, {"dag"}, "done"))
                    /\ results[a]["reinstalled"] = Cardinality(Outcomes(a, {"taint"}, "done"))
                    /\ results[a]["removed"] = Cardinality(Outcomes(a, {"remove"}, "done"))
                    /\ results[a]["failed"] = Cardinality(Outcomes(a, {"dag", "taint", "remove"}, "failed"))
  BY DEF ViewTellsTheApply
<1>1. Told(a) /\ Shaped(plan[a]) /\ view[a] \in Models
  BY DEF ViewInv, Sees
<1>2. /\ plan[a] \in PlanSeqs /\ told[a] \in Heards /\ Len(told[a]) = layer[a]
      /\ layer[a] > 0 => layer[a] \in 1 .. Len(plan[a])
  BY InPlan
<1>3. ASSUME a \in Interactive, layer[a] > 0 PROVE FrameShowsLayers(a)
  <2>1. told[a] # <<>>
    BY <1>2, <1>3
  <2>2. Layered(view[a], plan[a], told[a])
    BY <1>1, <1>3, <2>1 DEF Told, Displays
  <2> QED
    BY <1>1, <1>2, <1>3, <2>2, FrameFits
<1>4. /\ Outcomes(a, {"dag"}, "done") = Ended(plan[a], told[a], "done")
      /\ Outcomes(a, {"taint"}, "done") = Ended(plan[a], told[a], "reinstalled")
      /\ Outcomes(a, {"remove"}, "done") = Ended(plan[a], told[a], "removed")
      /\ Outcomes(a, {"dag", "taint", "remove"}, "failed") = Ended(plan[a], told[a], "failed")
  BY DEF Outcomes, Ended, PhasesOf, OutcomeOf, Phases
<1>5. \A c \in Counts : results[a][c] = Cardinality(Ended(plan[a], told[a], c))
  BY <1>1 DEF Told
<1> QED
  BY <1>3, <1>4, <1>5 DEF Counts

\* For any applies, plans, downloads, outputs and kills: until Ctrl+C the frame
\* shows each layer once with its tasks and their outcomes, and the summary
\* counts each outcome once under its name.  (Update, View, updateResults.)
THEOREM ViewIsTrue == Spec => []ViewTellsTheApply
<1>1. Init => ReportInv /\ ViewInv
  BY ReportInit, ViewInitially
<1>2. ReportInv /\ ViewInv /\ [Next]_vars => ReportInv' /\ ViewInv'
  BY ReportStep, ViewStep
<1> QED
  BY <1>1, <1>2, ViewFromInv, PTL DEF Spec

================================================================================
