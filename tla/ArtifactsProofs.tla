---------------------------- MODULE ArtifactsProofs ----------------------------
(***************************************************************************)
(* Proofs about Checksums, Fetch, Registry and SelfUpgrade: what is        *)
(* extracted is what a stated digest is of, in whatever order an archive   *)
(* has its entries, a package is resolved as it is published, and an       *)
(* upgrade never leaves the user without a tomei that runs.                *)
(***************************************************************************)
EXTENDS Artifacts, FiniteSetTheorems, WellFoundedInduction, TLAPS

(***************************************************************************)
(* Checksums: the digest that a checksum file gives is one that it states  *)
(* for the file, whichever format it is taken for.                         *)
(***************************************************************************)

\* Every nonempty set of numbers has a least element: among the finite sets
\* of the numbers up to one of them, a smallest is not empty.
LEMMA LeastNumber ==
    ASSUME NEW T \in SUBSET Nat, NEW n \in T
    PROVE  \E x \in T : \A y \in T : x <= y
<1> DEFINE UpTo(k) == {i \in T : i <= k}
<1> DEFINE F == {UpTo(k) : k \in T}
<1>1. \A i \in T : i \in Nat
  OBVIOUS
<1>2. ASSUME NEW k \in T PROVE IsFiniteSet(UpTo(k))
  <2>1. UpTo(k) \in SUBSET Nat /\ k \in Nat /\ \A i \in UpTo(k) : i <= k
    OBVIOUS
  <2> HIDE DEF UpTo
  <2>2. QED
    BY <2>1, FS_BoundedSetOfNaturals
<1>3. F \subseteq FiniteSubsetsOf(Nat) /\ F # {}
  <2> HIDE DEF UpTo
  <2>1. \A k \in T : UpTo(k) \in SUBSET Nat
    BY DEF UpTo
  <2>2. QED
    BY <1>2, <2>1 DEF FiniteSubsetsOf
<1>4. PICK U \in F : \A V \in F : <<V, U>> \notin StrictSubsetOrdering(Nat)
  <2> HIDE DEF F
  <2>1. QED
    BY <1>3, FS_StrictSubsetOrderingWellFounded, WFMin
<1>5. PICK x \in T : U = UpTo(x)
  OBVIOUS
<1>6. ASSUME NEW y \in T, y < x PROVE FALSE
  <2>1. x \in UpTo(x) /\ x \notin UpTo(y)
    BY <1>1, <1>6
  <2>2. UpTo(y) \subseteq UpTo(x)
    <3>1. \A i \in T : i <= y => i <= x
      BY <1>1, <1>6
    <3>2. QED
      BY <3>1
  <2>3. <<UpTo(y), UpTo(x)>> \in StrictSubsetOrdering(Nat)
    BY <2>1, <2>2 DEF StrictSubsetOrdering
  <2>4. QED
    BY <1>4, <1>5, <2>3
<1>7. QED
  BY <1>1, <1>6

\* Lines are in order: one of them is the first.
LEMMA FirstOfLines ==
    ASSUME NEW S \in SUBSET Nat, S # {}
    PROVE  Min(S) \in S
<1>1. PICK m \in S : \A x \in S : m <= x
  BY LeastNumber
<1> QED
  BY <1>1 DEF Min

\* What a checksum file states for a name.
StatedIn(file, name) ==
    {file.lines[i].digest : i \in
        {j \in DOMAIN file.lines :
            \/ file.lines[j].form = "bare"
            \/ file.lines[j].form # "blank" /\ file.lines[j].name = name}}

\* The lines that a parser looks at are there when it gives something.
LEMMA GivenByFirst ==
    ASSUME NEW file, NEW found, NEW algorithm, FirstOrFailed(file, found, algorithm) # Failed
    PROVE  /\ found # {}
           /\ FirstOrFailed(file, found, algorithm)
                = [algorithm |-> algorithm, digest |-> First(file, found).digest]
BY DEF FirstOrFailed

\* No parser gives the digest of another file's line.
LEMMA ParsedIsStated ==
    ASSUME NEW file, NEW name, DOMAIN file.lines \subseteq Nat,
           ParseFile(file, name) # Failed
    PROVE  ParseFile(file, name).digest \in StatedIn(file, name)
<1> DEFINE text == Text(file)
<1> DEFINE json == {i \in text : file.lines[i].name = name /\ ~file.lines[i].dir
                                 /\ file.lines[i].digest.algorithm = "sha256"}
<1>1. text \in SUBSET Nat /\ text \subseteq DOMAIN file.lines
  BY DEF Text
<1>2. ASSUME NEW i \in text, file.lines[i].name = name \/ file.lines[i].form = "bare"
      PROVE  file.lines[i].digest \in StatedIn(file, name)
  BY <1>2 DEF Text, StatedIn
<1>3. CASE DetectFileFormat(file) = "go_json"
  <2> DEFINE found == json
  <2>1. ParseFile(file, name) = ParseGoJSON(file, name)
    BY <1>3 DEF ParseFile
  <2>2. found # {} /\ ParseFile(file, name).digest = file.lines[Min(found)].digest
    <3>1. ParseGoJSON(file, name) = FirstOrFailed(file, found, "sha256")
      BY DEF ParseGoJSON
    <3> HIDE DEF found
    <3> QED
      BY <2>1, <3>1, GivenByFirst DEF First
  <2>3. found \subseteq text /\ \A i \in found : file.lines[i].name = name
    BY DEF LinesFor, Matches
  <2>4. Min(found) \in found
    BY <1>1, <2>2, <2>3, FirstOfLines
  <2> QED
    BY <1>2, <2>2, <2>3, <2>4
<1>4. CASE DetectFileFormat(file) = "bsd"
  <2> DEFINE found == LinesFor(file, "bsd", name)
  <2>1. ParseFile(file, name) = ParseBSD(file, name)
    BY <1>4 DEF ParseFile
  <2>2. found # {} /\ ParseFile(file, name).digest = file.lines[Min(found)].digest
    <3>1. PICK a : ParseBSD(file, name) = FirstOrFailed(file, found, a)
      BY DEF ParseBSD, Detected
    <3> QED
      BY <2>1, <3>1, GivenByFirst DEF First
  <2>3. found \subseteq text /\ \A i \in found : file.lines[i].name = name
    BY DEF LinesFor, Matches
  <2>4. Min(found) \in found
    BY <1>1, <2>2, <2>3, FirstOfLines
  <2> QED
    BY <1>2, <2>2, <2>3, <2>4
<1>5. CASE DetectFileFormat(file) = "gnu"
  <2> DEFINE found == LinesFor(file, "gnu", name)
  <2>1. ParseFile(file, name) = ParseGNU(file, name)
    BY <1>5 DEF ParseFile
  <2>2. found # {} /\ ParseFile(file, name).digest = file.lines[Min(found)].digest
    <3>1. PICK a : ParseGNU(file, name) = FirstOrFailed(file, found, a)
      BY DEF ParseGNU, Detected
    <3> QED
      BY <2>1, <3>1, GivenByFirst DEF First
  <2>3. found \subseteq text /\ \A i \in found : file.lines[i].name = name
    BY DEF LinesFor, Matches
  <2>4. Min(found) \in found
    BY <1>1, <2>2, <2>3, FirstOfLines
  <2> QED
    BY <1>2, <2>2, <2>3, <2>4
<1>6. CASE DetectFileFormat(file) = "bare_hash"
  <2> DEFINE found == text
  <2>1. ParseFile(file, name) = ParseBareHash(file, name)
    BY <1>6 DEF ParseFile
  <2>2. found # {} /\ ParseFile(file, name).digest = file.lines[Min(found)].digest
    <3>1. PICK a : ParseBareHash(file, name) = FirstOrFailed(file, found, a)
      BY DEF ParseBareHash, Detected
    <3> QED
      BY <2>1, <3>1, GivenByFirst DEF First
  <2>3. file.lines[Min(text)].form = "bare"
    BY <1>6 DEF DetectFileFormat, First
  <2>4. Min(found) \in found
    BY <1>1, <2>2, FirstOfLines
  <2> QED
    BY <1>2, <2>2, <2>3, <2>4
<1>7. CASE DetectFileFormat(file) \notin {"go_json", "bsd", "gnu", "bare_hash"}
  BY <1>7 DEF ParseFile
<1> QED
  BY <1>3, <1>4, <1>5, <1>6, <1>7

\* The algorithm that the spec asks for leaves the digest as it is.
LEMMA DigestKept ==
    ASSUME NEW file, NEW name, NEW algorithm, ParseFile(file, name) # Failed
    PROVE  [ParseFile(file, name) EXCEPT !.algorithm = algorithm].digest = ParseFile(file, name).digest
<1>1. PICK found, a : ParseFile(file, name) = FirstOrFailed(file, found, a)
  BY DEF ParseFile, ParseGoJSON, ParseBSD, ParseGNU, ParseBareHash, Detected
<1>2. ParseFile(file, name) = [algorithm |-> a, digest |-> First(file, found).digest]
  BY <1>1, GivenByFirst
<1> QED
  BY <1>2

\* What has passed the verification is what a stated digest is the hash of.
LEMMA VerifiedIsStated ==
    ASSUME FetchAssumption, request \in Requests, Verified, request.checksum.kind # "none"
    PROVE  \E d \in Stated : d.of = dest
<1> DEFINE c == request.checksum
<1> DEFINE name == IF c.pattern # "" THEN c.pattern ELSE File
<1>1. c.kind \in {"value", "url"} /\ (c.kind = "url" => DOMAIN c.file.lines \subseteq Nat)
  BY DEF FetchAssumption
<1>2. Expected # Failed /\ VerifyDigest(dest, Expected.algorithm, Expected.digest)
  BY DEF Verified
<1>3. Expected.digest.of = dest
  <2>1. DigestOf(dest, Expected.algorithm).of = dest
    BY DEF DigestOf
  <2> QED
    BY <1>2, <2>1 DEF VerifyDigest
<1>4. CASE c.kind = "value"
  <2>1. Expected = [algorithm |-> c.algorithm, digest |-> c.digest]
    BY <1>2, <1>4 DEF Expected, ParseValue
  <2> QED
    BY <1>3, <1>4, <2>1 DEF Stated
<1>5. CASE c.kind = "url"
  <2> DEFINE found == ParseFile(c.file, name)
  <2>1. Expected = IF c.algorithm # "" /\ found # Failed
                   THEN [found EXCEPT !.algorithm = c.algorithm] ELSE found
    BY <1>5 DEF Expected
  <2>2. found # Failed
    BY <1>2, <2>1
  <2>3. Expected.digest = found.digest
    <3>1. ASSUME NEW file, NEW alg, file = c.file, alg = c.algorithm
          PROVE  Expected.digest = found.digest
      <4> HIDE DEF c, name
      <4>1. ParseFile(file, name) # Failed
        BY <2>2, <3>1
      <4>2. [ParseFile(file, name) EXCEPT !.algorithm = alg].digest = ParseFile(file, name).digest
        BY <4>1, DigestKept
      <4>3. Expected = [ParseFile(file, name) EXCEPT !.algorithm = alg] \/ Expected = ParseFile(file, name)
        BY <2>1, <3>1
      <4> QED
        BY <3>1, <4>2, <4>3
    <3> QED
      BY <3>1
  <2>4. found.digest \in StatedIn(c.file, name)
    BY <1>1, <1>5, <2>2, ParsedIsStated
  <2>5. Stated = StatedIn(c.file, name)
    BY <1>5 DEF Stated, StatedIn
  <2> QED
    BY <1>3, <2>3, <2>4, <2>5
<1> QED
  BY <1>1, <1>4, <1>5

(***************************************************************************)
(* Fetch.                                                                  *)
(***************************************************************************)
Phases == {"request", "receive", "verify", "extract", "link", "done", "failed"}

\* Nothing is extracted before the verification has passed.
VerifiedFirst == pc \in {"extract", "link", "done"} => Verified

FetchInv == request \in Requests /\ VerifiedFirst

LEMMA FetchInit == Init => FetchInv
  BY DEF Init, FetchInv, VerifiedFirst

LEMMA FetchStep ==
    ASSUME FetchInv, [Next]_vars
    PROVE  FetchInv'
<1> USE DEF FetchInv, VerifiedFirst
<1>1. ASSUME request' = request, dest' = dest
      PROVE  Verified' = Verified
  BY <1>1 DEF Verified, Expected
<1>2. CASE Request
  BY <1>2 DEF Request, Fail
<1>3. CASE Receive
  BY <1>3 DEF Receive, Fail
<1>4. CASE Verify
  BY <1>1, <1>4 DEF Verify
<1>5. CASE ExtractEntry \/ ExtractRaw
  BY <1>1, <1>5 DEF ExtractEntry, ExtractRaw, Fail
<1>6. CASE EndOfArchive
  BY <1>1, <1>6 DEF EndOfArchive, Fail
<1>7. CASE CreateLink
  BY <1>1, <1>7 DEF CreateLink, Fail
<1>8. CASE Finish
  BY <1>1, <1>8 DEF Finish
<1>9. CASE UNCHANGED vars
  BY <1>1, <1>9 DEF vars
<1> QED
  BY <1>2, <1>3, <1>4, <1>5, <1>6, <1>7, <1>8, <1>9 DEF Next

\* Whatever the server answers and in whichever format the checksum is given, what
\* is extracted is what a digest stated for this file is the hash of.
THEOREM OnlyStatedIsExtracted == Spec => []OnlyStatedContent
<1>1. ASSUME FetchInv PROVE OnlyStatedContent
  <2> SUFFICES ASSUME pc \in {"extract", "link", "done"}, request.checksum.kind # "none"
               PROVE  \E d \in Stated : d.of = dest
    BY DEF OnlyStatedContent
  <2> QED
    BY <1>1, FetchAssumption, VerifiedIsStated DEF FetchInv, VerifiedFirst
<1>2. QED
  BY <1>1, FetchInit, FetchStep, PTL DEF Spec

(***************************************************************************)
(* Extraction.  In a sound archive no entry is in the way of another, so   *)
(* that none fails and the tree is what the entries made so far give, each *)
(* for itself; a link that is deferred is made when everything that is not *)
(* a link is there.                                                        *)
(***************************************************************************)
\* What an entry gives: what is at its path, and the directories above it.
Given(e) ==
    {Folder(p) : p \in e.above}
    \cup IF e.kind # "hardlink" THEN {Placed(e)}
         ELSE {[Placed(f) EXCEPT !.path = e.path] : f \in {x \in Entries : x.kind = "file" /\ x.path = e.target}}

Waiting == {deferred[k] : k \in DOMAIN deferred}

\* The entries that have been made.
Made == (1 .. read) \ Waiting

\* The links that wait are different ones, and the tree is what the others give.
Accounted ==
    /\ deferred \in Seq(1 .. read)
    /\ \A k, l \in DOMAIN deferred : deferred[k] = deferred[l] => k = l
    /\ \A i \in Waiting : IsLink(request.archive[i])
    /\ tree = UNION {Given(request.archive[i]) : i \in Made}

NeverFails == (read > 0 /\ dest # "garbage") => pc # "failed"

\* Of the files read so far, the last of a path is there.
LastIsThere ==
    LET a == request.archive
    IN  \A i \in 1 .. read :
            (a[i].kind = "file" /\ \A j \in 1 .. read : j > i /\ a[j].kind = "file" => a[j].path # a[i].path) =>
                \E x \in Found(a[i].path) : x.kind = "file" /\ x.of = a[i].of

\* Links come after the last entry, and the archive is done when none waits.
InOrder ==
    /\ read \in 0 .. Len(request.archive)
    /\ pc \in {"request", "receive", "verify"} => read = 0 /\ deferred = <<>> /\ tree = {}
    /\ pc \in {"link", "done"} => read = Len(request.archive)
    /\ pc = "done" => deferred = <<>>

OrderInv ==
    /\ request \in Requests /\ pc \in Phases
    /\ InOrder
    /\ Extractor = "tar.gz" => LastIsThere
    /\ Extractor = "tar.gz" /\ Sound => Accounted /\ NeverFails

LEMMA OrderInit == FetchAssumption /\ Init => OrderInv
<1> SUFFICES ASSUME FetchAssumption, Init PROVE OrderInv
  OBVIOUS
<1>1. request \in Requests /\ pc = "request" /\ read = 0 /\ deferred = <<>> /\ tree = {}
  BY DEF Init
<1>2. Len(request.archive) \in Nat
  BY <1>1 DEF FetchAssumption
<1>3. Waiting = {} /\ Made = {}
  BY <1>1 DEF Waiting, Made
<1> QED
  BY <1>1, <1>2, <1>3 DEF OrderInv, InOrder, Accounted, NeverFails, LastIsThere, Phases

\* The archive stays the same while it is read.
LEMMA SameArchive ==
    ASSUME request' = request
    PROVE  /\ Entries' = Entries /\ Sound' = Sound /\ Extractor' = Extractor
           /\ \A e : IsLink(e)' = IsLink(e) /\ Given(e)' = Given(e)
BY DEF Entries, Sound, Extractor, IsLink, Given

\* A step that neither reads nor places anything keeps the account.
LEMMA NothingPlaced ==
    ASSUME OrderInv, request' = request, read' = read, deferred' = deferred, tree' = tree
    PROVE  /\ Extractor' = "tar.gz" => LastIsThere'
           /\ Extractor' = "tar.gz" /\ Sound' => Accounted'
<1>1. Waiting' = Waiting /\ Made' = Made
  BY DEF Waiting, Made
<1> QED
  BY <1>1, SameArchive DEF OrderInv, Accounted, LastIsThere, Found

\* What is in the tree is a directory on the way to an entry that was made, or is at
\* the path of one.
LEMMA InTree ==
    ASSUME Accounted, NEW x \in tree, \A e \in Entries : e.kind \in {"file", "dir", "symlink", "hardlink"},
           DOMAIN request.archive = 1 .. Len(request.archive), read \in 0 .. Len(request.archive),
           Len(request.archive) \in Nat
    PROVE  \E j \in Made :
               /\ j \in DOMAIN request.archive
               /\ \/ x = Folder(x.path) /\ x.path \in request.archive[j].above
                  \/ /\ x.path = request.archive[j].path /\ x \in Given(request.archive[j])
                     /\ request.archive[j].kind = "dir" => x = Folder(x.path)
                     /\ request.archive[j].kind \in {"file", "symlink"} => x = Placed(request.archive[j])
<1>1. PICK j \in Made : x \in Given(request.archive[j])
  BY DEF Accounted
<1> DEFINE e == request.archive[j]
<1>2. j \in DOMAIN request.archive /\ e \in Entries
  BY DEF Made, Entries
<1>3. CASE x \in {Folder(p) : p \in e.above}
  <2>1. PICK p \in e.above : x = Folder(p)
    BY <1>3
  <2>2. x.path = p
    BY <2>1 DEF Folder, Directory
  <2> QED
    BY <1>2, <2>1, <2>2
<1>4. CASE e.kind # "hardlink" /\ x = Placed(e)
  <2>1. x.path = e.path /\ (e.kind = "dir" => x = Folder(x.path))
    BY <1>2, <1>4 DEF Placed, Folder, Directory
  <2> QED
    BY <1>1, <1>2, <1>4, <2>1
<1>5. CASE e.kind = "hardlink" /\ \E f \in Entries : f.kind = "file" /\ x = [Placed(f) EXCEPT !.path = e.path]
  <2>1. x.path = e.path
    BY <1>5 DEF Placed
  <2> QED
    BY <1>1, <1>2, <1>5, <2>1
<1> QED
  BY <1>1, <1>3, <1>4, <1>5 DEF Given

\* So what is in the way to an entry that is to be made is a directory, and so is
\* what is there already.
LEMMA NothingInTheWay ==
    ASSUME FetchAssumption, OrderInv, Extractor = "tar.gz", Sound,
           NEW i \in DOMAIN request.archive, i \notin Made, NEW x \in tree
    PROVE  /\ x.path \in request.archive[i].above => x = Folder(x.path)
           /\ x.path = request.archive[i].path => request.archive[i].kind = "dir" /\ x = Folder(x.path)
<1> DEFINE a == request.archive
<1>1. /\ \A e \in Entries : e.kind \in {"file", "dir", "symlink", "hardlink"}
      /\ DOMAIN a = 1 .. Len(a) /\ Len(a) \in Nat /\ read \in 0 .. Len(a) /\ Accounted
  BY DEF FetchAssumption, OrderInv, InOrder, Entries
<1>2. PICK j \in Made :
        /\ j \in DOMAIN a
        /\ \/ x = Folder(x.path) /\ x.path \in a[j].above
           \/ /\ x.path = a[j].path /\ x \in Given(a[j])
              /\ a[j].kind = "dir" => x = Folder(x.path)
              /\ a[j].kind \in {"file", "symlink"} => x = Placed(a[j])
  BY <1>1, InTree
<1>3. i # j
  BY <1>2
<1>4. ASSUME NEW k \in DOMAIN a, a[k].kind # "dir", NEW l \in DOMAIN a
      PROVE  a[k].path \notin a[l].above /\ (l # k => a[l].path # a[k].path)
  BY <1>4 DEF Sound
<1>5. CASE x = Folder(x.path) /\ x.path \in a[j].above
  BY <1>2, <1>4, <1>5
<1>6. CASE x.path = a[j].path /\ (a[j].kind = "dir" => x = Folder(x.path))
  BY <1>2, <1>3, <1>4, <1>6
<1> QED
  BY <1>2, <1>5, <1>6

\* A file, or a directory that can be written to, that nothing is in the way of.
Clear(e) ==
    /\ e.kind \in {"file", "dir"}
    /\ e.kind = "dir" => e.readonly = FALSE
    /\ \A x \in tree : x.path \in e.above => x = Folder(x.path)
    /\ \A x \in tree : x.path = e.path => e.kind = "dir" /\ x = Folder(x.path)

\* An entry that nothing is in the way of is made.
LEMMA EntryIsMade ==
    ASSUME NEW e, Clear(e)
    PROVE  /\ ~Blocked(e) /\ ~Hampered(e)
           /\ Extracted(e) = tree \cup Given(e)
<1> USE DEF Clear
<1>1. \A x \in tree : (x.path \in e.above \/ x.path = e.path) => x.kind = "dir" /\ x.readonly = FALSE
  <2>1. \A p : Folder(p).kind = "dir" /\ Folder(p).readonly = FALSE
    BY DEF Folder, Directory
  <2> QED
    BY <2>1
<1>2. ~Blocked(e)
  <2>1. ASSUME NEW x \in Found(e.path) PROVE x.kind = "dir" /\ e.kind = "dir"
    BY <1>1 DEF Found
  <2> QED
    BY <1>1, <2>1 DEF Blocked
<1>3. ~Hampered(e)
  <2>1. e.kind # "dir" => Found(e.path) = {}
    BY DEF Found
  <2> QED
    BY <1>1, <2>1 DEF Hampered
<1>4. \A p \in (e.above \cup {e.path}) \cap Paths : e.kind = "dir" \/ p \in e.above => Folder(p) \in tree
  BY DEF Paths
<1>5. CASE e.kind = "dir"
  <2>1. Given(e) = {Folder(p) : p \in {e.path} \cup e.above}
    BY <1>5 DEF Given, Placed
  <2>2. Extracted(e) = tree \cup {Folder(p) : p \in ({e.path} \cup e.above) \ Paths}
    BY <1>5 DEF Extracted, Folder
  <2> QED
    BY <1>2, <1>3, <1>4, <1>5, <2>1, <2>2
<1>6. CASE e.kind = "file"
  <2>1. Found(e.path) = {}
    BY <1>6 DEF Found
  <2>2. Given(e) = {Folder(p) : p \in e.above} \cup {Placed(e)}
    BY <1>6 DEF Given
  <2>3. Extracted(e) = tree \cup Folders(e) \cup {Placed(e)}
    BY <1>6, <2>1 DEF Extracted, Placed
  <2> QED
    BY <1>2, <1>3, <1>4, <2>2, <2>3 DEF Folders
<1> QED
  BY <1>5, <1>6

\* A link is made where nothing is, and when its file is there.
LEMMA LinkIsMade ==
    ASSUME NEW e, e.kind \in {"symlink", "hardlink"}, NEW Files,
           Files = {x \in Entries : x.kind = "file" /\ x.path = e.target},
           e.kind = "hardlink" => Files # {} /\ Found(e.target) = {Placed(f) : f \in Files},
           \A x \in tree : x.path # e.path /\ (x.path \in e.above => x = Folder(x.path))
    PROVE  /\ ~LinkBlocked(e) /\ ~LinkHampered(e)
           /\ Linked(e) = tree \cup Given(e)
<1>1. \A x \in tree : x.path \in e.above => x.kind = "dir" /\ x.readonly = FALSE
  <2>1. \A p : Folder(p).kind = "dir" /\ Folder(p).readonly = FALSE
    BY DEF Folder, Directory
  <2> QED
    BY <2>1
<1>2. Found(e.path) = {}
  BY DEF Found
<1>3. ASSUME e.kind = "hardlink" PROVE \E x \in Found(e.target) : x.kind # "dir"
  <2>1. PICK f \in Files : Placed(f) \in Found(e.target)
    BY <1>3
  <2>2. Placed(f).kind = "file"
    BY DEF Placed
  <2> QED
    BY <2>1, <2>2
<1>4. ~LinkBlocked(e)
  BY <1>1, <1>2, <1>3 DEF LinkBlocked
<1>5. ~LinkHampered(e)
  BY <1>1 DEF LinkHampered
<1>6. \A p \in e.above \cap Paths : Folder(p) \in tree
  BY DEF Paths
<1>7. tree \cup Folders(e) = tree \cup {Folder(p) : p \in e.above}
  BY <1>6 DEF Folders
<1>8. CASE e.kind = "symlink"
  <2>1. Given(e) = {Folder(p) : p \in e.above} \cup {Placed(e)}
    BY <1>8 DEF Given
  <2>2. Linked(e) = tree \cup Folders(e) \cup {Placed(e)}
    BY <1>8 DEF Linked, Placed
  <2> QED
    BY <1>4, <1>5, <1>7, <2>1, <2>2
<1>9. CASE e.kind = "hardlink"
  <2>1. Given(e) = {Folder(p) : p \in e.above} \cup {[Placed(f) EXCEPT !.path = e.path] : f \in Files}
    BY <1>9 DEF Given
  <2>2. Linked(e) = tree \cup Folders(e) \cup {[x EXCEPT !.path = e.path] : x \in Found(e.target)}
    BY <1>9 DEF Linked
  <2>3. {[x EXCEPT !.path = e.path] : x \in Found(e.target)} = {[Placed(f) EXCEPT !.path = e.path] : f \in Files}
    BY <1>9
  <2> QED
    BY <1>4, <1>5, <1>7, <2>1, <2>2, <2>3
<1> QED
  BY <1>8, <1>9

\* When everything has been read, all files of a sound archive are there.
LEMMA TargetsAreThere ==
    ASSUME FetchAssumption, OrderInv, Extractor = "tar.gz", Sound, read = Len(request.archive),
           NEW i \in DOMAIN request.archive, request.archive[i].kind = "hardlink",
           NEW Files, Files = {x \in Entries : x.kind = "file" /\ x.path = request.archive[i].target}
    PROVE  Files # {} /\ Found(request.archive[i].target) = {Placed(f) : f \in Files}
<1> DEFINE a == request.archive
<1> DEFINE linked == a[i].target
<1>1. /\ \A e \in Entries : e.kind \in {"file", "dir", "symlink", "hardlink"}
      /\ DOMAIN a = 1 .. Len(a) /\ Len(a) \in Nat /\ read \in 0 .. Len(a) /\ Accounted
  BY DEF FetchAssumption, OrderInv, InOrder, Entries
<1>2. PICK k \in DOMAIN a : a[k].kind = "file" /\ a[k].path = linked
  BY DEF Sound
<1>3. \A l \in DOMAIN a : a[k].path \notin a[l].above /\ (l # k => a[l].path # a[k].path)
  BY <1>2 DEF Sound
<1>4. a[k] \in Files
  BY <1>2 DEF Entries
<1>5. ASSUME NEW f \in Files PROVE Placed(f) \in Found(linked)
  <2>1. PICK j \in DOMAIN a : f = a[j] /\ f.kind = "file" /\ f.path = linked
    BY DEF Entries
  <2>2. j \in Made
    BY <1>1, <2>1 DEF Made, Accounted, IsLink
  <2>3. Placed(f) \in Given(a[j])
    BY <2>1 DEF Given
  <2>4. Placed(f) \in tree
    BY <1>1, <2>2, <2>3 DEF Accounted
  <2>5. Placed(f).path = linked
    BY <2>1 DEF Placed
  <2> QED
    BY <2>4, <2>5 DEF Found
<1>6. ASSUME NEW x \in Found(linked) PROVE \E f \in Files : x = Placed(f)
  <2>1. x \in tree /\ x.path = a[k].path
    BY <1>2 DEF Found
  <2>2. PICK j \in Made :
          /\ j \in DOMAIN a
          /\ \/ x = Folder(x.path) /\ x.path \in a[j].above
             \/ x.path = a[j].path /\ (a[j].kind \in {"file", "symlink"} => x = Placed(a[j]))
    BY <1>1, <2>1, InTree
  <2>3. j = k /\ x = Placed(a[k])
    BY <1>2, <1>3, <2>1, <2>2
  <2> QED
    BY <1>4, <2>3
<1> HIDE DEF linked
<1>7. Found(linked) = {Placed(f) : f \in Files}
  BY <1>5, <1>6
<1> QED
  BY <1>4, <1>7 DEF linked

\* Making one more entry gives what it gives.
LEMMA OneMore ==
    ASSUME NEW a, NEW I, NEW m
    PROVE  UNION {Given(a[i]) : i \in I \cup {m}} = Given(a[m]) \cup UNION {Given(a[i]) : i \in I}
<1> DEFINE All(J) == UNION {Given(a[i]) : i \in J}
<1>1. \A J, x : x \in All(J) <=> \E i \in J : x \in Given(a[i])
  OBVIOUS
<1> HIDE DEF All
<1>2. All(I \cup {m}) = Given(a[m]) \cup All(I)
  BY <1>1
<1> QED
  BY <1>2 DEF All

\* The next file is there when it is read, and no other file of its path is
\* the last any more.
LEMMA LastStep ==
    ASSUME FetchAssumption, OrderInv, Extractor = "tar.gz", ExtractEntry
    PROVE  LastIsThere'
<1> DEFINE a == request.archive
<1> DEFINE e == a[read + 1]
<1>1. LastIsThere /\ request' = request /\ read \in Nat
  BY DEF OrderInv, InOrder, ExtractEntry, Fail, FetchAssumption
<1>2. CASE UNCHANGED <<read, tree>>
  BY <1>1, <1>2 DEF LastIsThere, Found
<1>3. CASE /\ read' = read + 1
           /\ tree' = IF IsLink(e) \/ Skipped(e) THEN tree ELSE Extracted(e)
  <2>1. ~Skipped(e)
    BY DEF Skipped
  <2>2. SUFFICES ASSUME NEW i \in 1 .. read + 1, a[i].kind = "file",
                        \A j \in 1 .. read + 1 : j > i /\ a[j].kind = "file" => a[j].path # a[i].path
                 PROVE  \E x \in tree' : x.path = a[i].path /\ x.kind = "file" /\ x.of = a[i].of
    BY <1>1, <1>3 DEF LastIsThere, Found
  <2>3. CASE i = read + 1
    <3>1. ~IsLink(e) /\ e = a[i]
      BY <2>2, <2>3 DEF IsLink
    <3> DEFINE x == [path |-> e.path, kind |-> "file", of |-> e.of,
                     readonly |-> IF Found(e.path) = {} THEN e.readonly ELSE \E y \in Found(e.path) : y.readonly]
    <3>2. x \in tree'
      BY <1>3, <2>1, <2>2, <3>1 DEF Extracted
    <3>3. x.path = a[i].path /\ x.kind = "file" /\ x.of = a[i].of
      BY <3>1
    <3> HIDE DEF x
    <3> QED
      BY <3>2, <3>3
  <2>4. CASE i # read + 1
    <3>1. i \in 1 .. read
      BY <1>1, <2>4
    <3>2. \A j \in 1 .. read : j > i /\ a[j].kind = "file" => a[j].path # a[i].path
      BY <1>1, <2>2
    <3>3. PICK x \in Found(a[i].path) : x.kind = "file" /\ x.of = a[i].of
      BY <1>1, <2>2, <3>1, <3>2 DEF LastIsThere
    <3>4. e.kind = "file" => e.path # a[i].path
      BY <1>1, <2>2, <3>1
    <3>5. x \in tree /\ x.path = a[i].path
      BY <3>3 DEF Found
    <3>6. CASE IsLink(e)
      BY <1>3, <3>3, <3>5, <3>6
    <3>7. CASE ~IsLink(e) /\ e.kind = "dir"
      BY <1>3, <2>1, <3>3, <3>5, <3>7 DEF Extracted
    <3>8. CASE ~IsLink(e) /\ e.kind # "dir"
      <4>1. e.kind = "file"
        BY <3>8 DEF IsLink, FetchAssumption, OrderInv, ExtractEntry, InOrder
      <4>2. x \notin Found(e.path)
        BY <3>4, <3>5, <4>1 DEF Found
      <4>3. x \in tree'
        BY <1>3, <2>1, <3>5, <3>8, <4>2 DEF Extracted
      <4> QED
        BY <3>3, <3>5, <4>3
    <3> QED
      BY <3>6, <3>7, <3>8
  <2> QED
    BY <2>3, <2>4
<1> QED
  BY <1>2, <1>3 DEF ExtractEntry, Fail

LEMMA ElementsOf ==
    ASSUME NEW S, NEW d \in Seq(S)
    PROVE  \A k \in DOMAIN d : d[k] \in S
OBVIOUS

\* What a sequence still has after its first element, when all are different.
LEMMA TailOf ==
    ASSUME NEW S, NEW d \in Seq(S), d # <<>>, \A k, l \in DOMAIN d : d[k] = d[l] => k = l
    PROVE  LET t == Tail(d)
           IN  /\ Head(d) \in S /\ t \in Seq(S)
               /\ Head(d) \in {d[k] : k \in DOMAIN d}
               /\ {t[k] : k \in DOMAIN t} = {d[k] : k \in DOMAIN d} \ {Head(d)}
               /\ \A k, l \in DOMAIN t : t[k] = t[l] => k = l
<1> DEFINE t == Tail(d)
<1>1. Len(d) \in Nat \ {0} /\ DOMAIN d = 1 .. Len(d) /\ Head(d) = d[1]
  OBVIOUS
<1>2. t \in Seq(S) /\ DOMAIN t = 1 .. Len(d) - 1 /\ \A k \in 1 .. Len(d) - 1 : t[k] = d[k + 1]
  OBVIOUS
<1>3. \A k \in DOMAIN t : k + 1 \in DOMAIN d /\ k + 1 # 1
  BY <1>1, <1>2
<1>4. \A k \in DOMAIN d : k # 1 => k - 1 \in DOMAIN t /\ d[k] = t[k - 1]
  BY <1>1, <1>2
<1>5. 1 \in DOMAIN d
  BY <1>1
<1> HIDE DEF t
<1>6. \A k, l \in DOMAIN t : t[k] = t[l] => k = l
  <2> SUFFICES ASSUME NEW k \in DOMAIN t, NEW l \in DOMAIN t, t[k] = t[l] PROVE k = l
    OBVIOUS
  <2>1. d[k + 1] = d[l + 1]
    BY <1>2
  <2>2. k + 1 = l + 1 /\ k \in Nat /\ l \in Nat
    BY <1>1, <1>2, <1>3, <2>1
  <2> QED
    BY <2>2
<1>7. {t[k] : k \in DOMAIN t} \subseteq {d[k] : k \in DOMAIN d} \ {Head(d)}
  BY <1>1, <1>2, <1>3, <1>5
<1>8. {d[k] : k \in DOMAIN d} \ {Head(d)} \subseteq {t[k] : k \in DOMAIN t}
  <2> SUFFICES ASSUME NEW k \in DOMAIN d, d[k] # Head(d) PROVE \E l \in DOMAIN t : d[k] = t[l]
    OBVIOUS
  <2>1. k # 1
    BY <1>1
  <2> QED
    BY <1>4, <2>1
<1> QED
  BY <1>1, <1>2, <1>5, <1>6, <1>7, <1>8 DEF t

\* An entry of a tar archive: made, or put off if it is a link.
LEMMA EntryStep ==
    ASSUME FetchAssumption, OrderInv, ExtractEntry
    PROVE  OrderInv'
<1> DEFINE a == request.archive
<1> DEFINE n == Len(a)
<1> DEFINE m == read + 1
<1> DEFINE e == a[m]
<1>1. request \in Requests /\ pc = "extract" /\ read < n /\ request' = request /\ dest' = dest
  BY DEF ExtractEntry, OrderInv, Fail
<1>2. n \in Nat /\ DOMAIN a = 1 .. n /\ read \in 0 .. n
  BY <1>1 DEF FetchAssumption, OrderInv, InOrder
<1>3. m \in DOMAIN a /\ e.kind \in {"file", "dir", "symlink", "hardlink"} /\ m \notin 1 .. read
  BY <1>1, <1>2 DEF FetchAssumption
<1>4. \/ /\ pc' = "failed" /\ UNCHANGED <<read, deferred, tree>> /\ ~Skipped(e)
         /\ Refused(e) \/ (~IsLink(e) /\ (Blocked(e) \/ Hampered(e)))
      \/ /\ pc' = "extract" /\ read' = m
         /\ deferred' = IF IsLink(e) THEN Append(deferred, m) ELSE deferred
         /\ tree' = IF IsLink(e) \/ Skipped(e) THEN tree ELSE Extracted(e)
  BY <1>1 DEF ExtractEntry, Fail
<1>5. InOrder' /\ pc' \in Phases
  <2>1. pc' = pc \/ pc' = "failed"
    BY DEF ExtractEntry, Fail
  <2>2. read' = read \/ read' = m
    BY DEF ExtractEntry, Fail
  <2>3. read' \in 0 .. n
    BY <1>1, <1>2, <2>2
  <2> QED
    BY <1>1, <2>1, <2>3 DEF InOrder, Phases
<1>6. Extractor = "tar.gz" => LastIsThere'
  BY LastStep
<1>7. ASSUME Extractor = "tar.gz", Sound PROVE Accounted' /\ NeverFails'
  <2>1. Accounted /\ ~Skipped(e) /\ ~Refused(e) /\ m \notin Made
    BY <1>3, <1>7 DEF OrderInv, Skipped, Refused, Sound, IsInsideDir, Made
  <2>2. deferred \in Seq(1 .. read) /\ m \notin Waiting
    <3>1. deferred \in Seq(1 .. read)
      BY <2>1 DEF Accounted
    <3>2. \A k \in DOMAIN deferred : deferred[k] \in 1 .. read
      BY <3>1, ElementsOf
    <3> QED
      BY <1>3, <3>1, <3>2 DEF Waiting
  <2>3. CASE IsLink(e)
    <3>1. pc' = "extract" /\ read' = m /\ deferred' = Append(deferred, m) /\ tree' = tree
      BY <1>4, <2>1, <2>3
    <3>2. /\ deferred' \in Seq(1 .. read')
          /\ DOMAIN deferred' = 1 .. Len(deferred) + 1 /\ DOMAIN deferred = 1 .. Len(deferred) /\ Len(deferred) \in Nat
          /\ \A k \in 1 .. Len(deferred) : deferred'[k] = deferred[k]
          /\ deferred'[Len(deferred) + 1] = m
      BY <1>2, <2>2, <3>1
    <3>3. Waiting' = Waiting \cup {m}
      BY <3>2 DEF Waiting
    <3>4. Made' = Made
      BY <1>2, <2>2, <3>1, <3>3 DEF Made
    <3>5. \A k, l \in DOMAIN deferred' : deferred'[k] = deferred'[l] => k = l
      BY <1>3, <2>1, <2>2, <3>2 DEF Accounted, Waiting
    <3> QED
      BY <1>1, <2>1, <2>3, <3>1, <3>2, <3>3, <3>4, <3>5, SameArchive DEF Accounted, NeverFails
  <2>4. CASE ~IsLink(e)
    <3>1. e.kind \in {"file", "dir"} /\ (e.kind = "dir" => e.readonly = FALSE)
      BY <1>3, <1>7, <2>4 DEF IsLink, Sound
    <3>2. \A x \in tree :
            /\ x.path \in e.above => x = Folder(x.path)
            /\ x.path = e.path => e.kind = "dir" /\ x = Folder(x.path)
      BY <1>3, <1>7, <2>1, NothingInTheWay
    <3>3. ~Blocked(e) /\ ~Hampered(e) /\ Extracted(e) = tree \cup Given(e)
      <4>1. Clear(e)
        BY <3>1, <3>2 DEF Clear
      <4> HIDE DEF e
      <4> QED
        BY <4>1, EntryIsMade
    <3>4. pc' = "extract" /\ read' = m /\ deferred' = deferred /\ tree' = tree \cup Given(e)
      BY <1>4, <2>1, <2>4, <3>3
    <3>5. Waiting' = Waiting /\ Made' = Made \cup {m}
      BY <1>2, <2>2, <3>4 DEF Waiting, Made
    <3>6. deferred' \in Seq(1 .. read')
      BY <1>2, <2>2, <3>4
    <3>7. tree' = UNION {Given(a[i]) : i \in Made'}
      BY <2>1, <3>4, <3>5, OneMore DEF Accounted
    <3> QED
      BY <1>1, <2>1, <3>4, <3>5, <3>6, <3>7, SameArchive DEF Accounted, NeverFails
  <2> QED
    BY <2>3, <2>4
<1> QED
  BY <1>1, <1>5, <1>6, <1>7, SameArchive DEF OrderInv

\* A link: nothing is at its path, and what a hard link is of is there, because
\* everything has been read.
LEMMA LinkStep ==
    ASSUME FetchAssumption, OrderInv, CreateLink
    PROVE  OrderInv'
<1> DEFINE a == request.archive
<1> DEFINE n == Len(a)
<1> DEFINE m == Head(deferred)
<1> DEFINE e == a[m]
<1>1. request \in Requests /\ pc = "link" /\ deferred # <<>> /\ request' = request /\ dest' = dest /\ read' = read
  BY DEF CreateLink, OrderInv, Fail
<1>2. n \in Nat /\ DOMAIN a = 1 .. n /\ read = n /\ read \in 0 .. n
  BY <1>1 DEF FetchAssumption, OrderInv, InOrder
<1>3. \/ pc' = "failed" /\ UNCHANGED <<deferred, tree>> /\ (LinkBlocked(e) \/ LinkHampered(e))
      \/ pc' = "link" /\ tree' = Linked(e) /\ deferred' = Tail(deferred)
  BY <1>1 DEF CreateLink, Fail
<1>4. InOrder' /\ pc' \in Phases
  BY <1>1, <1>2, <1>3 DEF InOrder, Phases
<1>5. Extractor = "tar.gz" => LastIsThere'
  <2>1. tree \subseteq tree'
    BY <1>3 DEF Linked
  <2> QED
    BY <1>1, <2>1 DEF OrderInv, LastIsThere, Found
<1>6. ASSUME Extractor = "tar.gz", Sound PROVE Accounted' /\ NeverFails'
  <2>1. Accounted
    BY <1>6 DEF OrderInv
  <2>2. /\ m \in 1 .. read /\ Tail(deferred) \in Seq(1 .. read)
        /\ m \in Waiting
        /\ {Tail(deferred)[k] : k \in DOMAIN Tail(deferred)} = Waiting \ {m}
        /\ \A k, l \in DOMAIN Tail(deferred) : Tail(deferred)[k] = Tail(deferred)[l] => k = l
    BY <1>1, <2>1, TailOf DEF Accounted, Waiting
  <2>3. m \in DOMAIN a /\ m \notin Made /\ e.kind \in {"symlink", "hardlink"}
    BY <1>2, <2>1, <2>2 DEF Made, Accounted, IsLink
  <2>4. \A x \in tree : x.path # e.path /\ (x.path \in e.above => x = Folder(x.path))
    BY <1>6, <2>3, NothingInTheWay
  <2>5. ~LinkBlocked(e) /\ ~LinkHampered(e) /\ Linked(e) = tree \cup Given(e)
    <3> DEFINE Files == {x \in Entries : x.kind = "file" /\ x.path = e.target}
    <3>1. e.kind = "hardlink" => Files # {} /\ Found(e.target) = {Placed(f) : f \in Files}
      BY <1>2, <1>6, <2>3, TargetsAreThere
    <3>2. ASSUME NEW d, d = e PROVE ~LinkBlocked(d) /\ ~LinkHampered(d) /\ Linked(d) = tree \cup Given(d)
      <4> HIDE DEF e
      <4>1. d.kind \in {"symlink", "hardlink"} /\ Files = {x \in Entries : x.kind = "file" /\ x.path = d.target}
        BY <2>3, <3>2
      <4>2. d.kind = "hardlink" => Files # {} /\ Found(d.target) = {Placed(f) : f \in Files}
        BY <3>1, <3>2
      <4>3. \A x \in tree : x.path # d.path /\ (x.path \in d.above => x = Folder(x.path))
        BY <2>4, <3>2
      <4> HIDE DEF Files
      <4> QED
        BY <4>1, <4>2, <4>3, LinkIsMade
    <3> QED
      BY <3>2
  <2>6. pc' = "link" /\ tree' = tree \cup Given(e) /\ deferred' = Tail(deferred)
    BY <1>3, <2>5
  <2>7. Waiting' = Waiting \ {m} /\ Made' = Made \cup {m}
    <3>1. Waiting' = {Tail(deferred)[k] : k \in DOMAIN Tail(deferred)}
      BY <2>6 DEF Waiting
    <3>2. Waiting' = Waiting \ {m}
      BY <2>2, <3>1
    <3> HIDE DEF m
    <3> QED
      BY <1>1, <2>2, <3>2 DEF Made
  <2>8. tree' = UNION {Given(a[i]) : i \in Made'}
    BY <2>1, <2>6, <2>7, OneMore DEF Accounted
  <2> QED
    BY <1>1, <2>1, <2>2, <2>6, <2>7, <2>8, SameArchive DEF Accounted, NeverFails
<1> QED
  BY <1>1, <1>4, <1>5, <1>6, SameArchive DEF OrderInv

LEMMA OrderStep ==
    ASSUME FetchAssumption, OrderInv, [Next]_vars
    PROVE  OrderInv'
<1>1. ASSUME request' = request, read' = read, deferred' = deferred, tree' = tree, pc' \in Phases,
             InOrder', Sound /\ read > 0 /\ dest' # "garbage" => pc' # "failed" \/ Extractor # "tar.gz"
      PROVE  OrderInv'
  BY <1>1, NothingPlaced, SameArchive DEF OrderInv, NeverFails
<1>2. CASE Request
  BY <1>1, <1>2 DEF Request, Fail, OrderInv, InOrder, Phases
<1>3. CASE Receive
  BY <1>1, <1>3 DEF Receive, Fail, OrderInv, InOrder, Phases
<1>4. CASE Verify
  <2>1. /\ pc = "verify" /\ pc' \in {"extract", "failed"}
        /\ UNCHANGED <<request, dest, read, deferred, tree>>
    BY <1>4 DEF Verify
  <2>2. read = 0 /\ InOrder'
    BY <2>1 DEF OrderInv, InOrder
  <2> QED
    BY <1>1, <2>1, <2>2 DEF Phases
<1>5. CASE ExtractEntry
  BY <1>5, EntryStep
<1>6. CASE ExtractRaw
  <2>1. Extractor = "raw" /\ request' = request /\ pc = "extract" /\ pc' = pc /\ read' = Len(request.archive)
    BY <1>6 DEF ExtractRaw
  <2>2. Len(request.archive) \in Nat /\ request \in Requests
    BY DEF FetchAssumption, OrderInv
  <2> QED
    BY <2>1, <2>2, SameArchive DEF OrderInv, InOrder, Phases
<1>7. CASE EndOfArchive
  BY <1>1, <1>7 DEF EndOfArchive, Fail, OrderInv, InOrder, Phases
<1>8. CASE CreateLink
  BY <1>8, LinkStep
<1>9. CASE Finish
  BY <1>1, <1>9 DEF Finish, OrderInv, InOrder, Phases
<1>10. CASE UNCHANGED vars
  BY <1>1, <1>10 DEF vars, OrderInv, InOrder, Phases, NeverFails
<1> QED
  BY <1>2, <1>3, <1>4, <1>5, <1>6, <1>7, <1>8, <1>9, <1>10 DEF Next

\* What the entries of a sound archive give is what Unpacked says.
LEMMA GivenIsUnpacked ==
    ASSUME FetchAssumption, request \in Requests
    PROVE  UNION {Given(request.archive[i]) : i \in DOMAIN request.archive} = Unpacked
<1> DEFINE F == {Folder(path) : path \in UNION {e.above : e \in Entries}}
<1> DEFINE P == {Placed(e) : e \in {x \in Entries : x.kind # "hardlink"}}
<1> DEFINE H == UNION {{[Placed(f) EXCEPT !.path = e.path] : f \in {x \in Entries : x.kind = "file" /\ x.path = e.target}} :
                         e \in {x \in Entries : x.kind = "hardlink"}}
<1>1. Unpacked = F \cup P \cup H
  BY DEF Unpacked
<1>2. UNION {Given(request.archive[i]) : i \in DOMAIN request.archive} = UNION {Given(e) : e \in Entries}
  BY DEF Entries
<1>3. ASSUME NEW e \in Entries PROVE Given(e) \subseteq F \cup P \cup H
  BY DEF Given
<1>4. ASSUME NEW e \in Entries
      PROVE  /\ {Folder(path) : path \in e.above} \subseteq Given(e)
             /\ e.kind # "hardlink" => Placed(e) \in Given(e)
             /\ e.kind = "hardlink" =>
                  {[Placed(f) EXCEPT !.path = e.path] : f \in {x \in Entries : x.kind = "file" /\ x.path = e.target}}
                     \subseteq Given(e)
  BY DEF Given
<1>5. F \cup P \cup H \subseteq UNION {Given(e) : e \in Entries}
  BY <1>4
<1> HIDE DEF F, P, H
<1>6. UNION {Given(e) : e \in Entries} \subseteq F \cup P \cup H
  BY <1>3
<1> QED
  BY <1>1, <1>2, <1>5, <1>6

\* An archive in which no entry is in the way of another is extracted in full in
\* whatever order it has its entries, however many; and whatever the archive, the
\* last file of a path is there.
THEOREM OrderDoesNotMatter == Spec => []OrderOfEntriesIrrelevant
<1>1. ASSUME OrderInv PROVE OrderOfEntriesIrrelevant
  <2> SUFFICES ASSUME Extractor = "tar.gz", read > 0, dest # "garbage"
               PROVE  /\ Sound => pc # "failed" /\ (pc = "done" => tree = Unpacked)
                      /\ pc = "done" =>
                           LET a == request.archive
                           IN  \A i \in DOMAIN a :
                                 (a[i].kind = "file" /\ \A j \in DOMAIN a : j > i /\ a[j].kind = "file" => a[j].path # a[i].path) =>
                                     \E x \in Found(a[i].path) : x.kind = "file" /\ x.of = a[i].of
    BY DEF OrderOfEntriesIrrelevant
  <2>1. InOrder /\ request \in Requests /\ LastIsThere /\ (Sound => Accounted /\ NeverFails)
    BY <1>1 DEF OrderInv
  <2>2. ASSUME pc = "done" PROVE deferred = <<>> /\ 1 .. read = DOMAIN request.archive
    BY <2>1, <2>2, FetchAssumption DEF InOrder, FetchAssumption
  <2>3. Sound => pc # "failed"
    BY <2>1 DEF NeverFails
  <2>4. ASSUME pc = "done", Sound PROVE tree = Unpacked
    <3>1. Waiting = {}
      BY <2>2, <2>4 DEF Waiting
    <3>2. Made = DOMAIN request.archive
      BY <2>2, <2>4, <3>1 DEF Made
    <3> QED
      BY <2>1, <2>4, <3>2, FetchAssumption, GivenIsUnpacked DEF Accounted
  <2>5. ASSUME pc = "done" PROVE LastIsThere /\ 1 .. read = DOMAIN request.archive
    BY <2>1, <2>2, <2>5
  <2> QED
    BY <2>3, <2>4, <2>5 DEF LastIsThere
<1>2. QED
  BY <1>1, OrderInit, OrderStep, FetchAssumption, PTL DEF Spec

(***************************************************************************)
(* Registry.  A worker that writes has the definition of its own ref, and  *)
(* every file that can be reached through a directory was made by a worker *)
(* of the same ref and has bytes of no other.  Where no two have written   *)
(* at the same time, the temporary file is its only writer's, and what is  *)
(* in the cache is whole and nobody's to write.                            *)
(***************************************************************************)
Known == {R!Nothing} \cup {Definition[r] : r \in Ref} \cup UNION {Halves[r] : r \in Ref}

Resolutions ==
    {R!Nothing, [kind |-> "failed"]} \cup {R!ResolveWithOS(d, q) : d \in Known, q \in PackageRequests}

RegistryTypes ==
    /\ wpc \in [Worker -> {"read", "fetch", "open", "write", "finish", "rename", "remove", "done", "dead"}]
    /\ asked \in [Worker -> PackageRequests]
    /\ data \in [Worker -> Known]
    /\ content \in [Worker -> [head : Ref \cup {Unset}, tail : Ref \cup {Unset}]]
    /\ resolved \in [Worker -> Resolutions]
    /\ cached \in [Ref -> Worker \cup {Unset}] /\ writing \in [Ref -> Worker \cup {Unset}]
    /\ held \in [Worker -> Worker \cup {Unset}]
    /\ shared \in SUBSET Ref

\* A worker that has fetched has the definition of its ref.
FetchedOwn ==
    \A w \in Worker :
        wpc[w] \in {"open", "write", "finish", "rename", "remove"} => data[w] = Definition[asked[w].ref]

\* A file that has a name was made by a worker of the directory's ref, who has opened it.
FiledByRef ==
    \A r \in Ref : \A f \in {cached[r], writing[r]} \ {Unset} :
        f \in Worker /\ asked[f].ref = r /\ wpc[f] \notin {"read", "fetch", "open"}

\* So was the file of the descriptor of a worker that is about to write.
HeldByRef ==
    \A w \in Worker :
        wpc[w] \in {"write", "finish", "rename"} => held[w] \in Worker /\ asked[held[w]].ref = asked[w].ref

\* Whoever writes to a file, its bytes are of the ref it was made for.
OwnBytes == \A f \in Worker : {content[f].head, content[f].tail} \subseteq {Unset, asked[f].ref}

Whole(f, r) == content[f] = [head |-> r, tail |-> r]

\* Where no two have written at the same time, the one that writes has the temporary
\* file to itself, and as much of it is written as it has got to.
OnlyWriter ==
    \A v, w \in Worker :
        (R!Writing(v) /\ asked[v].ref = asked[w].ref /\ asked[v].ref \notin shared) =>
            /\ R!Writing(w) => v = w
            /\ wpc[v] # "remove" => writing[asked[v].ref] = held[v]
            /\ wpc[v] = "finish" => content[held[v]].head = asked[v].ref
            /\ wpc[v] = "rename" => Whole(held[v], asked[v].ref)

\* There, what is in the cache is whole, and no temporary file.
CachedWhole ==
    \A r \in Ref \ shared : cached[r] # Unset => Whole(cached[r], r) /\ writing[r] # cached[r]

RegistryInv ==
    /\ RegistryTypes /\ FetchedOwn /\ FiledByRef /\ HeldByRef /\ OwnBytes /\ OnlyWriter /\ CachedWhole
    /\ R!ResolvesAsPublished

\* What is read from the cache is a definition, or half of one.
LEMMA ReadIsKnown ==
    ASSUME R!RegistryAssumption, RegistryTypes, NEW w \in Worker
    PROVE  R!Cached(w) \subseteq Known
PROOF
<1>1. asked[w].ref \in Ref
  BY DEF RegistryTypes, R!RegistryAssumption
<1>2. CASE cached[asked[w].ref] = Unset
  BY <1>2 DEF R!Cached, R!CachePath, Known
<1>3. CASE cached[asked[w].ref] # Unset
  <2>1. content[cached[asked[w].ref]] \in [head : Ref \cup {Unset}, tail : Ref \cup {Unset}]
    BY <1>1, <1>3 DEF RegistryTypes
  <2> QED
    BY <1>3, <2>1 DEF R!Cached, R!CachePath, R!Parsed, Known
<1> QED
  BY <1>2, <1>3

\* What is resolved is a resolution.
LEMMA ResolveTypes ==
    ASSUME RegistryTypes, NEW w \in Worker, NEW d \in Known, R!Resolve(w, d)
    PROVE  resolved' \in [Worker -> Resolutions]
PROOF
  BY DEF RegistryTypes, R!Resolve, Resolutions

\* A step keeps the types.
LEMMA TypeStep ==
    ASSUME R!RegistryAssumption, RegistryInv, [R!Next]_(R!vars)
    PROVE  RegistryTypes'
PROOF
<1> USE DEF RegistryInv, RegistryTypes
<1>1. ASSUME NEW w \in Worker, R!Work(w)
      PROVE  RegistryTypes'
  <2>1. CASE R!ReadCache(w)
    <3>1. CASE \E d \in R!Cached(w) \ {R!Nothing} : R!Resolve(w, d)
      <4>1. resolved' \in [Worker -> Resolutions]
        BY <3>1, ReadIsKnown, ResolveTypes
      <4>2. wpc' = [wpc EXCEPT ![w] = "done"]
        BY <3>1 DEF R!Resolve, R!Goto
      <4> QED
        BY <2>1, <4>1, <4>2 DEF R!ReadCache
    <3>2. CASE R!Goto(w, "fetch") /\ UNCHANGED resolved
      BY <2>1, <3>2 DEF R!ReadCache, R!Goto
    <3> QED
      BY <2>1, <3>1, <3>2 DEF R!ReadCache
  <2>2. CASE R!FetchRemote(w)
    BY <2>2 DEF R!FetchRemote, R!Goto, Known, R!RegistryAssumption
  <2>3. CASE R!FetchFails(w)
    BY <2>3 DEF R!FetchFails, R!Goto, Resolutions
  <2>4. CASE R!OpenTmp(w)
    BY <2>4 DEF R!OpenTmp, R!Goto, R!Empty, R!CachePath, R!RegistryAssumption
  <2>5. CASE R!WriteTmp(w)
    <3>1. asked[w].ref \in Ref
      BY DEF R!RegistryAssumption
    <3>2. ASSUME NEW f \in Worker PROVE content'[f] \in [head : Ref \cup {Unset}, tail : Ref \cup {Unset}]
      BY <2>5, <3>1 DEF R!WriteTmp
    <3>3. content' \in [Worker -> [head : Ref \cup {Unset}, tail : Ref \cup {Unset}]]
      BY <2>5, <3>2 DEF R!WriteTmp
    <3> QED
      BY <2>5, <3>3 DEF R!WriteTmp, R!Goto
  <2>6. CASE R!FinishTmp(w)
    <3>1. asked[w].ref \in Ref
      BY DEF R!RegistryAssumption
    <3>2. ASSUME NEW f \in Worker PROVE content'[f] \in [head : Ref \cup {Unset}, tail : Ref \cup {Unset}]
      BY <2>6, <3>1 DEF R!FinishTmp
    <3>3. content' \in [Worker -> [head : Ref \cup {Unset}, tail : Ref \cup {Unset}]]
      BY <2>6, <3>2 DEF R!FinishTmp
    <3> QED
      BY <2>6, <3>3 DEF R!FinishTmp, R!Goto
  <2>7. CASE R!RenameTmp(w)
    BY <2>7 DEF R!RenameTmp, R!Goto, R!Resolve, R!CachePath, Resolutions, R!RegistryAssumption
  <2>8. CASE R!RenameFails(w)
    BY <2>8 DEF R!RenameFails, R!Goto
  <2>9. CASE R!RemoveTmp(w)
    BY <2>9 DEF R!RemoveTmp, R!Goto, R!Resolve, R!CachePath, Resolutions, R!RegistryAssumption
  <2>10. CASE R!CacheFails(w)
    BY <2>10 DEF R!CacheFails, R!Goto, R!Resolve, Resolutions
  <2>11. CASE R!Kill(w)
    BY <2>11 DEF R!Kill, R!Goto
  <2> QED
    BY <1>1, <2>1, <2>2, <2>3, <2>4, <2>5, <2>6, <2>7, <2>8, <2>9, <2>10, <2>11 DEF R!Work
<1>2. CASE UNCHANGED R!vars
  BY <1>2 DEF R!vars
<1> QED
  BY <1>1, <1>2 DEF R!Next

\* A step keeps what was fetched.
LEMMA FetchedStep ==
    ASSUME R!RegistryAssumption, RegistryInv, [R!Next]_(R!vars)
    PROVE  FetchedOwn'
PROOF
<1> USE DEF RegistryInv, RegistryTypes
<1>1. ASSUME NEW w \in Worker, R!Work(w)
      PROVE  FetchedOwn'
  <2>1. CASE R!ReadCache(w)
    BY <2>1 DEF R!ReadCache, R!Goto, R!Resolve, FetchedOwn
  <2>2. CASE R!FetchRemote(w)
    BY <2>2 DEF R!FetchRemote, R!Goto, R!Resolve, FetchedOwn
  <2>3. CASE R!FetchFails(w)
    BY <2>3 DEF R!FetchFails, R!Goto, R!Resolve, FetchedOwn
  <2>4. CASE R!OpenTmp(w)
    BY <2>4 DEF R!OpenTmp, R!Goto, R!Resolve, FetchedOwn
  <2>5. CASE R!WriteTmp(w)
    BY <2>5 DEF R!WriteTmp, R!Goto, R!Resolve, FetchedOwn
  <2>6. CASE R!FinishTmp(w)
    BY <2>6 DEF R!FinishTmp, R!Goto, R!Resolve, FetchedOwn
  <2>7. CASE R!RenameTmp(w)
    BY <2>7 DEF R!RenameTmp, R!Goto, R!Resolve, FetchedOwn
  <2>8. CASE R!RenameFails(w)
    BY <2>8 DEF R!RenameFails, R!Goto, R!Resolve, FetchedOwn
  <2>9. CASE R!RemoveTmp(w)
    BY <2>9 DEF R!RemoveTmp, R!Goto, R!Resolve, FetchedOwn
  <2>10. CASE R!CacheFails(w)
    BY <2>10 DEF R!CacheFails, R!Goto, R!Resolve, FetchedOwn
  <2>11. CASE R!Kill(w)
    BY <2>11 DEF R!Kill, R!Goto, R!Resolve, FetchedOwn
  <2> QED
    BY <1>1, <2>1, <2>2, <2>3, <2>4, <2>5, <2>6, <2>7, <2>8, <2>9, <2>10, <2>11 DEF R!Work
<1>2. CASE UNCHANGED R!vars
  BY <1>2 DEF R!vars, R!Goto, R!Resolve, FetchedOwn
<1> QED
  BY <1>1, <1>2 DEF R!Next

\* A step files under the ref of the worker.
LEMMA FileStep ==
    ASSUME R!RegistryAssumption, RegistryInv, [R!Next]_(R!vars)
    PROVE  FiledByRef'
PROOF
<1> USE DEF RegistryInv, RegistryTypes
<1>1. ASSUME NEW w \in Worker, R!Work(w)
      PROVE  FiledByRef'
  <2>1. CASE R!ReadCache(w)
    BY <2>1 DEF R!ReadCache, R!Goto, R!Resolve, FiledByRef
  <2>2. CASE R!FetchRemote(w)
    BY <2>2 DEF R!FetchRemote, R!Goto, R!Resolve, FiledByRef
  <2>3. CASE R!FetchFails(w)
    BY <2>3 DEF R!FetchFails, R!Goto, R!Resolve, FiledByRef
  <2>4. CASE R!OpenTmp(w)
    BY <2>4 DEF R!OpenTmp, FiledByRef, R!Goto, R!CachePath, R!RegistryAssumption
  <2>5. CASE R!WriteTmp(w)
    BY <2>5 DEF R!WriteTmp, R!Goto, R!Resolve, FiledByRef
  <2>6. CASE R!FinishTmp(w)
    BY <2>6 DEF R!FinishTmp, R!Goto, R!Resolve, FiledByRef
  <2>7. CASE R!RenameTmp(w)
    BY <2>7 DEF R!RenameTmp, R!Goto, R!Resolve, FiledByRef
  <2>8. CASE R!RenameFails(w)
    BY <2>8 DEF R!RenameFails, R!Goto, R!Resolve, FiledByRef
  <2>9. CASE R!RemoveTmp(w)
    BY <2>9 DEF R!RemoveTmp, R!Goto, R!Resolve, FiledByRef
  <2>10. CASE R!CacheFails(w)
    BY <2>10 DEF R!CacheFails, R!Goto, R!Resolve, FiledByRef
  <2>11. CASE R!Kill(w)
    BY <2>11 DEF R!Kill, R!Goto, R!Resolve, FiledByRef
  <2> QED
    BY <1>1, <2>1, <2>2, <2>3, <2>4, <2>5, <2>6, <2>7, <2>8, <2>9, <2>10, <2>11 DEF R!Work
<1>2. CASE UNCHANGED R!vars
  BY <1>2 DEF R!vars, R!Goto, R!Resolve, FiledByRef
<1> QED
  BY <1>1, <1>2 DEF R!Next

\* A step opens only what is filed under the ref of the worker.
LEMMA HeldStep ==
    ASSUME R!RegistryAssumption, RegistryInv, [R!Next]_(R!vars)
    PROVE  HeldByRef'
PROOF
<1> USE DEF RegistryInv, RegistryTypes
<1>1. ASSUME NEW w \in Worker, R!Work(w)
      PROVE  HeldByRef'
  <2>1. CASE R!ReadCache(w)
    BY <2>1 DEF R!ReadCache, R!Goto, R!Resolve, HeldByRef
  <2>2. CASE R!FetchRemote(w)
    BY <2>2 DEF R!FetchRemote, R!Goto, R!Resolve, HeldByRef
  <2>3. CASE R!FetchFails(w)
    BY <2>3 DEF R!FetchFails, R!Goto, R!Resolve, HeldByRef
  <2>4. CASE R!OpenTmp(w)
    BY <2>4 DEF R!OpenTmp, FiledByRef, HeldByRef, R!Goto, R!CachePath, R!RegistryAssumption
  <2>5. CASE R!WriteTmp(w)
    BY <2>5 DEF R!WriteTmp, R!Goto, R!Resolve, HeldByRef
  <2>6. CASE R!FinishTmp(w)
    BY <2>6 DEF R!FinishTmp, R!Goto, R!Resolve, HeldByRef
  <2>7. CASE R!RenameTmp(w)
    BY <2>7 DEF R!RenameTmp, R!Goto, R!Resolve, HeldByRef
  <2>8. CASE R!RenameFails(w)
    BY <2>8 DEF R!RenameFails, R!Goto, R!Resolve, HeldByRef
  <2>9. CASE R!RemoveTmp(w)
    BY <2>9 DEF R!RemoveTmp, R!Goto, R!Resolve, HeldByRef
  <2>10. CASE R!CacheFails(w)
    BY <2>10 DEF R!CacheFails, R!Goto, R!Resolve, HeldByRef
  <2>11. CASE R!Kill(w)
    BY <2>11 DEF R!Kill, R!Goto, R!Resolve, HeldByRef
  <2> QED
    BY <1>1, <2>1, <2>2, <2>3, <2>4, <2>5, <2>6, <2>7, <2>8, <2>9, <2>10, <2>11 DEF R!Work
<1>2. CASE UNCHANGED R!vars
  BY <1>2 DEF R!vars, R!Goto, R!Resolve, HeldByRef
<1> QED
  BY <1>1, <1>2 DEF R!Next

\* A step leaves no file with bytes of another ref.
LEMMA BytesStep ==
    ASSUME R!RegistryAssumption, RegistryInv, [R!Next]_(R!vars)
    PROVE  OwnBytes'
PROOF
<1> USE DEF RegistryInv, RegistryTypes
<1>1. ASSUME NEW w \in Worker, R!Work(w)
      PROVE  OwnBytes'
  <2>1. CASE R!ReadCache(w)
    BY <2>1 DEF R!ReadCache, OwnBytes
  <2>2. CASE R!FetchRemote(w)
    BY <2>2 DEF R!FetchRemote, OwnBytes
  <2>3. CASE R!FetchFails(w)
    BY <2>3 DEF R!FetchFails, OwnBytes
  <2>4. CASE R!OpenTmp(w)
    BY <2>4 DEF R!OpenTmp, OwnBytes, R!Empty, R!CachePath, R!RegistryAssumption
  <2>5. CASE R!WriteTmp(w)
    BY <2>5 DEF R!WriteTmp, OwnBytes, HeldByRef
  <2>6. CASE R!FinishTmp(w)
    BY <2>6 DEF R!FinishTmp, OwnBytes, HeldByRef
  <2>7. CASE R!RenameTmp(w)
    BY <2>7 DEF R!RenameTmp, OwnBytes
  <2>8. CASE R!RenameFails(w)
    BY <2>8 DEF R!RenameFails, OwnBytes
  <2>9. CASE R!RemoveTmp(w)
    BY <2>9 DEF R!RemoveTmp, OwnBytes
  <2>10. CASE R!CacheFails(w)
    BY <2>10 DEF R!CacheFails, OwnBytes
  <2>11. CASE R!Kill(w)
    BY <2>11 DEF R!Kill, OwnBytes
  <2> QED
    BY <1>1, <2>1, <2>2, <2>3, <2>4, <2>5, <2>6, <2>7, <2>8, <2>9, <2>10, <2>11 DEF R!Work
<1>2. CASE UNCHANGED R!vars
  BY <1>2 DEF R!vars, OwnBytes
<1> QED
  BY <1>1, <1>2 DEF R!Next

\* A step leaves a writer alone, or marks the ref.
LEMMA OnlyWriterStep ==
    ASSUME R!RegistryAssumption, RegistryInv, [R!Next]_(R!vars)
    PROVE  OnlyWriter'
PROOF
<1> USE DEF RegistryInv, RegistryTypes
<1>1. ASSUME NEW w \in Worker, R!Work(w)
      PROVE  OnlyWriter'
  <2>1. CASE R!ReadCache(w)
    BY <2>1 DEF R!ReadCache, OnlyWriter, Whole, R!Writing, R!Goto, R!Resolve, R!CachePath, HeldByRef, R!RegistryAssumption
  <2>2. CASE R!FetchRemote(w)
    BY <2>2 DEF R!FetchRemote, OnlyWriter, Whole, R!Writing, R!Goto, R!Resolve, R!CachePath, HeldByRef, R!RegistryAssumption
  <2>3. CASE R!FetchFails(w)
    BY <2>3 DEF R!FetchFails, OnlyWriter, Whole, R!Writing, R!Goto, R!Resolve, R!CachePath, HeldByRef, R!RegistryAssumption
  <2>4. CASE R!OpenTmp(w)
    BY <2>4 DEF R!OpenTmp, OnlyWriter, Whole, R!Writing, R!Goto, R!Empty, R!CachePath, FiledByRef, HeldByRef, R!RegistryAssumption
  <2>5. CASE R!WriteTmp(w)
    BY <2>5 DEF R!WriteTmp, OnlyWriter, Whole, R!Writing, R!Goto, R!Resolve, R!CachePath, HeldByRef, R!RegistryAssumption
  <2>6. CASE R!FinishTmp(w)
    BY <2>6 DEF R!FinishTmp, OnlyWriter, Whole, R!Writing, R!Goto, R!Resolve, R!CachePath, HeldByRef, R!RegistryAssumption
  <2>7. CASE R!RenameTmp(w)
    BY <2>7 DEF R!RenameTmp, OnlyWriter, Whole, R!Writing, R!Goto, R!Resolve, R!CachePath, HeldByRef, R!RegistryAssumption
  <2>8. CASE R!RenameFails(w)
    BY <2>8 DEF R!RenameFails, OnlyWriter, Whole, R!Writing, R!Goto, R!Resolve, R!CachePath, HeldByRef, R!RegistryAssumption
  <2>9. CASE R!RemoveTmp(w)
    BY <2>9 DEF R!RemoveTmp, OnlyWriter, Whole, R!Writing, R!Goto, R!Resolve, R!CachePath, HeldByRef, R!RegistryAssumption
  <2>10. CASE R!CacheFails(w)
    BY <2>10 DEF R!CacheFails, OnlyWriter, Whole, R!Writing, R!Goto, R!Resolve, R!CachePath, HeldByRef, R!RegistryAssumption
  <2>11. CASE R!Kill(w)
    BY <2>11 DEF R!Kill, OnlyWriter, Whole, R!Writing, R!Goto, R!Resolve, R!CachePath, HeldByRef, R!RegistryAssumption
  <2> QED
    BY <1>1, <2>1, <2>2, <2>3, <2>4, <2>5, <2>6, <2>7, <2>8, <2>9, <2>10, <2>11 DEF R!Work
<1>2. CASE UNCHANGED R!vars
  BY <1>2 DEF R!vars, OnlyWriter, Whole, R!Writing, R!Goto, R!Resolve, R!CachePath, HeldByRef, R!RegistryAssumption
<1> QED
  BY <1>1, <1>2 DEF R!Next

\* A step leaves nothing in the cache that is not whole, or marks the ref.
LEMMA CacheStep ==
    ASSUME R!RegistryAssumption, RegistryInv, [R!Next]_(R!vars)
    PROVE  CachedWhole'
PROOF
<1> USE DEF RegistryInv, RegistryTypes
<1>1. ASSUME NEW w \in Worker, R!Work(w)
      PROVE  CachedWhole'
  <2>1. CASE R!ReadCache(w)
    BY <2>1 DEF R!ReadCache, CachedWhole, Whole, OnlyWriter, FiledByRef, HeldByRef, R!Writing, R!CachePath, R!RegistryAssumption
  <2>2. CASE R!FetchRemote(w)
    BY <2>2 DEF R!FetchRemote, CachedWhole, Whole, OnlyWriter, FiledByRef, HeldByRef, R!Writing, R!CachePath, R!RegistryAssumption
  <2>3. CASE R!FetchFails(w)
    BY <2>3 DEF R!FetchFails, CachedWhole, Whole, OnlyWriter, FiledByRef, HeldByRef, R!Writing, R!CachePath, R!RegistryAssumption
  <2>4. CASE R!OpenTmp(w)
    BY <2>4 DEF R!OpenTmp, CachedWhole, Whole, FiledByRef, R!Empty, R!CachePath, R!RegistryAssumption
  <2>5. CASE R!WriteTmp(w)
    BY <2>5 DEF R!WriteTmp, CachedWhole, Whole, OnlyWriter, FiledByRef, HeldByRef, R!Writing, R!CachePath, R!RegistryAssumption
  <2>6. CASE R!FinishTmp(w)
    BY <2>6 DEF R!FinishTmp, CachedWhole, Whole, OnlyWriter, FiledByRef, HeldByRef, R!Writing, R!CachePath, R!RegistryAssumption
  <2>7. CASE R!RenameTmp(w)
    BY <2>7 DEF R!RenameTmp, CachedWhole, Whole, OnlyWriter, FiledByRef, R!Writing, R!CachePath, R!RegistryAssumption
  <2>8. CASE R!RenameFails(w)
    BY <2>8 DEF R!RenameFails, CachedWhole, Whole, OnlyWriter, FiledByRef, HeldByRef, R!Writing, R!CachePath, R!RegistryAssumption
  <2>9. CASE R!RemoveTmp(w)
    BY <2>9 DEF R!RemoveTmp, CachedWhole, Whole, OnlyWriter, FiledByRef, HeldByRef, R!Writing, R!CachePath, R!RegistryAssumption
  <2>10. CASE R!CacheFails(w)
    BY <2>10 DEF R!CacheFails, CachedWhole, Whole, OnlyWriter, FiledByRef, HeldByRef, R!Writing, R!CachePath, R!RegistryAssumption
  <2>11. CASE R!Kill(w)
    BY <2>11 DEF R!Kill, CachedWhole, Whole, OnlyWriter, FiledByRef, HeldByRef, R!Writing, R!CachePath, R!RegistryAssumption
  <2> QED
    BY <1>1, <2>1, <2>2, <2>3, <2>4, <2>5, <2>6, <2>7, <2>8, <2>9, <2>10, <2>11 DEF R!Work
<1>2. CASE UNCHANGED R!vars
  BY <1>2 DEF R!vars, CachedWhole, Whole, OnlyWriter, FiledByRef, HeldByRef, R!Writing, R!CachePath, R!RegistryAssumption
<1> QED
  BY <1>1, <1>2 DEF R!Next

\* What a worker resolves from its own definition is what is published.
LEMMA ResolveOwn ==
    ASSUME RegistryInv, NEW w \in Worker, NEW d, d = Definition[asked[w].ref], R!Resolve(w, d),
           UNCHANGED <<asked, shared>>
    PROVE  R!ResolvesAsPublished'
PROOF
  BY DEF R!Resolve, RegistryInv, RegistryTypes, R!ResolvesAsPublished

\* So is half of it, where two have written at the same time.
LEMMA ResolveHalf ==
    ASSUME RegistryInv, NEW w \in Worker, asked[w].ref \in shared,
           NEW d \in Halves[asked[w].ref] \ {R!Nothing}, R!Resolve(w, d), UNCHANGED <<asked, shared>>
    PROVE  R!ResolvesAsPublished'
PROOF
  BY DEF R!Resolve, RegistryInv, RegistryTypes, R!ResolvesAsPublished

\* What is read is the definition, or half of it, where two have written at the same time.
LEMMA ReadIsOwn ==
    ASSUME R!RegistryAssumption, RegistryInv, NEW w \in Worker, NEW d \in R!Cached(w) \ {R!Nothing}
    PROVE  \/ d = Definition[asked[w].ref]
           \/ asked[w].ref \in shared /\ d \in Halves[asked[w].ref]
PROOF
<1> DEFINE r == asked[w].ref
<1> DEFINE c == content[cached[r]]
<1>1. r \in Ref /\ r # Unset
  BY DEF RegistryInv, RegistryTypes, R!RegistryAssumption
<1>2. cached[r] # Unset /\ d \in R!Parsed(c)
  BY DEF R!Cached, R!CachePath
<1>3. c.head \in {Unset, r} /\ c.tail \in {Unset, r}
  BY <1>1, <1>2 DEF RegistryInv, FiledByRef, OwnBytes
<1>4. CASE r \notin shared
  <2>1. c = [head |-> r, tail |-> r]
    BY <1>1, <1>2, <1>4 DEF RegistryInv, CachedWhole, Whole
  <2>2. c.head = r /\ c.tail = r
    BY <2>1
  <2> QED
    BY <1>1, <1>2, <2>2 DEF R!Parsed
<1>5. CASE r \in shared
  BY <1>1, <1>2, <1>3, <1>5 DEF R!Parsed
<1> QED
  BY <1>4, <1>5

\* A step resolves to what is published.
LEMMA ResolvedStep ==
    ASSUME R!RegistryAssumption, RegistryInv, [R!Next]_(R!vars)
    PROVE  R!ResolvesAsPublished'
PROOF
<1> USE DEF RegistryInv, RegistryTypes
<1>1. ASSUME NEW w \in Worker, R!Work(w)
      PROVE  R!ResolvesAsPublished'
  <2>1. CASE R!ReadCache(w)
    <3>1. ASSUME NEW d \in R!Cached(w) \ {R!Nothing}, R!Resolve(w, d)
          PROVE  R!ResolvesAsPublished'
      <4>1. UNCHANGED <<asked, shared>>
        BY <2>1 DEF R!ReadCache
      <4> QED
        BY <3>1, <4>1, ReadIsOwn, ResolveOwn, ResolveHalf
    <3>2. CASE UNCHANGED resolved
      BY <2>1, <3>2 DEF R!ReadCache, R!ResolvesAsPublished
    <3> QED
      BY <2>1, <3>1, <3>2 DEF R!ReadCache
  <2>2. CASE R!FetchRemote(w)
    BY <2>2 DEF R!FetchRemote, R!ResolvesAsPublished
  <2>3. CASE R!FetchFails(w)
    BY <2>3 DEF R!FetchFails, R!ResolvesAsPublished
  <2>4. CASE R!OpenTmp(w)
    <3>1. shared \subseteq shared' /\ UNCHANGED <<asked, resolved>>
      BY <2>4 DEF R!OpenTmp
    <3> QED
      BY <3>1 DEF R!ResolvesAsPublished
  <2>5. CASE R!WriteTmp(w)
    BY <2>5 DEF R!WriteTmp, R!ResolvesAsPublished
  <2>6. CASE R!FinishTmp(w)
    BY <2>6 DEF R!FinishTmp, R!ResolvesAsPublished
  <2>7. CASE R!RenameTmp(w)
    BY <2>7, ResolveOwn DEF R!RenameTmp, FetchedOwn
  <2>8. CASE R!RenameFails(w)
    BY <2>8 DEF R!RenameFails, R!ResolvesAsPublished
  <2>9. CASE R!RemoveTmp(w)
    BY <2>9, ResolveOwn DEF R!RemoveTmp, FetchedOwn
  <2>10. CASE R!CacheFails(w)
    BY <2>10, ResolveOwn DEF R!CacheFails, FetchedOwn
  <2>11. CASE R!Kill(w)
    BY <2>11 DEF R!Kill, R!ResolvesAsPublished
  <2> QED
    BY <1>1, <2>1, <2>2, <2>3, <2>4, <2>5, <2>6, <2>7, <2>8, <2>9, <2>10, <2>11 DEF R!Work
<1>2. CASE UNCHANGED R!vars
  BY <1>2 DEF R!vars, R!ResolvesAsPublished
<1> QED
  BY <1>1, <1>2 DEF R!Next

\* For any number of workers, refs and definitions, and wherever a write of the cache
\* is cut short: what a worker resolves is what the definition published at its own ref
\* says, or half of that definition where two wrote it at the same time.
THEOREM Resolves == R!Spec => []ResolvesAsPublished
<1>1. R!Init => RegistryInv
  BY DEF R!Init, RegistryInv, RegistryTypes, FetchedOwn, FiledByRef, HeldByRef, OwnBytes, OnlyWriter, CachedWhole,
     R!Writing, R!ResolvesAsPublished, Known, Resolutions, R!Nothing, R!Empty
<1>2. RegistryInv /\ [R!Next]_(R!vars) => RegistryInv'
  BY PackageAssumption, TypeStep, FetchedStep, FileStep, HeldStep, BytesStep, OnlyWriterStep, CacheStep, ResolvedStep
  DEF RegistryInv
<1>3. RegistryInv => ResolvesAsPublished
  BY DEF RegistryInv, ResolvesAsPublished
<1> QED
  BY <1>1, <1>2, <1>3, PTL DEF R!Spec

(***************************************************************************)
(* SelfUpgrade: every invariant follows from the types, BackedUp and       *)
(* StepByStep, which are inductive together; each action has a step of its *)
(* own in each of the three lemmas.                                        *)
(***************************************************************************)

\* A step keeps the types.
LEMMA UpgradeTypeStep ==
    ASSUME Up!TypeOK, Up!BackedUp, [Up!Next]_(Up!vars)
    PROVE  Up!TypeOK'
PROOF
<1> USE BinaryAssumption DEF Up!UpgradeAssumption
<1>1. ASSUME NEW p \in Process, Up!Step(p)
      PROVE  Up!TypeOK'
  <2>1. CASE Up!Start(p)
    BY <2>1 DEF Up!Start, Up!Goto, Up!TypeOK, Up!files, Up!Jobs, Up!Ended, Up!Outcomes, Up!Steps, Up!Files, Up!Binary, Up!Versions, Up!Release, Up!Dev
  <2>2. CASE Up!Check(p)
    BY <2>2 DEF Up!Check, Up!Goto, Up!TypeOK, Up!files, Up!Ended, Up!Outcomes, Up!Steps, Up!Jobs
  <2>3. CASE Up!Download(p)
    BY <2>3 DEF Up!Download, Up!Goto, Up!TypeOK, Up!request, Up!files, Up!Ended, Up!Outcomes, Up!Steps
  <2>4. CASE Up!DownloadFails(p)
    BY <2>4 DEF Up!DownloadFails, Up!Goto, Up!MayFail, Up!TypeOK, Up!request, Up!files, Up!Ended, Up!Outcomes, Up!Steps
  <2>5. CASE Up!Stat(p)
    BY <2>5 DEF Up!Stat, Up!Goto, Up!TypeOK, Up!files, Up!Ended, Up!Outcomes, Up!Steps, Up!Files
  <2>6. CASE Up!Backup(p)
    BY <2>6 DEF Up!Backup, Up!Goto, Up!TypeOK, Up!request, Up!files, Up!Ended, Up!Outcomes, Up!Steps, Up!Files
  <2>7. CASE Up!BackupFails(p)
    BY <2>7 DEF Up!BackupFails, Up!Goto, Up!MayFail, Up!TypeOK, Up!request, Up!files, Up!Ended, Up!Outcomes, Up!Steps
  <2>8. CASE Up!Stage(p)
    BY <2>8 DEF Up!Stage, Up!Goto, Up!TypeOK, Up!request, Up!files, Up!Ended, Up!Outcomes, Up!Steps, Up!Files, Up!Binary, Up!Versions, Up!Release, Up!Dev, Up!BackedUp
  <2>9. CASE Up!ReplaceFails(p)
    BY <2>9 DEF Up!ReplaceFails, Up!Goto, Up!MayFail, Up!TypeOK, Up!request, Up!files, Up!Ended, Up!Outcomes, Up!Steps, Up!Files
  <2>10. CASE Up!Install(p)
    BY <2>10 DEF Up!Install, Up!Goto, Up!TypeOK, Up!request, Up!files, Up!Ended, Up!Outcomes, Up!Steps, Up!Files
  <2>11. CASE Up!Chmod(p)
    BY <2>11 DEF Up!Chmod, Up!Goto, Up!TypeOK, Up!request, Up!files, Up!Ended, Up!Outcomes, Up!Steps, Up!Files, Up!Binary, Up!Versions, Up!Release, Up!Dev
  <2>12. CASE Up!Verify(p)
    BY <2>12 DEF Up!Verify, Up!Goto, Up!TypeOK, Up!request, Up!files, Up!Ended, Up!Outcomes, Up!Steps
  <2>13. CASE Up!VerifyFails(p)
    BY <2>13 DEF Up!VerifyFails, Up!Goto, Up!MayFail, Up!TypeOK, Up!request, Up!files, Up!Ended, Up!Outcomes, Up!Steps
  <2>14. CASE Up!Restore(p)
    BY <2>14 DEF Up!Restore, Up!Goto, Up!TypeOK, Up!request, Up!files, Up!Ended, Up!Outcomes, Up!Steps, Up!Files
  <2>15. CASE Up!RestoreFails(p)
    BY <2>15 DEF Up!RestoreFails, Up!Goto, Up!MayFail, Up!TypeOK, Up!request, Up!files, Up!Ended, Up!Outcomes, Up!Steps
  <2>16. CASE Up!Cleanup(p)
    BY <2>16 DEF Up!Cleanup, Up!Goto, Up!TypeOK, Up!request, Up!files, Up!Ended, Up!Outcomes, Up!Steps, Up!Files
  <2>17. CASE Up!Interrupt(p)
    BY <2>17 DEF Up!Interrupt, Up!TypeOK, Up!files
  <2>18. CASE Up!Kill(p)
    BY <2>18 DEF Up!Kill, Up!Goto, Up!TypeOK, Up!request, Up!files, Up!Ended, Up!Outcomes, Up!Steps
  <2>19. CASE Up!CleanupFails(p)
    BY <2>19 DEF Up!CleanupFails, Up!Goto, Up!MayFail, Up!TypeOK, Up!request, Up!files, Up!Ended, Up!Outcomes, Up!Steps, Up!Files
  <2> QED
    BY <1>1, <2>1, <2>2, <2>3, <2>4, <2>5, <2>6, <2>7, <2>8, <2>9, <2>10, <2>11, <2>12, <2>13, <2>14, <2>15, <2>16, <2>17, <2>18, <2>19 DEF Up!Step
<1>2. CASE UNCHANGED Up!vars
  BY <1>2 DEF Up!vars, Up!files, Up!request, Up!TypeOK
<1> QED
  BY <1>1, <1>2 DEF Up!Next

\* A step keeps track of who holds the binary.
LEMMA BackupStep ==
    ASSUME Up!TypeOK, Up!BackedUp, [Up!Next]_(Up!vars)
    PROVE  Up!BackedUp'
PROOF
<1> USE BinaryAssumption DEF Up!UpgradeAssumption
<1>1. ASSUME NEW p \in Process, Up!Step(p)
      PROVE  Up!BackedUp'
  <2>1. CASE Up!Start(p)
    BY <2>1 DEF Up!Start, Up!Goto, Up!TypeOK, Up!BackedUp, Up!files, Up!Ended, Up!Outcomes, Up!Steps
  <2>2. CASE Up!Check(p)
    BY <2>2 DEF Up!Check, Up!Goto, Up!TypeOK, Up!BackedUp, Up!files, Up!Ended, Up!Outcomes, Up!Steps, Up!Jobs, Up!Release
  <2>3. CASE Up!Download(p)
    BY <2>3 DEF Up!Download, Up!Goto, Up!TypeOK, Up!BackedUp, Up!request, Up!files, Up!Ended, Up!Outcomes, Up!Steps
  <2>4. CASE Up!DownloadFails(p)
    BY <2>4 DEF Up!DownloadFails, Up!Goto, Up!MayFail, Up!TypeOK, Up!BackedUp, Up!request, Up!files, Up!Ended, Up!Outcomes, Up!Steps
  <2>5. CASE Up!Stat(p)
    BY <2>5 DEF Up!Stat, Up!Goto, Up!TypeOK, Up!BackedUp, Up!files, Up!Ended, Up!Outcomes, Up!Steps
  <2>6. CASE Up!Backup(p)
    BY <2>6 DEF Up!Backup, Up!Goto, Up!TypeOK, Up!BackedUp, Up!request, Up!files, Up!Ended, Up!Outcomes, Up!Steps
  <2>7. CASE Up!BackupFails(p)
    BY <2>7 DEF Up!BackupFails, Up!Goto, Up!MayFail, Up!TypeOK, Up!BackedUp, Up!request, Up!files, Up!Ended, Up!Outcomes, Up!Steps
  <2>8. CASE Up!Stage(p)
      <3>1. Up!Binary(IF offer = "mislabelled" THEN Up!Dev ELSE target[p], FALSE) \in [version : Nat, runs : BOOLEAN]
        BY <2>8 DEF Up!Stage, Up!TypeOK, Up!BackedUp, Up!Steps, Up!Binary, Up!Versions, Up!Release, Up!Dev
      <3> QED
        BY <2>8, <3>1 DEF Up!Stage, Up!Goto, Up!TypeOK, Up!BackedUp, Up!request, Up!Ended, Up!Outcomes, Up!Steps
  <2>9. CASE Up!ReplaceFails(p)
    BY <2>9 DEF Up!ReplaceFails, Up!Goto, Up!MayFail, Up!TypeOK, Up!BackedUp, Up!request, Up!files, Up!Ended, Up!Outcomes, Up!Steps
  <2>10. CASE Up!Install(p)
    BY <2>10 DEF Up!Install, Up!Goto, Up!TypeOK, Up!BackedUp, Up!request, Up!files, Up!Ended, Up!Outcomes, Up!Steps
  <2>11. CASE Up!Chmod(p)
    BY <2>11 DEF Up!Chmod, Up!Goto, Up!TypeOK, Up!BackedUp, Up!request, Up!files, Up!Ended, Up!Outcomes, Up!Steps, Up!Files, Up!Binary, Up!Versions, Up!Release, Up!Dev
  <2>12. CASE Up!Verify(p)
    BY <2>12 DEF Up!Verify, Up!Goto, Up!TypeOK, Up!BackedUp, Up!request, Up!files, Up!Ended, Up!Outcomes, Up!Steps
  <2>13. CASE Up!VerifyFails(p)
    BY <2>13 DEF Up!VerifyFails, Up!Goto, Up!MayFail, Up!TypeOK, Up!BackedUp, Up!request, Up!files, Up!Ended, Up!Outcomes, Up!Steps
  <2>14. CASE Up!Restore(p)
    BY <2>14 DEF Up!Restore, Up!Goto, Up!TypeOK, Up!BackedUp, Up!request, Up!files, Up!Ended, Up!Outcomes, Up!Steps
  <2>15. CASE Up!RestoreFails(p)
    BY <2>15 DEF Up!RestoreFails, Up!Goto, Up!MayFail, Up!TypeOK, Up!BackedUp, Up!request, Up!files, Up!Ended, Up!Outcomes, Up!Steps
  <2>16. CASE Up!Cleanup(p)
    BY <2>16 DEF Up!Cleanup, Up!Goto, Up!TypeOK, Up!BackedUp, Up!request, Up!files, Up!Ended, Up!Outcomes, Up!Steps
  <2>17. CASE Up!Interrupt(p)
    BY <2>17 DEF Up!Interrupt, Up!TypeOK, Up!BackedUp, Up!files, Up!Ended, Up!Outcomes, Up!Steps
  <2>18. CASE Up!Kill(p)
    BY <2>18 DEF Up!Kill, Up!Goto, Up!TypeOK, Up!BackedUp, Up!request, Up!files, Up!Ended, Up!Outcomes, Up!Steps
  <2>19. CASE Up!CleanupFails(p)
    BY <2>19 DEF Up!CleanupFails, Up!Goto, Up!MayFail, Up!TypeOK, Up!BackedUp, Up!request, Up!files, Up!Ended, Up!Outcomes, Up!Steps
  <2> QED
    BY <1>1, <2>1, <2>2, <2>3, <2>4, <2>5, <2>6, <2>7, <2>8, <2>9, <2>10, <2>11, <2>12, <2>13, <2>14, <2>15, <2>16, <2>17, <2>18, <2>19 DEF Up!Step
<1>2. CASE UNCHANGED Up!vars
  BY <1>2 DEF Up!vars, Up!files, Up!request, Up!BackedUp
<1> QED
  BY <1>1, <1>2 DEF Up!Next

\* Where the working binary is while p is at its step.
HoldsItsBinary(p) ==
    /\ upc[p] \in {"check", "download", "stat", "backup"} =>
            Up!Works(binary) /\ binary = Up!Binary(job[p].version, TRUE)
    /\ upc[p] \in {"stage", "install", "chmod", "run", "rollback", "undo"} =>
            Up!Works(backup[p]) /\ backup[p] = Up!Binary(job[p].version, TRUE)
    /\ upc[p] = "cleanup" => Up!Works(binary) /\ binary = Up!Binary(target[p], TRUE)

\* A step of a process that runs alone is about that process only: when it still
\* has its binary, or leaves one that works, StepByStep goes on.
LEMMA KeepsAlone ==
    ASSUME Up!TypeOK, Up!StepByStep, NEW p \in Process, upc[p] \notin Up!Ended,
           overlap' = overlap,
           \A q \in Process \ {p} : upc'[q] = upc[q],
           ~overlap => HoldsItsBinary(p)',
           ~overlap /\ upc'[p] \in Up!Ended => Up!Works(binary') \/ Up!Works(backup'[p])
    PROVE  Up!StepByStep'
PROOF
<1> SUFFICES ASSUME ~overlap
             PROVE  Up!StepByStep'
  BY DEF Up!StepByStep
<1>1. \A q \in Process \ {p} : upc[q] \in Up!Ended
  BY DEF Up!StepByStep
<1>2. \A q \in Process \ {p} : upc'[q] \in Up!Ended
  BY <1>1
<1>3. \A q, u \in Process : upc'[q] \notin Up!Ended /\ upc'[u] \notin Up!Ended => q = u
  BY <1>2
<1>4. \A q \in Process : HoldsItsBinary(q)'
  BY <1>2 DEF HoldsItsBinary, Up!Ended, Up!Outcomes
<1>5. (\A q \in Process : upc'[q] \in Up!Ended) => (Up!Works(binary') \/ \E q \in Process : Up!Works(backup'[q]))
  OBVIOUS
<1> QED
  BY <1>3, <1>4, <1>5 DEF Up!StepByStep, HoldsItsBinary, Up!Works

\* A step of an upgrade that runs alone leaves what the next one expects.
LEMMA AloneStep ==
    ASSUME Up!TypeOK, Up!BackedUp, Up!StepByStep, [Up!Next]_(Up!vars)
    PROVE  Up!StepByStep'
PROOF
<1> USE BinaryAssumption DEF Up!UpgradeAssumption
<1>1. ASSUME NEW p \in Process, Up!Step(p)
      PROVE  Up!StepByStep'
  <2>1. CASE Up!Start(p)
    <3>1. CASE overlap'
      BY <3>1 DEF Up!StepByStep
    <3>2. CASE ~overlap'
      <4>1. \A q \in Process : upc[q] \in Up!Ended
        BY <2>1, <3>2 DEF Up!Start
      <4>2. upc' = [upc EXCEPT ![p] = "check"] /\ UNCHANGED <<binary, backup>>
        BY <2>1 DEF Up!Start, Up!Goto, Up!files
      <4>3. \A q \in Process \ {p} : upc'[q] \in Up!Ended
        BY <4>1, <4>2 DEF Up!TypeOK
      <4>4. upc'[p] = "check"
        BY <4>2 DEF Up!TypeOK
      <4>5. binary # None /\ binary.runs /\ job'[p].version = binary.version
        BY <2>1 DEF Up!Start, Up!TypeOK
      <4>6. Up!Works(binary') /\ binary' = Up!Binary(job'[p].version, TRUE)
        BY <4>2, <4>5 DEF Up!TypeOK, Up!Files, Up!Binary, Up!Works
      <4> QED
        BY <4>3, <4>4, <4>6 DEF Up!StepByStep, Up!Ended, Up!Outcomes
    <3> QED
      BY <3>1, <3>2
  <2>a. ~overlap => HoldsItsBinary(p)
    BY DEF Up!StepByStep, HoldsItsBinary
  <2>2. CASE Up!Check(p)
    <3>1. upc[p] \notin Up!Ended /\ overlap' = overlap /\ \A q \in Process \ {p} : upc'[q] = upc[q]
      BY <2>2 DEF Up!Check, Up!Goto, Up!TypeOK, Up!files, Up!request, Up!Ended, Up!Outcomes
    <3>2. ~overlap => HoldsItsBinary(p)'
      BY <2>2, <2>a DEF Up!Check, Up!Goto, Up!TypeOK, Up!files, Up!request, Up!Ended, Up!Outcomes, HoldsItsBinary, Up!Works
    <3>3. ~overlap /\ upc'[p] \in Up!Ended => Up!Works(binary') \/ Up!Works(backup'[p])
      BY <2>2, <2>a DEF Up!Check, Up!Goto, Up!TypeOK, Up!files, Up!request, Up!Ended, Up!Outcomes, Up!Steps, HoldsItsBinary, Up!Works
    <3> QED
      BY <3>1, <3>2, <3>3, KeepsAlone
  <2>3. CASE Up!Download(p)
    <3>1. upc[p] \notin Up!Ended /\ overlap' = overlap /\ \A q \in Process \ {p} : upc'[q] = upc[q]
      BY <2>3 DEF Up!Download, Up!Goto, Up!TypeOK, Up!files, Up!request, Up!Ended, Up!Outcomes
    <3>2. ~overlap => HoldsItsBinary(p)'
      BY <2>3, <2>a DEF Up!Download, Up!Goto, Up!TypeOK, Up!files, Up!request, Up!Ended, Up!Outcomes, HoldsItsBinary, Up!Works
    <3>3. ~overlap /\ upc'[p] \in Up!Ended => Up!Works(binary') \/ Up!Works(backup'[p])
      BY <2>3, <2>a DEF Up!Download, Up!Goto, Up!TypeOK, Up!files, Up!request, Up!Ended, Up!Outcomes, Up!Steps, HoldsItsBinary, Up!Works
    <3> QED
      BY <3>1, <3>2, <3>3, KeepsAlone
  <2>4. CASE Up!DownloadFails(p)
    <3>1. upc[p] \notin Up!Ended /\ overlap' = overlap /\ \A q \in Process \ {p} : upc'[q] = upc[q]
      BY <2>4 DEF Up!DownloadFails, Up!Goto, Up!MayFail, Up!TypeOK, Up!files, Up!request, Up!Ended, Up!Outcomes
    <3>2. ~overlap => HoldsItsBinary(p)'
      BY <2>4, <2>a DEF Up!DownloadFails, Up!Goto, Up!MayFail, Up!TypeOK, Up!files, Up!request, Up!Ended, Up!Outcomes, HoldsItsBinary, Up!Works
    <3>3. ~overlap /\ upc'[p] \in Up!Ended => Up!Works(binary') \/ Up!Works(backup'[p])
      BY <2>4, <2>a DEF Up!DownloadFails, Up!Goto, Up!MayFail, Up!TypeOK, Up!files, Up!request, Up!Ended, Up!Outcomes, Up!Steps, HoldsItsBinary, Up!Works
    <3> QED
      BY <3>1, <3>2, <3>3, KeepsAlone
  <2>5. CASE Up!Stat(p)
    <3>1. upc[p] \notin Up!Ended /\ overlap' = overlap /\ \A q \in Process \ {p} : upc'[q] = upc[q]
      BY <2>5 DEF Up!Stat, Up!Goto, Up!TypeOK, Up!files, Up!request, Up!Ended, Up!Outcomes
    <3>2. ~overlap => HoldsItsBinary(p)'
      BY <2>5, <2>a DEF Up!Stat, Up!Goto, Up!TypeOK, Up!files, Up!request, Up!Ended, Up!Outcomes, HoldsItsBinary, Up!Works
    <3>3. ~overlap /\ upc'[p] \in Up!Ended => Up!Works(binary') \/ Up!Works(backup'[p])
      BY <2>5, <2>a DEF Up!Stat, Up!Goto, Up!TypeOK, Up!files, Up!request, Up!Ended, Up!Outcomes, Up!Steps, HoldsItsBinary, Up!Works
    <3> QED
      BY <3>1, <3>2, <3>3, KeepsAlone
  <2>6. CASE Up!Backup(p)
    <3>1. upc[p] \notin Up!Ended /\ overlap' = overlap /\ \A q \in Process \ {p} : upc'[q] = upc[q]
      BY <2>6 DEF Up!Backup, Up!Goto, Up!TypeOK, Up!files, Up!request, Up!Ended, Up!Outcomes
    <3>2. ~overlap => HoldsItsBinary(p)'
      BY <2>6, <2>a DEF Up!Backup, Up!Goto, Up!TypeOK, Up!files, Up!request, Up!Ended, Up!Outcomes, HoldsItsBinary, Up!Works
    <3>3. ~overlap /\ upc'[p] \in Up!Ended => Up!Works(binary') \/ Up!Works(backup'[p])
      BY <2>6, <2>a DEF Up!Backup, Up!Goto, Up!TypeOK, Up!files, Up!request, Up!Ended, Up!Outcomes, Up!Steps, HoldsItsBinary, Up!Works
    <3> QED
      BY <3>1, <3>2, <3>3, KeepsAlone
  <2>7. CASE Up!BackupFails(p)
    <3>1. upc[p] \notin Up!Ended /\ overlap' = overlap /\ \A q \in Process \ {p} : upc'[q] = upc[q]
      BY <2>7 DEF Up!BackupFails, Up!Goto, Up!MayFail, Up!TypeOK, Up!files, Up!request, Up!Ended, Up!Outcomes
    <3>2. ~overlap => HoldsItsBinary(p)'
      BY <2>7, <2>a DEF Up!BackupFails, Up!Goto, Up!MayFail, Up!TypeOK, Up!files, Up!request, Up!Ended, Up!Outcomes, HoldsItsBinary, Up!Works
    <3>3. ~overlap /\ upc'[p] \in Up!Ended => Up!Works(binary') \/ Up!Works(backup'[p])
      BY <2>7, <2>a DEF Up!BackupFails, Up!Goto, Up!MayFail, Up!TypeOK, Up!files, Up!request, Up!Ended, Up!Outcomes, Up!Steps, HoldsItsBinary, Up!Works
    <3> QED
      BY <3>1, <3>2, <3>3, KeepsAlone
  <2>8. CASE Up!Stage(p)
    <3>1. upc[p] \notin Up!Ended /\ overlap' = overlap /\ \A q \in Process \ {p} : upc'[q] = upc[q]
      BY <2>8 DEF Up!Stage, Up!Goto, Up!TypeOK, Up!files, Up!request, Up!Ended, Up!Outcomes
    <3>2. ~overlap => HoldsItsBinary(p)'
      BY <2>8, <2>a DEF Up!Stage, Up!Goto, Up!TypeOK, Up!files, Up!request, Up!Ended, Up!Outcomes, HoldsItsBinary, Up!Works
    <3>3. ~overlap /\ upc'[p] \in Up!Ended => Up!Works(binary') \/ Up!Works(backup'[p])
      BY <2>8, <2>a DEF Up!Stage, Up!Goto, Up!TypeOK, Up!files, Up!request, Up!Ended, Up!Outcomes, Up!Steps, HoldsItsBinary, Up!Works
    <3> QED
      BY <3>1, <3>2, <3>3, KeepsAlone
  <2>9. CASE Up!ReplaceFails(p)
    <3>1. upc[p] \notin Up!Ended /\ overlap' = overlap /\ \A q \in Process \ {p} : upc'[q] = upc[q]
      BY <2>9 DEF Up!ReplaceFails, Up!Goto, Up!MayFail, Up!TypeOK, Up!files, Up!request, Up!Ended, Up!Outcomes
    <3>2. ~overlap => HoldsItsBinary(p)'
      BY <2>9, <2>a DEF Up!ReplaceFails, Up!Goto, Up!MayFail, Up!TypeOK, Up!files, Up!request, Up!Ended, Up!Outcomes, HoldsItsBinary, Up!Works
    <3>3. ~overlap /\ upc'[p] \in Up!Ended => Up!Works(binary') \/ Up!Works(backup'[p])
      BY <2>9, <2>a DEF Up!ReplaceFails, Up!Goto, Up!MayFail, Up!TypeOK, Up!files, Up!request, Up!Ended, Up!Outcomes, Up!Steps, HoldsItsBinary, Up!Works
    <3> QED
      BY <3>1, <3>2, <3>3, KeepsAlone
  <2>10. CASE Up!Install(p)
    <3>1. upc[p] \notin Up!Ended /\ overlap' = overlap /\ \A q \in Process \ {p} : upc'[q] = upc[q]
      BY <2>10 DEF Up!Install, Up!Goto, Up!TypeOK, Up!files, Up!request, Up!Ended, Up!Outcomes
    <3>2. ~overlap => HoldsItsBinary(p)'
      BY <2>10, <2>a DEF Up!Install, Up!Goto, Up!TypeOK, Up!files, Up!request, Up!Ended, Up!Outcomes, HoldsItsBinary, Up!Works
    <3>3. ~overlap /\ upc'[p] \in Up!Ended => Up!Works(binary') \/ Up!Works(backup'[p])
      BY <2>10, <2>a DEF Up!Install, Up!Goto, Up!TypeOK, Up!files, Up!request, Up!Ended, Up!Outcomes, Up!Steps, HoldsItsBinary, Up!Works
    <3> QED
      BY <3>1, <3>2, <3>3, KeepsAlone
  <2>11. CASE Up!Chmod(p)
    <3>1. upc[p] \notin Up!Ended /\ overlap' = overlap /\ \A q \in Process \ {p} : upc'[q] = upc[q]
      BY <2>11 DEF Up!Chmod, Up!Goto, Up!TypeOK, Up!files, Up!request, Up!Ended, Up!Outcomes
    <3>2. ~overlap => HoldsItsBinary(p)'
      BY <2>11, <2>a DEF Up!Chmod, Up!Goto, Up!TypeOK, Up!files, Up!request, Up!Ended, Up!Outcomes, HoldsItsBinary, Up!Works
    <3>3. ~overlap /\ upc'[p] \in Up!Ended => Up!Works(binary') \/ Up!Works(backup'[p])
      BY <2>11, <2>a DEF Up!Chmod, Up!Goto, Up!TypeOK, Up!files, Up!request, Up!Ended, Up!Outcomes, Up!Steps, HoldsItsBinary, Up!Works
    <3> QED
      BY <3>1, <3>2, <3>3, KeepsAlone
  <2>12. CASE Up!Verify(p)
    <3>1. upc[p] \notin Up!Ended /\ overlap' = overlap /\ \A q \in Process \ {p} : upc'[q] = upc[q]
      BY <2>12 DEF Up!Verify, Up!Goto, Up!TypeOK, Up!files, Up!request, Up!Ended, Up!Outcomes
    <3>2. ~overlap => HoldsItsBinary(p)'
      BY <2>12, <2>a DEF Up!Verify, Up!Goto, Up!TypeOK, Up!files, Up!request, Up!Ended, Up!Outcomes, HoldsItsBinary, Up!Works, Up!Files, Up!Binary
    <3>3. ~overlap /\ upc'[p] \in Up!Ended => Up!Works(binary') \/ Up!Works(backup'[p])
      BY <2>12, <2>a DEF Up!Verify, Up!Goto, Up!TypeOK, Up!files, Up!request, Up!Ended, Up!Outcomes, Up!Steps, HoldsItsBinary, Up!Works
    <3> QED
      BY <3>1, <3>2, <3>3, KeepsAlone
  <2>13. CASE Up!VerifyFails(p)
    <3>1. upc[p] \notin Up!Ended /\ overlap' = overlap /\ \A q \in Process \ {p} : upc'[q] = upc[q]
      BY <2>13 DEF Up!VerifyFails, Up!Goto, Up!MayFail, Up!TypeOK, Up!files, Up!request, Up!Ended, Up!Outcomes
    <3>2. ~overlap => HoldsItsBinary(p)'
      BY <2>13, <2>a DEF Up!VerifyFails, Up!Goto, Up!MayFail, Up!TypeOK, Up!files, Up!request, Up!Ended, Up!Outcomes, HoldsItsBinary, Up!Works
    <3>3. ~overlap /\ upc'[p] \in Up!Ended => Up!Works(binary') \/ Up!Works(backup'[p])
      BY <2>13, <2>a DEF Up!VerifyFails, Up!Goto, Up!MayFail, Up!TypeOK, Up!files, Up!request, Up!Ended, Up!Outcomes, Up!Steps, HoldsItsBinary, Up!Works
    <3> QED
      BY <3>1, <3>2, <3>3, KeepsAlone
  <2>14. CASE Up!Restore(p)
    <3>1. upc[p] \notin Up!Ended /\ overlap' = overlap /\ \A q \in Process \ {p} : upc'[q] = upc[q]
      BY <2>14 DEF Up!Restore, Up!Goto, Up!TypeOK, Up!files, Up!request, Up!Ended, Up!Outcomes
    <3>2. ~overlap => HoldsItsBinary(p)'
      BY <2>14, <2>a DEF Up!Restore, Up!Goto, Up!TypeOK, Up!files, Up!request, Up!Ended, Up!Outcomes, HoldsItsBinary, Up!Works
    <3>3. ~overlap /\ upc'[p] \in Up!Ended => Up!Works(binary') \/ Up!Works(backup'[p])
      BY <2>14, <2>a DEF Up!Restore, Up!Goto, Up!TypeOK, Up!files, Up!request, Up!Ended, Up!Outcomes, Up!Steps, HoldsItsBinary, Up!Works
    <3> QED
      BY <3>1, <3>2, <3>3, KeepsAlone
  <2>15. CASE Up!RestoreFails(p)
    <3>1. upc[p] \notin Up!Ended /\ overlap' = overlap /\ \A q \in Process \ {p} : upc'[q] = upc[q]
      BY <2>15 DEF Up!RestoreFails, Up!Goto, Up!MayFail, Up!TypeOK, Up!files, Up!request, Up!Ended, Up!Outcomes
    <3>2. ~overlap => HoldsItsBinary(p)'
      BY <2>15, <2>a DEF Up!RestoreFails, Up!Goto, Up!MayFail, Up!TypeOK, Up!files, Up!request, Up!Ended, Up!Outcomes, HoldsItsBinary, Up!Works
    <3>3. ~overlap /\ upc'[p] \in Up!Ended => Up!Works(binary') \/ Up!Works(backup'[p])
      BY <2>15, <2>a DEF Up!RestoreFails, Up!Goto, Up!MayFail, Up!TypeOK, Up!files, Up!request, Up!Ended, Up!Outcomes, Up!Steps, HoldsItsBinary, Up!Works
    <3> QED
      BY <3>1, <3>2, <3>3, KeepsAlone
  <2>16. CASE Up!Cleanup(p)
    <3>1. upc[p] \notin Up!Ended /\ overlap' = overlap /\ \A q \in Process \ {p} : upc'[q] = upc[q]
      BY <2>16 DEF Up!Cleanup, Up!Goto, Up!TypeOK, Up!files, Up!request, Up!Ended, Up!Outcomes
    <3>2. ~overlap => HoldsItsBinary(p)'
      BY <2>16, <2>a DEF Up!Cleanup, Up!Goto, Up!TypeOK, Up!files, Up!request, Up!Ended, Up!Outcomes, HoldsItsBinary, Up!Works
    <3>3. ~overlap /\ upc'[p] \in Up!Ended => Up!Works(binary') \/ Up!Works(backup'[p])
      BY <2>16, <2>a DEF Up!Cleanup, Up!Goto, Up!TypeOK, Up!files, Up!request, Up!Ended, Up!Outcomes, Up!Steps, HoldsItsBinary, Up!Works
    <3> QED
      BY <3>1, <3>2, <3>3, KeepsAlone
  <2>17. CASE Up!Interrupt(p)
    <3>1. upc[p] \notin Up!Ended /\ overlap' = overlap /\ \A q \in Process \ {p} : upc'[q] = upc[q]
      BY <2>17 DEF Up!Interrupt, Up!TypeOK, Up!files, Up!request, Up!Ended, Up!Outcomes
    <3>2. ~overlap => HoldsItsBinary(p)'
      BY <2>17, <2>a DEF Up!Interrupt, Up!TypeOK, Up!files, Up!request, Up!Ended, Up!Outcomes, HoldsItsBinary, Up!Works
    <3>3. ~overlap /\ upc'[p] \in Up!Ended => Up!Works(binary') \/ Up!Works(backup'[p])
      BY <2>17, <2>a DEF Up!Interrupt, Up!TypeOK, Up!files, Up!request, Up!Ended, Up!Outcomes, Up!Steps, HoldsItsBinary, Up!Works
    <3> QED
      BY <3>1, <3>2, <3>3, KeepsAlone
  <2>18. CASE Up!Kill(p)
    <3>1. upc[p] \notin Up!Ended /\ overlap' = overlap /\ \A q \in Process \ {p} : upc'[q] = upc[q]
      BY <2>18 DEF Up!Kill, Up!Goto, Up!TypeOK, Up!files, Up!request, Up!Ended, Up!Outcomes
    <3>2. ~overlap => HoldsItsBinary(p)'
      BY <2>18, <2>a DEF Up!Kill, Up!Goto, Up!TypeOK, Up!files, Up!request, Up!Ended, Up!Outcomes, HoldsItsBinary, Up!Works
    <3>3. ~overlap /\ upc'[p] \in Up!Ended => Up!Works(binary') \/ Up!Works(backup'[p])
      BY <2>18, <2>a DEF Up!Kill, Up!Goto, Up!TypeOK, Up!files, Up!request, Up!Ended, Up!Outcomes, Up!Steps, HoldsItsBinary, Up!Works
    <3> QED
      BY <3>1, <3>2, <3>3, KeepsAlone
  <2>19. CASE Up!CleanupFails(p)
    <3>1. upc[p] \notin Up!Ended /\ overlap' = overlap /\ \A q \in Process \ {p} : upc'[q] = upc[q]
      BY <2>19 DEF Up!CleanupFails, Up!Goto, Up!MayFail, Up!TypeOK, Up!files, Up!request, Up!Ended, Up!Outcomes
    <3>2. ~overlap => HoldsItsBinary(p)'
      BY <2>19, <2>a DEF Up!CleanupFails, Up!Goto, Up!MayFail, Up!TypeOK, Up!files, Up!request, Up!Ended, Up!Outcomes, HoldsItsBinary, Up!Works
    <3>3. ~overlap /\ upc'[p] \in Up!Ended => Up!Works(binary') \/ Up!Works(backup'[p])
      BY <2>19, <2>a DEF Up!CleanupFails, Up!Goto, Up!MayFail, Up!TypeOK, Up!files, Up!request, Up!Ended, Up!Outcomes, Up!Steps, HoldsItsBinary, Up!Works
    <3> QED
      BY <3>1, <3>2, <3>3, KeepsAlone
  <2> QED
    BY <1>1, <2>1, <2>2, <2>3, <2>4, <2>5, <2>6, <2>7, <2>8, <2>9, <2>10, <2>11, <2>12, <2>13, <2>14, <2>15, <2>16, <2>17, <2>18, <2>19 DEF Up!Step
<1>2. CASE UNCHANGED Up!vars
  BY <1>2 DEF Up!vars, Up!files, Up!request, Up!StepByStep, Up!Ended
<1> QED
  BY <1>1, <1>2 DEF Up!Next

UpgradeInv == Up!TypeOK /\ Up!BackedUp /\ Up!StepByStep

\* Every reachable state is typed, and has its binary where BackedUp and
\* StepByStep say.
THEOREM UpgradeInvariant == Up!Spec => []UpgradeInv
PROOF
<1>1. ASSUME Up!Init PROVE UpgradeInv
  <2>1. Up!TypeOK
    <3>1. binary \in Up!Files
      BY <1>1 DEF Up!Init, Up!Files, Up!Binary
    <3>2. job \in [Process -> Up!Jobs]
      BY <1>1 DEF Up!Init, Up!Jobs
    <3>3. upc \in [Process -> Up!Ended \cup Up!Steps]
      BY <1>1 DEF Up!Init, Up!Ended
    <3>4. backup \in [Process -> Up!Files] /\ staging \in [Process -> Up!Files] /\ target \in [Process -> Up!Release \cup {None}]
      BY <1>1 DEF Up!Init, Up!Files
    <3>5. faults \in 0 .. MaxFaults
      BY <1>1, BinaryAssumption DEF Up!Init, Up!UpgradeAssumption
    <3> QED
      BY <1>1, <3>1, <3>2, <3>3, <3>4, <3>5 DEF Up!Init, Up!TypeOK
  <2>2. PICK v \in Up!Versions : binary = Up!Binary(v, TRUE)
    BY <1>1 DEF Up!Init
  <2>3. Up!Binary(v, TRUE) \in [version : Nat, runs : BOOLEAN] /\ Up!Binary(v, TRUE).runs
    BY <2>2, BinaryAssumption DEF Up!Binary, Up!Versions, Up!Release, Up!Dev, Up!UpgradeAssumption
  <2>6. Up!Works(binary)
    BY <2>2, <2>3, BinaryAssumption DEF Up!Works, Up!UpgradeAssumption
  <2>4. Up!BackedUp
    BY <1>1, <2>6 DEF Up!Init, Up!BackedUp, Up!Works, Up!Steps
  <2>5. Up!StepByStep
    BY <1>1, <2>6 DEF Up!Init, Up!StepByStep, Up!Ended
  <2> QED
    BY <2>1, <2>4, <2>5 DEF UpgradeInv
<1>2. ASSUME UpgradeInv, [Up!Next]_(Up!vars) PROVE UpgradeInv'
  BY <1>2, UpgradeTypeStep, BackupStep, AloneStep DEF UpgradeInv
<1> QED
  BY <1>1, <1>2, PTL DEF Up!Spec

\* TypeOK, for any number of processes, releases and faults.
THEOREM UpgradeTypes == Up!Spec => []Up!TypeOK
PROOF
<1>1. UpgradeInv => Up!TypeOK
  BY DEF UpgradeInv
<1> QED
  BY <1>1, UpgradeInvariant, PTL

\* However many upgrades overlap, fail and are killed, the binary is at its path
\* or is somebody's backup.
THEOREM BinaryNeverGone == Up!Spec => []Up!NeverGone
PROOF
<1>1. UpgradeInv => Up!NeverGone
  BY DEF UpgradeInv, Up!BackedUp, Up!NeverGone
<1> QED
  BY <1>1, UpgradeInvariant, PTL

\* An upgrade that runs alone leaves at every moment a binary that runs.
THEOREM BinaryAlwaysRuns == Up!Spec => []SomeBinaryWorks
PROOF
<1>1. ASSUME UpgradeInv, ~overlap PROVE Up!Works(binary) \/ \E p \in Process : Up!Works(backup[p])
  <2>1. CASE \A p \in Process : upc[p] \in Up!Ended
    BY <1>1, <2>1 DEF UpgradeInv, Up!StepByStep
  <2>2. ASSUME NEW p \in Process, upc[p] \notin Up!Ended
        PROVE  Up!Works(binary) \/ Up!Works(backup[p])
    BY <1>1, <2>2 DEF UpgradeInv, Up!TypeOK, Up!StepByStep, Up!Ended, Up!Outcomes, Up!Steps
  <2> QED
    BY <2>1, <2>2
<1>2. UpgradeInv => SomeBinaryWorks
  BY <1>1 DEF SomeBinaryWorks, Up!SomeBinaryWorks
<1> QED
  BY <1>2, UpgradeInvariant, PTL

\* What an upgrade that ran alone says when it ends is what it leaves.
THEOREM OutcomesAreTrue == Up!Spec => OutcomeIsTrue
PROOF
<1>1. ASSUME UpgradeInv, NEW p \in Process, Up!Step(p) PROVE Up!EndsTruthfully
  <2>1. CASE Up!Start(p)
    BY <1>1, <2>1 DEF Up!Start, Up!Goto, Up!EndsTruthfully, UpgradeInv, Up!TypeOK, Up!StepByStep, Up!Ended, Up!Outcomes, Up!Steps
  <2>2. CASE Up!Check(p)
    BY <1>1, <2>2 DEF Up!Check, Up!Goto, Up!EndsTruthfully, UpgradeInv, Up!TypeOK, Up!StepByStep, Up!Ended, Up!Outcomes, Up!Steps, Up!files
  <2>3. CASE Up!Download(p)
    BY <1>1, <2>3 DEF Up!Download, Up!Goto, Up!EndsTruthfully, UpgradeInv, Up!TypeOK, Up!StepByStep, Up!Ended, Up!Outcomes, Up!Steps, Up!request, Up!files
  <2>4. CASE Up!DownloadFails(p)
    BY <1>1, <2>4 DEF Up!DownloadFails, Up!Goto, Up!MayFail, Up!EndsTruthfully, UpgradeInv, Up!TypeOK, Up!StepByStep, Up!Ended, Up!Outcomes, Up!Steps, Up!request, Up!files
  <2>5. CASE Up!Stat(p)
    <3>1. CASE overlap
      BY <1>1, <2>5, <3>1 DEF Up!Stat, Up!EndsTruthfully
    <3>2. CASE ~overlap
      <4>1. Up!Works(binary) /\ binary # None /\ binary = Up!Binary(job[p].version, TRUE)
        BY <1>1, <2>5, <3>2 DEF Up!Stat, UpgradeInv, Up!TypeOK, Up!StepByStep, Up!Works
      <4>2. upc' = [upc EXCEPT ![p] = "backup"]
        BY <2>5, <4>1 DEF Up!Stat, Up!Goto
      <4> QED
        BY <1>1, <2>5, <3>2, <4>1, <4>2 DEF Up!Stat, UpgradeInv, Up!TypeOK, Up!EndsTruthfully, Up!files, Up!request, Up!Ended, Up!Outcomes, Up!Steps
    <3> QED
      BY <3>1, <3>2
  <2>6. CASE Up!Backup(p)
    <3>1. CASE overlap
      BY <1>1, <2>6, <3>1 DEF Up!Backup, Up!EndsTruthfully
    <3>2. CASE ~overlap
      <4>1. Up!Works(binary) /\ binary # None /\ binary = Up!Binary(job[p].version, TRUE)
        BY <1>1, <2>6, <3>2 DEF Up!Backup, UpgradeInv, Up!TypeOK, Up!StepByStep, Up!Works
      <4>2. upc' = [upc EXCEPT ![p] = "stage"]
        BY <2>6, <4>1 DEF Up!Backup, Up!Goto
      <4> QED
        BY <1>1, <2>6, <3>2, <4>1, <4>2 DEF Up!Backup, UpgradeInv, Up!TypeOK, Up!EndsTruthfully, Up!files, Up!request, Up!Ended, Up!Outcomes, Up!Steps
    <3> QED
      BY <3>1, <3>2
  <2>7. CASE Up!BackupFails(p)
    BY <1>1, <2>7 DEF Up!BackupFails, Up!Goto, Up!MayFail, Up!EndsTruthfully, UpgradeInv, Up!TypeOK, Up!StepByStep, Up!Ended, Up!Outcomes, Up!Steps, Up!request, Up!files
  <2>8. CASE Up!Stage(p)
    BY <1>1, <2>8 DEF Up!Stage, Up!Goto, Up!EndsTruthfully, UpgradeInv, Up!TypeOK, Up!StepByStep, Up!Ended, Up!Outcomes, Up!Steps, Up!request, Up!files
  <2>9. CASE Up!ReplaceFails(p)
    BY <1>1, <2>9 DEF Up!ReplaceFails, Up!Goto, Up!MayFail, Up!EndsTruthfully, UpgradeInv, Up!TypeOK, Up!StepByStep, Up!Ended, Up!Outcomes, Up!Steps, Up!request, Up!files
  <2>10. CASE Up!Install(p)
    BY <1>1, <2>10 DEF Up!Install, Up!Goto, Up!EndsTruthfully, UpgradeInv, Up!TypeOK, Up!StepByStep, Up!Ended, Up!Outcomes, Up!Steps, Up!request, Up!files
  <2>11. CASE Up!Chmod(p)
    BY <1>1, <2>11 DEF Up!Chmod, Up!Goto, Up!EndsTruthfully, UpgradeInv, Up!TypeOK, Up!StepByStep, Up!Ended, Up!Outcomes, Up!Steps, Up!request, Up!files
  <2>12. CASE Up!Verify(p)
    BY <1>1, <2>12 DEF Up!Verify, Up!Goto, Up!EndsTruthfully, UpgradeInv, Up!TypeOK, Up!StepByStep, Up!Ended, Up!Outcomes, Up!Steps, Up!request, Up!files
  <2>13. CASE Up!VerifyFails(p)
    BY <1>1, <2>13 DEF Up!VerifyFails, Up!Goto, Up!MayFail, Up!EndsTruthfully, UpgradeInv, Up!TypeOK, Up!StepByStep, Up!Ended, Up!Outcomes, Up!Steps, Up!request, Up!files
  <2>14. CASE Up!Restore(p)
    BY <1>1, <2>14 DEF Up!Restore, Up!Goto, Up!EndsTruthfully, UpgradeInv, Up!TypeOK, Up!StepByStep, Up!Ended, Up!Outcomes, Up!Steps, Up!request, Up!files
  <2>15. CASE Up!RestoreFails(p)
    BY <1>1, <2>15 DEF Up!RestoreFails, Up!Goto, Up!MayFail, Up!EndsTruthfully, UpgradeInv, Up!TypeOK, Up!StepByStep, Up!Ended, Up!Outcomes, Up!Steps, Up!request, Up!files
  <2>16. CASE Up!Cleanup(p)
    BY <1>1, <2>16 DEF Up!Cleanup, Up!Goto, Up!EndsTruthfully, UpgradeInv, Up!TypeOK, Up!StepByStep, Up!Ended, Up!Outcomes, Up!Steps, Up!request, Up!files
  <2>17. CASE Up!Interrupt(p)
    BY <1>1, <2>17 DEF Up!Interrupt, Up!EndsTruthfully, UpgradeInv, Up!TypeOK, Up!StepByStep, Up!Ended, Up!Outcomes, Up!Steps, Up!files
  <2>18. CASE Up!Kill(p)
    BY <1>1, <2>18 DEF Up!Kill, Up!Goto, Up!EndsTruthfully, UpgradeInv, Up!TypeOK, Up!StepByStep, Up!Ended, Up!Outcomes, Up!Steps, Up!request, Up!files
  <2>19. CASE Up!CleanupFails(p)
    BY <1>1, <2>19 DEF Up!CleanupFails, Up!Goto, Up!MayFail, Up!EndsTruthfully, UpgradeInv, Up!TypeOK, Up!StepByStep, Up!Ended, Up!Outcomes, Up!Steps, Up!request, Up!files
  <2> QED
    BY <1>1, <2>1, <2>2, <2>3, <2>4, <2>5, <2>6, <2>7, <2>8, <2>9, <2>10, <2>11, <2>12, <2>13, <2>14, <2>15, <2>16, <2>17, <2>18, <2>19 DEF Up!Step
<1>2. ASSUME UpgradeInv, [Up!Next]_(Up!vars) PROVE [Up!EndsTruthfully]_(Up!vars)
  BY <1>1, <1>2 DEF Up!Next
<1> QED
  BY <1>2, UpgradeInvariant, PTL DEF Up!Spec, OutcomeIsTrue, Up!OutcomeIsTrue

(***************************************************************************)
(* Artifacts: what is proved of the parts holds of the whole.              *)
(***************************************************************************)
LEMMA FetchIsPart == ArtifactsSpec => Spec
<1>1. ArtifactsInit => Init
  BY DEF ArtifactsInit
<1>2. ASSUME [ArtifactsNext]_artifactsVars PROVE [Next]_vars
  BY <1>2 DEF ArtifactsNext, artifactsVars
<1> QED
  BY <1>1, <1>2, PTL DEF ArtifactsSpec, Spec

LEMMA RegistryIsPart == ArtifactsSpec => R!Spec
<1>1. ArtifactsInit => R!Init
  BY DEF ArtifactsInit
<1>2. ASSUME [ArtifactsNext]_artifactsVars PROVE [R!Next]_(R!vars)
  BY <1>2 DEF ArtifactsNext, artifactsVars, registryVars, R!vars
<1> QED
  BY <1>1, <1>2, PTL DEF ArtifactsSpec, R!Spec

LEMMA UpgradeIsPart == ArtifactsSpec => Up!Spec
<1>1. ArtifactsInit => Up!Init
  BY DEF ArtifactsInit
<1>2. ASSUME [ArtifactsNext]_artifactsVars PROVE [Up!Next]_(Up!vars)
  BY <1>2 DEF ArtifactsNext, artifactsVars, upgradeVars, Up!vars, Up!files, Up!request
<1> QED
  BY <1>1, <1>2, PTL DEF ArtifactsSpec, Up!Spec

================================================================================
