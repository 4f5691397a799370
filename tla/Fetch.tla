--------------------------------- MODULE Fetch ---------------------------------
(***************************************************************************)
(* From a URL to an extracted archive: Downloader.DownloadWithProgress,    *)
(* Downloader.Verify and the extractors, in the order in which the tool    *)
(* and runtime installers call them, in a temporary directory of their     *)
(* own.  The server may answer with anything, cut the answer short or      *)
(* never end it; the archive may have its entries in any order.            *)
(*                                                                         *)
(* An entry has a path and the paths above it, what a file holds, what a   *)
(* link leads to, and whether its mode keeps the user, who is not root,    *)
(* from writing to it.                                                     *)
(***************************************************************************)
EXTENDS Checksums, Sequences

CONSTANTS
    Requests,   \* what may be asked for
    Contents,   \* what a server may send; "garbage" is no archive
    File        \* the name under which the download is kept

\* What a request is made of: one of three kinds of checksum, whose file has its
\* lines in order, and an archive, whose entries are in order too and below others.
ASSUME FetchAssumption ==
    \A q \in Requests :
        /\ q.checksum.kind \in {"none", "value", "url"}
        /\ q.checksum.kind = "url" => DOMAIN q.checksum.file.lines \subseteq Nat
        /\ Len(q.archive) \in Nat /\ DOMAIN q.archive = 1 .. Len(q.archive)
        /\ \A i \in DOMAIN q.archive :
              /\ q.archive[i].kind \in {"file", "dir", "symlink", "hardlink"}
              /\ q.archive[i].path \notin q.archive[i].above

VARIABLES
    request,    \* what is fetched: the URL's scheme and suffix, the checksum, the
                \* type of the archive (pkg, of macOS, is left out), or "", and its entries
    pc,         \* "request", "receive", "verify", "extract", "link", "done" or "failed"
    tmp,        \* archive.tmp: "none" or "partial"
    dest,       \* content of the archive's file, or ""
    read,       \* entries read
    deferred,   \* links to make when all entries are read: where in the archive they are
    tree        \* what is extracted: paths, with what is there

vars == <<request, pc, tmp, dest, read, deferred, tree>>

--------------------------------------------------------------------------------
\* validateDownloadURL
AllowedURL(scheme) == scheme \in {"https", "http://localhost"}

\* DetectArchiveType looks at the suffix as it is written; an explicit type is
\* taken as it is.
DetectArchiveType(suffix) ==
    CASE suffix \in {".tar.gz", ".tgz"} -> "tar.gz"
      [] suffix \in {".tar.xz", ".txz"} -> "tar.xz"
      [] suffix = ".zip" -> "zip"
      [] OTHER -> ""

Extractor == IF request.type # "" THEN request.type ELSE DetectArchiveType(request.suffix)

\* Downloader.Verify: what to compare the file with, or nothing.
Expected ==
    LET c == request.checksum
    IN  CASE c.kind = "none" -> Failed
          [] c.kind = "value" -> ParseValue(c)
          [] c.kind = "url" ->
                LET found == ParseFile(c.file, IF c.pattern # "" THEN c.pattern ELSE File)
                IN  IF c.algorithm # "" /\ found # Failed
                    THEN [found EXCEPT !.algorithm = c.algorithm] ELSE found

Verified ==
    \/ request.checksum.kind = "none"
    \/ Expected # Failed /\ VerifyDigest(dest, Expected.algorithm, Expected.digest)

\* isInsideDir, of an entry's path or of a link's target, by the first element
\* of the relative path: a hidden name is refused with those that lead out.
IsInsideDir(where) == where \in {"inside", "__MACOSX"}

Init ==
    /\ request \in Requests
    /\ pc = "request"
    /\ tmp = "none"
    /\ dest = ""
    /\ read = 0
    /\ deferred = <<>>
    /\ tree = {}

--------------------------------------------------------------------------------
Fail == pc' = "failed" /\ UNCHANGED <<request, dest, read, deferred, tree>>

\* The URL is refused, or the server does not answer with 200, or in time.
Request ==
    /\ pc = "request"
    /\ \/ /\ AllowedURL(request.scheme)
          /\ pc' = "receive"
          /\ tmp' = "partial"
          /\ UNCHANGED <<request, dest, read, deferred, tree>>
       \/ Fail /\ UNCHANGED tmp

\* The body arrives in full and is renamed into place; or it ends early, or the
\* time is up, and the temporary file goes.
Receive ==
    /\ pc = "receive"
    /\ tmp' = "none"
    /\ \/ /\ \E content \in Contents : dest' = content
          /\ pc' = "verify"
          /\ UNCHANGED <<request, read, deferred, tree>>
       \/ Fail

\* A checksum file may not arrive; NewExtractor knows these types.
Verify ==
    /\ pc = "verify"
    /\ \/ Verified /\ Extractor \in {"tar.gz", "tar.xz", "zip", "raw"} /\ pc' = "extract"
       \/ /\ ~Verified \/ Extractor \notin {"tar.gz", "tar.xz", "zip", "raw"} \/ request.checksum.kind = "url"
          /\ pc' = "failed"
    /\ UNCHANGED <<request, tmp, dest, read, deferred, tree>>

--------------------------------------------------------------------------------
(* Entries.  What is at a path is a file, a directory or a symbolic link;  *)
(* a hard link is the file that it is of.                                  *)
Found(path) == {x \in tree : x.path = path}

Paths == {x.path : x \in tree}

\* Only tar has links; zip makes a file of every entry that is not a directory.
IsLink(e) == Extractor \in {"tar.gz", "tar.xz"} /\ e.kind \in {"symlink", "hardlink"}

\* An entry, or the target of a link, that would be outside the destination.
Refused(e) == ~IsInsideDir(e.where) \/ (IsLink(e) /\ ~IsInsideDir(e.to))

\* isOSMetadataPath
Skipped(e) == Extractor = "zip" /\ e.where = "__MACOSX"

Directory(path, readonly) == [path |-> path, kind |-> "dir", of |-> "", readonly |-> readonly]

\* What MkdirAll makes on the way to a file or a link.
Folder(path) == Directory(path, FALSE)

Folders(e) == {Folder(path) : path \in e.above \ Paths}

\* A directory cannot be made where a file is, nor below one, and a file neither
\* below one nor where a directory is.
Blocked(e) ==
    \/ \E x \in tree : x.kind = "file" /\ x.path \in e.above
    \/ \E x \in Found(e.path) : (x.kind = "dir") # (e.kind = "dir")

\* Nothing is made in a directory that cannot be written to, and a file that
\* cannot is not opened again; MkdirAll gives the mode of a directory to
\* those above it, too.
Hampered(e) ==
    \/ \E x \in tree : x.readonly /\ x.path \in e.above
    \/ e.kind = "dir" /\ e.readonly /\ Folders(e) # {}
    \/ e.kind # "dir" /\ \E x \in Found(e.path) : x.readonly

\* A directory that is there stays as it is; so does the mode of a file, whose
\* content goes.
Extracted(e) ==
    IF e.kind = "dir"
    THEN tree \cup {Directory(path, e.readonly) : path \in ({e.path} \cup e.above) \ Paths}
    ELSE (tree \ Found(e.path)) \cup Folders(e)
            \cup {[path |-> e.path, kind |-> "file", of |-> e.of,
                   readonly |-> IF Found(e.path) = {} THEN e.readonly ELSE \E x \in Found(e.path) : x.readonly]}

\* os.Symlink and os.Link fail where there is anything; a hard link needs its file.
LinkBlocked(e) ==
    \/ \E x \in tree : x.kind = "file" /\ x.path \in e.above
    \/ Found(e.path) # {}
    \/ e.kind = "hardlink" /\ ~ \E x \in Found(e.target) : x.kind # "dir"

\* Where the way leads through another link is not followed.
LinkHampered(e) == \E x \in tree : (x.readonly \/ x.kind = "symlink") /\ x.path \in e.above

Linked(e) ==
    tree \cup Folders(e)
         \cup (IF e.kind = "hardlink" THEN {[x EXCEPT !.path = e.path] : x \in Found(e.target)}
               ELSE {[path |-> e.path, kind |-> "symlink", of |-> e.target, readonly |-> FALSE]})

\* One entry.  Links are deferred.
ExtractEntry_LinksAtOnce ==
    /\ pc = "extract" /\ Extractor # "raw"
    /\ read < Len(request.archive)
    /\ LET e == request.archive[read + 1]
       IN  \/ /\ Refused(e) \/ IF IsLink(e) THEN LinkBlocked(e) ELSE Blocked(e) \/ Hampered(e)
              /\ Fail
           \/ /\ ~Refused(e)
              /\ ~IsLink(e) => ~Blocked(e)
              /\ IsLink(e) => ~LinkBlocked(e)
              /\ tree' = IF IsLink(e) THEN Linked(e) ELSE Extracted(e)
              /\ read' = read + 1
              /\ UNCHANGED <<request, pc, dest, deferred>>
    /\ UNCHANGED tmp

ExtractEntry ==
    /\ pc = "extract" /\ Extractor # "raw"
    /\ read < Len(request.archive)
    /\ LET e == request.archive[read + 1]
       IN  \/ /\ ~Skipped(e)
              /\ Refused(e) \/ (~IsLink(e) /\ (Blocked(e) \/ Hampered(e)))
              /\ Fail
           \/ /\ ~Skipped(e) => ~Refused(e) /\ (IsLink(e) \/ ~Blocked(e))
              /\ read' = read + 1
              /\ deferred' = IF IsLink(e) THEN Append(deferred, read + 1) ELSE deferred
              /\ tree' = IF IsLink(e) \/ Skipped(e) THEN tree ELSE Extracted(e)
              /\ UNCHANGED <<request, pc, dest>>
    /\ UNCHANGED tmp

\* A raw download is one file.
ExtractRaw ==
    /\ pc = "extract" /\ Extractor = "raw"
    /\ read < Len(request.archive)
    /\ read' = Len(request.archive)
    /\ tree' = {[path |-> File, kind |-> "file", of |-> dest, readonly |-> FALSE]}
    /\ UNCHANGED <<request, pc, tmp, dest, deferred>>

\* The archive ends where it should, or is damaged.
EndOfArchive ==
    /\ pc = "extract"
    /\ \/ /\ read = Len(request.archive)
          /\ pc' = "link"
          /\ UNCHANGED <<request, dest, read, deferred, tree>>
       \/ dest = "garbage" /\ Extractor # "raw" /\ Fail
    /\ UNCHANGED tmp

\* The second pass.
CreateLink ==
    /\ pc = "link"
    /\ deferred # <<>>
    /\ LET e == request.archive[Head(deferred)]
       IN  \/ (LinkBlocked(e) \/ LinkHampered(e)) /\ Fail
           \/ /\ ~LinkBlocked(e)
              /\ tree' = Linked(e)
              /\ deferred' = Tail(deferred)
              /\ UNCHANGED <<request, pc, dest, read>>
    /\ UNCHANGED tmp

Finish ==
    /\ pc = "link"
    /\ deferred = <<>>
    /\ pc' = "done"
    /\ UNCHANGED <<request, tmp, dest, read, deferred, tree>>

Next == Request \/ Receive \/ Verify \/ ExtractEntry \/ ExtractRaw \/ EndOfArchive \/ CreateLink \/ Finish

Spec == Init /\ [][Next]_vars

--------------------------------------------------------------------------------
\* Every variable has its type.
TypeOK ==
    /\ pc \in {"request", "receive", "verify", "extract", "link", "done", "failed"}
    /\ tmp \in {"none", "partial"}
    /\ dest \in Contents \cup {""}
    /\ read \in 0 .. Len(request.archive)

\* The digests that a checksum gives for the file, in any of its formats.
Stated ==
    LET c == request.checksum
        name == IF c.pattern # "" THEN c.pattern ELSE File
    IN  IF c.kind = "value" THEN {c.digest}
        ELSE {c.file.lines[i].digest : i \in
                {j \in DOMAIN c.file.lines :
                    \/ c.file.lines[j].form = "bare"
                    \/ c.file.lines[j].form # "blank" /\ c.file.lines[j].name = name}}

\* What is extracted, in part or in full, arrived whole and is what a digest
\* stated for this file is the hash of, in whichever format, under whichever
\* name and with whichever algorithm the checksum is given.
OnlyStatedContent ==
    (pc \in {"extract", "link", "done"} /\ request.checksum.kind # "none") =>
        \E d \in Stated : d.of = dest

\* An archive whose entries stay inside and in each other's way nowhere: they have
\* paths of their own, directories that can be written to apart, no path is below
\* one that is no directory, and hard links name files that it has.
Sound ==
    LET a == request.archive
    IN  \A i \in DOMAIN a :
            /\ a[i].where = "inside" /\ a[i].to = "inside"
            /\ a[i].kind = "dir" => a[i].readonly = FALSE
            /\ a[i].kind = "hardlink" => \E j \in DOMAIN a : a[j].kind = "file" /\ a[j].path = a[i].target
            /\ a[i].kind # "dir" => \A j \in DOMAIN a : a[i].path \notin a[j].above /\ (j # i => a[j].path # a[i].path)

\* What is then at the path of an entry, and on the way to it.
Placed(e) ==
    CASE e.kind = "dir" -> Folder(e.path)
      [] e.kind = "symlink" -> [path |-> e.path, kind |-> "symlink", of |-> e.target, readonly |-> FALSE]
      [] e.kind = "file" -> [path |-> e.path, kind |-> "file", of |-> e.of, readonly |-> e.readonly]

Entries == {request.archive[i] : i \in DOMAIN request.archive}

Unpacked ==
    {Folder(path) : path \in UNION {e.above : e \in Entries}}
    \cup {Placed(e) : e \in {x \in Entries : x.kind # "hardlink"}}
    \cup (UNION {{[Placed(f) EXCEPT !.path = e.path] : f \in {x \in Entries : x.kind = "file" /\ x.path = e.target}} :
                    e \in {x \in Entries : x.kind = "hardlink"}})

\* A tar archive in which no entry is in the way of another is extracted in full in
\* whatever order it has its entries, links before their files and files before
\* their directories; where two files have one path, the last of them is there.
OrderOfEntriesIrrelevant ==
    LET a == request.archive
    IN  (Extractor = "tar.gz" /\ read > 0 /\ dest # "garbage") =>
            /\ Sound => pc # "failed" /\ (pc = "done" => tree = Unpacked)
            /\ pc = "done" =>
                 \A i \in DOMAIN a :
                     (a[i].kind = "file" /\ \A j \in DOMAIN a : j > i /\ a[j].kind = "file" => a[j].path # a[i].path) =>
                         \E x \in Found(a[i].path) : x.kind = "file" /\ x.of = a[i].of

================================================================================
