------------------------------- MODULE Checksums -------------------------------
(***************************************************************************)
(* Package checksum, and the choice that Downloader.Verify makes of what   *)
(* to compare with.  No state: operators over checksum files.              *)
(*                                                                         *)
(* A digest is a record: the algorithm its length is that of, the content  *)
(* it is the hash of, and whether it is written in capitals.  A checksum   *)
(* file is Go's JSON or a sequence of lines; a line has a form, and the    *)
(* forms that name a file name it bare or with a directory before it.      *)
(***************************************************************************)
EXTENDS Naturals, FiniteSetsExt

Failed == [algorithm |-> ""]

DigestOf(content, algorithm) == [algorithm |-> algorithm, of |-> content, upper |-> FALSE]

\* DetectAlgorithm: by the length; "md5" stands for every other length.
DetectAlgorithm(digest) == IF digest.algorithm \in {"sha256", "sha512"} THEN digest.algorithm ELSE ""

\* Where the lines are that are not blank.
Text(file) == {i \in DOMAIN file.lines : file.lines[i].form # "blank"}

First(file, found) == file.lines[Min(found)]

\* The first line that is not blank decides.  A lone digest is a file of its
\* own only when nothing follows.
DetectFileFormat(file) ==
    LET first == First(file, Text(file))
    IN  IF Text(file) = {} THEN "unknown"
        ELSE IF file.json THEN "go_json"
        ELSE CASE first.form = "bsd" -> "bsd"
               [] first.form = "gnu" /\ DetectAlgorithm(first.digest) # "" -> "gnu"
               [] first.form = "bare" /\ DetectAlgorithm(first.digest) # "" /\ Cardinality(Text(file)) = 1 -> "bare_hash"
               [] OTHER -> "unknown"

\* The first of these lines, if it has an algorithm.
FirstOrFailed(file, found, algorithm) ==
    IF found = {} \/ algorithm = "" THEN Failed
    ELSE [algorithm |-> algorithm, digest |-> First(file, found).digest]

\* The name in the file, or its base name, is the one asked for.
Matches(line, name) == line.name = name

\* Go's JSON has the name without a directory, and SHA-256 only; an empty
\* hash is no entry.
ParseGoJSON(file, name) ==
    LET found == {i \in Text(file) : file.lines[i].name = name /\ ~file.lines[i].dir
                                       /\ file.lines[i].digest.algorithm = "sha256"}
    IN  FirstOrFailed(file, found, "sha256")

LinesFor(file, form, name) ==
    {i \in Text(file) : file.lines[i].form = form /\ Matches(file.lines[i], name)}

Algorithms == {"sha256", "sha512"}

\* The tag is the algorithm, whatever the digest's length.
ParseBSD(file, name) ==
    LET found == LinesFor(file, "bsd", name)
        tag == First(file, found).tag
    IN  FirstOrFailed(file, found, IF tag \in Algorithms THEN tag ELSE "")

Detected(file, found) == FirstOrFailed(file, found, DetectAlgorithm(First(file, found).digest))

ParseGNU_AnyLine(file, name) == Detected(file, Text(file))

ParseGNU(file, name) == Detected(file, LinesFor(file, "gnu", name))

\* A digest alone is of whatever file was asked for.
ParseBareHash(file, name) == Detected(file, Text(file))

ParseFile(file, name) ==
    LET format == DetectFileFormat(file)
    IN  CASE format = "go_json" -> ParseGoJSON(file, name)
          [] format = "bsd" -> ParseBSD(file, name)
          [] format = "gnu" -> ParseGNU(file, name)
          [] format = "bare_hash" -> ParseBareHash(file, name)
          [] OTHER -> Failed

\* Parse: a value is an algorithm, which must be one of these, and a digest.
ParseValue(value) ==
    IF value.algorithm \in Algorithms THEN [algorithm |-> value.algorithm, digest |-> value.digest] ELSE Failed

\* The hash of the file, in small letters, is the digest letter by letter.
VerifyDigest(content, algorithm, digest) == algorithm \in Algorithms /\ DigestOf(content, algorithm) = digest

================================================================================
