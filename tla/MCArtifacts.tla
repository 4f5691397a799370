-------------------------------- MODULE MCArtifacts --------------------------------
(***************************************************************************)
(* Two files, each with its digest; a server that may send either, or      *)
(* neither; checksum files of up to two lines in every format; archives    *)
(* with a directory, a file and links, in every order, and with entries    *)
(* that are in each other's way.  Three workers resolve a package of the   *)
(* registry, at the refs before and after a sync, from files that a write  *)
(* may leave half done.  Two overlapping upgrades of tomei, two releases   *)
(* and two faults.                                                         *)
(***************************************************************************)
EXTENDS Artifacts, SequencesExt, TLC

Digests == {DigestOf("ours", "sha256"), DigestOf("other", "sha256"), DigestOf("ours", "md5"),
            [algorithm |-> "sha256", of |-> "ours", upper |-> TRUE]}

Lines ==
    [form : {"gnu", "bsd"}, name : {"tool.tar.gz", "other.tar.gz"}, dir : BOOLEAN,
     digest : Digests, tag : {"sha256"}]
    \cup [form : {"bsd"}, name : {"tool.tar.gz"}, dir : {FALSE}, digest : Digests, tag : {"md5"}]
    \cup [form : {"bare"}, name : {""}, dir : {FALSE}, digest : Digests, tag : {""}]
    \cup [form : {"blank"}, name : {""}, dir : {FALSE}, digest : {DigestOf("", "")}, tag : {""}]

ChecksumFiles == [json : BOOLEAN, lines : {<<a, b>> : a, b \in Lines}]

ChecksumSpecs ==
    [kind : {"none"}, pattern : {""}, algorithm : {""}]
    \cup [kind : {"value"}, digest : Digests, pattern : {""}, algorithm : {"sha256", "sha512", "md5"}]
    \cup [kind : {"url"}, file : ChecksumFiles, pattern : {"", "other.tar.gz"}, algorithm : {""}]
    \cup [kind : {"url"}, file : ChecksumFiles, pattern : {""}, algorithm : {"sha512"}]

Entry(kind, path, above, of, to) ==
    [kind |-> kind, path |-> path, above |-> above, of |-> of, target |-> to,
     where |-> "inside", to |-> "inside", readonly |-> FALSE]

Tool == Entry("file", "share/tool", {"share"}, "one", "")
Dir == Entry("dir", "bin", {}, "", "")
Hard == Entry("hardlink", "bin/tool", {"bin"}, "", "share/tool")
Soft == Entry("symlink", "bin/latest", {"bin"}, "", "tool")

\* Refused, skipped, or a hard link to nothing.
Odd == {[Tool EXCEPT !.path = ".config", !.above = {}, !.where = "hidden"],
        [Tool EXCEPT !.path = "../up", !.above = {}, !.where = "outside"],
        [Tool EXCEPT !.path = "__MACOSX/tool", !.above = {"__MACOSX"}, !.where = "__MACOSX"],
        [Soft EXCEPT !.target = "../../up", !.to = "outside"],
        [Hard EXCEPT !.target = "missing"]}

\* In each other's way: two files of one path, a file and a directory, a file
\* below a file, links where something is, links on the way to a link, and
\* what cannot be written to.
InTheWay == {
    {Tool, [Tool EXCEPT !.of = "two"], Hard},
    {[Tool EXCEPT !.readonly = TRUE], [Tool EXCEPT !.of = "two"]},
    {Tool, [Dir EXCEPT !.path = "share/tool", !.above = {"share"}]},
    {Tool, Entry("file", "share/tool/x", {"share", "share/tool"}, "one", "")},
    {Tool, Hard, Entry("file", "bin/tool", {"bin"}, "two", "")},
    {Soft, [Soft EXCEPT !.target = "other"]},
    {Dir, Soft, [Soft EXCEPT !.path = "bin", !.above = {}]},
    {[Dir EXCEPT !.readonly = TRUE], Tool, Hard},
    {[Dir EXCEPT !.readonly = TRUE], Entry("file", "bin/x", {"bin"}, "one", "")},
    {[Dir EXCEPT !.readonly = TRUE, !.path = "share/doc", !.above = {"share"}], Tool}}

MCRequests ==
    [scheme : {"https"}, suffix : {".tar.gz"}, checksum : ChecksumSpecs, type : {""},
     archive : {<<Tool>>}]
    \cup [scheme : {"https", "http", "http://localhost", ""}, suffix : {".tar.gz", ".TAR.GZ", ".zip"},
          checksum : [kind : {"none"}, pattern : {""}, algorithm : {""}], type : {"", "raw", "zip", "7z"},
          archive : SetToSeqs({Tool, Dir, Hard, Soft})
                    \cup UNION {SetToSeqs({Tool, e}) : e \in Odd} \cup UNION {SetToSeqs(s) : s \in InTheWay}]

Asset(name, archive) == [name |-> name, archive |-> archive]

MCNew == [
    type |-> "github_release", asset |-> Asset("{{.OS}}_{{.Arch}}.tgz", TRUE), url |-> "", format |-> "tgz",
    version_prefix |-> "cli/", constraint |-> [kind |-> "semver", of |-> {2}],
    checksum |-> [asset |-> "{{.Asset}}.sha256", type |-> "", algorithm |-> ""],
    supported_envs |-> {"linux", "darwin/arm64"}, files |-> "tool" :> "{{.AssetWithoutExt}}/tool",
    replacements |-> "amd64" :> "x86_64",
    version_overrides |-> <<
        [constraint |-> [kind |-> "true", of |-> {}], asset |-> Asset("old", FALSE), url |-> Unset, format |-> Unset,
         version_prefix |-> "", checksum |-> [asset |-> "sums", type |-> "http", algorithm |-> "sha512"],
         replacements |-> Unset, overrides |-> Unset, supported_envs |-> Unset]>>,
    overrides |-> <<
        [goos |-> "darwin", goarch |-> "", asset |-> Unset, format |-> "zip", replacements |-> "darwin" :> "macOS"],
        [goos |-> "", goarch |-> "arm64", asset |-> Asset("raw", FALSE), format |-> Unset, replacements |-> Unset]>>]

MCDefinition ==
    [r \in Ref |-> IF r = "new" THEN MCNew
                   ELSE [MCNew EXCEPT !.type = "http", !.url = "{{.Version}}", !.format = ""]]

\* Cut in a key, the file is no YAML; cut after one, what follows is not there.
MCHalves ==
    [r \in Ref |-> {[kind |-> "nothing"],
                    [MCDefinition[r] EXCEPT !.checksum = Unset, !.version_overrides = <<>>, !.overrides = <<>>]}]

MCPackageRequests ==
    [ref : Ref, version : {[prefix |-> "", n |-> 2], [prefix |-> "cli/", n |-> 2], [prefix |-> "", n |-> 1]},
     os : {"darwin"}, arch : {"arm64"}]
    \cup [ref : {"new"}, version : {[prefix |-> "", n |-> 2]}, os : {"linux", "darwin"}, arch : {"amd64"}]

\* The workers do the same, and no property names one.
WorkerSymmetry == Permutations(Worker)

================================================================================
