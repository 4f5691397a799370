------------------------------- MODULE Registry --------------------------------
(***************************************************************************)
(* Package registry/aqua: a tool that names a package of the aqua registry *)
(* is resolved to what is to be downloaded.  The definition of the package *)
(* is read from a cache or fetched and written to it; each of the workers  *)
(* installs one tool of the package, in this process or in another, and    *)
(* they share the cache directory, temporary file included.                *)
(*                                                                         *)
(* A definition is a record with the fields of PackageInfo; a field that   *)
(* it, or an override, leaves out is Unset.  A version is a number,        *)
(* written with or without the prefix that its tags have.  The templates   *)
(* of the registry can be rendered: a rendered one is the template with    *)
(* the variables it was rendered for.                                      *)
(*                                                                         *)
(* os.WriteFile opens, which truncates, and then writes; a full disk or a  *)
(* kill may leave what was written so far.  A file has two halves, each    *)
(* the bytes of some ref or not there.                                     *)
(***************************************************************************)
EXTENDS Naturals, Sequences

CONSTANTS Worker, Ref, Unset,
          Requests,      \* [ref, version, os, arch]
          Definition,    \* Ref -> what the registry has at this ref
          Halves         \* Ref -> what the first half of its file may be parsed as

\* A request is for a ref that the registry has.
RegistryAssumption ==
    /\ \A q \in Requests : q.ref \in Ref
    /\ Unset \notin Worker \cup Ref

\* What is no definition: parsing it is an error.
Nothing == [kind |-> "nothing"]

Empty == [head |-> Unset, tail |-> Unset]

VARIABLES pc,         \* Worker -> "read", "fetch", "open", "write", "finish", "rename", "remove", "done", "dead"
          asked,      \* Worker -> [ref, version, os, arch]
          data,       \* Worker -> the definition it has
          resolved,   \* Worker -> the ResolvedSource, or its errors
          file, tmp,  \* Ref -> the worker who made registry.yaml and registry.yaml.tmp, or Unset
          content,    \* Worker -> the halves of the file that it made: whose bytes they are
          held,       \* Worker -> the file that its descriptor is of
          shared      \* the refs whose registry.yaml.tmp two have written at the same time

vars == <<pc, asked, data, resolved, file, tmp, content, held, shared>>

(***************************************************************************)
(* Resolution.                                                             *)
(***************************************************************************)
FirstThat(seq, Test(_)) ==
    LET found == SelectSeq(seq, Test) IN IF found = <<>> THEN Unset ELSE found[1]

\* A prefixed version is no semantic version.
MatchVersionConstraint(constraint, version) ==
    \/ constraint.kind \in {"empty", "true"}
    \/ constraint.kind = "semver" /\ version.prefix = "" /\ version.n \in constraint.of

Or(new, old) == IF new = Unset THEN old ELSE new

\* The definition itself is for the versions of its constraint; an override
\* is for the others, the first that matches, field by field.
ApplyVersionOverrides(info, version) ==
    LET o == FirstThat(info.version_overrides, LAMBDA v : MatchVersionConstraint(v.constraint, version))
        ours == info.constraint.kind # "empty" /\ MatchVersionConstraint(info.constraint, version)
    IN  IF ours \/ o = Unset THEN info
        ELSE [f \in DOMAIN info |-> IF f \in DOMAIN o \ {"constraint"} THEN Or(o[f], info[f]) ELSE info[f]]

MatchesOS(o, os, arch) == o.goos \in {"", os} /\ o.goarch \in {"", arch}

\* Replacements are merged; those of the override win.
ApplyOSOverrides(info, os, arch) ==
    LET o == FirstThat(info.overrides, LAMBDA v : MatchesOS(v, os, arch))
    IN  IF o = Unset THEN info
        ELSE [info EXCEPT !.asset = Or(o.asset, @), !.format = Or(o.format, @),
                          !.replacements = IF o.replacements = Unset THEN @
                                           ELSE [k \in DOMAIN @ \cup DOMAIN o.replacements |->
                                                 IF k \in DOMAIN o.replacements THEN o.replacements[k] ELSE @[k]]]

ApplyReplacement(replacements, key) == IF key \in DOMAIN replacements THEN replacements[key] ELSE key

TrimPrefix(version, prefix) == IF version.prefix = prefix THEN [version EXCEPT !.prefix = ""] ELSE version

RenderTemplate(template, variables) == [template |-> template, with |-> variables]

\* The tag is the prefix before the version, which may have it already.
GitHubReleaseURL(info, version, asset) == [tag |-> <<info.version_prefix, version.prefix, version.n>>, asset |-> asset]

IsSupportedEnv(envs, os, arch) == envs \cap {"all", os, os \o "/" \o arch} # {}

NormalizeArchiveType(raw) == CASE raw = "tgz" -> "tar.gz" [] raw = "txz" -> "tar.xz" [] OTHER -> raw

\* A checksum of another type is left out, with a warning.
ResolveChecksum(info, version, rendered) ==
    IF info.checksum = Unset \/ info.checksum.asset = "" \/ info.checksum.type \notin {"github_release", ""}
    THEN Unset
    ELSE [url |-> GitHubReleaseURL(info, version, rendered),
          algorithm |-> IF info.checksum.algorithm = "" THEN "sha256" ELSE info.checksum.algorithm]

\* An asset without the extension of an archive is a binary, unless a format is given.
ResolveFormat(info) ==
    IF info.format = "" /\ info.asset # Unset /\ ~info.asset.archive THEN "raw" ELSE NormalizeArchiveType(info.format)

\* supported_envs is looked at before the overrides, and theirs never.
ResolveWithOS(definition, a) ==
    LET supported == definition.supported_envs = {} \/ IsSupportedEnv(definition.supported_envs, a.os, a.arch)
        versioned == ApplyVersionOverrides(definition, a.version)
        info == ApplyOSOverrides(versioned, a.os, a.arch)
        variables == [version |-> a.version, semver |-> TrimPrefix(a.version, info.version_prefix),
                      os |-> ApplyReplacement(info.replacements, a.os),
                      arch |-> ApplyReplacement(info.replacements, a.arch), format |-> info.format]
        asset == RenderTemplate(info.asset, variables)
        checksum == ResolveChecksum(info, a.version, RenderTemplate(info.checksum, <<variables, asset>>))
    IN  IF ~supported THEN [kind |-> "unsupported"]
        ELSE IF info.type \notin {"github_release", "http"} THEN [kind |-> "failed"]
        ELSE [kind |-> "source",
              url |-> IF info.type = "http" THEN RenderTemplate(info.url, <<variables, asset>>)
                      ELSE GitHubReleaseURL(info, a.version, asset),
              checksum |-> checksum,
              files |-> [name \in DOMAIN info.files |-> RenderTemplate(info.files[name], <<variables, asset>>)],
              format |-> ResolveFormat(info),
              legacy |-> versioned.asset # definition.asset]

--------------------------------------------------------------------------------
Init ==
    /\ asked \in [Worker -> Requests]
    /\ pc = [w \in Worker |-> "read"]
    /\ data = [w \in Worker |-> Nothing] /\ resolved = [w \in Worker |-> Nothing]
    /\ file = [r \in Ref |-> Unset] /\ tmp = [r \in Ref |-> Unset]
    /\ content = [w \in Worker |-> Empty] /\ held = [w \in Worker |-> Unset]
    /\ shared = {}

Goto(w, label) == pc' = [pc EXCEPT ![w] = label]

\* Each ref has a directory of its own.
CachePath_OneForAll(w) == CHOOSE r \in Ref : TRUE

CachePath(w) == asked[w].ref

\* What the file may be parsed as: a tail alone, or nothing, is no definition.
Parsed(c) ==
    IF c.head = Unset THEN {Nothing} ELSE IF c.tail = Unset THEN Halves[c.head] ELSE {Definition[c.head]}

Cached(w) == IF file[CachePath(w)] = Unset THEN {Nothing} ELSE Parsed(content[file[CachePath(w)]])

Resolve(w, definition) ==
    /\ Goto(w, "done")
    /\ resolved' = [resolved EXCEPT ![w] = ResolveWithOS(definition, asked[w])]

\* Whatever can be parsed is a hit, half a definition too.
ReadCache(w) ==
    /\ pc[w] = "read"
    /\ \/ \E d \in Cached(w) \ {Nothing} : Resolve(w, d)
       \/ Nothing \in Cached(w) /\ Goto(w, "fetch") /\ UNCHANGED resolved
    /\ UNCHANGED <<asked, data, file, tmp, content, held, shared>>

FetchRemote(w) ==
    /\ pc[w] = "fetch"
    /\ data' = [data EXCEPT ![w] = Definition[asked[w].ref]]
    /\ Goto(w, "open")
    /\ UNCHANGED <<asked, resolved, file, tmp, content, held, shared>>

FetchFails(w) ==
    /\ pc[w] = "fetch"
    /\ Goto(w, "done") /\ resolved' = [resolved EXCEPT ![w] = [kind |-> "failed"]]
    /\ UNCHANGED <<asked, data, file, tmp, content, held, shared>>

\* writeCache, call by call.  Opening truncates: whoever else has the file
\* open writes to the same one.
Writing(w) == pc[w] \in {"write", "finish", "rename", "remove"}

OpenTmp(w) ==
    /\ pc[w] = "open"
    /\ LET r == CachePath(w)
           f == IF tmp[r] = Unset THEN w ELSE tmp[r]
       IN  /\ tmp' = [tmp EXCEPT ![r] = f]
           /\ held' = [held EXCEPT ![w] = f]
           /\ content' = [content EXCEPT ![f] = Empty]
           /\ shared' = IF \E v \in Worker : Writing(v) /\ CachePath(v) = r THEN shared \cup {r} ELSE shared
    /\ Goto(w, "write")
    /\ UNCHANGED <<asked, data, resolved, file>>

WriteTmp(w) ==
    /\ pc[w] = "write"
    /\ content' = [content EXCEPT ![held[w]].head = asked[w].ref]
    /\ Goto(w, "finish")
    /\ UNCHANGED <<asked, data, resolved, file, tmp, held, shared>>

FinishTmp(w) ==
    /\ pc[w] = "finish"
    /\ content' = [content EXCEPT ![held[w]].tail = asked[w].ref]
    /\ Goto(w, "rename")
    /\ UNCHANGED <<asked, data, resolved, file, tmp, held, shared>>

\* Whatever has the name by now; another may have renamed it already.
RenameTmp(w) ==
    /\ pc[w] = "rename"
    /\ tmp[CachePath(w)] # Unset
    /\ file' = [file EXCEPT ![CachePath(w)] = tmp[CachePath(w)]]
    /\ tmp' = [tmp EXCEPT ![CachePath(w)] = Unset]
    /\ Resolve(w, data[w])
    /\ UNCHANGED <<asked, data, content, held, shared>>

RenameFails(w) ==
    /\ pc[w] = "rename"
    /\ Goto(w, "remove")
    /\ UNCHANGED <<asked, data, resolved, file, tmp, content, held, shared>>

RemoveTmp(w) ==
    /\ pc[w] = "remove"
    /\ tmp' = [tmp EXCEPT ![CachePath(w)] = Unset]
    /\ Resolve(w, data[w])
    /\ UNCHANGED <<asked, data, file, content, held, shared>>

\* A cache that cannot be written is no reason to fail; what was written of it stays.
CacheFails(w) ==
    /\ pc[w] \in {"open", "write", "finish"}
    /\ Resolve(w, data[w])
    /\ UNCHANGED <<asked, data, file, tmp, content, held, shared>>

Kill(w) ==
    /\ pc[w] \notin {"done", "dead"}
    /\ Goto(w, "dead")
    /\ UNCHANGED <<asked, data, resolved, file, tmp, content, held, shared>>

Work(w) ==
    \/ ReadCache(w) \/ FetchRemote(w) \/ FetchFails(w) \/ OpenTmp(w) \/ WriteTmp(w) \/ FinishTmp(w)
    \/ RenameTmp(w) \/ RenameFails(w) \/ RemoveTmp(w) \/ CacheFails(w) \/ Kill(w)

Next == \E w \in Worker : Work(w)

Spec == Init /\ [][Next]_vars

--------------------------------------------------------------------------------
(* What a worker resolves is what the definition published at its own ref  *)
(* says of its version and platform, whoever shares the cache, and however *)
(* a write of it is cut short, by a kill or a full disk.  Half of that     *)
(* definition it may be only where two wrote the cache of the ref at the   *)
(* same time; another ref's it is never.                                   *)
ResolvesAsPublished ==
    \A w \in Worker : resolved[w].kind = "source" =>
        LET ref == asked[w].ref
        IN  \/ resolved[w] = ResolveWithOS(Definition[ref], asked[w])
            \/ ref \in shared /\ \E d \in Halves[ref] \ {Nothing} : resolved[w] = ResolveWithOS(d, asked[w])

\* The comment of writeCache (fetcher.go:159) has it that a definition is written
\* to the cache atomically.  It is not: two writers share the temporary file.
CacheIsAtomic == \A r \in Ref : file[r] # Unset => Parsed(content[file[r]]) = {Definition[r]}

================================================================================
