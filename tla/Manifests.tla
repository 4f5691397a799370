------------------------------- MODULE Manifests -------------------------------
(***************************************************************************)
(* From paths to resources: what apply, plan, validate and cue eval make   *)
(* of the manifests they are given.  Package config finds the files,       *)
(* package verify asks for the signatures of the modules they import, CUE  *)
(* evaluates them, package resource expands the sets, and each command     *)
(* then accepts or refuses the result.                                     *)
(*                                                                         *)
(* The disk is given by the constants.  A file has a package clause or     *)
(* not, at most one @if condition, the tags that its resources use, and    *)
(* a body: resources, in a list, alone, or as the fields of a struct.      *)
(* What a file imports is not there: one compiled by itself imports none.  *)
(* CUE itself is outside: a file takes part when its condition holds for   *)
(* the tags injected, and an injected key=value tag must be declared in a  *)
(* file that takes part.                                                   *)
(***************************************************************************)
EXTENDS Naturals, FiniteSets, SequencesExt

CONSTANTS Dir, File,
          Parent,       \* Dir -> Dir, the root being its own parent
          DirOf,        \* File -> Dir
          ModuleIn,     \* Dir -> what its cue.mod/module.cue says, or NoModule
          Source,       \* File -> its content
          Registry,     \* module -> what the OCI registry holds of it
          Machines,     \* [os, arch, headless]
          Commands,     \* [name, ignoreCosign, vendored]
          PathLists,    \* the arguments that a command may be given
          MaxCommands   \* bounds the number of commands

\* The values of files, by their places there.
ValuesOf(fs) == UNION {{<<f, j>> : j \in DOMAIN Source[f].body} : f \in fs}

ASSUME ManifestsAssumption == IsFiniteSet(ValuesOf(File)) /\ PathLists \subseteq Seq(STRING)

NoModule == [broken |-> FALSE, deps |-> {}, here |-> FALSE]

VARIABLES machine,
          command, args,   \* the command running and its arguments
          phase,           \* "idle", "open", "verify" or "evaluate"
          todo,            \* the paths it has not opened yet
          path,            \* the one it is looking at
          loaded,          \* the resources it has read, in order
          values,          \* how many values it has evaluated
          verifiedDirs,    \* Loader.verifiedDirs
          handed, proven,  \* modules given to the verifier, and found signed
          evaluated,       \* what CUE has evaluated: [dir, files, instances]
          done             \* the commands that have ended and how

loader == <<todo, path, loaded, values, verifiedDirs, handed, proven, evaluated>>
manifestsVars == <<machine, command, args, phase, loader, done>>

(***************************************************************************)
(* What a path names: the manifests of a directory, or one file.           *)
(***************************************************************************)
CueFiles(p) ==
    {f \in File : (IF p \in Dir THEN DirOf[f] = p ELSE f = p) /\ ~Source[f].config}

DirOfPath(p) == IF p \in Dir THEN p ELSE DirOf[p]

\* The first line that is no comment must be the clause: behind a condition
\* it is not found.
DetectPackageName(f) == Source[f].package /\ Source[f].when.tag = ""

\* load.Instances injects tags, resolves imports and heeds conditions; a file
\* with no package is compiled by itself, with none of that.
ByInstances(p) == p \notin Dir => DetectPackageName(p)

(***************************************************************************)
(* Tags.                                                                   *)
(***************************************************************************)
DeclaredTags(fs) == UNION {Source[f].tags : f \in fs}

IfTags(fs) == {Source[f].when.tag : f \in {g \in fs : Source[g].when.tag # ""}}

\* A bare tag is present or absent, never false.
BareTags(m) == {m.os, m.arch} \cup (IF m.headless THEN {"headless"} ELSE {})

EnvTagsForSources(fs, m) ==
    [keys |-> DeclaredTags(fs) \cap {"os", "arch", "headless"}, bare |-> IfTags(fs) \cap BareTags(m)]

Holds(when, bare) == when.tag = "" \/ ((when.tag \in bare) = when.present)

Included(fs, tags) == {f \in fs : Holds(Source[f].when, tags.bare)}

LoadFails(fs, tags) ==
    \/ Included(fs, tags) = {}
    \/ ~(tags.keys \subseteq DeclaredTags(Included(fs, tags)))

(***************************************************************************)
(* Signatures of imported modules.                                         *)
(***************************************************************************)
FirstPartyDeps(module) == {d \in module.deps : Registry[d].firstParty}

\* Of the layers of the signature image, those that can be read as one.
Signatures(published) == {l \in published.layers : l.form \in {"cosign", "bundle"} /\ l.whole}

VerifySimpleSigningBinding(l, digest) == l.names = digest

\* The legacy bundle is not tied to the artifact.
VerifySigstoreBundle(l, digest) ==
    /\ l.by = "tomei"
    /\ l.form = "cosign" => (l.covers /\ VerifySimpleSigningBinding(l, digest))

\* Whatever goes wrong, the module is skipped with a warning.
VerifyOne(dep, reachable) ==
    /\ reachable /\ Registry[dep].resolves
    /\ \E l \in Signatures(Registry[dep]) : VerifySigstoreBundle(l, Registry[dep].digest)

HasVerifier == command.name \in {"apply", "plan"} /\ ~command.ignoreCosign

FindCueModDir[d \in Dir] ==
    IF ModuleIn[d].here THEN d ELSE IF Parent[d] = d THEN "" ELSE FindCueModDir[Parent[d]]

InModule(p) == FindCueModDir[DirOfPath(p)] # ""
ModuleOf(p) == ModuleIn[FindCueModDir[DirOfPath(p)]]

\* The dependencies whose signatures the loader has to ask for.
DepsOf(p) == IF InModule(p) THEN FirstPartyDeps(ModuleOf(p)) ELSE {}

(***************************************************************************)
(* Resources.                                                              *)
(***************************************************************************)
Kinds == {"Tool", "ToolSet", "Runtime", "Installer", "InstallerRepository",
          "SystemInstaller", "SystemPackageRepository", "SystemPackageSet"}

IsResource(r) == r.kind # ""

\* The files of a path that take part on this machine, and their values.
Taking(p, m) ==
    IF ByInstances(p) THEN Included(CueFiles(p), EnvTagsForSources(CueFiles(p), m)) ELSE CueFiles(p)

Values(p, m) == ValuesOf(Taking(p, m))

ValueAt(v) == Source[v[1]].body[v[2]]

\* What several files say together are fields.
Form(p, m) ==
    IF Cardinality(Taking(p, m)) = 1
    THEN CHOOSE s \in {Source[f].form : f \in Taking(p, m)} : TRUE
    ELSE "fields"

Found(p, m) == {v \in Values(p, m) : IsResource(ValueAt(v))}

\* In a list or alone everything must be a resource; among fields the rest
\* is passed over, but something must be left.  A tag that was not injected
\* leaves a value that does not decode.
ParseFails(p, m) ==
    \/ Form(p, m) = "fields" /\ Found(p, m) = {}
    \/ Form(p, m) # "fields" /\ Found(p, m) # Values(p, m)
    \/ \E v \in Found(p, m) : ValueAt(v).kind \notin Kinds
    \/ ~ByInstances(p) /\ DeclaredTags(Taking(p, m)) # {}

\* In the order of the fields, whatever it is.
ParseResources(p, m) ==
    LET found == SetToSeq(Found(p, m)) IN [i \in DOMAIN found |-> ValueAt(found[i])]

IsSet(r) == r.kind = "ToolSet"
Id(r) == <<r.kind, r.name>>

\* A ToolSet has no switch of its own; its items have.
IsEnabled(r) == IsSet(r) \/ r.enabled

Expand(r) ==
    {[kind |-> "Tool", name |-> i.name, enabled |-> i.enabled, valid |-> r.valid,
      items |-> {}, needs |-> r.needs] : i \in r.items}

Live(resources) == {r \in ToSet(resources) : IsEnabled(r)}

\* The tools that a set becomes.
Members(r) == {t \in Expand(r) : t.enabled}

Standalone_Earlier(resources, i) ==
    {Id(resources[j]) :
        j \in {k \in DOMAIN resources : k < i /\ ~IsSet(resources[k]) /\ IsEnabled(resources[k])}}

\* Standalone resources are registered before the first set is expanded.
Standalone(resources, i) ==
    {Id(resources[j]) : j \in {k \in DOMAIN resources : ~IsSet(resources[k]) /\ IsEnabled(resources[k])}}

Taken(resources, i) ==
    Standalone(resources, i) \cup UNION {{Id(t) : t \in Members(resources[j])} :
                                         j \in {k \in DOMAIN resources : k < i /\ IsSet(resources[k])}}

ExpandConflicts(resources) ==
    \E i \in DOMAIN resources :
        IsSet(resources[i]) /\ \E t \in Members(resources[i]) : Id(t) \in Taken(resources, i)

ExpandSets(resources) == UNION {IF IsSet(r) THEN Members(r) ELSE {r} : r \in Live(resources)}

\* Two standalone resources may have one id, and differ: the graph has the
\* references of both, but the engine and the plan go by maps, in which the
\* later one replaces the earlier.
BuildResourceMap(resources) ==
    {r \in ExpandSets(resources) :
        \A i \in DOMAIN resources :
            (~IsSet(resources[i]) /\ IsEnabled(resources[i]) /\ Id(resources[i]) = Id(r)) =>
                \E j \in DOMAIN resources : j >= i /\ resources[j] = r}

BuiltinInstaller(name) ==
    [kind |-> "Installer", name |-> name, enabled |-> TRUE, valid |-> TRUE, items |-> {}, needs |-> {}]

AppendBuiltinInstallers(resources) ==
    resources \cup {BuiltinInstaller(n) : n \in {"download", "aqua"} \ {r.name : r \in
                                                 {s \in resources : s.kind = "Installer"}}}

Cyclic(resources) ==
    \E S \in SUBSET {Id(r) : r \in resources} \ {{}} :
        \A id \in S : \E r \in resources : Id(r) = id /\ r.needs \cap S # {}

(***************************************************************************)
(* What a command says of the resources it has loaded.                     *)
(***************************************************************************)
RunValidate_SetsUnopened(resources) ==
    /\ \A r \in Live(resources) : r.valid
    /\ ~Cyclic(Live(resources))

RunValidate(resources) ==
    /\ ~ExpandConflicts(resources)
    /\ \A r \in ExpandSets(resources) : r.valid
    /\ ~Cyclic(ExpandSets(resources))

ResolvePlan(resources) ==
    resources # <<>> => /\ ~ExpandConflicts(resources)
                        /\ ~Cyclic(AppendBuiltinInstallers(ExpandSets(resources)))

\* Only installers have their spec validated.
RunUserApply(resources) ==
    /\ ~ExpandConflicts(resources)
    /\ ~Cyclic(AppendBuiltinInstallers(ExpandSets(resources)))
    /\ \A r \in ExpandSets(resources) : r.kind = "Installer" => r.valid

Accepts(resources) ==
    CASE command.name = "validate" -> RunValidate(resources)
      [] command.name = "plan" -> ResolvePlan(resources)
      [] command.name = "apply" -> RunUserApply(resources)
      [] OTHER -> values > 0

--------------------------------------------------------------------------------
NewLoader(c, paths) ==
    /\ command' = c /\ args' = paths
    /\ phase' = "open" /\ todo' = paths
    /\ path' = "" /\ loaded' = <<>> /\ values' = 0
    /\ verifiedDirs' = {} /\ handed' = {} /\ proven' = {} /\ evaluated' = {}

ManifestsInit ==
    /\ machine \in Machines
    /\ command \in Commands /\ args \in PathLists
    /\ phase = "open" /\ todo = args
    /\ path = "" /\ loaded = <<>> /\ values = 0
    /\ verifiedDirs = {} /\ handed = {} /\ proven = {} /\ evaluated = {} /\ done = {}

End(ok) ==
    /\ phase' = "idle"
    /\ LET gives == ok /\ command.name # "eval"
       IN  done' = done \cup {[command |-> command, args |-> args, ok |-> ok,
                               resources |-> IF gives THEN ExpandSets(loaded) ELSE {},
                               kept |-> IF gives THEN BuildResourceMap(loaded) ELSE {}]}
    /\ UNCHANGED <<machine, command, args, loader>>

\* One error ends the command, whatever was loaded before.
Fail == End(FALSE)

OpenPath ==
    /\ phase = "open" /\ todo # <<>>
    /\ Head(todo) \in Dir \cup File
    /\ todo' = Tail(todo)
    /\ LET p == Head(todo)
       IN  IF CueFiles(p) = {}
           THEN UNCHANGED <<phase, path>>
           ELSE path' = p /\ phase' = IF ByInstances(p) THEN "verify" ELSE "evaluate"
    /\ UNCHANGED <<machine, command, args, loaded, values, verifiedDirs, handed, proven, evaluated, done>>

PathMissing == phase = "open" /\ todo # <<>> /\ Head(todo) \notin Dir \cup File /\ Fail

\* verifyModuleDeps: the module file is that of the nearest cue.mod.
VerificationOff == ~HasVerifier \/ command.vendored

Verified_AnyDir(d) == verifiedDirs # {}

Verified(d) == d \in verifiedDirs

VerifyModuleDeps ==
    /\ phase = "verify"
    /\ LET d == FindCueModDir[DirOfPath(path)]
       IN  IF VerificationOff \/ ~InModule(path) \/ Verified(d)
           THEN UNCHANGED <<verifiedDirs, handed, proven>>
           ELSE \E reachable \in BOOLEAN :
                  /\ ~ModuleOf(path).broken
                  /\ verifiedDirs' = verifiedDirs \cup {d}
                  /\ handed' = handed \cup DepsOf(path)
                  /\ proven' = proven \cup {m \in DepsOf(path) : VerifyOne(m, reachable)}
    /\ phase' = "evaluate"
    /\ UNCHANGED <<machine, command, args, todo, path, loaded, values, evaluated, done>>

BrokenModule ==
    /\ phase = "verify" /\ ~VerificationOff
    /\ InModule(path) /\ ModuleOf(path).broken
    /\ Fail

DoesNotLoad(p, m) ==
    /\ ByInstances(p)
    /\ \/ LoadFails(CueFiles(p), EnvTagsForSources(CueFiles(p), m))
       \/ InModule(p) /\ ModuleOf(p).broken

DoesNotParse(p) == command.name # "eval" /\ ParseFails(p, machine)

EvaluationFails == phase = "evaluate" /\ (DoesNotLoad(path, machine) \/ DoesNotParse(path)) /\ Fail

Evaluate ==
    /\ phase = "evaluate" /\ ~DoesNotLoad(path, machine) /\ ~DoesNotParse(path)
    /\ evaluated' = evaluated \cup
           {[dir |-> DirOfPath(path), files |-> Taking(path, machine), instances |-> ByInstances(path)]}
    /\ values' = values + 1
    /\ loaded' = IF command.name = "eval" THEN loaded ELSE loaded \o ParseResources(path, machine)
    /\ phase' = "open"
    /\ UNCHANGED <<machine, command, args, todo, path, verifiedDirs, handed, proven, done>>

Decide == phase = "open" /\ todo = <<>> /\ End(Accepts(loaded))

\* The next command names the same places, in any order.
Times(p, paths) == Cardinality({i \in DOMAIN paths : paths[i] = p})

SamePlaces(a, b) == \A p \in ToSet(a) \cup ToSet(b) : Times(p, a) = Times(p, b)

NextCommand ==
    /\ phase = "idle" /\ Cardinality(done) < MaxCommands
    /\ \E c \in Commands, paths \in {ps \in PathLists : SamePlaces(ps, args)} : NewLoader(c, paths)
    /\ UNCHANGED <<machine, done>>

ManifestsNext ==
    \/ OpenPath \/ PathMissing \/ VerifyModuleDeps \/ BrokenModule
    \/ Evaluate \/ EvaluationFails \/ Decide \/ NextCommand

ManifestsSpec == ManifestsInit /\ [][ManifestsNext]_manifestsVars

--------------------------------------------------------------------------------
(* What apply or plan evaluates by load.Instances, which resolves imports, *)
(* had every first-party module that its cue.mod names handed to the       *)
(* verifier earlier by the same loader, whatever directories came before,  *)
(* and a module is only found signed by a signature of tomei that is whole *)
(* and, unless it is a legacy bundle, names the artifact.                  *)
ImportsChecked ==
    /\ ~VerificationOff =>
         \A e \in evaluated : e.instances =>
             \/ FindCueModDir[e.dir] = ""
             \/ FirstPartyDeps(ModuleIn[FindCueModDir[e.dir]]) \subseteq handed
    /\ \A d \in proven : \E l \in Registry[d].layers :
           l.by = "tomei" /\ l.whole /\ (l.form = "cosign" => (l.covers /\ l.names = Registry[d].digest))

Redefined(r, resources) == \E s \in resources : s # r /\ Id(s) = Id(r)

(* The order in which the paths are given decides one thing only: of a     *)
(* standalone resource that two places define differently, which is not    *)
(* refused, the last definition is used (buildResourceMap).  Otherwise the *)
(* same places are accepted or refused alike, with the same resources to   *)
(* the last field, and the same are used, although sets are checked        *)
(* against what comes before them, directories share a cache of verified   *)
(* modules and one error ends the load.                                    *)
OrderDecidesRedefinedOnly ==
    \A a, b \in done :
        (a.command = b.command /\ SamePlaces(a.args, b.args)) =>
            /\ a.ok = b.ok /\ a.resources = b.resources
            /\ \A r \in a.resources : ~Redefined(r, a.resources) => r \in a.kept \cap b.kept

(* What validate accepts, plan and apply accept, and get the same          *)
(* resources to the last field: although validate loads without a          *)
(* verifier, adds no built-in installers and looks at specs that they do   *)
(* not look at.                                                            *)
ValidatedApplies ==
    \A a, b \in done :
        (a.command.name = "validate" /\ a.ok /\ b.command.name \in {"plan", "apply"}
          /\ SamePlaces(a.args, b.args)) =>
            (b.ok /\ a.resources = b.resources)

(* README.md of the repository says of @if(...) above the package clause:  *)
(* "The file is only loaded when the current platform matches the          *)
(* condition."                                                             *)
LoadedOnlyWhenMatching ==
    \A e \in evaluated : \A f \in e.files : Holds(Source[f].when, BareTags(machine))

================================================================================
