# Formal model of tomei

tomei installs command line tools, language runtimes and package-manager
packages from a declarative manifest. `tomei apply` compares the manifest with
`state.json`, orders what has to change along the dependencies between
resources, runs it in parallel, and saves the new state. This directory holds
TLA+ models of the parts of that process that are hard to test, the TLC
configurations that check them on small instances, and proofs, checked by
TLAPS, that some of the results hold for every instance.

Paths below are relative to the repository (`src/` here is the repository
root).

## 1. The system

### 1.1 Components

| Component | State | Operations | Modules |
|---|---|---|---|
| Dependency resolver (`internal/graph`) | nodes, edges, in-degrees; the colours and parents of the search; the counters and queue of the sort | `AddResource`, `Resolve`, `detectCycle`, `topologicalSort` | `DependencyGraph` |
| Layer execution (`internal/installer/engine`, `Apply` to `executeNodesParallel`) | current layer and phase, goroutines, a weighted semaphore, error list and `updatedRuntimes` under a mutex, the flushed state | start and end of layers and phases, launch, acquire, run, merge, release, wait, flush, cancel | `LayerExecution`, `LayerContract` |
| Apply end to end (`engine.go`, `internal/installer/reconciler`, `executor`) | manifest, `state.json`, `StateCache`, what is installed, taint marks | reconcile, install, upgrade, taint, rebuild, remove, flush; fail, be interrupted, be killed | `Engine` |
| State store (`internal/state`) | `state.json`, `.bak`, both temporary files, `state.lock` and its flock, the state in memory of each process | `Lock`, `Unlock`, `Load`, `Save`, `CreateBackup` | `StateStore`, `StateRegister` |
| Commands that change state (`cmd/tomei`: apply, apply --sync, init, env) | how far the command has got | checks before the lock, jobs under it | `StateStore` |
| Uninit (`cmd/tomei/uninit.go`) | the entries still to be removed | confirm, remove one entry | `Uninit` |
| Plan (`cmd/tomei/plan.go`) | none | what an apply would change | `Plan` |
| Tool installer and placement (`installer/tool`, `installer/place`) | install directories, binaries, bin directories | validate, fetch, copy, link, clean up, remove | `ToolPlacement` |
| Doctor (`internal/doctor`) | none | scan, conflicts, integrity | `Doctor` (tools only) |
| Download, checksums, extraction (`installer/download`, `internal/checksum`, `installer/extract`) | a temporary directory | request, receive, verify, extract | `Fetch`, `Checksums` |
| Runtime installer (`installer/runtime`) | install directories, links | resolve, download, move or copy, link, bootstrap, remove | `RuntimeInstall` |
| Installer repositories (`installer/repository`, `internal/git`) | clones, entries of an installer | clone, pull, check, delegate, remove | `Repositories` |
| Aqua registry (`internal/registry/aqua`) | a cache of package definitions | read, fetch, write, resolve, sync | `Registry`; sync in `StateStore` |
| Log store (`internal/log`) | session directories, an open file per resource | record, flush, clean up, close, list, read | `LogStore` |
| Terminal UI (`internal/ui`) | the Bubble Tea model, the summary's counts | update, snapshot, view | `ApplyView` |
| Apply's event handling (`cmd/tomei/apply.go`) | how far the command has got | hand out events, Ctrl+C, finish | `ApplyReport` |
| Self-upgrade (`internal/upgrade`, `cmd/tomei/upgrade.go`) | the tomei binary, its backup, a staging file | check, download, replace, verify, restore | `SelfUpgrade` |
| Manifest loading (`internal/config`, `internal/verify`, `resource/expand.go`, validate, cue) | the loader's cache of verified modules | open, verify, evaluate, parse, expand, accept | `Manifests` |
| Resource types (`internal/resource`) | none | dependencies, versions, sets | as data of the modules above |
| Version resolution, commands | none | HTTP, shell | their outcome, in the modules above |
| State diff and validation, env output, tree and graph export, get | none | read and print | not modelled: read-only |

### 1.2 How they interact

`apply` reads the manifest, resolves the graph for the plan it prints, and asks
for confirmation. `Engine.Apply` then takes the state lock, loads the state,
copies it to `state.json.bak`, applies the update flags, saves the installers,
and hands the state to `StateCache`. The resolver's layers are executed one
after the other; each layer runs runtimes and installers, then installer
repositories, then tools. A node updates the cache; the cache is flushed
through `Store.Save` after every layer, also after a failed one. When a runtime
was upgraded, its tools are tainted, flushed and reinstalled. Last, what the
manifest no longer names is removed, tools before runtimes, and the cache is
flushed once more. Everything inside the lock belongs to one process; everything
before it is unprotected.

### 1.3 What makes it hard

- **Goroutines**: downloads have one each, delegation groups one per package
  manager; they share a semaphore, an error list, `updatedRuntimes` and the
  cache, and a signal can cancel their context between any two steps.
- **Three copies of the truth**: what is installed, what `state.json` says and
  what the cache says; they are brought together only by flushes, and every
  early return skips some of these.
- **Memory that has to survive**: that a runtime was upgraded is known only to
  the running `Apply`.
- **Processes**: the lock is advisory, some checks come before it, one command
  ignores it, and each write may fail or be the last thing a process does.
- **Files and links**: no two of the operations that install something are
  atomic together, bin directories are shared, and old versions stay.
- **Two readers of one truth**: the plan, doctor, validate and the view each
  compute for themselves what the engine, the installers or apply decide.
- **Go's map iteration** makes the order of the search and of the layers
  nondeterministic.

### 1.4 What makes each component correct

- Resolver: a cycle is reported exactly when there is one and is a real one;
  otherwise each node is in one layer, after all it depends on, and no later
  than that requires; the search ends.
- Layer execution: the parallelism bound, one tool at a time per package
  manager and none after a failed one, nothing started before its dependencies
  have succeeded, a quiet moment at each flush, no success unless everything
  succeeded and is saved, no deadlock.
- Engine: success means that the machine, `state.json` and the manifest agree;
  nothing installed is forgotten; nothing outlives what it needs; an upgraded
  runtime has its tools rebuilt; retrying converges.
- State store: one writer; readers see whole files; no update is lost; the
  backup is the state from before the apply; the lock file names its holder.
- Plan: nothing is changed that was not shown.
- Placement and runtimes: a link belongs to the version state names; nothing
  partial is taken for an installation; nothing dangles; retries end.
- Fetch: only content that the stated digest is of is installed.
- Registry: the definition resolved is the one published at the ref asked for.
- Logs and view: every failure is told once, with the output there is of it.
- Self-upgrade: a binary that runs exists at every moment, and the outcome
  reported is true.
- Manifests: what one command accepts another does not refuse, whatever the
  order of the paths, which decides at most between two definitions of one resource, and
  imports are verified before they are evaluated.

## 2. Modules

### 2.1 DependencyGraph

One run of the resolver. `AddResource` may be called for one id any number of
times, as when two paths load one manifest: `addEdge` counts an edge only when it
is new (`NewDegree`), and an edge counted twice is the mutant that leaves its node
in no layer. The search is one step per visited
node and edge with an explicit stack for the recursion, and the sort takes one
node from the queue at a time. Each place that ranges over a map is a free
choice. A layer is a set: the sort by kind and name that ends a layer only
orders what is complete; `LayerExecution` has that order as `Rank`.

- `CycleIsReal`: what `detectCycle` reports is a closed path of the graph.
- `EveryNodeInOneLayer`, `LayerOrder`, `NoNeedlessWait`: the layers are a
  partition, respect the edges, and are minimal (each node beyond the first
  layer has a dependency in the layer just before its own).
- `ResolverEnds`: under weak fairness of its only process, the resolver ends.

Run `dependency_layers`: five resources, one of each kind and two tools, every
graph their references can form (Dependencies are restricted by kind as in
`internal/resource`), every iteration order. Five nodes are enough for a
self-loop, a cycle through a repository, an installer that is a tool with its own
runtime, a diamond and a chain of four layers.

### 2.2 LayerExecution and LayerContract

The layer loop at the grain of the operations that other goroutines can see:
acquiring a permit, executing, recording a result under the mutex, releasing,
the wait group, the flush. `main` is the goroutine of `Apply`; `status[n]` is
the goroutine of a node, or its place in a group; `group[k]` is the goroutine of
a delegation group. The two fast paths that start no goroutine are
`StartNext`/`EndSequential`. The order of release and merge differs between
downloads (deferred release) and groups (release first), as in the code. A
group loop that finds the context cancelled ends without an error of its own
(`LaunchedGroups`); the loop over downloads records one (`LaunchCancelled`).

`LayerContract` is what the loop promises without goroutines: nodes start in
stages, within the bound, one at a time and in order per package manager, after
everything in earlier stages has succeeded; giving up has a reason.
`ImplementsContract` is the refinement.

Run `layer_execution`: three layers and nine nodes that take every branch of
`executeLayer`: a concurrent runtime phase, a layer that is one delegation group
(sequential path), and one with a lone repository (sequential path) and three
tools in two groups (one by runtime, one by a delegating installer) beside a
download, with two permits, so that goroutines wait for each other. Every outcome of
every node, and a signal at every moment. More nodes repeat these shapes; a
third permit would remove the contention between groups and downloads.

Fairness is `WF_vars(Progress)`: if some goroutine can take a step, some
goroutine does. The Go scheduler gives more; less would let the process
stop. It is enough because each goroutine has finitely many steps. No fairness
is assumed of `Cancel`. An installation that never ends is outside the model.

### 2.3 Engine

Applies in sequence, with a user between them. `world` is what is installed,
`disk` is `state.json`, `cache` the copy in memory. `Begin` is the head of
`Apply` up to the first layer; `RunRuntime`, `RunTool` are the nodes;
`EndLayer` the flush and only then the error; `StartRebuild`, `Rebuild`,
`EndRebuild` are `handleTaintedTools`; `StartRemovals` to `EndRemovals`
are `handleRemovals`; `Finish` is the last flush. `Fault` guards everything
that may go wrong: an install or removal that fails, a flush that fails, an
interruption, a kill. A fault that interrupts an install leaves what was
there before. Concurrency inside a layer is `LayerExecution`'s subject and
processes beside this one are `StateStore`'s, so a node is one step here and an
apply has the state for itself.

- `OkMeansConverged`: an apply without an error has made world, state and
  manifest agree, whatever came before it.
- `NoOrphans`: what is installed is in `state.json` or in the manifest.
- `NoToolOutlivesItsRuntime`: also halfway through removals.
- `RebuiltAfterUpgrade`: when removals begin, the tools of each upgraded
  runtime are built with its new version.
- `EventuallyConverges`: a user who keeps applying gets what the manifest says.

Run `engine`: a runtime, a tool built with it, a downloaded tool that may be given
another binary name, two versions and `latest`; two changes of the manifest or upstream and two faults of any
kind. The module `Plan` has what `tomei plan` computes, over the same states; the run
checks `PlanShowsChanges`: an apply with the same flags and no command in between
changes no runtime or tool whose change the plan does not show. The statement has two
exceptions, in both of which the plan shows nothing and the engine reinstalls: a manifest that
pins the version a resource has already (`Pinned`), and one that gives a tool another
`binaryName` and changes nothing else (`Renamed`), which `ToolComparator` looks at and
`plan.go:194` does not. Removed installer repositories are a third, outside this
module: `plan.go:210-232` looks for removals among runtimes and tools only, so the plan
never shows them. What the plan shows and the engine does not do (a version left
open is shown as an upgrade for ever) is not excluded.

Two changes make "upgrade and drop in one edit" and "edit, fail, edit"
possible; two faults a failure in the recovery from another.

`Patient` is an assumption on the user: after a run that lost information
(a kill, a failed flush or a failed removal) the same manifest is applied again
before it is edited. Without it `OkMeansConverged` is
false (section 4). It is a constant so that anyone can see this by changing it in
`MCEngine.cfg`.

Fairness: `WF_vars(Work)`, a running apply goes on, which the operating system
gives; `WF_vars(Apply)`, the user keeps applying, which is the premise of
"eventually": `EventuallyConverges` says what a persistent user gets, not that
tomei retries by itself. There is no fairness of edits or faults, and both are
bounded (`MaxChanges`, `MaxFaults`), which is the hypothesis "once the faults
are over".

### 2.4 StateStore and StateRegister

Processes that run apply, apply --sync, init, init --force or env, at the grain
of system calls. `lockFile` is the inode that `state.lock` names and
`held[p]` the inode that p has locked, because flock locks inodes and not
names. A file's content is the set of updates it includes; `Absent` and `Torn`
(written in part) are the two other values. `Kill` can come before any step and
drops the lock as the kernel does; each write may fail (`SaveFails`,
`BackupFails`, `WritePidFails`), with the clean-up the code does or does not do.
A failed backup is a warning and a failed sync too, so both go on.

`StateRegister` is the promise: a register with one owner, replaced as a whole
by something that keeps what was there (`Commit`) or reset by init.
`ImplementsRegister` is the refinement: no saved update is lost, a crash leaves
the state before or after a save, and nobody writes outside the lock. init
looks for `state.json` before it takes the lock (`init.go:118`) and resets
what another init, and an apply after it, may have written meanwhile; the
register permits a reset by the owner, so this race is allowed, not excluded.
doctor takes the lock and reads as env does; plan, get and state read without
it and are not modelled.

Run `state_store`: three processes with symmetry, every command, two saves per
apply: two processes that meet and one that comes after a crash of either. No
more than two saves matter because a save depends only on what is in memory.

No fairness and no liveness here: the lock is only tried, never waited for, so
no command waits for another.

### 2.5 Uninit

`StateStore` with `tomei uninit` beside it: `os.RemoveAll` on the data directory,
one entry at a time, without the lock. It exists for the run in section 4.

### 2.6 ToolPlacement and Doctor

How tools reach the disk, file operation by file operation, in all five ways
(`Way`): download, registry package, runtime's package manager, installer,
own commands. `entry` is the contents of the bin directories, `file` the tools
directory; a killed `Copy` leaves "partial". Tools of a layer run at once, each at
its own `pc`; `Remove` comes when the layer is done, and when one fails (a remove
command, a directory that cannot be deleted) the apply returns and nothing that was
removed is saved (`RemoveFails`); `disk` is
what the last flush wrote. `Doctor` is operators over these states.

- `EntriesMatchState`: after a success each entry whose name only one tool can
  have is the recorded tool's, or is not there. Names that several tools may
  have (`binaryName` exchanged, or kept over a rename of the resource) are
  excluded: there each tool removes its old link, whoever has it now, and the
  property is false. So are tools that the user changed while their entries were
  not what state says (`strayed`): what an apply that was cut short left of the old
  spec nobody looks for when the spec is another. An archive's hash never fits
  the binary that an earlier attempt left, so such an install can stay
  cut short for good.
- `PartialNeverRecorded`: with a digest, a copy cut short is never recorded, under
  the same exceptions. Without a digest the code accepts whatever file is there.
- `HealthyAfterSuccess`: doctor finds nothing missing, and calls foreign only
  tools whose file has another name than their resource, because
  it looks them up by the resource's name.
- `RetriesConverge`: retries end in success, or with a binary whose hash is not
  the spec's (`Stuck`), which the code refuses to replace and never forces.

Run `tools`: a registry tool that can be renamed and left open, a download with
a digest, a tool of a runtime that can be renamed, one with its own commands, which
may fail to install and to remove; one edit and one kill. A second edit multiplies the states and adds no new pair
of operations: all manifests are initial states. The three invariants are also
proved (3.7). Fairness: the engine works, the
user retries after a failure (`WF` of `Work` until an apply has succeeded), and a
download, command or removal that is tried again and again succeeds in the end (`SF`).

### 2.7 Fetch, Checksums and Registry

`Checksums` is the parser of checksum files, for all four formats, as operators;
`Fetch` is a download from the URL to the extracted tree: the server sends any
content, the time may be up anywhere, the archive has any order. `Registry` is
the resolution of a registry package with the cache that workers share.
`Artifacts` puts `Fetch`, `Registry` and `SelfUpgrade` side by side: what tomei
gets from elsewhere.

- `OnlyStatedContent`: what is extracted is what a digest stated for this file is
  the hash of. `Stated` reads the file again without the parser: it is
  the reference that `ParseFile` is checked against.
- `OrderOfEntriesIrrelevant`: a tar archive in which no entry is in another's way
  (`Sound`) is extracted in full in any order of its entries; and whatever archive
  is extracted, the last file of a path is what is there. Order does decide where
  entries are in each other's way: a directory and a file of one path, a file below
  a file, a link where something is (`os.Symlink` and `os.Link` fail), a directory
  that cannot be written to before its files. There the extraction fails
  (`Blocked`, `Hampered`, `LinkBlocked`), in one order and not always in another,
  and the property claims nothing but the last file.
- `ResolvesAsPublished`: whoever shares the cache and its temporary file, and
  wherever a write is cut short by a kill or a full disk, a resolved package is what
  its own ref says of it, or, where two wrote that ref's cache at the same time
  (`shared`), what half of its definition says.

`os.WriteFile` opens and truncates, then writes (`OpenTmp`, `WriteTmp`,
`FinishTmp`), and every writer uses the same name. One alone may be stopped
anywhere: what is left under that name is truncated by the next, and only a whole file is
renamed. When a second opens the file before the first has renamed it, the first
renames a file that the second is about to write: whoever reads it then sees half
of it, and if the second is killed, or its disk is full, half a definition stays in
the cache, to be resolved by every later apply (`Halves`: what is left when
the YAML ends early may be a definition with fewer fields). A file that cannot be parsed
is a miss and is fetched again.

Run `artifacts`: two contents and garbage; checksum files of two lines out of every
kind of line; archives of up to four entries in all orders, and ten sets of two or
three entries that are in each other's way; three workers over
two refs, interchangeable (`WorkerSymmetry`), which is enough for one to read what two write. The parts of `Artifacts` (the third is `SelfUpgrade`, 2.10) share no state and
each initial state chooses one, so that one run has them all. All three properties
are also proved (3.6). Safety only: every step is followed by another or an end.

### 2.8 RuntimeInstall and Repositories

A runtime's directory is moved into its place at once, or copied there when it is
on another device, and its binaries are linked one by one; delegated runtimes
run a bootstrap. A repository is a clone or an entry of an installer. `Installs`
puts the two side by side; they share no state.

- `NoDanglingLink`: no link leads to a directory that is not there, at any moment.
- `LinksMatchState`, `ReposMatchState`: after a success the links, clones and
  entries are those of state, and clones are whole.

Both leave out what state cannot know, each in a history variable that names the
code's own gaps:

- `cut` and `lost`: what a kill interrupted, or what an apply removed before it ended
  without the last flush. `executeRemovals` (engine.go:1301) stops at the first removal
  that fails (a directory that cannot be removed, a remove command after the links are
  gone, runtime/installer.go:252; `RemoveFilesFails`, `RemovalsFail`, `RemoveFails`,
  `OthersFail`), and Apply returns: state.json still lists what was removed. A user who
  then puts such a runtime or repository back gets an apply that succeeds without its
  links or its clone. A runtime leaves `cut` when it is recorded or removed again; a
  repository stays in `lost`, as does one that changed its type or its installer,
  which leaves the old clone or entry behind.
- `halved`: a version's directory whose copy (`copyDir`, on another device) or whose
  `os.RemoveAll` was cut short. The next install finds the directory and takes it for
  an installed version (runtime/installer.go:135), so it may be linked and recorded
  half filled; the property says that nothing else makes a recorded directory less than whole.

Run `installs`: one downloaded and two delegated runtimes of each kind, two with a
binary of the same name, both versions and an alias, two edits (remove, and put back)
and one kill, with failing installs and removals of one downloaded and one delegated runtime; two
repositories, two URLs, two installers, two edits, any failures. All three are also proved (3.6).
A flush that fails after a layer leaves what a kill there leaves, and is not a step of its own.

### 2.9 LogStore, ApplyView and ApplyReport

`LogStore` is the log directory and each apply's store; `ApplyView` is the Bubble
Tea model and the counts; `ApplyReport` puts both under an engine that emits the
events of an apply: layers, rebuilds (`taint`), removals. Two applies
run; the state's lock admits one to the engine, but logs are opened before and
written after.

- `LogsTellFailures`: every failure of an apply has its log, with every line the
  engine passed on since the resource last started, nothing else has one, and
  `tomei logs` answers with the last failures. Not said of applies of the same
  second, which share a directory, nor after a kill. The engine passes on what tools
  and runtimes of the graph's layers print (`Heeds`, `buildNodeContext`): a rebuild, a
  removal or a repository runs without a callback, so its log has no output at all,
  only the error. For users this is a gap in the logs; no document promises more.
- `ViewTellsTheApply`: at every moment the frame has each layer once, with its
  tasks and outcomes, and the summary counts each outcome once. What the layers of the
  graph completed is one count here: the summary's installs, upgrades and
  reinstalls of those layers are not told apart.

`told` is the history both are compared with. `PlansAssumption` says what plans
the engine has: the layers of the graph, then rebuilds, then removals, as
`Engine.Apply` calls them, and no rebuild without a layer, because only a runtime
upgraded by a layer taints. The frame of a layer is a record of the lines of what has
ended and of the rest, whose places are those of their starts. An earlier apply's
logs are the latest only while fewer than `Keep` applies have begun after it: from
then on `Cleanup` may remove them (`IsLatest`). Both are also proved (3.8). Run
`report`: an apply of a layer
and a rebuild, of two layers (the second of a repository) and a removal, or of removals only, beside one of
one layer; an old session; two sessions kept; one kill.

### 2.10 SelfUpgrade

`replaceBinary` and what surrounds it, one file operation per action. Releases may
be damaged or mislabelled; each operation in `Faulty` may fail; the user may
interrupt; the process may be killed; a second upgrade may start.

- `SomeBinaryWorks`: while upgrades do not overlap there is always a binary that
  runs, in its place or as a backup.
- `OutcomeIsTrue`: "ok" means the target is in place and runs, "failed" that the
  old one is. That a backup could not be deleted is not reported (`CleanupFails`,
  upgrade.go:455): it stays beside the new binary.

Run `artifacts` again: two processes, two releases, two faults: a failure in
the recovery from another. Both are also proved (3.4).

### 2.11 Manifests

From paths to resources for apply, plan, validate and cue eval: which files are
opened, which modules verified, which files take part on this machine, what is
parsed, expanded and accepted. CUE's evaluation and the OCI registry are external,
modelled by what the code relies on (`Included`, `LoadFails`). A path is a
directory, which `load.Instances` evaluates, or a file: with a package clause
in its first line that is no comment (`DetectPackageName`) it is loaded in the same
way, otherwise it is compiled by itself, without tags, imports or conditions
(`ByInstances`). What a package says in the order of its fields is a sequence in any
order; a file's body is a list, one resource or the fields of a struct.

- `ImportsChecked`: a package is evaluated only after its module's first-party
  imports went to the verifier, and only whole signatures by tomei prove one.
- `OrderDecidesRedefinedOnly`: the order of the paths does not decide what is accepted, nor
  which resources come of it, compared as whole resources. It does decide which definition
  is used of a standalone resource that two paths define differently: `ExpandSets` refuses
  conflicts of sets only, and `buildResourceMap` (`BuildResourceMap`, `kept`) lets the last
  one replace the others; the plan's map does the same. In the run, a tool of `home` and `mine` is
  such a one.
- `ValidatedApplies`: what validate accepts, plan and apply accept, with the same
  resources, again whole ones.

Run `manifests`: seven directories and thirteen files, chosen to take each branch,
all pairs and some triples of the paths that load, each of the odd ones with a set,
two machines that differ in every condition, two commands one after the other. The converse of `ValidatedApplies`
does not hold: apply looks at the specs of installers only. All three are also proved
(3.8). Run `file_condition_ignored` belongs to section 4.

## 3. Proofs

### 3.1 DependencyGraphProofs

For every finite set of nodes:

- `SortedGraphIsAcyclic`: a graph that reaches the sort is acyclic.
- `NoNodeLostOrRepeated`: at the end every node is in exactly one layer.
- `LayersRespectDependencies`: each node comes in a later layer than all it
  depends on.
- `LayersAreEarly` (`NoNeedlessWait`): each node of a later layer depends on one of
  the layer just before.
- `ReportedCycleIsReal` (`CycleIsReal`): the cycle of the error message is a cycle of
  the graph.
- `ResolverTypes`: the types; no in-degree becomes negative.

`SortedGraphIsAcyclic` is about `AcyclicBeforeSort`, which no run checks: it is the
step on which the other two rest. The properties are not inductive by
themselves. The invariant adds `DegreeInv` (in-degrees count edges), `PathInv` (the stack of the search holds
distinct gray nodes), `BlackInv` (black nodes depend only on black nodes, and every
nonempty set of them has a member with no edge into the set, which is
acyclicity without paths), `PhaseInv`, and `SortInv` (the counters of Kahn's
algorithm count the dependencies not yet visited). That the queue runs empty only
when all nodes are placed is the one global argument: a set of unplaced nodes
would have a member without an edge into it by `BlackInv`, whose counter would
be zero.

`ReportedCycleIsReal` needs more of the search: `detectCycle` rebuilds the cycle by
following `parent` up from the node where it met a gray one, and `parent` is
overwritten whenever a node is reached again. `WalkInv` says that below the top of
the stack the parent of each node is the one under it, so the walk goes down
the stack and stops at the gray node; that such a walk ends is shown from the
least position it can reach (`LeastNumber`). `LayersAreEarly` adds `WaitInv`: the nodes
that have become ready depend on one of the layer being placed.

Assumptions: `NodeAssumption` (finitely many nodes), `KindAssumption`.

### 3.2 StateStoreProofs

For every finite set of processes, every subset of the commands and every bound
on saves:

- `CommandsExclude`, `LockFileNamesHolder`, `FilesAreWhole`, `BackupKept`: the four
  invariants of the run.
- `StoreIsRegister`: the refinement, `Spec => ImplementsRegister`.

`IInv` strengthens them with `LockInv` (being inside the lock is having locked
the inode that `state.lock` names; an inode has one owner), `JobInv` (which job
takes which steps; the jobs of apply find a state file), `DataInv` (who has
loaded the state and still holds the lock has all of it in memory; what is about
to be renamed is what is in memory) and `FreshInv` (what an engine
saves appears nowhere before). `LockInv` is where the absence of uninit is used:
no command of this module gives the name `state.lock` to another inode. Each
part has one lemma with one step per action. Assumptions: `StoreAssumption`
(finitely many processes, at least one save) and `ValueAssumption` (the values
for "no file", "half a file" and "no job" are none of the others).

### 3.3 LayerExecutionProofs

For every finite set of nodes, every assignment of layers, kinds, runtimes and
installers to them, and every parallelism:

- `PackageManagersExclude`, `ParallelismIsBounded`, `GroupsFailFast`,
  `DependenciesFirst`, `FlushIsQuiet`, `SuccessIsComplete`, `WorkIsSaved`,
  `LoopTypes`. `ParallelismBound`, `FailFastInGroup`, `QuietAtFlush` and
  the types are proved only; the run has the first two through
  `ImplementsContract`.

From the same invariant, with the parts listed last:

- `FailuresStayLocal`: the run's `OthersStillRun`.
- `LoopIsContract`: the refinement, `Spec => ImplementsContract`.

`IInv` has a part for each thing that a property leaves unsaid:

- who is at work: only nodes of the current phase (`ActiveInv`), one of them on
  the sequential path (`SequentialInv`), one per group, and then the group's
  goroutine is there (`GroupInv`, `OneInv`). This is what makes `wg.Wait` enough
  for a quiet flush.
- `PermitInv`: the semaphore's count is the number of goroutines with a permit.
  A download has it until after its result is recorded, a group only while its
  tool runs; the order of release and merge differs, so the set of holders
  (`HoldsPermit`) has a case for each.
- `RecordInv`: errors and upgrades are those whose goroutine has been through
  the mutex.
- `OrderInv`: a group goes on only while its tools succeed, in the order of the
  layer.
- `PhaseInv`, `StageInv`: a phase that ends without an error has left nothing
  out, except the groups that a signal kept from being launched. That hole is
  why `StageInv` is weaker for the last phase, and why the check of `ctx.Err()`
  at the head of the loop is needed: a layer that lacks some groups is never
  followed by another, nor by success.
- `FlushInv`: the state on disk is behind only inside a layer.

These two add three parts: every recorded error has a reason
(`ErrsInv`, which is why giving up has one), the path of a phase does not change
while it runs (`PathInv`), and without a signal the loops launch everything and a
group ends early only behind a failure (`OthersInv`). Each start maps to the
contract's `Start`: the stages before come from `StartsAfterDependencies` in the
next state, the rivals from `OrderInv`, the bound from `PermitInv`. Recording and
releasing are stutters, because the contract has the outcome already.

Each part has one lemma with one step per action. Assumption: `ConstAssumption`
(finitely many nodes, ranks that order them, at least one permit, and a
delegation key that is never the empty one).

### 3.4 ArtifactsProofs: SelfUpgrade

For any set of processes and any number of releases and faults: `BinaryAlwaysRuns`
(`SomeBinaryWorks`), `OutcomesAreTrue` (`OutcomeIsTrue`), and, also for upgrades
that overlap, `BinaryNeverGone`. The invariant is the types, `BackedUp` (whoever
moved the binary away still has it, and a missing binary is the backup of someone
who is not about to delete it) and `StepByStep` (at each step of an upgrade
that is alone, what the binary and the backup are). `BackedUp` is
needed for overlapping upgrades, where one moves away what the other has just
put there. Assumption: `UpgradeAssumption`.

### 3.5 EngineProofs

For any number of runtimes, tools, versions, edits, releases and faults, under
`EngineAssumption` and `UserAssumption` (`Patient`, and each tool may refer to
one runtime or to none):

- `SuccessConverges` (`OkMeansConverged`): an apply without an error has made
  the machine and `state.json` what the manifest says, whatever was cut short
  before it, and the next apply has nothing to do.
- `NothingForgotten` (`NoOrphans`), `RuntimesStayForTools`
  (`NoToolOutlivesItsRuntime`), `UpgradesRebuild` (`RebuiltAfterUpgrade`).

None of the four is inductive, because what an apply that was cut short
leaves behind is seen only by a later one. The invariant says what that can be. A state
that is not true of the machine is due for an update or for a removal that was
done already (`StaleIsDue`), and then either the user owes a retry or the apply
that made it so is still running (`StaleIsRetried`); since the
manifest is not edited meanwhile, the retry finds the same work to do. What is
installed but not recorded is in the manifest, with a retry owed (`Tracked`). A
runtime that is recorded but gone is wanted by no tool of the manifest
(`GhostsUnwanted`), which is why a tool is never installed with it. The others
say what each phase leaves to the next: complete layers (`LayersComplete`), nothing to
update in them (`RuntimesUpToDate`, `ToolsUpToDate`), nodes reconciled with what
the disk has (`PendingAsRecorded`), tools to be rebuilt (`RebuildsPending`), checked
removals (`RemovalsChecked`). The proof shows where both halves of
`UserAssumption` are used: an edit while a state is stale, and a tool that is built with
another runtime than the one its state names; section 4 has the behaviours
that come about without them.

`PlanIsHonest` (`PlanShowsChanges`, with its two exceptions) needs no assumption on the user: plan and
reconcilers decide with code of their own from the same two inputs, so it rests
on the types and, for upgrades, on the fact that a resolved version is never
"latest".

`EngineAssumption` also says that `None` is no record.

### 3.6 InstallsProofs and ArtifactsProofs

For any runtimes, versions, bin directories, binaries, edits and kills, under
`RuntimeAssumption`:

- `NeverDangling` (`NoDanglingLink`). The invariant: a link to a runtime's
  directory is in the place of one of its own binaries (`LinkedByOwner`), a link is
  made only into a directory that was seen (`LinksOwn`), installs and removals are
  never in progress together (`InPhase`), and no link leads to a runtime whose
  directories are about to go (`UnlinkedFirst`).
- `LinksAreRecorded` (`LinksMatchState`). An apply that succeeds does not look at the
  links of a runtime that it leaves alone, so the invariant (`Truth`) holds at every
  step: a runtime that is not `cut` has the links of the engine's copy of the
  state, or is at one of the steps that bring them there (`MatchedOrAtWork`), and
  at each such step the links already made and those still to be made are all that
  its version has (`Progress`). `FilesOwned` says who wrote a file that is no link, and
  `PartialCopies` that a directory less than whole is being copied or is `halved`.
  An apply that ends without a flush is one lemma (`AbandonEnds`), whatever ended it.

For any repositories, URLs and installers, under `RepositoryAssumption`:

- `RepositoriesAreRecorded` (`ReposMatchState`). What is on disk of a repository is
  what the engine knows of it, but for the clone in progress (`AllAccurate`); a
  clone in progress was not there before (`ClonedAnew`), which is why a
  failed one may be deleted; a clone that state lists is whole, which is why a pull
  is enough; what is removed and not flushed is in `lost` (`AbandonRepos`); the path in the state is where installers clone
  (`PathsAsCloned`), which is why a removal finds it.

For any contents, archives and checksum files, under `FetchAssumption` (kinds of
checksums and entries, lines and entries that are in order):

- `OnlyStatedIsExtracted` (`OnlyStatedContent`). One step is about the phases
  (`VerifiedFirst`), the other about the parser: `ParsedIsStated` shows for each of
  the four formats that what is parsed is the digest of a line that `Stated` has.
- `OrderDoesNotMatter` (`OrderOfEntriesIrrelevant`). Links are made after the last
  entry (`InOrder`). While a sound archive is extracted, the tree is what the
  entries made so far give, and nothing else (`Accounted`), so that nothing is in the
  way of the next (`NothingInTheWay`, `EntryIsMade`, `LinkIsMade`) and no entry fails
  (`NeverFails`): the file that a hard link is of was read by then. For
  every archive, what is at the path of a file that was read is the last such file
  so far (`LastIsThere`), because only a file or a failure takes its place.

For any workers, refs and definitions, under `PackageAssumption` (requests are for
refs of the registry):

- `Resolves` (`ResolvesAsPublished`). Every file that can be reached through a
  ref's directory, or through the descriptor of a worker at that ref, was made for
  this ref (`FiledByRef`, `HeldByRef`) and has bytes of no other (`OwnBytes`). Where no two
  have written at the same time, the writer has the temporary file to itself and as much of
  it is written as it has got to (`OnlyWriter`), so that what it renames is whole, and
  nobody writes to it any more (`CachedWhole`).

The lemmas `RuntimesArePart`, `RepositoriesArePart`, `FetchIsPart`, `RegistryIsPart`
and `UpgradeIsPart` say that the specifications that TLC explores (`InstallsSpec`,
`ArtifactsSpec`) imply those that the theorems are about.

### 3.7 ToolPlacementProofs

For any tools in each of the five ways, versions, names, hashes, edits and kills, under
`PlacementAssumption`:

- `EntriesAreRecorded` (`EntriesMatchState`), `PartialIsNeverRecorded`
  (`PartialNeverRecorded`), `DoctorIsContent` (`HealthyAfterSuccess`).

A kill, or a removal that fails (`Stop`), leaves entries that are neither the old state's nor the new one's, and
the next apply trusts `state.json` and the manifest, not the disk. The invariant says
why that is enough. Whatever is cut short, the entries of a tool are in the two
places that the manifest and the state name (`TwoPlaces`), and if they are not
what the state says the next apply has the tool to see to (`AtRest`, `Pending`);
an apply that succeeded has nothing left to do (`Applied`). `Progress` says how far
each install has come, `KeepsOwn` that a file in use is not deleted by its own
replacement, `WholeOnly` that with a hash only whole files are linked.
`TwoPlaces` is what an edit breaks while entries and state differ, because
the manifest then forgets one of the places. That is the set `strayed`, found when
this proof failed without it.

### 3.8 ApplyProofs

What comes before the engine, for any directories, modules, files, conditions,
registries, machines, commands and paths, under `ManifestsAssumption` (the files have
finitely many values, paths are strings):

- `ImportsAreChecked` (`ImportsChecked`). The loader asks the verifier once per
  directory. The invariant says that a directory it remembers has had its
  imports handed over (`RememberedHanded`), and so has whatever is about to be
  evaluated (`DepsHanded`).
- `OrderIsForRedefined` (`OrderDecidesRedefinedOnly`), `ValidatedIsAccepted`
  (`ValidatedApplies`). Both compare two commands that ended, so the invariant
  (`LoadInv`) gives a meaning to the end of one: it is accepted exactly when its
  arguments are `Good`, which is said without the loader, without sequences and
  without order. On the way, after n paths, what was read is the union of what each
  of them gives, and there is a conflict in the sequence exactly when two paths, or
  one path twice, have it (`ReadSoFar`, `Clashing`). `ConflictIsClash` is the
  step that needs `Standalone`: a set conflicts with a tool wherever the tool stands.
  `BuiltinsCloseNoCycle` is why plan and apply, which add built-in installers, find
  no cycle that validate does not.

What comes after it, for any applies, plans, resources, outputs, seconds, sessions
kept, lines shown and kills, under `LogAssumption` (finitely many applies and
resources), `ReportAssumption`, `PlansAssumption` and
`NoneAssumption`:

- `LogsAreKept` (`LogsTellFailures`). `ReportInv` is the engine's side: who has the
  lock, in which layer it is, that what runs was started in this layer. `LogInv` is the
  disk's. While an apply runs, its store knows of each resource what the last event
  said (`Tracked`), also of one that is built twice; after the flush its directory is
  what the last words call for (`Kept`). That this outlives the other applies
  needs more: sessions are never ahead of the clock, and a directory is somebody's or from
  before every apply (`SessionsPlace`), so a new session is the newest; and a
  directory that is there either belongs to an apply that will still close it or has a
  log of one that failed (`Explained`), so the newest directory is never an empty one.
- `ViewIsTrue` (`ViewTellsTheApply`). Until Ctrl+C the model displays the plan and the
  history (`Layered`): the completed layers are the layers before the present one, each as
  its events left it, the tasks on show are the present layer's (`Shows`), and every count
  counts what has ended in its phase (`Ended`). The invariant holds also between a
  header and the first task, and after the last snapshot, which is where the numbers of
  the engine (from one, per graph) and of the view (an index of blocks) could part;
  `FrameIs` then reads the frame off the model. `Shaped` is where the form of the plans is
  used: without layers of the graph a second block would make the view forget the first,
  because `snapshotCurrentLayer` then does nothing.

### 3.9 Only model-checked

Liveness (`ResolverEnds`, `ApplyReturns`, `EventuallyConverges`,
`RetriesConverge`) is out of the prover's reach; every other property of a passing
run is a theorem. The operators of `Registry` that resolve a definition are
not proved about: `Resolves` is about which definition they are given.

## 4. Where code and documents differ

Three runs are expected to be violated; each checks one sentence of the repository.

| Run | Sentence | What happens |
|---|---|---|
| `uninit_takes_no_lock` | docs/design.md:99: flock prevents concurrent execution | `uninit` removes `state.lock` under a running apply; the next command locks a new inode. |
| `taint_lost` | docs/design.md:109: tools are rebuilt when their runtime changes | the list of upgraded runtimes dies with a failed apply; the next one taints nothing. |
| `file_condition_ignored` | README.md:161: a file with `@if` is only loaded when the platform matches | a file given by its path, whose condition stands above the clause, is compiled by itself and its condition is not looked at. |

More sentences are stated as definitions that TLC finds violated, without a run:

| Definition | Sentence | What happens |
|---|---|---|
| `StateStore!BackupPrecedesApply` | docs/usage.md:419: the backup is from before the last apply | `--sync` saves before the engine takes the backup. |
| `Engine!NoPanic` | docs/architecture.md:130: state without spec is removed | `handleTaintedTools` meets a removal and dereferences its nil resource. |
| `Engine!NoDanglingRef` (with `Ref` giving a tool two runtimes) | engine.go:1466: no remaining tool depends on a removed runtime | `ToolComparator` ignores `runtimeRef`, and the check reads only the manifest. |
| `Engine!OkMeansConverged` (with `Patient = FALSE`) | docs/design.md:97: state.json persists the current environment | a failed removal returns without the flush; a user who then restores the tool gets a successful apply that installs nothing. |
| `Registry!CacheIsAtomic` | fetcher.go:159: the cache is written atomically | two writers share the temporary file: one renames what the other has truncated. |
| `SelfUpgrade!ReplacementIsAtomic` | the command's help: the replacement is atomic | between two renames no binary is at the path. |

The passing properties beside them say what does hold (for instance
`RebuiltAfterUpgrade` within one apply, `BackupIsPreApply` for the state the
engine loaded, `SomeBinaryWorks` for the upgrade).

Found while reading, and visible in the models as exceptions of a property:
a file named like `.config` or `..x` in an archive is refused with those that lead
out (`isInsideDir`); `hasSuffix` says it ignores case and does not
(`extractor.go:80`); `supported_envs` of a version override is never looked at;
a checksum's hash is compared with the installed binary on a retry; doctor
calls renamed tools foreign; a plan does not show that a tool's binary is renamed; a same-second session is shared by two applies.

One comment disagrees with the code without a run: `executeLayer`
(engine.go:423) says that a failing node cancels the running ones;
`executeNodesParallel` says and does the opposite, which `OthersStillRun`
checks.

## 5. Not modelled, and why

- A loss of power: neither the temporary file nor the directory is synced before
  the rename (`store.go:162`), so a power cut could leave an empty `state.json`.
  The file system here keeps every completed call.
- Two concurrent resets: a second init that passed its check before the
  first one finished (allowed by the register, see 2.4).
- Installers that are packages of other tools, `--force`, file modes
  but for a directory or a file that cannot be written to (the user is not root), macOS
  packages (pkg), the search for a binary in an archive.
- The version client, authentication and retries of HTTP; shell commands: their
  outcome is a choice.
- doctor's integrity of runtimes; progress bars without a terminal; diff,
  validation and graph output, which read and print.
- Another command between the plan and the apply: the plan is computed without the
  lock (`apply.go:165`); `PlanShowsChanges` is about the case without one.
- An installation that hangs: commands have their own timeouts.

## 6. Plan

Done: the modules of section 2 and the proofs of section 3. Next, in this order:

1. A literal checksum in `Engine`, so that
   `EventuallyConverges` and `RetriesConverge` are one property.
2. doctor's runtimes over `RuntimeInstall`.

## 7. Running

    tlc -workers 2 -config MCEngine.cfg MCEngine.tla
    tlapm EngineProofs.tla

and likewise for the other configurations. `MCTaintLost.cfg` belongs to
`MCEngine.tla`, `MCFileCondition.cfg` to `MCManifests.tla`. Each run ends within three minutes on two workers; the largest is
`installs`, with six million states. Definitions whose name has an underscore
suffix (`Finish_NotFlushed`) are variants with a plausible mistake; substituting
one for its original makes the property listed with it in `PROJECT.json` fail.
