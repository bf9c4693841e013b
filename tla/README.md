# jk-build: verification project

`jk` reads BUILD files (Python), resolves the rules they declare and writes
Makefiles and a compilation database (`jk gen`); while make runs, other `jk`
commands print the progress. This directory holds TLA+ models of the parts of
the program whose correctness depends on order, concurrency or graph
algorithms, TLC configurations that check them and TLAPS proofs about them.
Paths below are relative to `src/source/jk` unless they start with `src/`.

## 1. Inventory

`gen` is a pipeline run by the main thread. Stages 2, 3 and 5 push tasks to a
pool of ten threads and wait for their futures:

1. `LoadBuildFiles`: evaluate the BUILD files of the requested packages and of
   every package they mention (main thread).
2. `PrepareDependencies`: one task per rule turns dependency strings into rules.
3. `PrepareRules`: one task per rule extracts its fields, expands file patterns
   and collects the flags of everything below it.
4. `Tarjan`: components of the dependency graph (main thread).
5. `CompileRules`, once per generator (`makefile`, `compiledb`): one task per
   rule writes its makefiles.
6. `progress.mark`, `git_version.h`, the root makefile (main thread); then the
   pool is destroyed and the compilation database is dumped.

| Component | State | Operations | Meets | Hard part | Correct means |
|---|---|---|---|---|---|
| Worker pool `core/executor/worker_pool.{hh,cc}` | deque, abort flag, mutex, ONE condition variable, threads | `Push`, `pop`, `set_abort_flag`, `wait_until_empty`, destructor | every stage | two predicates on one condition variable, gap in the destructor, broken promises | no lost wakeup; no task lost or run twice; owner's tasks run; destructor returns |
| BUILD loader, package registry `impls/actions.hh` 160-243, `core/models/build_package*`, `build_rule_factory.hh` | work queue, packages by name, rules by name | `LoadBuildFile(s)`, `Package`, `PackageUnsafe`, `ConstructRules` | Python, id parser | circular mentions, duplicate names | exactly what is needed is loaded, once |
| Dependency resolution `impls/actions.hh` 78-158 | `BuildRule::Dependencies` | a task per rule | pool, registry without its mutex | unknown names, relative names | each string becomes the rule it names |
| Rule preparation `core/models/build_rule.cc`, `impls/rules/*.cc` | fields, resolved flags | a task per rule | fields of other rules | reading what other tasks write | flags of all rules below are found |
| Tarjan `core/algorithms/tarjan.hh` | dfn, low, stack, components | recursive search | link lines, root makefile | restarts on visited rules | components are cycles, nothing is lost |
| Topological sort `core/algorithms/topological_sort.hh` | unsigned counts, queue | one pass | link lines, root makefile | each count reaches zero once | users before libraries, all sorted |
| Makefile compilers `impls/compilers/makefile/*` | makefile text | a task per rule | `ExportedFiles` buffers of other rules, global counter | shared buffers and counter | link lines name the right files in the right order |
| Progress `common/counter.hh`, `cli/progress.cc`, `cli/echo_color.cc` | counter, `Progress/` directory | `Step`, `start_progress`, `echo_color` | compile tasks, make | plain `Count++` from many threads | the percentage reaches 100 |
| Root makefile `impls/compilers/makefile/root_compiler.cc` | makefile text | `Compile` | components, steps | rules in two components | targets for exactly the needed rules |
| Compilation database `impls/compilers/compiledb`, `core/generators/compiledb.hh` | JSON array, mutex | append, dump | pool | dump after every append | complete, and current after a regeneration |
| File writer `impls/writers/file_writer.cc`, `common/path.cc` | buffer, file | `flush`, `AssumeFolder` | file system | in place, neither atomic nor locked, errors not looked at | right files are left alone, others repaired |
| Generated makefiles, as make runs them | files and their times | make, the regeneration rule | gen, the user's edits | failures hidden behind a mark, a make per rule, renumbered steps | a make that ends well leaves what a build from nothing would |
| Id parser `core/models/dependent.cc`, `core/parser/*` | none | `ParseIdString` | command line, loader, resolution | grammar, no end of input | documented forms name the rule they say |
| Arguments `utils/kwargs.cc` | dictionary | typed access | all rules | type errors thrown inside tasks | a wrong type throws, a right one does not |
| Project, configuration, patterns `core/filesystem/*` | paths, settings | `ResolveFrom`, `Expand`, `extract_value` | file system | look-up order, defaults | - |
| Download `cli/download.cc`, `utils/str.cc` | a file | fetch, verify | network | partial files, errors not looked at | verdict agrees with the checksum |
| Other commands `cli/rm.cc`, `cli/cli.cc` | files | one-shot | make | - | - |

`PROJECT.json` lists the same parts with what is modelled of each, and the
hazards of the code at their lines with the properties that would show them.

## 2. Modules

| Module | Models | Kind |
|---|---|---|
| `TaskExecutor` | what a pool promises, without threads | abstract specification |
| `WorkerPool` | the pool, its workers, its owner, the condition variable | component, refines `TaskExecutor` |
| `Reachability` | what lies below a rule; used by every model with a graph | pure functions |
| `DependencyId` | the grammar of ids | pure functions |
| `Kwargs` | typed access to the arguments of a rule | pure functions |
| `BuildFiles` | the command line, stages 1 and 2, and the rules that are compiled; uses `DependencyId` and `Kwargs` | component |
| `PrepareRules` | stage 3 | component |
| `Tarjan` | stage 4 | component |
| `TopologicalSort` | Kahn's algorithm | component |
| `LinkOrder` | `Tarjan` and `TopologicalSort` composed; link lines and the rules of the root makefile | composition |
| `LinkFiles` | the shared buffers of `ExportedFiles` in stage 5 | component |
| `Progress` | the counter in stage 5, then make with `start_progress` and `echo_color` | component |
| `FileWriter` | how the tasks of stage 5 put their files on disk | component |
| `RuleMakefile` | what the makefiles of a project say | pure functions |
| `IncrementalBuild` | gen and make run again and again on the makefiles of `RuleMakefile` | composition |
| `Download` | the download command | component |
| `...Proof` | theorems about `WorkerPool`, `BuildFiles`, `PrepareRules`, `LinkOrder` (with `Tarjan` and `TopologicalSort`), `LinkFiles`, `Progress`, `FileWriter` and `IncrementalBuild` | proofs |
| `MC...` | constants for TLC | instances |

In every module, a definition whose comment starts with "Mutation:" is a wrong
version of the definition that follows it. Nothing uses it; it is there to show
that the properties notice (`mutants` in `PROJECT.json`).

### WorkerPool

Every method of `threadsafe_queue` is one critical section of `mutex_`, so it is
one action, except the two that call `cond_.wait`. Those are split where the
mutex is given up: `PopBlocks` / `EmptyWaitBlocks` find the predicate false and
put the thread into `waiting`; a thread that is no longer in `waiting` tests the
predicate again. `NotifyOne` removes any one waiter, which may be the destructor
although a worker was meant; `SpuriousWakeup` removes any. `future` is the state
of the shared state of each `packaged_task`: running it makes it ready (also
when the task throws: `wait()` does not tell), destroying it unrun breaks it,
and a refused push gives an invalid one. The owner pushes the tasks of a stage,
awaits them, goes on, and destroys the pool; `EarlyDestroy` lets it destroy the
pool without waiting, which `gen` does not do but the class allows. Likewise
tasks that push tasks (`Spawns`): in `impls/actions.hh` they exist only in a
commented-out loader (199-218).

### DependencyId, Kwargs, BuildFiles

An id is a sequence of tokens: words and the separators of the grammar.
`ParseIdString` composes `ReadPackage`, `RuleName` and `Version` as the source
composes its combinators, so it also accepts what they accept: anything may
follow a rule's name, and an absolute id may lack its package. `Kwargs` keeps
the kind of an argument and says what throws.

`Q`, `packages` (each with its `RulesMap`) and `Dependencies` are the program's;
the order in which `Q` and the rules are gone through follows hash maps and is
left open. `ReadArguments` turns the command line, of either style, into ids;
`LoadBuildFile` evaluates one file, constructs its rules and enqueues what they
mention; a missing file reads as an empty one. `PushTask` interleaves with
`Resolve...`: the tasks run while the main thread still iterates over the
packages. A look-up that finds nothing dereferences `end()`: the model lets it
crash, give a null pointer (dropped) or give garbage. Likewise an optional
package without a value crashes or reads as any name. `SelectRules` is the walk
of `generate_all` from the requested rules. The properties do not use the
parser: `Says` and `Opens` list the documented spellings.

### PrepareRules

One task per rule: `Start` and `Extracted` / `ExtractThrows` are
`ExtractFieldFromArguments`; `PrepareCC` is `DoPrepare` up to the flag walks;
`IncludeVisits` and `DefineVisits` are one visit each of the two walks. Reading
the fields of a rule that is being extracted gives the flags or not. A racing
read of a vector can also crash the process; after that there is no state to
speak of, so the model leaves it out. Flags are named by the rule that declares
them. An argument of the wrong type makes the task of its own rule throw
(`ExtractThrows`) if that rule reads the field; of a rule that is no library the
walks of others read `includes` and `defines`, and throw there (`WalkThrows`).
Pattern expansion touches only the task's own rule and is abstracted.

### Tarjan, TopologicalSort, LinkOrder

The recursion of `dfs` is the sequence `calls`; each turn of its loop is one of
`Descend`, `BackEdge`, `CrossEdge`; closing a component is one action, since
nothing else runs. The order of dependencies within a rule is left open. The
loop over the requested rules starts `dfs` without looking whether the rule has
been visited, which the model keeps. `Q` of the topological sort is a real
queue. `LinkOrder` runs one after the other and defines what `cc_binary` and the
root makefile select.

### LinkFiles

`EndExport` is the assignment of `tmp_exported_files_`, `ReadExported` the copy
by the caller, `Crash` what an overlapping assignment of strings may do. A path
is abstracted to its build type. Each task asks for all libraries twice per
build type: for the link command, then for the prerequisites.

### Progress

`ReadCount` and `WriteCount` are the two halves of `Count++`; a key that has a
number keeps it. `MakeFile`, `MakeLink` and `MakeRule` are the `echo_color` calls
of the generated makefiles; the first two happen if their target is out of date,
in any order and any number, the last always. `MakeAgain` interrupts make or
runs it once more.

### FileWriter

A task writes the files of its rule's working folder one after the other;
`Compare`, `Truncate` and `WriteBlock` are the halves of `flush`. Two rules whose
names differ only in '/' and '_' share a folder, so their tasks race. `Kill` ends
a gen anywhere, `WriteFails` is an error nobody looks at, and the next `Start`
may want other contents (`edition`).

### RuleMakefile, IncrementalBuild

`RuleMakefile` maps a project (its marker, its settings, its rules) to its
makefiles: `Loaded` is what gen makes of the settings, which it reads from
JK_ROOT only; from there on one operator per kind of target gives the entries of
a `build.make`, each with its prerequisites (`needs`), what its recipe really
depends on (`reads`, `line`), whether it has a recipe at all and whether it is
always run; and what `clean` and `test` do. `IncrementalBuild` runs them. `disk`
maps the files that are there to their contents. `EditSource` and `EditProject`
happen at any time; `Gen` and `Regenerate` write every file that is not right and
compile_commands.json always (`GenCompletes`; the root makefile and any
`build.make` may be written anew because their steps are numbered differently).
A gen that fails or is killed writes any part of them, and cuts some off
(`GenFails`), which may have been right before: gen truncates
compile_commands.json every time, and a makefile whose numbers change. A file
that is cut off keeps the name of what it was being written for (`Torn`,
`Meant`): how far the text goes is left open. make may find its goal in it, some
of the targets or none (`NoGoal`, `CutShort`, `MakeEnds`), but never a target that
was not there. `missed` remembers that make will not run gen again although it
should: gen failed, or missed an edit, under a make that touched the mark all
the same, or gen was run by hand and failed behind a mark that was newer than
every BUILD file (`MarkHides`). make reads the root makefile (`MakeStart`),
regenerates if the mark is older than the project marker or a BUILD file
(`MarkIsFresh`, `Regenerate`, `TouchMark`), gives up if one of these is not
there (`NothingToMakeFrom`), and then makes the rules in the order of the graph
it has read at the beginning (`MakeRule`), stopping at the first recipe that
fails. `TestStart` is "make test", which makes the rules of tests alone; `Clean`
is the target `clean` of a rule and counts as an edit. Times are relative:
`newer[t]` holds the prerequisites written after `t`, which is all that make
asks of them; they never tie. A gen is one step with respect to edits, except
that an edit may come before the mark is touched. gen and make do not run twice
at a time.

### Download

The command compares the checksum of what is there, truncates and fills the file
block by block, goes on however the transfer has ended and compares again. `Kill`
ends it anywhere. `EqualIgnoreCase` is translated as it is, inverted.

## 3. Runs

| Run | Instance | Shows |
|---|---|---|
| `pool` | 3 workers, 4 tasks, 2 stages, one nested push, early destruction | `HeldOnce`, `NoLostWakeup`, `OwnersTasksNeverDropped`, `StageBarrier`, `DestroyedIsQuiet`, `AcceptedIsResolved`, `OwnerReturns`, `ImplementsExecutor` |
| `build_files` | packages a, b, a/b; up to two rules in a, one in the others; at most one dependency each of every documented and odd kind, ill-typed arguments; command lines of both styles | `ClosureLoaded`, `CleanFilesResolve`, `RequestsCompiled`, `MapIsStable`, `LoadingEnds` |
| `build_files_relative` (violation) | relative dependencies | `RelativeFromPwd` fails |
| `build_files_versions` (violation) | rules with a version | `VersionsAreTargets` fails |
| `prepare_flags` | 3 rules, all graphs, 2 workers, up to two rules that are no library, one with arguments of the wrong type | `EarlyIsFound`, `OneSeesTheOther`, `PrepareEnds` |
| `link_order` | all graphs of 3 rules with self-loops, all graphs of 4 rules with at most 2 dependencies, up to 3 requests | `ComponentsAreCycles`, `DepsPointBack`, `ExactWhenIndependent`, `DependentsFirst`, `UsersFirst`, `LineComplete`, `RootComplete`, `LinkEnds` |
| `link_files` | 2 binaries, 3 libraries, one shared, 2 build types | `PrivateFilesMatch` |
| `link_files_shared` (violation) | the same | `FilesMatch` fails |
| `progress` | 3 rules in a cycle and a binary, 4 steps, 1 restart | `NoGaps`, `HonestCount`, `ReachesHundred` |
| `file_writer` | 3 rules, 2 in one folder, 2 files, 2 editions, any number of gens | `DoneIsRight`, `RightIsUntouched` |
| `incremental` | projects of 2 rules: library and binary, other tools, more sources and flags, a proto library, a script, a circle of libraries, a test, JK_ROOT gone; 2 edits or cleans, 1 failure, any number of gens and makes | `ConfigCurrent`, `MakeIsExact`, `SettledIsQuiet`, `RegenSparesObjects`, `EveryMakeEnds` |
| `download` (violation) | a file of 2 blocks, a server with the right or a wrong one | `VerdictIsRight` fails |

Bounds. Three workers are the least with which one can run, one can be woken in
vain and one can sleep while the destructor waits; two stages make a barrier.
Three rules are the least for an indirect cycle with an outsider; four add two
separate cycles, or a cycle reached by two paths; three requests allow a
repetition and a request below another one. Request lists are taken up to a
renaming of rules, which the set of graphs does not notice. Packages: a package
with another below it (for relative ids and "/BUILD"), and an outsider; two
rules in one of them make "..." and dropped duplicates matter. Two editions and
two shared files are the least for a stale file and a race. In `incremental`, a
library and its user show every kind of entry that crosses rules; two edits make
there-and-back possible (archives that shrink again, a BUILD file that is
deleted and comes back), one failure hits any gen, recipe or make; a failing gen
writes at most `Few` files or leaves at most `Few` of the stale ones out, and cuts
off or rewrites at most `Few` more, since what a torn makefile does to make does
not depend on how many there are. `incremental` has 440 299 states,
`prepare_flags` and `link_order` about a million each.

Fairness. `WorkerPool`: weak fairness of each thread, that is, the operating
system runs a thread that can run; a waiting thread is not enabled, so nothing
is assumed about wakeups, and a spurious wakeup is never relied upon.
`PrepareRules`: weak fairness of each task, which the pool provides
(`AcceptedIsResolved`). `BuildFiles`, `LinkOrder`: weak fairness of the work as a
whole, since the process does not stop by itself. `IncrementalBuild`: weak
fairness of a make that runs; nothing makes the user edit, start or interrupt
anything. `FileWriter`, `Progress`, `LinkFiles` and `Download` have safety
properties only, which hold wherever the process stops.

What the checks say about the code:

- The pool is right, including the shared condition variable: `push` may wake the
  destructor in vain only while the queue is not empty, and then a worker is
  awake. `~WorkerPool` has a gap between `wait_until_empty` and
  `set_abort_flag`, in which only tasks pushed by tasks can be dropped.
- A rule requested by name and needed by another request is searched twice
  and gets two components. Link lines and the root makefile survive that
  (`UsersFirst`, `LineComplete`, `RootComplete`), at the price of naming such a
  rule twice.
- The flags of a library's dependencies are found if they were extracted before
  the walk reached them; otherwise they may be missing, even with one worker.
  What holds is `EarlyIsFound`, and of two libraries that need each other one
  sees the other (`OneSeesTheOther`).
- Link lines can name an archive of the wrong build type when two binaries are
  compiled at a time (`FilesMatch` fails).
- Counter updates are lost, so numbers repeat and the percentage may exceed 100,
  but it never stops short of it (`NoGaps`, `ReachesHundred`).
- Relative dependencies do not do what their documentation says, and a rule
  with a version stops gen.
- A BUILD file that follows the documentation is resolved completely, in any
  spelling of its ids (`CleanFilesResolve`), and exactly what was asked for is
  compiled (`RequestsCompiled`).
- Writing in place is repaired by the next gen that succeeds: a partial file is
  never taken for the right one (`DoneIsRight`). Of two rules that share a folder
  with different contents one loses; the files they agree on come out right.
- Incremental builds are exact after a make that ended well, began with the
  current root makefile and ended with current makefiles (`MakeIsExact`); they
  settle (`SettledIsQuiet`), and regenerating recompiles nothing
  (`RegenSparesObjects`). What can go wrong is in the hypotheses: the mark is
  touched after a gen that failed, and after one that missed an edit
  (`ConfigCurrent` excepts `missed`), and a make that regenerates goes on with
  the old graph, so it takes a second one to finish. A gen that is run by hand
  on a project that has not changed, and killed while it writes, leaves a torn
  compile_commands.json (or a torn makefile) behind a mark that is fresh: makes
  that need nothing from it end well, and none repairs it (`MarkHides`). And if a BUILD file of the
  last graph, or JK_ROOT, is gone, make stops before it regenerates: gen must be
  run by hand. A project marked by BLADE_ROOT alone never gets further unless it
  was generated with `--old`, as `gen.cc` takes JK_ROOT for the marker. What make
  cannot see is excepted by name: objects that read headers of other rules
  (`SeesFiles`), because the `.d` file that `build.make` includes is not where the
  compiler writes it; the CHECK_POINT of a script whose path changed, which does
  not depend on `build.make` (`SeesRecipe`); and binaries above a circle of rules
  (`Ordered`), which may be linked before the circle is made, since make drops
  the dependency that closes it.
- `download` takes good files for bad ones and bad ones for good ones.

## 4. Proofs

The theorems hold for every value of the constants that meets the named
assumptions of the component's module, which say what the code guarantees and no
more: any number of workers, tasks, rules, files and projects, any graph (with
self-loops and circles), any list of requests. All invariants that the passing
runs check are proved, and all action properties. Each invariant is proved from
an inductive one, `IInv` or the parts named below; TLC finds these invariant,
too, on the instances of the runs (of `FileWriter` all but the types).

`WorkerPoolProof`, under `PoolAssumption` (there is a worker; tasks, threads and
the idle mark are distinct):

- `TypeCorrect`: `TypeOK`.
- `WakeupsAreKept`: `NoLostWakeup`. Inductive with `TypeOK` and `Phase`.
- `TasksAreHeldOnce`: `HeldOnce`. The invariant relates queue, workers and
  futures; a push needs a task that has never been pushed, so the queue stays
  free of repetitions.
- `DestructorLeavesNothing`: `DestroyedIsQuiet`, from `HeldOnce` and `Phase`.
- `OwnersTasksRun`, `StagesAreSeparated`: `OwnersTasksNeverDropped` and
  `StageBarrier`, from one strengthening, `OwnerInvariant`: between the end of
  `wait_until_empty` and the abort the queue holds tasks of tasks only.
- `PoolImplementsExecutor`: every step is a step of `TaskExecutor` or a stutter,
  under the refinement mapping of `WorkerPool`.

`Phase` is the strengthening all of them need: it ties the abort flag to the
owner's position (`aborted` exactly from `join` on), says that an aborted queue
is empty and that a worker has exited only after the abort. Without it the step
of a worker after the abort could not be excluded.

`BuildFilesProof`, under `WordsAssumption` and `FilesAssumption` (how tokens
differ; names of packages parse to themselves): `TypeCorrect` (`TypeOK`),
`ClosureIsLoaded` (`ClosureLoaded`), `DocumentedFilesResolve`
(`CleanFilesResolve`), `RequestsAreCompiled` (`RequestsCompiled`) and
`MapStaysStable` (`MapIsStable`). `Reached` says that what is loaded or queued is
below the command line, and that what a loaded file mentions is loaded or
queued: when the queue is empty, the loaded files are closed, hence all of the
closure. `CleanInv` follows each dependency of a documented file from its
spelling through the parser to the rule; the lemmas about the parser compute
`ParseIdString` on the documented forms. `Tight`: unless an id lacks its
package, nothing is loaded that is not needed.

`PrepareRulesProof`, under `PrepareAssumption`: `TypeCorrect`, `EarlyFlagsAreFound`
(`EarlyIsFound`) and `OneOfACycleSees` (`OneSeesTheOther`). `Walks` says that a
walk has queued the dependencies of all it has visited, so its set is closed
when it ends; `Early`, that fields once filled stay readable; `Ordered`, that of
two walks the later one could read the other's rule.

`LinkOrderProof`, under `TarjanAssumption`, has both algorithms.

- Of Tarjan's: `TypeCorrect`, `ComponentsAreReal` (`ComponentsAreCycles`),
  `ComponentsAreOrdered` (`DepsPointBack`) and `TarjanIsRight`
  (`ExactWhenIndependent`). `Numbered` orders the numbers along the stack and
  the calls, `Walk` says that a call needs what is above it on the stack and
  that what is above needs the call, `Result` that components are closed
  downwards and that `Deps` names what they depend on and nothing else. A requested rule that is searched again stands alone on an empty
  stack, with dependencies that all have their components: its second component
  is real, but not exact, which is why exactness needs requests that do not need
  one another (`Searched`).
- Of the sort: `CountsNeverWrap` (`LinkTypeOK`), `SortIsTopological`
  (`DependentsFirst`), and from both algorithms `LinkLineIsOrdered`
  (`UsersFirst`), `LinkLineIsComplete` (`LineComplete`), `RootIsComplete`
  (`RootComplete`) and `ComponentsStayRight`. `Counted`: each count is the number
  of dependents not yet counted down; `QueuedAtZero` and `Once`: an id is queued
  exactly when its count is zero, and once. That all are sorted in the end (a part
  of `DependentsFirst`) follows from `DepsPointBack`: the greatest id left would
  have count zero.

`LinkFilesProof`: `PrivateFilesAreRight` (`PrivateFilesMatch`), since nobody else
calls `ExportedFiles` on a library of one link line (`PrivateBuffer`).

`ProgressProof`, under `ProgressAssumption` (finitely many keys of a rule):
`NumbersHaveNoGaps` (`NoGaps`), `CountIsHonest` (`HonestCount`) and
`MakeReachesHundred` (`ReachesHundred`). `Initial`: every number below a count
that is in `Count`, or still in a task's hands, has been given; `Honest`: no count
is ahead of the numbers given.

`FileWriterProof`, under `FileWriterAssumption` (no file is empty): `DoneMeansRight`
(`DoneIsRight`) and `RightStaysUntouched` (`RightIsUntouched`). `FilesOK`: where a
file is not right yet, some task is still going to write it or has not come to
it; `Offsets` keeps a truncated file different from what its writers want.

`IncrementalBuildProof`, under `IncrementalAssumption`: `TypeCorrect`,
`MakefilesAreCurrent` (`ConfigCurrent`), `MakesSettle` (`SettledIsQuiet`),
`BuildsAreExact` (`MakeIsExact`) and `ObjectsAreSpared` (`RegenSparesObjects`).
The assumption says, besides types, that headers that are read exist, that
nolint.txt does not change, and that no project is a part of another: the
projects hold what the same requests need, so a rule only comes or goes if
another rule changes. The argument has four parts:

- `Made`: each target on disk was made by the recipe of some project, from
  contents it still records, and wherever those differ from what is there now,
  `newer` says so, of the target itself or of the stamp it depends on.
- `MarkTells`, `RootTells` (in `Current`): an untouched mark stands for a project
  whose files are as they were then, so either all makefiles are right or the
  mark is older than a BUILD file; they fail only behind a gen that failed or
  missed an edit and that make will not repeat (`missed`). A gen that fails while
  the mark is older than a BUILD file (`OldMark`) is repeated, so it needs no
  exception.
- `Progressing`: while make works with the right makefiles, what it is done with is
  newer than all it needs and stays so. A rule that `Loops` is the hard case:
  make drops the dependency that closes the circle, so only below rules without
  loops is everything done before (`Ordered`).
- `Arrived`: when make ends, all entries are settled. With `Made`, a settled target
  is exactly what its recipe makes of what is there.

Out of the prover's reach, and only model-checked: liveness under fairness
(`AcceptedIsResolved`, `OwnerReturns`, `PrepareEnds`, `LoadingEnds`, `LinkEnds`,
`EveryMakeEnds`), and with it everything about ENABLED. The violations of
section 3 are counterexamples of TLC. What `ParseIdString` does is proved for the
documented forms and for what the loader asks of it, not for every sequence of
tokens: that would be an induction over data.

## 5. Not modelled

- The text of makefiles, colours and logs; pattern expansion, the embedded
  Python, the network, the walk up to the project's root.
- More than one build type in `RuleMakefile` (targets of two build types share
  only the lint stamps), and `--old` in `IncrementalBuild`.
- nolint.txt, files that begin to match a pattern and BUILD files of packages
  that are not yet used: gen reads them, but nothing regenerates when they change.
- Deleting targets other than by `clean`: an artifact of a script that is deleted
  alone is never made again.
- `add_deps` of `cc_binary`: read one stage before it is extracted, so it is dead
  code and has no action.
- Fields with booleans and dictionaries in `Kwargs`.
- `git_version.h` is written by every gen, whether it differs or not; nothing
  lists it as a prerequisite.
- `core/gnu/py_parser`, `core/gnu/mm_parser` (not used by the program) and
  `rules/external/*.bak` (not built).

## 6. Plan

The models cover what the plan foresaw, and the safety properties are proved.
What is left:

1. The stages of `gen` over one set of rules (`BuildFiles`, `PrepareRules`,
   `LinkOrder` in one module), with exceptions that leave a rule half prepared.
2. What the second component of a rule that is searched again may contain, as a
   theorem about `Tarjan` without the hypothesis of `ExactWhenIndependent`.
3. An abstract specification of incremental builds (a target is right or
   wrong), with `IncrementalBuild` shown to implement it.
