-------------------------- MODULE IncrementalBuild --------------------------
(***************************************************************************)
(* make, run again and again on the makefiles of gen while sources and     *)
(* BUILD files change.  The root makefile first makes `pre`, which brings  *)
(* build_files.mark up to date by running gen again; then it makes the     *)
(* rules in the order of their dependencies, each in a make of its own     *)
(* that reads the rule's build.make (root_compiler.cc).                    *)
(*                                                                         *)
(* A gen may fail or be killed half-way; its recipe ignores that ("-@").   *)
(* A recipe may fail, which removes its target and stops make.  Files may  *)
(* be edited at any time, but gen and make are not run twice at a time.    *)
(* Between makes, rules may be cleaned and tests run by themselves.        *)
(*                                                                         *)
(* Modification times never tie, and only their order matters: newer[t] is *)
(* the set of the prerequisites of t written after t.                      *)
(***************************************************************************)
EXTENDS RuleMakefile, Naturals

CONSTANTS
  Project,     \* names for the states of the BUILD files and the configuration
  Setup,       \* Setup[p]: the project of that name (RuleMakefile)
  First,       \* bound: the projects to begin with
  Changes,     \* bound: which project may be edited into which
  Torn,        \* Torn[p]: the content of a file that is cut off, being written for p
  None,        \* no root makefile is being worked with
  MaxEdits,    \* bound: how many edits there are
  MaxFailures, \* bound: how many gens and recipes fail
  Few          \* bound: how many files a failing gen writes, or leaves out, and
               \* how many it cuts off or rewrites though they are right

RulesOf(p) == DOMAIN Setup[p].rules
Rules == UNION {RulesOf(p) : p \in Project}
SourcesOf(p) ==
  UNION {Setup[p].rules[r].sources \cup Setup[p].rules[r].headers : r \in RulesOf(p)}
Sources == UNION {SourcesOf(p) : p \in Project}

\* nolint.txt is read by gen and is no prerequisite of anything: it stays.  A
\* header that is read is there.  All projects hold what the same requests need,
\* so none of them is a part of another one.
ASSUME IncrementalAssumption ==
  /\ MaxEdits \in Nat /\ MaxFailures \in Nat /\ Few \in Nat
  /\ First \subseteq Project /\ Changes \subseteq Project \X Project
  /\ None \notin Project /\ \A p \in Project : Torn[p] \notin Project
  /\ \A p, q \in Project : Torn[p] = Torn[q] => p = q
  /\ \A f \in Sources : Includes[f] \subseteq Sources
  /\ \A p \in Project :
       /\ Setup[p].rules = [r \in RulesOf(p) |-> Setup[p].rules[r]]
       /\ \A r \in RulesOf(p) : /\ Setup[p].rules[r].kind \in Kinds
                               /\ Setup[p].rules[r].deps \subseteq RulesOf(p)
  /\ \A p, q \in Project :
       /\ \A r \in RulesOf(p) \cap RulesOf(q) :
            Setup[p].rules[r].nolint = Setup[q].rules[r].nolint
       /\ (\A r \in RulesOf(p) : r \in RulesOf(q) /\ Setup[p].rules[r] = Setup[q].rules[r])
            => RulesOf(p) = RulesOf(q)

Mark == <<"mark">>
Marker == <<"marker">>
BuildFile(r) == <<"BUILD", r>>

Generated == [p \in Project |-> Makefiles(Loaded(Setup[p]))]
GeneratedFiles == UNION {DOMAIN Generated[p] : p \in Project}

\* The content of a makefile goes by the name of one of the projects that give it
\* that content.
Content ==
  [f \in GeneratedFiles |->
     [p \in {p \in Project : f \in DOMAIN Generated[p]} |->
        CHOOSE q \in Project : f \in DOMAIN Generated[q] /\ Generated[q][f] = Generated[p][f]]]

\* The project that a makefile was written for, cut off or not.
Meant(content) ==
  IF content \in Project THEN content ELSE CHOOSE p \in Project : Torn[p] = content

Under == [p \in Project |-> [r \in RulesOf(p) |-> Below(Loaded(Setup[p]), r)]]

AllEntries ==
  UNION {UNION {Generated[p][Build(r)].entries : r \in RulesOf(p)} : p \in Project}
Targets == {e.target : e \in AllEntries}

\* The prerequisites a target has in some project.
Needed ==
  [t \in Targets \cup {Mark} |->
     IF t = Mark THEN {Marker} \cup {BuildFile(r) : r \in Rules}
     ELSE UNION {e.needs : e \in {e \in AllEntries : e.target = t /\ e.recipe}}]

File == Targets \cup GeneratedFiles \cup {Source(f) : f \in Sources} \cup {Mark}

VARIABLES
  project,   \* what the BUILD files and the configuration say
  disk,      \* the content of each file that is there
  newer,
  phase,     \* "idle", "pre", "regen", "rules", or "test"
  graph,     \* the root makefile that make is working with, by its content
  handled,   \* the targets of all rules that this make is done with
  result,    \* after a make that went well, nothing being edited meanwhile:
             \* "ok", or "old" if its root makefile was out of date
  calm,      \* nothing was edited since make began
  missed,    \* history: make will not run gen again, although the last one failed
             \* or a BUILD file changed while it ran: the mark is newer
  edits, failures

make == <<phase, graph, handled>>
counts == <<edits, failures>>
vars == <<project, disk, newer, make, result, calm, missed, counts>>

Wanted(f) == Content[f][project]

Exists(f) == f \in DOMAIN disk

\* The file is there, but may lack its end.
CutOff(f) == Exists(f) /\ disk[f] \notin Project

\* JK_ROOT and the BUILD files that are there.
Present ==
  {BuildFile(r) : r \in RulesOf(project)}
    \cup (IF Setup[project].marker = "JK_ROOT" THEN {Marker} ELSE {})

\* A first gen has gone well; nothing has been made yet.
Init ==
  /\ project \in First
  /\ disk = [f \in {Source(x) : x \in Sources} \cup DOMAIN Generated[project] |->
               IF f[1] = "source" THEN 0 ELSE Wanted(f)]
  /\ newer = [t \in DOMAIN Needed |-> {}]
  /\ phase = "idle" /\ graph = None /\ handled = {}
  /\ result = "none" /\ calm = TRUE /\ missed = FALSE
  /\ edits = 0 /\ failures = 0

\* Mutation: what is not there is compared, too.
NewerThanNothing(all) ==
  [t \in DOMAIN Needed |-> IF t \in all THEN {} ELSE newer[t] \cup (all \cap Needed[t])]

\* The files `all` have just been written, or removed.
Newer(all) ==
  [t \in DOMAIN Needed |->
     IF t \in all \/ ~Exists(t) THEN {} ELSE newer[t] \cup (all \cap Needed[t])]

-----------------------------------------------------------------------------
(* Edits.                                                                  *)

Edited ==
  /\ edits < MaxEdits
  /\ edits' = edits + 1
  /\ result' = "none" /\ calm' = FALSE
  /\ UNCHANGED failures

EditSource(f) ==
  /\ Edited
  /\ disk' = [disk EXCEPT ![Source(f)] = edits + 1]
  /\ newer' = Newer({Source(f)})
  /\ UNCHANGED <<project, make, missed>>

\* What an edit that turns one project into another writes, or makes anew.
Rewritten(p, q) ==
  {BuildFile(r) : r \in {r \in RulesOf(q) : r \in RulesOf(p) =>
                                             Setup[p].rules[r] # Setup[q].rules[r]}}
    \cup (IF Settings(Setup[p]) # Settings(Setup[q]) \/ Setup[p].marker # Setup[q].marker
            THEN {Marker} ELSE {})

EditProject(p) ==
  /\ <<project, p>> \in Changes
  /\ Edited
  /\ project' = p
  /\ newer' = Newer(Rewritten(project, p))
  /\ missed' = (missed \/ phase = "regen")
  /\ UNCHANGED <<disk, make>>

-----------------------------------------------------------------------------
(* gen.                                                                    *)

\* The files that are not as they should be.  The writer leaves the others alone;
\* the database does not go through it and is always written.
Stale == {f \in DOMAIN Generated[project] : ~Exists(f) \/ disk[f] # Wanted(f)}

\* Their print commands show step numbers, which depend on the order of the compile
\* tasks: gen may write them anew although they are right.
Numbered == {RootMakefile} \cup {Build(r) : r \in RulesOf(project)}

Write(all, torn) ==
  /\ disk' = [f \in DOMAIN disk \cup all \cup torn |->
                IF f \in torn THEN Torn[Wanted(f)]
                ELSE IF f \in all THEN Wanted(f) ELSE disk[f]]
  /\ newer' = Newer(all \cup torn)

GenCompletes ==
  /\ \E again \in SUBSET Numbered : Write(Stale \cup again \cup {Database}, {})
  /\ missed' = FALSE
  /\ UNCHANGED counts

Failure == failures < MaxFailures /\ failures' = failures + 1 /\ UNCHANGED edits

\* make would not run gen: its mark is newer than all that gen has read.
MarkHides ==
  Exists(Mark) /\ newer[Mark] \cap ({Marker} \cup {BuildFile(r) : r \in RulesOf(project)}) = {}

\* A task throws, a write fails, or gen is killed: any of the files are written
\* and some may be cut off, among them files that were right.
GenFails ==
  /\ Failure
  /\ \E all \in SUBSET Stale : \E more \in SUBSET ((Stale \cup Numbered \cup {Database}) \ all) :
       /\ Cardinality(all \cup more) <= Few \/ Cardinality(Stale \ all) <= Few
       /\ Cardinality(more) <= Few
       /\ Write(all, more) \/ Write(all \cup more, {})
  /\ missed' = (missed \/ phase = "pre" \/ MarkHides)

\* Outside a project gen throws before it does anything.
Gen ==
  /\ phase = "idle" /\ ResolveFrom(Setup[project])
  /\ GenCompletes \/ GenFails
  /\ result' = "none"
  /\ UNCHANGED <<project, make, calm>>

-----------------------------------------------------------------------------
(* make.                                                                   *)

MakeStart ==
  /\ phase = "idle"
  /\ Exists(RootMakefile)
  /\ graph' = disk[RootMakefile]
  /\ phase' = "pre" /\ handled' = {}
  /\ calm' = TRUE /\ result' = "none"
  /\ UNCHANGED <<project, disk, newer, missed, counts>>

\* "make test" makes neither `pre` nor the rules below a test.
TestStart ==
  /\ phase = "idle"
  /\ Exists(RootMakefile)
  /\ Generated[Meant(disk[RootMakefile])][RootMakefile].tests # {}
  /\ graph' = disk[RootMakefile]
  /\ phase' = "test" /\ handled' = {}
  /\ calm' = TRUE /\ result' = "none"
  /\ UNCHANGED <<project, disk, newer, missed, counts>>

Stop == phase' = "idle" /\ graph' = None /\ handled' = {}

\* Mutation: the mark depends on the project marker alone.
MarkOfMarker == {Marker}

\* The BUILD files of the packages in the root makefile, and JK_ROOT, even if the
\* project has the old marker.
MarkNeeds == {Marker} \cup {BuildFile(r) : r \in RulesOf(Meant(graph))}

\* "No rule to make target" a BUILD file, or JK_ROOT: gen must be run by hand.
NothingToMakeFrom ==
  /\ phase = "pre" /\ ~(MarkNeeds \subseteq Present)
  /\ Stop
  /\ UNCHANGED <<project, disk, newer, result, calm, missed, counts>>

MarkIsFresh ==
  /\ phase = "pre" /\ MarkNeeds \subseteq Present
  /\ Exists(Mark) /\ newer[Mark] \cap MarkNeeds = {}
  /\ phase' = "rules"
  /\ UNCHANGED <<project, disk, newer, graph, handled, result, calm, missed, counts>>

Regenerate ==
  /\ phase = "pre" /\ MarkNeeds \subseteq Present
  /\ ~Exists(Mark) \/ newer[Mark] \cap MarkNeeds # {}
  /\ GenCompletes \/ GenFails
  /\ phase' = "regen"
  /\ UNCHANGED <<project, graph, handled, result, calm>>

\* Mutation: make begins anew after a gen, and the mark is not touched.
ReadAgain ==
  /\ phase = "regen"
  /\ phase' = "pre"
  /\ UNCHANGED <<project, disk, newer, graph, handled, result, calm, missed, counts>>

\* The mark is touched however gen ended.  make goes on with the root makefile
\* it has read before.
TouchMark ==
  /\ phase = "regen"
  /\ disk' = [f \in DOMAIN disk \cup {Mark} |-> IF f = Mark THEN "touched" ELSE disk[f]]
  /\ newer' = Newer({Mark})
  /\ phase' = "rules"
  /\ UNCHANGED <<project, graph, handled, result, calm, missed, counts>>

\* build.make; if it is cut off, make goes on only if all of this is there.
MakeOf(r) == Generated[Meant(disk[Build(r)])][Build(r)]
TargetsOf(r) == {e.target : e \in MakeOf(r).entries}
RuleDone(r) == Exists(Build(r)) /\ TargetsOf(r) \subseteq handled

Order(r) == Generated[Meant(graph)][RootMakefile].order[r]

\* make drops a dependency that closes a circle.
Circular(r, q) == r = q \/ r \in Under[Meant(graph)][q]

\* Mutation: the targets of the rules are not ordered.
Anytime(r) == TRUE

MayRun(r) == phase = "test" \/ \A q \in Order(r) : RuleDone(q) \/ Circular(r, q)

\* The rules whose build.make the root makefile uses.
Wants(r) ==
  \/ phase = "rules" /\ r \in RulesOf(Meant(graph))
  \/ phase = "test" /\ r \in Generated[Meant(graph)][RootMakefile].tests

\* The make of a rule reads build.make and the files it includes; one that is
\* not there stops it.  Cut-off flags are read as they are.
Readable(r) ==
  /\ Exists(Build(r))
  /\ \A f \in {Flags(r), Toolchain(r)} :
       (\E e \in MakeOf(r).entries : f \in e.needs) => Exists(f)

OutOfDate(e) ==
  \/ e.force
  \/ ~Exists(e.target)
  \/ newer[e.target] \cap e.needs # {}
  \/ \E f \in e.needs : ~Exists(f)

\* Mutation: the old archive stays.
Kept(all) == DOMAIN disk

\* delete_file removes files that are there; the others it leaves out.
RmFiles(all) == DOMAIN disk \ all

\* ar puts the objects into the archive that is there, if there is one.
Ar(archive, left, objects) ==
  IF archive \notin left THEN objects
  ELSE [f \in DOMAIN disk[archive][2] \cup DOMAIN objects |->
          IF f \in DOMAIN objects THEN objects[f] ELSE disk[archive][2][f]]

Result(e) ==
  LET read == [f \in e.reads |-> disk[f]]
  IN  <<e.line, IF e.line = "ar" THEN Ar(e.target, RmFiles({e.target}), read) ELSE read>>

\* The script installs its artifact besides.
Outputs(e) ==
  IF e.target[1] = "checkpoint" THEN {e.target, <<"artifact", e.target[2]>>} ELSE {e.target}

Ready(r, e) ==
  /\ e.target \notin handled
  /\ MayRun(r)
  /\ e.needs \cap TargetsOf(r) \subseteq handled

Skip(r, e) ==
  /\ ~OutOfDate(e) \/ ~e.recipe
  /\ \A f \in e.needs \ TargetsOf(r) : Exists(f)
  /\ handled' = handled \cup {e.target}
  /\ UNCHANGED <<project, disk, newer, phase, graph, result, calm, missed, counts>>

Remake(r, e) ==
  /\ OutOfDate(e) /\ e.recipe
  /\ \A f \in e.needs \cup e.reads : Exists(f)
  /\ disk' = [f \in DOMAIN disk \cup Outputs(e) |->
                IF f \in Outputs(e) THEN Result(e) ELSE disk[f]]
  /\ newer' = Newer(Outputs(e))
  /\ handled' = handled \cup {e.target}
  /\ UNCHANGED <<project, phase, graph, result, calm, missed, counts>>

\* The recipe fails, as it must if something it reads is not there; make removes
\* its target.
RecipeFails(r, e) ==
  /\ \/ (\E f \in e.reads : ~Exists(f)) /\ UNCHANGED counts
     \/ Failure
  /\ OutOfDate(e) /\ e.recipe
  /\ \A f \in e.needs \ TargetsOf(r) : Exists(f)
  /\ disk' = [f \in DOMAIN disk \ {e.target} |-> disk[f]]
  /\ newer' = [newer EXCEPT ![e.target] = {}]
  /\ Stop
  /\ UNCHANGED <<project, result, calm, missed>>

\* "No rule to make target": a prerequisite of another rule is not there.
NoRuleToMake(r, e) ==
  /\ \E f \in e.needs \ TargetsOf(r) : ~Exists(f)
  /\ Stop
  /\ UNCHANGED <<project, disk, newer, result, calm, missed, counts>>

MakeRule(r) ==
  /\ Wants(r) /\ Readable(r)
  /\ \E e \in MakeOf(r).entries :
       Ready(r, e) /\ (Skip(r, e) \/ Remake(r, e) \/ RecipeFails(r, e) \/ NoRuleToMake(r, e))

CannotRead(r) ==
  /\ Wants(r) /\ MayRun(r) /\ ~Readable(r)
  /\ Stop
  /\ UNCHANGED <<project, disk, newer, result, calm, missed, counts>>

Begun(r) == Exists(Build(r)) /\ TargetsOf(r) \cap handled # {}

\* The target of the build type comes after all it needs.  Where build.make is cut
\* off, it is not there, or it has lost its prerequisites and nothing is made.
CutShort(r) ==
  /\ Wants(r) /\ MayRun(r) /\ Readable(r) /\ CutOff(Build(r)) /\ ~Begun(r)
  /\ \/ Stop
     \/ handled' = handled \cup TargetsOf(r) /\ UNCHANGED <<phase, graph>>
  /\ UNCHANGED <<project, disk, newer, result, calm, missed, counts>>

\* The last lines of the root makefile say what to make for DEBUG, debug, clean and
\* test, and name the rules one by one.  Where it is cut off, what make was asked
\* for is not there any more, or it has lost some prerequisites, or all of them.
NoGoal ==
  /\ phase \in {"pre", "rules", "test"} /\ graph \notin Project
  /\ \A r \in Rules : Wants(r) /\ Begun(r) => RuleDone(r)
  /\ Stop
  /\ UNCHANGED <<project, disk, newer, result, calm, missed, counts>>

\* The tests run last, and leave nothing behind.  A root makefile that is cut off
\* may leave some of the rules out.
MakeEnds ==
  /\ phase \in {"rules", "test"}
  /\ \A r \in Rules : Wants(r) /\ (graph \in Project \/ Begun(r)) => Readable(r) /\ RuleDone(r)
  /\ result' = IF ~calm \/ phase = "test" THEN "none"
               ELSE IF graph = Wanted(RootMakefile) THEN "ok" ELSE "old"
  /\ Stop
  /\ UNCHANGED <<project, disk, newer, calm, missed, counts>>

\* make -f build.make clean; the root makefile's "clean" does so for the
\* shell_scripts.  If build.make is cut off, some of the commands are not there.
Clean(r) ==
  /\ phase = "idle" /\ Readable(r)
  /\ Edited
  /\ \E all \in SUBSET MakeOf(r).clean :
       /\ CutOff(Build(r)) \/ all = MakeOf(r).clean
       /\ disk' = [f \in RmFiles(all) |-> disk[f]]
       /\ newer' = [t \in DOMAIN Needed |-> IF t \in all THEN {} ELSE newer[t]]
  /\ UNCHANGED <<project, make, missed>>

\* Ctrl-C, between two recipes.
Interrupt ==
  /\ phase # "idle" /\ Failure
  /\ Stop
  /\ UNCHANGED <<project, disk, newer, result, calm, missed>>

Edit == (\E f \in SourcesOf(project) : EditSource(f)) \/ (\E p \in Project : EditProject(p))
          \/ \E r \in Rules : Clean(r)

Make == NothingToMakeFrom \/ NoGoal \/ MarkIsFresh \/ Regenerate \/ TouchMark \/ MakeEnds
          \/ \E r \in Rules : MakeRule(r) \/ CannotRead(r) \/ CutShort(r)

Next == Edit \/ Gen \/ MakeStart \/ TestStart \/ Make \/ Interrupt

\* A make that runs goes on.
Spec == Init /\ [][Next]_vars /\ WF_vars(Make)

-----------------------------------------------------------------------------
(* Properties.                                                             *)

Makes == UNION {Generated[project][Build(r)].entries : r \in RulesOf(project)}

\* make notices when a file changes that the recipe reads: the file is a
\* prerequisite, or it is a header with a stamp that is one.
SeesFiles(e) == \A f \in e.reads \ e.needs : Lint(e.target[2], f[2]) \in e.needs

\* make notices when the recipe itself changes, or it never does.
SeesRecipe(e) ==
  \/ Build(e.target[2]) \in e.needs
  \/ \A other \in AllEntries :
       other.target = e.target => other.line = e.line /\ other.reads = e.reads

\* A rule that depends on itself, however indirectly.
Loops(r) == \E q \in Setup[project].rules[r].deps : q = r \/ r \in Under[project][q]

\* It is not linked with rules that may be made after it.
Ordered(e) ==
  LET r == e.target[2]
  IN  e.target[1] = "binary" => \A q \in {r} \cup Under[project][r] : ~Loops(q)

\* What is on disk is what a run of make left there, and newer[t] only holds
\* prerequisites of a target that exists.
TypeOK ==
  /\ project \in Project
  /\ phase \in {"idle", "pre", "regen", "rules", "test"} /\ handled \subseteq Targets
  /\ result \in {"none", "old", "ok"} /\ (result # "none" => phase = "idle")
  /\ \A t \in DOMAIN Needed : newer[t] \subseteq Needed[t]
                               /\ (~Exists(t) => newer[t] = {})
  /\ phase # "idle" => graph \in Project \cup {Torn[p] : p \in Project}

\* After a make that went well all makefiles, and compile_commands.json, are those
\* of the BUILD files, even if a gen run by hand was killed before it: unless a gen
\* failed, or missed an edit, behind a mark that make touched all the same or that
\* was newer already (root_compiler.cc:224-242).
ConfigCurrent == result # "none" /\ ~missed => Stale = {}

\* What the recipe makes where there is nothing.
Afresh(e) == <<e.line, [f \in e.reads |-> disk[f]]>>

\* After a make that went well, began with the right root makefile and ended with
\* the right makefiles, each target is what its recipe makes of what is there
\* now: nothing is left over from earlier sources, flags, archives or gens.
MakeIsExact ==
  result = "ok" /\ Stale = {} =>
    \A e \in Makes : e.recipe /\ SeesFiles(e) /\ SeesRecipe(e) /\ Ordered(e) =>
      Exists(e.target) /\ disk[e.target] = Afresh(e)

\* ... and nothing but the files of always_compile would be made again.
SettledIsQuiet ==
  result = "ok" /\ Stale = {} => \A e \in Makes : e.recipe /\ Ordered(e) /\ OutOfDate(e) => e.force

\* Running gen again on a project that has not changed recompiles and lints
\* nothing, although the step numbers in build.make may come out differently.
RegenSparesObjects ==
  [][ Stale = {} /\ edits' = edits /\ (phase = "idle" \/ phase' = "regen") =>
        \A e \in Makes : e.target[1] \in {"object", "lint"} /\ ~OutOfDate(e) => ~OutOfDate(e)' ]_vars

\* Every make ends, rules that depend on one another in circles included.
EveryMakeEnds == phase # "idle" ~> phase = "idle"
=============================================================================
