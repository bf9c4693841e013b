----------------------------- MODULE BuildFiles -----------------------------
(***************************************************************************)
(* What gen is asked to build and how it finds it (cli/gen.cc,             *)
(* impls/actions.hh, impls/actions/generate_all.hh): the ids on the        *)
(* command line are parsed, LoadBuildFiles evaluates the BUILD file of     *)
(* every package they mention or need, PrepareDependencies pushes one task *)
(* per rule, which turns the rule's dependency strings into rules, and the *)
(* rules to be compiled are collected.                                     *)
(*                                                                         *)
(* A package and a dependency are strings as in DependencyId, a BUILD file *)
(* is the sequence of its calls, each a record of arguments as in Kwargs.  *)
(* The tasks use the package map without its mutex, and look names up      *)
(* without testing that they are there.                                    *)
(***************************************************************************)
EXTENDS DependencyId, Kwargs, FiniteSets, Reachability

CONSTANTS
  Package,      \* the packages that may have a BUILD file
  IdString,     \* the strings that are used as ids
  Garbage,      \* what dereferencing end() may read
  FileSets,     \* the candidates for the BUILD files: Package -> Seq(call)
  CommandLines  \* the candidates for the arguments: [old, ids]

\* The ids that the calls of a BUILD file mention.
Mentioned(file) ==
  UNION {LET deps == ListOptional(call, "deps", <<>>)
         IN  IF deps.ok THEN Range(deps.value) ELSE {} : call \in Range(file)}

\* An argument of the old style is the path of a BUILD file.
IdOf(line, str) == IF line.old THEN <<"//">> \o str \o <<":", "...">> ELSE str

ASSUME FilesAssumption ==
  /\ Package \subseteq Seq(PackageWord \cup {"/"})
  /\ \A p \in Package : ReadPackage(p) = Read(p, <<>>)
  /\ "..." \in RuleWord
  /\ Garbage \notin Package \X RuleWord
  /\ IdString \subseteq Seq(Token)
  /\ \A candidate \in FileSets : \A p \in Package :
       /\ candidate[p] \in Seq(Range(candidate[p]))
       /\ Mentioned(candidate[p]) \subseteq IdString
  /\ \A line \in CommandLines :
       /\ line.old \in BOOLEAN
       /\ \A str \in line.ids : str \in Seq(Token) /\ IdOf(line, str) \in IdString

Parsed == [id \in IdString |-> ParseIdString(id)]

RuleId == Package \X RuleWord

VARIABLES
  files,         \* what each BUILD file calls; <<>> for a missing one, too
  args,
  phase,         \* "args", "load", "push", "wait", "select", "done",
                 \* "aborted" (an exception or a terminate), "crashed"
  chosen,        \* rules_id
  Q,             \* the files to load; the order follows a hash map: left open
  packages,      \* packages_: the RulesMap of each package
  pushed,        \* the rules whose task has been pushed
  todo,          \* the dependencies the task of each rule has not looked up
  Dependencies,  \* BuildRule::Dependencies
  compiled       \* all_rules

inputs == <<files, args>>
vars == <<inputs, phase, chosen, Q, packages, pushed, todo, Dependencies, compiled>>

Rules == {r \in RuleId : r[1] \in DOMAIN packages /\ r[2] \in DOMAIN packages[r[1]]}
Deps(r) == packages[r[1]][r[2]]

Init ==
  /\ files \in FileSets
  /\ args \in CommandLines
  /\ phase = "args"
  /\ chosen = {}
  /\ Q = {}
  /\ packages = [p \in {} |-> {}]
  /\ pushed = {}
  /\ todo = [r \in RuleId |-> {}]
  /\ Dependencies = [r \in RuleId |-> {}]
  /\ compiled = {}

\* Where the program reads an optional package that has no value: it crashes,
\* or finds the name of any package, an earlier one in most cases.
Names(id) == IF id.pkg = None THEN Package ELSE {id.pkg}
Hole(ids) == \E id \in ids : id.pkg = None

-----------------------------------------------------------------------------
(* Generate and LoadBuildFiles.                                            *)

ArgumentId(str) == IdOf(args, str)

ReadArguments ==
  /\ phase = "args"
  /\ LET ids == {Parsed[ArgumentId(str)] : str \in args.ids} IN
     IF \/ \E id \in ids : ~id.ok \/ id.pos # "absolute"
        \/ args.old /\ \E str \in args.ids : str = <<>> \/ Last(str) # "BUILD"
       THEN phase' = "aborted" /\ UNCHANGED <<chosen, Q>>
       ELSE \/ Hole(ids) /\ phase' = "crashed" /\ UNCHANGED <<chosen, Q>>
            \/ \E hole \in Package :
                 LET name(id) == IF id.pkg = None THEN hole ELSE id.pkg
                 IN  /\ chosen' = {<<name(id), id.name>> : id \in ids}
                     /\ Q' = {name(id) : id \in ids}
                     /\ phase' = "load"
  /\ UNCHANGED <<inputs, packages, pushed, todo, Dependencies, compiled>>

\* Mutation: the package is made anew, whether it is there or not.
MadeAnew(p, rules) ==
  [q \in DOMAIN packages \cup {p} |-> IF q = p THEN rules ELSE packages[q]]

\* packages_.emplace: a package that is there stays as it is.
WithPackage(p, rules) ==
  [q \in DOMAIN packages \cup {p} |-> IF q \in DOMAIN packages THEN packages[q] ELSE rules]

\* EvalFile: an argument of an unknown type is an error of the script, which
\* ends the process.
Evaluates(file) ==
  \A call \in Range(file) : \A field \in DOMAIN call : Convertible(call[field])

\* BuildRuleBase: the fields that every rule has; any of them may throw.
Fields(call) ==
  <<StringRequired(call, "name"), StringOptional(call, "version", "DEFAULT"),
    ListOptional(call, "deps", <<>>)>>

Constructible(file) ==
  \A call \in Range(file) : \A i \in 1..3 : Fields(call)[i].ok

NameOf(call) == Fields(call)[1].value
DepsOf(call) == Range(Fields(call)[3].value)

\* RulesMap is keyed by the name alone, and emplace keeps the first.
ConstructRules(file) ==
  [n \in {NameOf(call) : call \in Range(file)} |->
     LET first == CHOOSE i \in DOMAIN file :
                    NameOf(file[i]) = n /\ \A j \in 1..(i - 1) : NameOf(file[j]) # n
     IN  DepsOf(file[first])]

\* Mutation: only what a file needs from its own package is followed.
OwnFile(p, ids, hole) == {p : id \in {id \in ids : id.pos = "this"}}

\* A relative dependency enqueues the file that mentions it, once more.
NextFiles(p, ids, hole) ==
  {IF id.pkg = None THEN hole ELSE id.pkg : id \in {id \in ids : id.pos = "absolute"}}
    \cup {p : id \in {id \in ids : id.pos = "relative"}}

\* Mutation: a file that has been loaded is enqueued for ever.
KeepFile(p) ==
  /\ phase = "load" /\ p \in Q /\ p \in DOMAIN packages
  /\ Q' = Q
  /\ UNCHANGED <<inputs, phase, chosen, packages, pushed, todo, Dependencies, compiled>>

SkipLoaded(p) ==
  /\ phase = "load" /\ p \in Q /\ p \in DOMAIN packages
  /\ Q' = Q \ {p}
  /\ UNCHANGED <<inputs, phase, chosen, packages, pushed, todo, Dependencies, compiled>>

FileOf(p) == IF p \in Package THEN files[p] ELSE <<>>

\* The rules are all constructed before the first dependency is parsed.
LoadBuildFile(p) ==
  /\ phase = "load" /\ p \in Q /\ p \notin DOMAIN packages
  /\ IF ~Evaluates(FileOf(p)) \/ ~Constructible(FileOf(p))
       THEN phase' = "aborted" /\ packages' = WithPackage(p, <<>>) /\ Q' = Q
       ELSE LET rules == ConstructRules(FileOf(p))
                ids   == {Parsed[d] : d \in UNION Range(rules)}
            IN  /\ packages' = WithPackage(p, rules)
                /\ IF \E id \in ids : ~id.ok \/ id.pos = "builtin"
                     THEN phase' = "aborted" /\ Q' = Q
                     ELSE \/ Hole({id \in ids : id.pos = "absolute"})
                             /\ phase' = "crashed" /\ Q' = Q
                          \/ \E hole \in Package :
                               /\ phase' = phase
                               /\ Q' = (Q \ {p}) \cup NextFiles(p, ids, hole)
  /\ UNCHANGED <<inputs, chosen, pushed, todo, Dependencies, compiled>>

AllLoaded ==
  /\ phase = "load" /\ Q = {}
  /\ phase' = "push"
  /\ UNCHANGED <<inputs, chosen, Q, packages, pushed, todo, Dependencies, compiled>>

-----------------------------------------------------------------------------
(* PrepareDependencies: the tasks start while the main thread still pushes.*)

PushTask(r) ==
  /\ phase = "push" /\ r \in Rules \ pushed
  /\ pushed' = pushed \cup {r}
  /\ todo' = [todo EXCEPT ![r] = Deps(r)]
  /\ UNCHANGED <<inputs, phase, chosen, Q, packages, Dependencies, compiled>>

AllPushed ==
  /\ phase = "push" /\ Rules \subseteq pushed
  /\ phase' = "wait"
  /\ UNCHANGED <<inputs, chosen, Q, packages, pushed, todo, Dependencies, compiled>>

Running == phase \in {"push", "wait"}

\* RulesMap.find(n) and it->second, without a test for end().  Reading past
\* the end crashes, or yields a null pointer (which is dropped) or garbage.
LookUp(r, rules, p, n) ==
  IF n \in DOMAIN rules
    THEN /\ phase' = phase
         /\ Dependencies' = [Dependencies EXCEPT ![r] = @ \cup {<<p, n>>}]
    ELSE \/ phase' = "crashed" /\ UNCHANGED Dependencies
         \/ phase' = phase /\ UNCHANGED Dependencies
         \/ /\ phase' = phase
            /\ Dependencies' = [Dependencies EXCEPT ![r] = @ \cup {Garbage}]

Resolving(r, d, pos) ==
  /\ Running /\ d \in todo[r] /\ Parsed[d].pos = pos
  /\ todo' = [todo EXCEPT ![r] = @ \ {d}]
  /\ UNCHANGED <<inputs, chosen, Q, pushed, compiled>>

ResolveThis(r, d) ==
  /\ Resolving(r, d, "this")
  /\ LookUp(r, packages[r[1]], r[1], Parsed[d].name)
  /\ UNCHANGED packages

\* An unknown package is created and then refused: expect() ends the process.
ResolveAbsolute(r, d) ==
  /\ Resolving(r, d, "absolute")
  /\ \E p \in Names(Parsed[d]) :
       /\ packages' = WithPackage(p, <<>>)
       /\ IF p \in DOMAIN packages
            THEN LookUp(r, packages[p], p, Parsed[d].name)
            ELSE phase' = "aborted" /\ UNCHANGED Dependencies

CrashOnHole(r, d) ==
  /\ Resolving(r, d, "absolute")
  /\ Parsed[d].pkg = None
  /\ phase' = "crashed"
  /\ UNCHANGED <<packages, Dependencies>>

\* The name "p/q" is computed and not used: the package asked for is "q".  An
\* unknown one is created, empty, under the eyes of the other threads; a build
\* with assertions then stops.
ResolveRelative(r, d) ==
  /\ Resolving(r, d, "relative")
  /\ LET id == Parsed[d] IN
       /\ packages' = WithPackage(id.pkg, <<>>)
       /\ \/ LookUp(r, packages'[id.pkg], id.pkg, id.name)
          \/ id.pkg \notin DOMAIN packages /\ phase' = "aborted" /\ UNCHANGED Dependencies

\* All futures are ready.
AllResolved ==
  /\ phase = "wait" /\ \A r \in RuleId : todo[r] = {}
  /\ phase' = "select"
  /\ UNCHANGED <<inputs, chosen, Q, packages, pushed, todo, Dependencies, compiled>>

-----------------------------------------------------------------------------
(* generate_all: arg_rules and all_rules.                                  *)

\* Mutation: "..." is the name of a rule.
NamedOnly(p, n) == {<<p, n>>} \cap Rules

\* "..." names every rule of a package.
Selected(p, n) ==
  IF n = "..." THEN {r \in Rules : r[1] = p} ELSE {<<p, n>>} \cap Rules

Below(roots) ==
  LET reach == Reachable([r \in Rules |-> Dependencies[r]])
  IN  UNION {reach[root] : root \in roots}

\* The walk down from the rules asked for; at garbage it crashes, or goes on.
SelectRules ==
  /\ phase = "select"
  /\ IF \E c \in chosen : c[2] # "..." /\ c \notin Rules
       THEN phase' = "aborted" /\ UNCHANGED compiled
       ELSE LET all == Below(UNION {Selected(c[1], c[2]) : c \in chosen}) IN
            \/ phase' = "done" /\ compiled' = all
            \/ /\ \E r \in all : Garbage \in Dependencies[r]
               /\ phase' = "crashed" /\ UNCHANGED compiled
  /\ UNCHANGED <<inputs, chosen, Q, packages, pushed, todo, Dependencies>>

Load == AllLoaded \/ \E p \in Q : SkipLoaded(p) \/ LoadBuildFile(p)

Push == AllPushed \/ \E r \in RuleId : PushTask(r)

Resolve(r) ==
  \E d \in todo[r] : \/ ResolveThis(r, d) \/ ResolveAbsolute(r, d)
                     \/ CrashOnHole(r, d) \/ ResolveRelative(r, d)

Stopped == phase \in {"done", "aborted", "crashed"}

Work ==
  \/ ReadArguments \/ Load \/ Push \/ AllResolved \/ SelectRules
  \/ \E r \in RuleId : Resolve(r)

Next == Work \/ (Stopped /\ UNCHANGED vars)

Spec == Init /\ [][Next]_vars /\ WF_vars(Work)

-----------------------------------------------------------------------------
(* Reference definitions: the documented forms of an id (dependent.hh:22). *)

Endings == {<<>>, <<"/", "BUILD">>}

\* The text of an absolute id up to the name of its rule.
Openings(p) == {<<"//">> \o p \o suffix \o <<":">> : suffix \in Endings}

\* In a file of package p the string id says that rule r is needed.
Says(p, id, r) ==
  \/ id \in {opening \o <<r[2]>> : opening \in Openings(r[1])}
  \/ r[1] = p /\ id = <<":", r[2]>>

FileDeps(p) ==
  IF Evaluates(files[p]) /\ Constructible(files[p])
    THEN UNION Range(ConstructRules(files[p])) ELSE {}

Opens(p, id) == \E opening \in Openings(p) : IsPrefix(opening, id)
WithoutPackage(id) == IsPrefix(<<"//", ":">>, id)

\* The packages that the command line names, and what they need: the least set
\* that has the ones asked for and, with a package, those its file opens.
Asked == {p \in Package : \E str \in args.ids : Opens(p, ArgumentId(str))}
Opened(p) == LET ids == FileDeps(p) IN {q \in Package : \E id \in ids : Opens(q, id)}
Closure ==
  LET asked  == Asked
      closed == {S \in SUBSET Package : asked \subseteq S /\ \A p \in S : Opened(p) \subseteq S}
  IN  {p \in Package : \A S \in closed : p \in S}

Declared(r) == r[1] \in Package /\ \E call \in Range(files[r[1]]) : StringRequired(call, "name") = Ok(r[2])

TypedRight(call) ==
  /\ DOMAIN call \subseteq {"name", "deps"}
  /\ StringRequired(call, "name").ok /\ ListOptional(call, "deps", <<>>).ok

\* The command line and the files below it follow the documentation, and every
\* rule they mention is declared.
CleanFiles ==
  LET closure  == Closure
      declared == {r \in RuleId : Declared(r)}
  IN  \A p \in closure :
        /\ \A call \in Range(files[p]) : TypedRight(call)
        /\ \A id \in FileDeps(p) : \E r \in declared : Says(p, id, r)

CleanArguments ==
  \A str \in args.ids : \E p \in Package :
    IF args.old THEN str = p \o <<"/", "BUILD">>
    ELSE \E n \in RuleWord :
           /\ str \in {opening \o <<n>> : opening \in Openings(p)}
           /\ n # "..." => Declared(<<p, n>>)

Clean == CleanArguments /\ CleanFiles

\* Every task handles a rule that exists, and what it adds is a rule or garbage.
TypeOK ==
  /\ phase \in {"args", "load", "push", "wait", "select", "done", "aborted", "crashed"}
  /\ pushed \subseteq Rules
  /\ \A r \in RuleId : /\ Dependencies[r] \subseteq Rules \cup {Garbage}
                       /\ todo[r] # {} => r \in pushed /\ todo[r] \subseteq Deps(r)
  /\ compiled \subseteq Rules

\* When the tasks start, the packages that the command line reaches by absolute
\* ids, in any spelling, are loaded; without an id that has no package, no other
\* BUILD file has been evaluated.
ClosureLoaded ==
  phase \in {"push", "wait", "select", "done"} =>
    LET closure == Closure
    IN  /\ closure \subseteq DOMAIN packages
        /\ \/ \A p \in DOMAIN packages \ closure : DOMAIN packages[p] = {}
           \/ \E p \in Package : \E id \in FileDeps(p) : WithoutPackage(id)
           \/ \E str \in args.ids : WithoutPackage(ArgumentId(str))

\* The map of packages, which the tasks read without a lock, does not change
\* while they run, unless a dependency is relative or has no package.
MapIsStable ==
  [][ Running /\ packages' # packages =>
        \E r \in Rules : \E id \in Deps(r) : Head(id) \notin {"//", ":"} \/ WithoutPackage(id) ]_vars

\* If all follows the documentation and is declared, nothing crashes or throws,
\* and each rule depends on the rules it names: none lost, none invented.
CleanFilesResolve ==
  Stopped /\ Clean =>
    /\ phase = "done"
    /\ \A r \in Rules : Dependencies[r] = {s \in Rules : \E id \in Deps(r) : Says(r[1], id, s)}

\* Then gen compiles the rules asked for and what they need, and nothing else:
\* not the other rules of the packages it had to load.
RequestsCompiled ==
  phase = "done" /\ Clean =>
    LET Asks(r) == \E str \in args.ids :
          \/ Says(<<>>, ArgumentId(str), r)
          \/ \E opening \in Openings(r[1]) : ArgumentId(str) = opening \o <<"...">>
        Needs(r) == \E s \in compiled : \E id \in Deps(s) : Says(s[1], id, r)
    IN  /\ \A r \in Rules : Asks(r) \/ Needs(r) => r \in compiled
        /\ \A r \in compiled : Asks(r) \/ Needs(r)

\* Packages may mention one another in circles: loading and resolving end.
LoadingEnds == <>Stopped

\* "rule from pwd: {PACKAGE_NAME}[/BUILD]:{RULE_NAME}" (core/models/
\* dependent.hh:25): a relative dependency is looked for below its package.
RelativeFromPwd ==
  phase = "done" => \A r \in Rules : \A q \in Package : \A n \in RuleWord :
    LET below == r[1] \o <<"/">> \o q
    IN  q \o <<":", n>> \in Deps(r) /\ Declared(<<below, n>>) =>
          <<below, n>> \in Dependencies[r]

\* "every target can have a new field `version`" (CHANGELOG.md:10): a rule that
\* would be loaded without a version is loaded with one.
VersionsAreTargets ==
  LET RightButVersion(call) ==
        TypedRight([field \in DOMAIN call \ {"version"} |-> call[field]])
  IN  CleanArguments /\ (\A p \in Closure : \A call \in Range(files[p]) : RightButVersion(call))
        => phase # "aborted"
=============================================================================
