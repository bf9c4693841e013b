----------------------- MODULE IncrementalBuildProof ------------------------
(***************************************************************************)
(* What the runs check of IncrementalBuild, for all projects and edits:    *)
(* first lemmas about the makefiles of a project, then four invariants,    *)
(* each with the theorems that follow from it.  Typed is about types, Made *)
(* about what is on disk, Current about the mark, and Progressing about a  *)
(* make that runs.                                                         *)
(***************************************************************************)
EXTENDS IncrementalBuild, TLAPS

RuleIn(p, r) == Setup[p].rules[r]
CCKinds == {"cc_library", "cc_binary", "cc_test"}

-----------------------------------------------------------------------------
(* The entries of build.make, one form for each kind of target.            *)

IsLint(p, r, e) ==
  RuleIn(p, r).kind \in CCKinds /\ \E f \in Linted(RuleIn(p, r)) : e = LintEntry(r, f)

IsObject(p, r, e) ==
  \E f \in RuleIn(p, r).sources :
    \/ /\ RuleIn(p, r).kind \in CCKinds
       /\ e = ObjectEntry(r, RuleIn(p, r), f, Source(f),
                          ({f} \cup RuleIn(p, r).headers) \cap Linted(RuleIn(p, r)))
    \/ /\ RuleIn(p, r).kind = "proto_library"
       /\ e = ObjectEntry(r, RuleIn(p, r), f, <<"pb.cc", r, f>>, {})

IsProtoc(p, r, e) ==
  RuleIn(p, r).kind = "proto_library" /\ \E f \in RuleIn(p, r).sources : e = ProtocEntry(r, f)

Objects(p, r) ==
  IF RuleIn(p, r).kind = "proto_library"
    THEN {Object(r, <<"pb.cc", r, f>>) : f \in RuleIn(p, r).sources}
    ELSE {Object(r, Source(f)) : f \in RuleIn(p, r).sources}

Stamps(p, r) ==
  IF RuleIn(p, r).kind = "proto_library" THEN {} ELSE HeaderLints(r, RuleIn(p, r))

IsArchive(p, r, e) ==
  /\ RuleIn(p, r).kind \in {"cc_library", "proto_library"}
  /\ e = ArchiveEntry(r, Objects(p, r), Stamps(p, r))

IsLink(p, r, e) ==
  /\ RuleIn(p, r).kind \in {"cc_binary", "cc_test"}
  /\ e = LinkEntry(Loaded(Setup[p]), r, Objects(p, r), Stamps(p, r))

Scripts(p, r) == {Source(f) : f \in RuleIn(p, r).sources}

IsScript(p, r, e) ==
  /\ RuleIn(p, r).kind = "shell_script"
  /\ e = [target |-> <<"checkpoint", r>>, needs |-> Scripts(p, r), reads |-> Scripts(p, r),
          line |-> "script", recipe |-> TRUE, force |-> FALSE]

IsArtifact(p, r, e) ==
  /\ RuleIn(p, r).kind = "shell_script"
  /\ e = [target |-> <<"artifact", r>>, needs |-> {<<"checkpoint", r>>}, reads |-> Scripts(p, r),
          line |-> "script", recipe |-> FALSE, force |-> FALSE]

EntriesOf(p, r) == Entries(Loaded(Setup[p]), r)

\* Every entry has one of these forms, and whatever has one is an entry.
LEMMA EntryForms ==
  ASSUME NEW p \in Project, NEW r \in RulesOf(p), NEW e
  PROVE  e \in EntriesOf(p, r) <=>
           \/ IsLint(p, r, e) \/ IsObject(p, r, e) \/ IsProtoc(p, r, e) \/ IsArchive(p, r, e)
           \/ IsLink(p, r, e) \/ IsScript(p, r, e) \/ IsArtifact(p, r, e)
<1> DEFINE rule == RuleIn(p, r)
<1>1. Loaded(Setup[p]).rules[r] = rule
  BY DEF Loaded, RuleIn
<1>2. rule.kind \in Kinds
  BY IncrementalAssumption DEF RuleIn
<1>3. CASE rule.kind = "cc_library"
  <2>1. EntriesOf(p, r) = LibraryEntries(Loaded(Setup[p]), r)
    BY <1>1, <1>3 DEF EntriesOf, Entries
  <2>2. EntriesOf(p, r) =
          {LintEntry(r, f) : f \in Linted(rule)}
            \cup {ObjectEntry(r, rule, f, Source(f), ({f} \cup rule.headers) \cap Linted(rule)) :
                    f \in rule.sources}
            \cup {ArchiveEntry(r, {Object(r, Source(f)) : f \in rule.sources}, HeaderLints(r, rule))}
    BY <2>1, <1>1 DEF LibraryEntries, CCEntries
  <2> QED
    BY <2>2, <1>3
    DEF IsLint, IsObject, IsProtoc, IsArchive, IsLink, IsScript, IsArtifact, CCKinds, Objects, Stamps
<1>4. CASE rule.kind \in {"cc_binary", "cc_test"}
  <2>1. EntriesOf(p, r) = BinaryEntries(Loaded(Setup[p]), r)
    BY <1>1, <1>4 DEF EntriesOf, Entries
  <2>2. EntriesOf(p, r) =
          {LintEntry(r, f) : f \in Linted(rule)}
            \cup {ObjectEntry(r, rule, f, Source(f), ({f} \cup rule.headers) \cap Linted(rule)) :
                    f \in rule.sources}
            \cup {LinkEntry(Loaded(Setup[p]), r, {Object(r, Source(f)) : f \in rule.sources},
                            HeaderLints(r, rule))}
    BY <2>1, <1>1 DEF BinaryEntries, CCEntries
  <2> QED
    BY <2>2, <1>4
    DEF IsLint, IsObject, IsProtoc, IsArchive, IsLink, IsScript, IsArtifact, CCKinds, Objects, Stamps
<1>5. CASE rule.kind = "proto_library"
  <2>1. EntriesOf(p, r) = ProtoEntries(Loaded(Setup[p]), r)
    BY <1>1, <1>5 DEF EntriesOf, Entries
  <2>2. EntriesOf(p, r) =
          {ProtocEntry(r, f) : f \in rule.sources}
            \cup {ObjectEntry(r, rule, f, <<"pb.cc", r, f>>, {}) : f \in rule.sources}
            \cup {ArchiveEntry(r, {Object(r, <<"pb.cc", r, f>>) : f \in rule.sources}, {})}
    BY <2>1, <1>1 DEF ProtoEntries
  <2> QED
    BY <2>2, <1>5
    DEF IsLint, IsObject, IsProtoc, IsArchive, IsLink, IsScript, IsArtifact, CCKinds, Objects, Stamps
<1>6. CASE rule.kind = "shell_script"
  <2>1. EntriesOf(p, r) = ScriptEntries(Loaded(Setup[p]), r)
    BY <1>1, <1>6 DEF EntriesOf, Entries
  <2>2. Scripts(p, r) = {Source(f) : f \in Loaded(Setup[p]).rules[r].sources}
    BY <1>1 DEF Scripts
  <2>3. ~IsLint(p, r, e) /\ ~IsObject(p, r, e) /\ ~IsProtoc(p, r, e) /\ ~IsArchive(p, r, e)
           /\ ~IsLink(p, r, e)
    BY <1>6 DEF IsLint, IsObject, IsProtoc, IsArchive, IsLink, CCKinds
  <2> QED
    BY <2>1, <2>2, <2>3, <1>6 DEF ScriptEntries, IsScript, IsArtifact
<1> QED
  BY <1>2, <1>3, <1>4, <1>5, <1>6 DEF Kinds

TargetsIn(p, r) == {e.target : e \in EntriesOf(p, r)}

\* The form of an entry shows in the kind of its target.
LEMMA FormOfTarget ==
  ASSUME NEW p \in Project, NEW r \in RulesOf(p), NEW e
  PROVE  /\ IsLint(p, r, e) => e.target[1] = "lint"
         /\ IsObject(p, r, e) => e.target[1] = "object"
         /\ IsProtoc(p, r, e) => e.target[1] = "pb.cc"
         /\ IsArchive(p, r, e) => e.target[1] = "library"
         /\ IsLink(p, r, e) => e.target[1] = "binary"
         /\ IsScript(p, r, e) => e.target[1] = "checkpoint"
         /\ IsArtifact(p, r, e) => e.target[1] = "artifact"
<1>1. IsLint(p, r, e) => e.target[1] = "lint"
  BY DEF IsLint, LintEntry, Lint
<1>2. IsObject(p, r, e) => e.target[1] = "object"
  BY DEF IsObject, ObjectEntry, Object
<1>3. IsProtoc(p, r, e) => e.target[1] = "pb.cc"
  BY DEF IsProtoc, ProtocEntry
<1>4. IsArchive(p, r, e) => e.target[1] = "library"
  BY DEF IsArchive, ArchiveEntry
<1>5. IsLink(p, r, e) => e.target[1] = "binary"
  BY DEF IsLink, LinkEntry
<1>6. IsScript(p, r, e) => e.target[1] = "checkpoint"
  BY DEF IsScript
<1>7. IsArtifact(p, r, e) => e.target[1] = "artifact"
  BY DEF IsArtifact
<1> QED
  BY <1>1, <1>2, <1>3, <1>4, <1>5, <1>6, <1>7

\* The target belongs to the rule; objects and stamps do not depend on what shows step
\* numbers.
LEMMA EntryOfRule ==
  ASSUME NEW p \in Project, NEW r \in RulesOf(p), NEW e \in EntriesOf(p, r)
  PROVE  /\ e.target[2] = r
         /\ e.target[1] \in {"lint", "object", "pb.cc", "library", "binary", "checkpoint", "artifact"}
         /\ e.recipe => e.target[1] # "artifact"
         /\ e.target[1] \in {"lint", "object"} =>
              \A x \in e.needs : x[1] \notin {"root", "database", "build"}
<1>1. CASE IsLint(p, r, e)
  BY <1>1 DEF IsLint, LintEntry, Lint, Source, Toolchain
<1>2. CASE IsObject(p, r, e)
  <2>1. PICK f, input, stamps : /\ e.target = Object(r, input)
                                /\ e.needs = ObjectNeeds(r, f, input, stamps)
                                /\ input[1] \in {"source", "pb.cc"}
    BY <1>2 DEF IsObject, ObjectEntry, Source
  <2>2. \A x \in e.needs : x[1] \in {"flags", "toolchain", "lint", "source", "pb.cc"}
    BY <2>1 DEF ObjectNeeds, Lint, Toolchain, Flags
  <2> QED
    BY <2>1, <2>2 DEF Object
<1>3. CASE IsProtoc(p, r, e)
  BY <1>3 DEF IsProtoc, ProtocEntry
<1>4. CASE IsArchive(p, r, e)
  BY <1>4 DEF IsArchive, ArchiveEntry
<1>5. CASE IsLink(p, r, e)
  BY <1>5 DEF IsLink, LinkEntry
<1>6. CASE IsScript(p, r, e)
  BY <1>6 DEF IsScript
<1>7. CASE IsArtifact(p, r, e)
  BY <1>7 DEF IsArtifact
<1> QED
  BY EntryForms, <1>1, <1>2, <1>3, <1>4, <1>5, <1>6, <1>7

\* Two entries of a rule have different targets.
LEMMA OneEntry ==
  ASSUME NEW p \in Project, NEW r \in RulesOf(p),
         NEW d \in EntriesOf(p, r), NEW e \in EntriesOf(p, r), d.target = e.target
  PROVE  d = e
<1>1. CASE IsLint(p, r, e)
  <2>1. IsLint(p, r, d)
    BY <1>1, EntryForms, FormOfTarget
  <2>2. PICK f \in Linted(RuleIn(p, r)) : e = LintEntry(r, f)
    BY <1>1 DEF IsLint
  <2>3. PICK g \in Linted(RuleIn(p, r)) : d = LintEntry(r, g)
    BY <2>1 DEF IsLint
  <2>4. f = g
    BY <2>2, <2>3 DEF LintEntry, Lint
  <2> QED
    BY <2>2, <2>3, <2>4
<1>2. CASE IsObject(p, r, e)
  <2>1. IsObject(p, r, d)
    BY <1>2, EntryForms, FormOfTarget
  <2> DEFINE rule == RuleIn(p, r)
             CCEntry(f) == ObjectEntry(r, rule, f, Source(f), ({f} \cup rule.headers) \cap Linted(rule))
             ProtoEntry(f) == ObjectEntry(r, rule, f, <<"pb.cc", r, f>>, {})
  <2>2. \A f : CCEntry(f).target = Object(r, Source(f)) /\ ProtoEntry(f).target = Object(r, <<"pb.cc", r, f>>)
    BY DEF ObjectEntry
  <2>3. \A f, g : /\ Object(r, Source(f)) = Object(r, Source(g)) => f = g
                  /\ Object(r, <<"pb.cc", r, f>>) = Object(r, <<"pb.cc", r, g>>) => f = g
    BY DEF Object, Source
  <2>4. CASE rule.kind \in CCKinds
    <3>1. PICK f \in rule.sources : e = CCEntry(f)
      BY <1>2, <2>4 DEF IsObject, CCKinds
    <3>2. PICK g \in rule.sources : d = CCEntry(g)
      BY <2>1, <2>4 DEF IsObject, CCKinds
    <3>3. Object(r, Source(f)) = Object(r, Source(g))
      BY <3>1, <3>2, <2>2
    <3>4. f = g
      BY <3>3, <2>3
    <3> QED
      BY <3>1, <3>2, <3>4
  <2>5. CASE rule.kind = "proto_library"
    <3>1. PICK f \in rule.sources : e = ProtoEntry(f)
      BY <1>2, <2>5 DEF IsObject, CCKinds
    <3>2. PICK g \in rule.sources : d = ProtoEntry(g)
      BY <2>1, <2>5 DEF IsObject, CCKinds
    <3>3. Object(r, <<"pb.cc", r, f>>) = Object(r, <<"pb.cc", r, g>>)
      BY <3>1, <3>2, <2>2
    <3>4. f = g
      BY <3>3, <2>3
    <3> QED
      BY <3>1, <3>2, <3>4
  <2> QED
    BY <1>2, <2>4, <2>5 DEF IsObject
<1>3. CASE IsProtoc(p, r, e)
  <2>1. IsProtoc(p, r, d)
    BY <1>3, EntryForms, FormOfTarget
  <2>2. PICK f : e = ProtocEntry(r, f)
    BY <1>3 DEF IsProtoc
  <2>3. PICK g : d = ProtocEntry(r, g)
    BY <2>1 DEF IsProtoc
  <2>4. f = g
    BY <2>2, <2>3 DEF ProtocEntry
  <2> QED
    BY <2>2, <2>3, <2>4
<1>4. CASE IsArchive(p, r, e)
  <2>1. IsArchive(p, r, d)
    BY <1>4, EntryForms, FormOfTarget
  <2> QED
    BY <1>4, <2>1 DEF IsArchive
<1>5. CASE IsLink(p, r, e)
  <2>1. IsLink(p, r, d)
    BY <1>5, EntryForms, FormOfTarget
  <2> QED
    BY <1>5, <2>1 DEF IsLink
<1>6. CASE IsScript(p, r, e)
  <2>1. IsScript(p, r, d)
    BY <1>6, EntryForms, FormOfTarget
  <2> QED
    BY <1>6, <2>1 DEF IsScript
<1>7. CASE IsArtifact(p, r, e)
  <2>1. IsArtifact(p, r, d)
    BY <1>7, EntryForms, FormOfTarget
  <2> QED
    BY <1>7, <2>1 DEF IsArtifact
<1> QED
  BY EntryForms, <1>1, <1>2, <1>3, <1>4, <1>5, <1>6, <1>7

\* Every linted file has a stamp, and every source an object.
LEMMA OwnTargets ==
  ASSUME NEW p \in Project, NEW r \in RulesOf(p)
  PROVE  /\ RuleIn(p, r).kind \in CCKinds =>
              \A f \in Linted(RuleIn(p, r)) : /\ LintEntry(r, f) \in EntriesOf(p, r)
                                              /\ Lint(r, f) \in TargetsIn(p, r)
         /\ Objects(p, r) \subseteq TargetsIn(p, r) \/ RuleIn(p, r).kind = "shell_script"
         /\ Stamps(p, r) \subseteq TargetsIn(p, r) \/ RuleIn(p, r).kind = "shell_script"
         /\ Exported(Loaded(Setup[p]), r) \in TargetsIn(p, r)
<1> DEFINE rule == RuleIn(p, r)
<1>1. rule.kind \in CCKinds =>
        \A f \in Linted(rule) : /\ LintEntry(r, f) \in EntriesOf(p, r)
                                /\ Lint(r, f) \in TargetsIn(p, r)
  <2> SUFFICES ASSUME rule.kind \in CCKinds, NEW f \in Linted(rule)
               PROVE  LintEntry(r, f) \in EntriesOf(p, r) /\ Lint(r, f) \in TargetsIn(p, r)
    OBVIOUS
  <2>1. LintEntry(r, f) \in EntriesOf(p, r)
    BY EntryForms DEF IsLint
  <2>2. LintEntry(r, f).target = Lint(r, f)
    BY DEF LintEntry
  <2> QED
    BY <2>1, <2>2 DEF TargetsIn
<1>2. rule.kind \in Kinds
  BY IncrementalAssumption DEF RuleIn
<1>3. ASSUME rule.kind \in CCKinds
      PROVE  Objects(p, r) \subseteq TargetsIn(p, r) /\ Stamps(p, r) \subseteq TargetsIn(p, r)
  <2>1. ASSUME NEW f \in rule.sources
        PROVE  Object(r, Source(f)) \in TargetsIn(p, r)
    <3> DEFINE d == ObjectEntry(r, rule, f, Source(f), ({f} \cup rule.headers) \cap Linted(rule))
    <3>1. IsObject(p, r, d)
      BY <1>3 DEF IsObject
    <3>2. d.target = Object(r, Source(f))
      BY DEF ObjectEntry
    <3> HIDE DEF d
    <3> QED
      BY <3>1, <3>2, EntryForms DEF TargetsIn
  <2>2. Objects(p, r) \subseteq TargetsIn(p, r)
    BY <2>1, <1>3 DEF Objects, CCKinds
  <2>3. Stamps(p, r) \subseteq TargetsIn(p, r)
    BY <1>1, <1>3 DEF Stamps, HeaderLints, CCKinds
  <2> QED
    BY <2>2, <2>3
<1>4. ASSUME rule.kind = "proto_library"
      PROVE  Objects(p, r) \subseteq TargetsIn(p, r) /\ Stamps(p, r) \subseteq TargetsIn(p, r)
  <2>1. ASSUME NEW f \in rule.sources
        PROVE  Object(r, <<"pb.cc", r, f>>) \in TargetsIn(p, r)
    <3> DEFINE d == ObjectEntry(r, rule, f, <<"pb.cc", r, f>>, {})
    <3>1. IsObject(p, r, d)
      BY <1>4 DEF IsObject
    <3>2. d.target = Object(r, <<"pb.cc", r, f>>)
      BY DEF ObjectEntry
    <3> HIDE DEF d
    <3> QED
      BY <3>1, <3>2, EntryForms DEF TargetsIn
  <2> QED
    BY <2>1, <1>4 DEF Objects, Stamps
<1>5. Exported(Loaded(Setup[p]), r) \in TargetsIn(p, r)
  <2>1. Loaded(Setup[p]).rules[r] = rule
    BY DEF Loaded, RuleIn
  <2>2. CASE rule.kind \in {"cc_library", "proto_library"}
    <3> DEFINE d == ArchiveEntry(r, Objects(p, r), Stamps(p, r))
    <3>1. IsArchive(p, r, d)
      BY <2>2 DEF IsArchive
    <3>2. d.target = Exported(Loaded(Setup[p]), r)
      BY <2>1, <2>2 DEF ArchiveEntry, Exported
    <3> HIDE DEF d
    <3> QED
      BY <3>1, <3>2, EntryForms DEF TargetsIn
  <2>3. CASE rule.kind \in {"cc_binary", "cc_test"}
    <3> DEFINE d == LinkEntry(Loaded(Setup[p]), r, Objects(p, r), Stamps(p, r))
    <3>1. IsLink(p, r, d)
      BY <2>3 DEF IsLink
    <3>2. d.target = Exported(Loaded(Setup[p]), r)
      BY <2>1, <2>3 DEF LinkEntry, Exported
    <3> HIDE DEF d
    <3> QED
      BY <3>1, <3>2, EntryForms DEF TargetsIn
  <2>4. CASE rule.kind = "shell_script"
    <3> DEFINE d == [target |-> <<"artifact", r>>, needs |-> {<<"checkpoint", r>>},
                     reads |-> Scripts(p, r), line |-> "script", recipe |-> FALSE, force |-> FALSE]
    <3>1. IsArtifact(p, r, d)
      BY <2>4 DEF IsArtifact
    <3>2. d.target = Exported(Loaded(Setup[p]), r)
      BY <2>1, <2>4 DEF Exported
    <3> HIDE DEF d
    <3> QED
      BY <3>1, <3>2, EntryForms DEF TargetsIn
  <2> QED
    BY <1>2, <2>2, <2>3, <2>4 DEF Kinds
<1>6. rule.kind \in CCKinds \/ rule.kind = "proto_library" \/ rule.kind = "shell_script"
  BY <1>2 DEF Kinds, CCKinds
<1> QED
  BY <1>1, <1>3, <1>4, <1>5, <1>6

\* The rules below a rule are rules of the project.
LEMMA BelowAreRules ==
  ASSUME NEW p \in Project, NEW r \in RulesOf(p)
  PROVE  /\ Under[p][r] = Below(Loaded(Setup[p]), r)
         /\ Under[p][r] \subseteq RulesOf(p) /\ r \notin Under[p][r]
<1>1. Under[p][r] = Below(Loaded(Setup[p]), r)
  BY DEF Under
<1>2. DOMAIN Loaded(Setup[p]).rules = RulesOf(p)
  BY DEF Loaded, RulesOf
<1> DEFINE g == [q \in RulesOf(p) |-> Loaded(Setup[p]).rules[q].deps]
<1>3. Below(Loaded(Setup[p]), r) = Reachable(g)[r] \ {r}
  BY <1>2 DEF Below
<1>4. Reachable(g)[r] \subseteq RulesOf(p)
  BY DEF Reachable
<1> QED
  BY <1>1, <1>3, <1>4

\* What a rule of a project needs: files of its own, sources, and what it is linked with.
LEMMA WhatIsNeeded ==
  ASSUME NEW p \in Project, NEW r \in RulesOf(p), NEW e \in EntriesOf(p, r), NEW x \in e.needs
  PROVE  \/ x \in TargetsIn(p, r)
         \/ x \in {Flags(r), Toolchain(r), Build(r)}
         \/ x[1] = "source"
         \/ e.target[1] = "binary" /\ \E q \in Under[p][r] : x = Exported(Loaded(Setup[p]), q)
<1>1. CASE IsLint(p, r, e)
  BY <1>1 DEF IsLint, LintEntry, Source
<1>2. CASE IsObject(p, r, e)
  <2> DEFINE rule == RuleIn(p, r)
  <2>1. PICK f \in rule.sources :
          \/ /\ rule.kind \in CCKinds
             /\ e = ObjectEntry(r, rule, f, Source(f), ({f} \cup rule.headers) \cap Linted(rule))
          \/ /\ rule.kind = "proto_library"
             /\ e = ObjectEntry(r, rule, f, <<"pb.cc", r, f>>, {})
    BY <1>2 DEF IsObject
  <2>2. CASE rule.kind \in CCKinds
    <3>1. e.needs \subseteq {Flags(r), Toolchain(r), Source(f)}
                              \cup {Lint(r, g) : g \in ({f} \cup rule.headers) \cap Linted(rule)}
      BY <2>1, <2>2 DEF ObjectEntry, ObjectNeeds, CCKinds
    <3> QED
      BY <3>1, <2>2, OwnTargets DEF Source
  <2>3. CASE rule.kind = "proto_library"
    <3>1. e.needs \subseteq {Flags(r), Toolchain(r), <<"pb.cc", r, f>>}
      BY <2>1, <2>3 DEF ObjectEntry, ObjectNeeds, CCKinds
    <3>2. IsProtoc(p, r, ProtocEntry(r, f))
      BY <2>3 DEF IsProtoc
    <3>3. ProtocEntry(r, f).target = <<"pb.cc", r, f>>
      BY DEF ProtocEntry
    <3>4. <<"pb.cc", r, f>> \in TargetsIn(p, r)
      BY <3>2, <3>3, EntryForms DEF TargetsIn
    <3> QED
      BY <3>1, <3>4
  <2> QED
    BY <2>1, <2>2, <2>3
<1>3. CASE IsProtoc(p, r, e)
  BY <1>3 DEF IsProtoc, ProtocEntry, Source
<1>4. CASE IsArchive(p, r, e)
  <2>1. e.needs = Objects(p, r) \cup Stamps(p, r) \cup {Build(r), Toolchain(r), Flags(r)}
    BY <1>4 DEF IsArchive, ArchiveEntry
  <2> QED
    BY <2>1, <1>4, OwnTargets DEF IsArchive
<1>5. CASE IsLink(p, r, e)
  <2>1. /\ e.needs = Objects(p, r) \cup Stamps(p, r)
                       \cup {Exported(Loaded(Setup[p]), q) : q \in Below(Loaded(Setup[p]), r)}
                       \cup {Build(r)}
        /\ e.target[1] = "binary"
    BY <1>5 DEF IsLink, LinkEntry
  <2> QED
    BY <2>1, <1>5, OwnTargets, BelowAreRules DEF IsLink
<1>6. CASE IsScript(p, r, e)
  BY <1>6 DEF IsScript, Scripts, Source
<1>7. CASE IsArtifact(p, r, e)
  <2> DEFINE d == [target |-> <<"checkpoint", r>>, needs |-> Scripts(p, r), reads |-> Scripts(p, r),
                   line |-> "script", recipe |-> TRUE, force |-> FALSE]
  <2>1. IsScript(p, r, d)
    BY <1>7 DEF IsScript, IsArtifact
  <2>2. d.target = <<"checkpoint", r>>
    OBVIOUS
  <2>3. e.needs = {<<"checkpoint", r>>}
    BY <1>7 DEF IsArtifact
  <2> HIDE DEF d
  <2> QED
    BY <2>1, <2>2, <2>3, EntryForms DEF TargetsIn
<1> QED
  BY EntryForms, <1>1, <1>2, <1>3, <1>4, <1>5, <1>6, <1>7

\* A stamp that is needed is one of the rule's own, for a file that its entry needs.
LEMMA StampsAreOwn ==
  ASSUME NEW p \in Project, NEW r \in RulesOf(p), NEW e \in EntriesOf(p, r),
         NEW x \in e.needs, x[1] = "lint"
  PROVE  \E f : x = Lint(r, f) /\ LintEntry(r, f) \in EntriesOf(p, r)
<1>1. x \in TargetsIn(p, r)
  <2>1. x \notin {Flags(r), Toolchain(r), Build(r)}
    BY DEF Flags, Toolchain, Build
  <2>2. \A q : Exported(Loaded(Setup[p]), q)[1] # "lint"
    BY DEF Exported
  <2> QED
    BY <2>1, <2>2, WhatIsNeeded
<1>2. PICK d \in EntriesOf(p, r) : x = d.target
  BY <1>1 DEF TargetsIn
<1>3. IsLint(p, r, d)
  BY <1>2, EntryForms, FormOfTarget
<1>4. PICK f : d = LintEntry(r, f)
  BY <1>3 DEF IsLint
<1> QED
  BY <1>2, <1>4 DEF LintEntry

\* A recipe reads prerequisites and sources, and never what it writes.
LEMMA WhatIsRead ==
  ASSUME NEW p \in Project, NEW r \in RulesOf(p), NEW e \in EntriesOf(p, r), NEW x \in e.reads
  PROVE  /\ e.recipe => x \in e.needs \/ x = Source(x[2])
         /\ e.recipe => x \notin Outputs(e)
<1>1. CASE IsLint(p, r, e)
  BY <1>1 DEF IsLint, LintEntry, Source, Lint, Outputs
<1>2. CASE IsObject(p, r, e)
  <2>1. PICK f, input : /\ e.target = Object(r, input)
                        /\ e.reads = Read(r, f, input)
                        /\ e.recipe => {Flags(r), Toolchain(r), input} \subseteq e.needs
                        /\ input[1] \in {"source", "pb.cc"}
    <3>1. PICK f, input, stamps :
            /\ e = ObjectEntry(r, RuleIn(p, r), f, input, stamps)
            /\ input[1] \in {"source", "pb.cc"}
      BY <1>2 DEF IsObject, Source
    <3>2. e.recipe => {Flags(r), Toolchain(r), input} \subseteq e.needs
      BY <3>1 DEF ObjectEntry, ObjectNeeds
    <3>3. e.target = Object(r, input) /\ e.reads = Read(r, f, input)
      BY <3>1 DEF ObjectEntry
    <3> QED
      BY <3>1, <3>2, <3>3
  <2>2. x \in {Flags(r), Toolchain(r), input} \/ x = Source(x[2])
    BY <2>1 DEF Read, Source
  <2>3. x[1] # "object"
    BY <2>2, <2>1 DEF Flags, Toolchain, Source
  <2>4. e.target[1] = "object" /\ Outputs(e) = {e.target}
    BY <2>1 DEF Object, Outputs
  <2> QED
    BY <2>1, <2>2, <2>3, <2>4
<1>3. CASE IsProtoc(p, r, e)
  BY <1>3 DEF IsProtoc, ProtocEntry, Source, Outputs
<1>4. CASE IsArchive(p, r, e)
  <2>1. e.reads = Objects(p, r) /\ Objects(p, r) \subseteq e.needs /\ e.target = <<"library", r>>
    BY <1>4 DEF IsArchive, ArchiveEntry
  <2>2. x[1] = "object"
    BY <2>1 DEF Objects, Object
  <2> QED
    BY <2>1, <2>2 DEF Outputs
<1>5. CASE IsLink(p, r, e)
  <2>1. /\ e.reads = Objects(p, r) \cup {Exported(Loaded(Setup[p]), q) : q \in Below(Loaded(Setup[p]), r)}
        /\ e.reads \subseteq e.needs /\ e.target = <<"binary", r>>
    BY <1>5 DEF IsLink, LinkEntry
  <2>2. \A y \in Objects(p, r) : y[1] = "object"
    BY DEF Objects, Object
  <2>3. \A q : Exported(Loaded(Setup[p]), q)[2] = q
    BY DEF Exported
  <2>4. x[1] = "object" \/ x[2] # r
    BY <2>1, <2>2, <2>3, BelowAreRules
  <2> QED
    BY <2>1, <2>4 DEF Outputs
<1>6. CASE IsScript(p, r, e)
  <2>1. x = Source(x[2]) /\ x[1] = "source" /\ e.target = <<"checkpoint", r>>
    BY <1>6 DEF IsScript, Scripts, Source
  <2> QED
    BY <2>1 DEF Outputs
<1>7. CASE IsArtifact(p, r, e)
  BY <1>7 DEF IsArtifact
<1> QED
  BY EntryForms, <1>1, <1>2, <1>3, <1>4, <1>5, <1>6, <1>7

-----------------------------------------------------------------------------
(* What gen writes.                                                        *)

\* The files of a project, and what is in those that make reads.
LEMMA MakefilesOf ==
  ASSUME NEW p \in Project
  PROVE  /\ RootMakefile \in DOMAIN Generated[p] /\ Database \in DOMAIN Generated[p]
         /\ Generated[p][RootMakefile] = Root(Loaded(Setup[p]))
         /\ \A r : Build(r) \in DOMAIN Generated[p] <=> r \in RulesOf(p)
         /\ \A r \in RulesOf(p) : /\ Generated[p][Build(r)].entries = EntriesOf(p, r)
                                  /\ Generated[p][Build(r)].clean = Cleaned(Loaded(Setup[p]), r)
         /\ \A x \in DOMAIN Generated[p] : x[1] \in {"root", "database", "build", "flags", "toolchain"}
<1> DEFINE P == Loaded(Setup[p])
           cc == {r \in DOMAIN P.rules : IsCC(P, r)}
           all == {RootMakefile, Database} \cup {Build(r) : r \in DOMAIN P.rules}
                    \cup {Flags(r) : r \in cc} \cup {Toolchain(r) : r \in cc}
<1>1. DOMAIN P.rules = RulesOf(p)
  BY DEF Loaded, RulesOf
<1>2. Generated[p] = Makefiles(P)
  BY DEF Generated
<1>3. Generated[p] = [f \in all |->
         CASE f[1] = "root"      -> Root(P)
           [] f[1] = "database"  -> Commands(P)
           [] f[1] = "build"     -> BuildMake(P, f[2])
           [] f[1] = "flags"     -> FlagsMake(P, f[2])
           [] f[1] = "toolchain" -> ToolchainMake(P)]
  BY <1>2 DEF Makefiles
<1> HIDE DEF P
<1>4. DOMAIN Generated[p] = all
  BY <1>3
<1>5. RootMakefile \in all /\ RootMakefile[1] = "root" /\ Database \in all
  BY DEF RootMakefile
<1>6. Generated[p][RootMakefile] = Root(P)
  BY <1>3, <1>5
<1>7. \A r : Build(r) \in all <=> r \in RulesOf(p)
  BY <1>1 DEF Build, Flags, Toolchain, RootMakefile, Database
<1>8. ASSUME NEW r \in RulesOf(p)
      PROVE  Generated[p][Build(r)] = BuildMake(P, r)
  <2>1. Build(r) \in all /\ Build(r)[1] = "build" /\ Build(r)[2] = r
    BY <1>7 DEF Build
  <2> HIDE DEF all
  <2> QED
    BY <1>3, <2>1
<1>9. \A x \in all : x[1] \in {"root", "database", "build", "flags", "toolchain"}
  BY DEF Build, Flags, Toolchain, RootMakefile, Database
<1>10. \A r \in RulesOf(p) : /\ Generated[p][Build(r)].entries = EntriesOf(p, r)
                             /\ Generated[p][Build(r)].clean = Cleaned(P, r)
  <2>1. \A r : BuildMake(P, r).entries = Entries(P, r) /\ BuildMake(P, r).clean = Cleaned(P, r)
    BY DEF BuildMake
  <2>2. \A r : EntriesOf(p, r) = Entries(P, r)
    BY DEF EntriesOf, P
  <2> QED
    BY <1>8, <2>1, <2>2
<1> QED
  BY <1>4, <1>5, <1>6, <1>7, <1>9, <1>10 DEF P

\* The entries of all projects.
LEMMA EntriesOfAll ==
  /\ \A p \in Project : \A r \in RulesOf(p) : /\ EntriesOf(p, r) \subseteq AllEntries
                                              /\ TargetsIn(p, r) \subseteq Targets
  /\ \A e \in AllEntries : \E p \in Project : \E r \in RulesOf(p) : e \in EntriesOf(p, r)
  /\ \A e \in AllEntries : e.target \in Targets
  /\ \A t \in Targets : t[1] \in {"lint", "object", "pb.cc", "library", "binary", "checkpoint", "artifact"}
<1>1. AllEntries = UNION {UNION {EntriesOf(p, r) : r \in RulesOf(p)} : p \in Project}
  <2>1. \A p \in Project : \A r \in RulesOf(p) : Generated[p][Build(r)].entries = EntriesOf(p, r)
    BY MakefilesOf
  <2>2. \A p \in Project : UNION {Generated[p][Build(r)].entries : r \in RulesOf(p)}
                             = UNION {EntriesOf(p, r) : r \in RulesOf(p)}
    BY <2>1
  <2> QED
    BY <2>2 DEF AllEntries
<1>2. \A p \in Project : \A r \in RulesOf(p) : EntriesOf(p, r) \subseteq AllEntries
  BY <1>1
<1>3. \A e \in AllEntries : \E p \in Project : \E r \in RulesOf(p) : e \in EntriesOf(p, r)
  BY <1>1
<1>4. \A e \in AllEntries : e.target \in Targets
  BY DEF Targets
<1>5. \A p \in Project : \A r \in RulesOf(p) : TargetsIn(p, r) \subseteq Targets
  BY <1>2, <1>4 DEF TargetsIn
<1>6. ASSUME NEW t \in Targets
      PROVE  t[1] \in {"lint", "object", "pb.cc", "library", "binary", "checkpoint", "artifact"}
  <2>1. PICK e \in AllEntries : t = e.target
    BY DEF Targets
  <2>2. PICK p \in Project : \E r \in RulesOf(p) : e \in EntriesOf(p, r)
    BY <1>3
  <2>3. PICK r \in RulesOf(p) : e \in EntriesOf(p, r)
    BY <2>2
  <2> QED
    BY <2>1, <2>3, EntryOfRule
<1> QED
  BY <1>2, <1>3, <1>4, <1>5, <1>6

GeneratedKinds == {"root", "database", "build", "flags", "toolchain"}
TargetKinds == {"lint", "object", "pb.cc", "library", "binary", "checkpoint", "artifact"}

\* Makefiles, targets, sources and the mark are different files.
LEMMA DifferentFiles ==
  /\ \A x \in GeneratedFiles : x[1] \in GeneratedKinds
  /\ \A x \in Targets : x[1] \in TargetKinds
  /\ GeneratedFiles \cap Targets = {}
  /\ Mark \notin GeneratedFiles /\ Mark \notin Targets
  /\ \A f : Source(f) \notin GeneratedFiles \cup Targets \cup {Mark}
  /\ \A f : Source(f)[1] = "source"
<1>1. \A x \in GeneratedFiles : x[1] \in GeneratedKinds
  BY MakefilesOf DEF GeneratedFiles, GeneratedKinds
<1>2. \A x \in Targets : x[1] \in TargetKinds
  BY EntriesOfAll DEF TargetKinds
<1> QED
  BY <1>1, <1>2 DEF GeneratedKinds, TargetKinds, Mark, Source

\* The prerequisites that are looked at.
LEMMA NeededFiles ==
  /\ DOMAIN Needed = Targets \cup {Mark}
  /\ Needed[Mark] = {Marker} \cup {BuildFile(r) : r \in Rules}
  /\ \A t \in Targets : Needed[t] = UNION {e.needs : e \in {e \in AllEntries : e.target = t /\ e.recipe}}
  /\ \A e \in AllEntries : e.recipe => e.needs \subseteq Needed[e.target]
<1>1. DOMAIN Needed = Targets \cup {Mark}
  BY DEF Needed
<1>2. Needed[Mark] = {Marker} \cup {BuildFile(r) : r \in Rules}
  BY DEF Needed
<1>3. ASSUME NEW t \in Targets
      PROVE  Needed[t] = UNION {e.needs : e \in {e \in AllEntries : e.target = t /\ e.recipe}}
  <2>1. t # Mark
    BY DifferentFiles
  <2> QED
    BY <2>1 DEF Needed
<1>4. ASSUME NEW e \in AllEntries, e.recipe
      PROVE  e.needs \subseteq Needed[e.target]
  <2>1. e.target \in Targets
    BY EntriesOfAll
  <2> QED
    BY <2>1, <1>3, <1>4
<1> QED
  BY <1>1, <1>2, <1>3, <1>4

\* A content goes by one name, and the name tells the content.
LEMMA ContentNames ==
  ASSUME NEW p \in Project, NEW f \in DOMAIN Generated[p]
  PROVE  /\ f \in GeneratedFiles
         /\ Content[f][p] \in Project
         /\ f \in DOMAIN Generated[Content[f][p]]
         /\ Generated[Content[f][p]][f] = Generated[p][f]
         /\ \A q \in Project : f \in DOMAIN Generated[q] /\ Generated[q][f] = Generated[p][f]
                                 => Content[f][q] = Content[f][p]
<1> DEFINE named(v) == CHOOSE q \in Project : f \in DOMAIN Generated[q] /\ Generated[q][f] = v
<1>1. f \in GeneratedFiles
  BY DEF GeneratedFiles
<1>2. ASSUME NEW q \in Project, f \in DOMAIN Generated[q]
      PROVE  Content[f][q] = named(Generated[q][f])
  BY <1>1, <1>2 DEF Content
<1>3. \E q \in Project : f \in DOMAIN Generated[q] /\ Generated[q][f] = Generated[p][f]
  OBVIOUS
<1>4. LET q == named(Generated[p][f])
      IN  q \in Project /\ f \in DOMAIN Generated[q] /\ Generated[q][f] = Generated[p][f]
  BY <1>3
<1> HIDE DEF named
<1> QED
  BY <1>1, <1>2, <1>4

\* The root makefile tells which rules there are, and what is below them.
LEMMA RootTellsRules ==
  ASSUME NEW p \in Project, NEW q \in Project, Generated[p][RootMakefile] = Generated[q][RootMakefile]
  PROVE  /\ RulesOf(p) = RulesOf(q)
         /\ \A r \in RulesOf(p) : Setup[p].rules[r].deps = Setup[q].rules[r].deps
         /\ Under[p] = Under[q]
<1> DEFINE P == Loaded(Setup[p])
           Q == Loaded(Setup[q])
<1>1. Root(P) = Root(Q)
  BY MakefilesOf
<1>2. Root(P).order = Root(Q).order
  BY <1>1
<1>3. P.rules = Setup[p].rules /\ Q.rules = Setup[q].rules
  BY DEF Loaded
<1>4. [r \in DOMAIN P.rules |-> P.rules[r].deps] = [r \in DOMAIN Q.rules |-> Q.rules[r].deps]
  BY <1>2 DEF Root
<1>5. DOMAIN P.rules = DOMAIN Q.rules
  BY <1>4
<1>6. RulesOf(p) = RulesOf(q)
  BY <1>5, <1>3 DEF RulesOf
<1>7. \A r \in RulesOf(p) : Setup[p].rules[r].deps = Setup[q].rules[r].deps
  BY <1>4, <1>3 DEF RulesOf
<1>8. \A r : Below(P, r) = Below(Q, r)
  BY <1>4 DEF Below
<1>9. Under[p] = Under[q]
  BY <1>6, <1>8 DEF Under
<1> QED
  BY <1>6, <1>7, <1>9

\* The order of a root makefile is that of its rules.
LEMMA OrderOfRoot ==
  ASSUME NEW p \in Project, NEW r \in RulesOf(p)
  PROVE  Generated[p][RootMakefile].order[r] = Setup[p].rules[r].deps
<1> DEFINE P == Loaded(Setup[p])
<1>1. P.rules = Setup[p].rules
  BY DEF Loaded
<1> HIDE DEF P
<1>2. Root(P).order = [q \in DOMAIN P.rules |-> P.rules[q].deps]
  BY DEF Root
<1>3. Generated[p][RootMakefile] = Root(P)
  BY MakefilesOf DEF P
<1> QED
  BY <1>1, <1>2, <1>3 DEF RulesOf

\* gen looks at the rules and the settings only.
LEMMA SameMakefiles ==
  ASSUME NEW p \in Project, NEW q \in Project, Settings(Setup[p]) = Settings(Setup[q]),
         RulesOf(p) = RulesOf(q), \A r \in RulesOf(p) : Setup[p].rules[r] = Setup[q].rules[r]
  PROVE  Generated[p] = Generated[q]
<1>1. /\ Setup[p].rules = [r \in RulesOf(p) |-> Setup[p].rules[r]]
      /\ Setup[q].rules = [r \in RulesOf(q) |-> Setup[q].rules[r]]
  BY IncrementalAssumption
<1>2. [r \in RulesOf(p) |-> Setup[p].rules[r]] = [r \in RulesOf(q) |-> Setup[q].rules[r]]
  OBVIOUS
<1>3. Setup[p].rules = Setup[q].rules
  BY <1>1, <1>2
<1>4. Config(Setup[p]) = Config(Setup[q])
  BY DEF Config
<1>5. Loaded(Setup[p]) = Loaded(Setup[q])
  BY <1>3, <1>4 DEF Loaded
<1> QED
  BY <1>5 DEF Generated

\* What "clean" removes was made, or is a stamp.
LEMMA WhatIsCleaned ==
  ASSUME NEW p \in Project, NEW r \in RulesOf(p), NEW x \in Cleaned(Loaded(Setup[p]), r)
  PROVE  x[1] \in TargetKinds
<1>1. CASE x \in HeaderLints(r, Loaded(Setup[p]).rules[r])
  BY <1>1 DEF HeaderLints, Lint, TargetKinds
<1>2. CASE x \in {e.target : e \in EntriesOf(p, r)}
  BY <1>2, EntryOfRule DEF TargetKinds
<1> QED
  BY <1>1, <1>2 DEF Cleaned, EntriesOf

-----------------------------------------------------------------------------
(* Types.                                                                  *)

\* What gen leaves in a file: all of it, or a part.
Texts == Project \cup {Torn[p] : p \in Project}

\* The file is written for a project that has it.
WrittenFor(x, content) == content \in Texts /\ x \in DOMAIN Generated[Meant(content)]

\* A file that is cut off tells the project it was written for.
LEMMA MeantOf ==
  /\ \A p \in Project : Meant(p) = p /\ Meant(Torn[p]) = p
  /\ \A c \in Texts : Meant(c) \in Project
<1>1. ASSUME NEW p \in Project
      PROVE  Meant(Torn[p]) = p
  <2>1. Meant(Torn[p]) = CHOOSE q \in Project : Torn[q] = Torn[p]
    BY IncrementalAssumption DEF Meant
  <2>2. \A q \in Project : Torn[q] = Torn[p] => q = p
    BY IncrementalAssumption
  <2>3. (CHOOSE q \in Project : Torn[q] = Torn[p]) = p
    BY <2>2
  <2> QED
    BY <2>1, <2>3
<1>2. \A p \in Project : Meant(p) = p
  BY DEF Meant
<1> QED
  BY <1>1, <1>2 DEF Texts

NewerOK ==
  /\ DOMAIN newer = DOMAIN Needed
  /\ \A t \in DOMAIN Needed : newer[t] \subseteq Needed[t] /\ (~Exists(t) => newer[t] = {})

Contents == \A x \in DOMAIN disk \cap GeneratedFiles : WrittenFor(x, disk[x])

Positions ==
  /\ project \in Project
  /\ phase \in {"idle", "pre", "regen", "rules", "test"} /\ handled \subseteq Targets
  /\ result \in {"none", "old", "ok"} /\ (result # "none" => phase = "idle")
  /\ phase # "idle" => graph \in Texts
  /\ phase \notin {"rules", "test"} => handled = {}

Typed == NewerOK /\ Contents /\ Positions

\* The files W have been written, and nothing else has changed on disk.
Written(W) ==
  /\ newer' = Newer(W)
  /\ \A x : x \notin W => (x \in DOMAIN disk' <=> x \in DOMAIN disk)
  /\ \A x \in DOMAIN disk : x \notin W => disk'[x] = disk[x]

\* The files W have been removed.
Removed(W) ==
  /\ newer' = [t \in DOMAIN Needed |-> IF t \in W THEN {} ELSE newer[t]]
  /\ DOMAIN disk' = DOMAIN disk \ W
  /\ \A x \in DOMAIN disk' : disk'[x] = disk[x]

\* A rule has a build.make in some project.
LEMMA BuildsAreGenerated ==
  /\ \A r \in Rules : Build(r) \in GeneratedFiles
  /\ \A p \in Project : RulesOf(p) \subseteq Rules /\ RootMakefile \in DOMAIN Generated[p]
<1>1. \A p \in Project : RulesOf(p) \subseteq Rules /\ RootMakefile \in DOMAIN Generated[p]
  BY MakefilesOf DEF Rules
<1>2. \A p \in Project : \A r \in RulesOf(p) : Build(r) \in DOMAIN Generated[p]
  BY MakefilesOf
<1> QED
  BY <1>1, <1>2 DEF Rules, GeneratedFiles

\* A build.make is that of the rule in some project.
LEMMA BuildOfRule ==
  ASSUME Contents, NEW r \in Rules, Exists(Build(r))
  PROVE  LET p == Meant(disk[Build(r)])
         IN  /\ p \in Project /\ r \in RulesOf(p)
             /\ MakeOf(r).entries = EntriesOf(p, r)
             /\ MakeOf(r).entries \subseteq AllEntries
             /\ TargetsOf(r) = TargetsIn(p, r) /\ TargetsOf(r) \subseteq Targets
             /\ MakeOf(r).clean = Cleaned(Loaded(Setup[p]), r)
<1> DEFINE p == Meant(disk[Build(r)])
<1>1. p \in Project /\ Build(r) \in DOMAIN Generated[p]
  BY BuildsAreGenerated, MeantOf DEF Contents, Exists, WrittenFor
<1>2. r \in RulesOf(p)
  BY <1>1, MakefilesOf
<1>3. /\ MakeOf(r).entries = EntriesOf(p, r)
      /\ MakeOf(r).clean = Cleaned(Loaded(Setup[p]), r)
  BY <1>1, <1>2, MakefilesOf DEF MakeOf
<1>4. TargetsOf(r) = TargetsIn(p, r)
  BY <1>3 DEF TargetsOf, TargetsIn
<1> QED
  BY <1>1, <1>2, <1>3, <1>4, EntriesOfAll

\* A recipe writes targets only.
LEMMA OutputsAreTargets ==
  ASSUME NEW e \in AllEntries
  PROVE  e.target \in Outputs(e) /\ e.target \in Targets /\ \A x \in Outputs(e) : x[1] \in TargetKinds
BY EntriesOfAll DEF Outputs, TargetKinds

LEMMA WrittenNewer ==
  ASSUME NewerOK, NEW W, Written(W)
  PROVE  NewerOK'
<1> SUFFICES /\ DOMAIN newer' = DOMAIN Needed
             /\ \A t \in DOMAIN Needed : /\ newer'[t] \subseteq Needed[t]
                                         /\ t \notin DOMAIN disk' => newer'[t] = {}
  BY DEF NewerOK, Exists
<1>1. newer' = [t \in DOMAIN Needed |->
                 IF t \in W \/ ~Exists(t) THEN {} ELSE newer[t] \cup (W \cap Needed[t])]
  BY DEF Written, Newer
<1>2. DOMAIN newer' = DOMAIN Needed
  BY <1>1
<1>3. ASSUME NEW t \in DOMAIN Needed
      PROVE  newer'[t] \subseteq Needed[t] /\ (t \notin DOMAIN disk' => newer'[t] = {})
  <2>1. newer'[t] = IF t \in W \/ ~Exists(t) THEN {} ELSE newer[t] \cup (W \cap Needed[t])
    BY <1>1
  <2>2. newer[t] \subseteq Needed[t]
    BY DEF NewerOK
  <2>3. t \notin W => (t \in DOMAIN disk' <=> Exists(t))
    BY DEF Written, Exists
  <2> QED
    BY <2>1, <2>2, <2>3
<1> QED
  BY <1>2, <1>3

LEMMA RemovedNewer ==
  ASSUME NewerOK, NEW W, Removed(W)
  PROVE  NewerOK'
<1> SUFFICES /\ DOMAIN newer' = DOMAIN Needed
             /\ \A t \in DOMAIN Needed : /\ newer'[t] \subseteq Needed[t]
                                         /\ t \notin DOMAIN disk' => newer'[t] = {}
  BY DEF NewerOK, Exists
<1> QED
  BY DEF Removed, NewerOK, Exists

\* What is left alone keeps its content.
LEMMA ContentsKept ==
  ASSUME Contents, NEW W,
         \A x \in DOMAIN disk' : x \notin W => x \in DOMAIN disk /\ disk'[x] = disk[x],
         \A x \in W \cap DOMAIN disk' \cap GeneratedFiles : WrittenFor(x, disk'[x])
  PROVE  Contents'
<1> SUFFICES ASSUME NEW x \in DOMAIN disk' \cap GeneratedFiles
             PROVE  WrittenFor(x, disk'[x])
  BY DEF Contents, WrittenFor, Texts, Meant
<1> QED
  BY DEF Contents

\* gen writes makefiles only, each as it should be or cut off.
LEMMA WriteFiles ==
  ASSUME project \in Project, NEW all, NEW torn, Write(all, torn), all \cup torn \subseteq DOMAIN Generated[project]
  PROVE  /\ Written(all \cup torn)
         /\ all \cup torn \subseteq GeneratedFiles
         /\ DOMAIN disk' = DOMAIN disk \cup all \cup torn
         /\ \A x \in torn : disk'[x] = Torn[Wanted(x)]
         /\ \A x \in all \ torn : disk'[x] = Wanted(x)
<1>1. disk' = [f \in DOMAIN disk \cup all \cup torn |->
                IF f \in torn THEN Torn[Wanted(f)]
                ELSE IF f \in all THEN Wanted(f) ELSE disk[f]]
  BY DEF Write
<1>2. newer' = Newer(all \cup torn)
  BY DEF Write
<1>3. Written(all \cup torn)
  BY <1>1, <1>2 DEF Written
<1>4. all \cup torn \subseteq GeneratedFiles
  BY DEF GeneratedFiles
<1> QED
  BY <1>1, <1>3, <1>4

\* All that gen writes, when it completes or fails.
LEMMA GenWrites ==
  ASSUME project \in Project, GenCompletes \/ GenFails
  PROVE  \E all, torn : /\ Write(all, torn)
                        /\ all \cup torn \subseteq DOMAIN Generated[project]
                        /\ all \cup torn \subseteq Stale \cup Numbered \cup {Database}
                        /\ GenCompletes => torn = {} /\ Stale \subseteq all
<1>1. Stale \cup Numbered \cup {Database} \subseteq DOMAIN Generated[project]
  BY MakefilesOf DEF Stale, Numbered
<1>2. CASE GenCompletes
  <2>1. PICK again \in SUBSET Numbered : Write(Stale \cup again \cup {Database}, {})
    BY <1>2 DEF GenCompletes
  <2> QED
    BY <2>1, <1>1
<1>3. CASE ~GenCompletes /\ GenFails
  <2>1. PICK all \in SUBSET Stale : \E more \in SUBSET ((Stale \cup Numbered \cup {Database}) \ all) :
          Write(all, more) \/ Write(all \cup more, {})
    BY <1>3 DEF GenFails
  <2>2. PICK more \in SUBSET ((Stale \cup Numbered \cup {Database}) \ all) :
          Write(all, more) \/ Write(all \cup more, {})
    BY <2>1
  <2>3. all \cup more \cup {} \subseteq Stale \cup Numbered \cup {Database}
    OBVIOUS
  <2> QED
    BY <1>1, <2>2, <2>3, <1>3
<1> QED
  BY <1>2, <1>3

\* What a recipe does.
LEMMA RemakeWrites ==
  ASSUME NEW r, NEW e \in AllEntries, Remake(r, e)
  PROVE  /\ Written(Outputs(e))
         /\ DOMAIN disk' = DOMAIN disk \cup Outputs(e)
         /\ \A x \in Outputs(e) : disk'[x] = Result(e)
<1>1. disk' = [f \in DOMAIN disk \cup Outputs(e) |-> IF f \in Outputs(e) THEN Result(e) ELSE disk[f]]
  BY DEF Remake
<1>2. newer' = Newer(Outputs(e))
  BY DEF Remake
<1>3. /\ DOMAIN disk' = DOMAIN disk \cup Outputs(e)
      /\ \A x \in Outputs(e) : disk'[x] = Result(e)
      /\ \A x \in DOMAIN disk \ Outputs(e) : disk'[x] = disk[x]
  BY <1>1
<1> QED
  BY <1>2, <1>3 DEF Written

LEMMA FailureRemoves ==
  ASSUME NewerOK, NEW r, NEW e \in AllEntries, RecipeFails(r, e)
  PROVE  Removed({e.target})
<1>1. disk' = [f \in DOMAIN disk \ {e.target} |-> disk[f]]
  BY DEF RecipeFails
<1>2. newer' = [newer EXCEPT ![e.target] = {}]
  BY DEF RecipeFails
<1>3. newer' = [t \in DOMAIN Needed |-> IF t \in {e.target} THEN {} ELSE newer[t]]
  BY <1>2 DEF NewerOK
<1> QED
  BY <1>1, <1>3 DEF Removed

LEMMA CleanRemoves ==
  ASSUME Contents, NEW r \in Rules, Clean(r)
  PROVE  \E all : Removed(all) /\ \A x \in all : x[1] \in TargetKinds
<1>1. PICK all \in SUBSET MakeOf(r).clean :
        /\ disk' = [f \in RmFiles(all) |-> disk[f]]
        /\ newer' = [t \in DOMAIN Needed |-> IF t \in all THEN {} ELSE newer[t]]
  BY DEF Clean
<1>2. Removed(all)
  BY <1>1 DEF Removed, RmFiles
<1>3. Exists(Build(r))
  BY DEF Clean, Readable
<1> QED
  BY <1>1, <1>2, <1>3, BuildOfRule, WhatIsCleaned

LEMMA EditWrites ==
  ASSUME NEW f, EditSource(f)
  PROVE  Written({Source(f)}) /\ DOMAIN disk' = DOMAIN disk
<1>1. disk' = [disk EXCEPT ![Source(f)] = edits + 1]
  BY DEF EditSource
<1>2. newer' = Newer({Source(f)})
  BY DEF EditSource
<1> QED
  BY <1>1, <1>2 DEF Written

LEMMA ProjectWrites ==
  ASSUME NEW p, EditProject(p)
  PROVE  Written(Rewritten(project, p)) /\ disk' = disk
BY DEF EditProject, Written

LEMMA TouchWrites ==
  ASSUME TouchMark
  PROVE  Written({Mark}) /\ DOMAIN disk' = DOMAIN disk \cup {Mark}
<1>1. disk' = [f \in DOMAIN disk \cup {Mark} |-> IF f = Mark THEN "touched" ELSE disk[f]]
  BY DEF TouchMark
<1>2. newer' = Newer({Mark})
  BY DEF TouchMark
<1> QED
  BY <1>1, <1>2 DEF Written

\* All the steps, with what they do to the files.
LEMMA Steps ==
  ASSUME Next
  PROVE  \/ \E f \in SourcesOf(project) : EditSource(f)
         \/ \E p \in Project : EditProject(p)
         \/ \E r \in Rules : Clean(r)
         \/ Gen \/ MakeStart \/ TestStart \/ NothingToMakeFrom \/ MarkIsFresh \/ Regenerate
         \/ TouchMark \/ NoGoal \/ MakeEnds \/ Interrupt
         \/ \E r \in Rules : CannotRead(r)
         \/ \E r \in Rules : CutShort(r)
         \/ \E r \in Rules : /\ Wants(r) /\ Readable(r)
                             /\ \E e \in MakeOf(r).entries :
                                  /\ Ready(r, e)
                                  /\ Skip(r, e) \/ Remake(r, e) \/ RecipeFails(r, e) \/ NoRuleToMake(r, e)
BY DEF Next, Edit, Make, MakeRule

LEMMA FirstTypes ==
  Init => Typed
<1> SUFFICES ASSUME Init
             PROVE  Typed
  OBVIOUS
<1>1. project \in Project
  BY IncrementalAssumption DEF Init
<1>2. Positions
  BY <1>1 DEF Init, Positions
<1>3. newer = [t \in DOMAIN Needed |-> {}]
  BY DEF Init
<1>4. NewerOK
  BY <1>3 DEF NewerOK
<1>5. disk = [f \in {Source(x) : x \in Sources} \cup DOMAIN Generated[project] |->
               IF f[1] = "source" THEN 0 ELSE Wanted(f)]
  BY DEF Init
<1>6. ASSUME NEW x \in DOMAIN disk \cap GeneratedFiles
      PROVE  WrittenFor(x, disk[x])
  <2>1. x \in DOMAIN Generated[project] /\ x[1] # "source"
    BY <1>5, DifferentFiles DEF GeneratedKinds
  <2>2. disk[x] = Content[x][project]
    BY <1>5, <2>1 DEF Wanted
  <2> QED
    BY <1>1, <2>1, <2>2, ContentNames, MeantOf DEF WrittenFor, Texts
<1>7. Contents
  BY <1>6 DEF Contents
<1> QED
  BY <1>2, <1>4, <1>7 DEF Typed

\* A gen keeps the types.
LEMMA GenTypes ==
  ASSUME Typed, GenCompletes \/ GenFails
  PROVE  NewerOK' /\ Contents'
<1>0. project \in Project
  BY DEF Typed, Positions
<1>1. PICK all, torn : Write(all, torn) /\ all \cup torn \subseteq DOMAIN Generated[project]
  BY GenWrites, <1>0
<1>2. NewerOK'
  <2>1. Written(all \cup torn)
    BY <1>0, <1>1, WriteFiles
  <2> QED
    BY <2>1, WrittenNewer DEF Typed
<1>3. Contents'
  <2>1. ASSUME NEW x \in (all \cup torn) \cap DOMAIN disk' \cap GeneratedFiles
        PROVE  WrittenFor(x, disk'[x])
    <3>1. disk'[x] = Torn[Wanted(x)] \/ disk'[x] = Wanted(x)
      BY <1>0, <1>1, WriteFiles
    <3>2. Wanted(x) \in Project /\ x \in DOMAIN Generated[Wanted(x)]
      BY <1>0, <1>1, ContentNames DEF Wanted
    <3> QED
      BY <3>1, <3>2, MeantOf DEF WrittenFor, Texts
  <2>2. \A x \in DOMAIN disk' : x \notin all \cup torn => x \in DOMAIN disk /\ disk'[x] = disk[x]
    <3>1. Written(all \cup torn)
      BY <1>0, <1>1, WriteFiles
    <3> QED
      BY <3>1 DEF Written
  <2> QED
    BY <2>1, <2>2, ContentsKept DEF Typed
<1> QED
  BY <1>2, <1>3

\* A step that writes or removes no makefile keeps the contents.
LEMMA OtherTypes ==
  ASSUME Typed, NEW W, W \cap GeneratedFiles = {}, Written(W) \/ Removed(W)
  PROVE  NewerOK' /\ Contents'
<1>1. NewerOK'
  BY WrittenNewer, RemovedNewer DEF Typed
<1>2. \A x \in DOMAIN disk' : x \notin W => x \in DOMAIN disk /\ disk'[x] = disk[x]
  BY DEF Written, Removed
<1>3. Contents'
  BY <1>2, ContentsKept DEF Typed
<1> QED
  BY <1>1, <1>3

\* No step disturbs the types.
LEMMA TypesStay ==
  ASSUME Typed, [Next]_vars
  PROVE  Typed'
<1> USE DEF Typed
<1>0. CASE UNCHANGED vars
  BY <1>0 DEF vars, make, NewerOK, Contents, Positions, Exists
<1>1. ASSUME NEW f \in SourcesOf(project), EditSource(f)
      PROVE  Typed'
  <2>1. NewerOK' /\ Contents'
    BY <1>1, EditWrites, DifferentFiles, OtherTypes
  <2>2. Positions'
    BY <1>1 DEF EditSource, Edited, make, Positions
  <2> QED
    BY <2>1, <2>2
<1>2. ASSUME NEW p \in Project, EditProject(p)
      PROVE  Typed'
  <2>1. \A x \in Rewritten(project, p) : x = Marker \/ x[1] = "BUILD"
    BY DEF Rewritten, BuildFile
  <2>2. Rewritten(project, p) \cap GeneratedFiles = {}
    BY <2>1, DifferentFiles DEF Marker, GeneratedKinds
  <2>3. NewerOK' /\ Contents'
    BY <1>2, <2>2, ProjectWrites, OtherTypes
  <2>4. Positions'
    BY <1>2 DEF EditProject, Edited, make, Positions
  <2> QED
    BY <2>3, <2>4
<1>3. ASSUME NEW r \in Rules, Clean(r)
      PROVE  Typed'
  <2>1. PICK all : Removed(all) /\ \A x \in all : x[1] \in TargetKinds
    BY <1>3, CleanRemoves
  <2>2. all \cap GeneratedFiles = {}
    BY <2>1, DifferentFiles DEF GeneratedKinds, TargetKinds
  <2>3. NewerOK' /\ Contents'
    BY <2>1, <2>2, OtherTypes
  <2>4. Positions'
    BY <1>3 DEF Clean, Edited, make, Positions
  <2> QED
    BY <2>3, <2>4
<1>4. CASE Gen
  <2>1. NewerOK' /\ Contents'
    BY <1>4, GenTypes DEF Gen
  <2>2. Positions'
    BY <1>4 DEF Gen, make, Positions
  <2> QED
    BY <2>1, <2>2
<1>5. CASE Regenerate
  <2>1. NewerOK' /\ Contents'
    BY <1>5, GenTypes DEF Regenerate
  <2>2. Positions'
    BY <1>5 DEF Regenerate, Positions
  <2> QED
    BY <2>1, <2>2
<1>6. CASE MakeStart \/ TestStart
  <2>1. disk[RootMakefile] \in Texts
    BY <1>6, BuildsAreGenerated
    DEF MakeStart, TestStart, Exists, Contents, GeneratedFiles, Positions, WrittenFor
  <2>2. Positions'
    BY <1>6, <2>1 DEF MakeStart, TestStart, Positions
  <2> QED
    BY <1>6, <2>2 DEF MakeStart, TestStart, NewerOK, Contents, Exists
<1>7. CASE NothingToMakeFrom \/ NoGoal \/ MakeEnds \/ Interrupt \/ \E r \in Rules : CannotRead(r)
  <2>1. Positions'
    BY <1>7 DEF NothingToMakeFrom, NoGoal, MakeEnds, Interrupt, CannotRead, Stop, Positions
  <2> QED
    BY <1>7, <2>1
    DEF NothingToMakeFrom, NoGoal, MakeEnds, Interrupt, CannotRead, NewerOK, Contents, Exists
<1>8. CASE MarkIsFresh
  BY <1>8 DEF MarkIsFresh, NewerOK, Contents, Exists, Positions
<1>9. CASE TouchMark
  <2>1. NewerOK' /\ Contents'
    BY <1>9, TouchWrites, DifferentFiles, OtherTypes
  <2>2. Positions'
    BY <1>9 DEF TouchMark, Positions
  <2> QED
    BY <2>1, <2>2
<1>10. ASSUME NEW r \in Rules, Wants(r), Readable(r), NEW e \in MakeOf(r).entries, Ready(r, e),
              Skip(r, e) \/ Remake(r, e) \/ RecipeFails(r, e) \/ NoRuleToMake(r, e)
       PROVE  Typed'
  <2>1. e \in AllEntries
    BY <1>10, BuildOfRule DEF Readable
  <2>2. e.target \in Targets
    BY <2>1, OutputsAreTargets
  <2>3. CASE Skip(r, e)
    BY <2>2, <2>3, <1>10 DEF Skip, NewerOK, Contents, Exists, Positions, Wants
  <2>4. CASE Remake(r, e)
    <3>1. Outputs(e) \cap GeneratedFiles = {}
      BY <2>1, OutputsAreTargets, DifferentFiles DEF TargetKinds, GeneratedKinds
    <3>2. NewerOK' /\ Contents'
      BY <2>1, <2>4, <3>1, RemakeWrites, OtherTypes
    <3>3. Positions'
      BY <2>2, <2>4, <1>10 DEF Remake, Positions, Wants
    <3> QED
      BY <3>2, <3>3
  <2>5. CASE RecipeFails(r, e)
    <3>1. NewerOK' /\ Contents'
      BY <2>1, <2>2, <2>5, FailureRemoves, DifferentFiles, OtherTypes
    <3>2. Positions'
      BY <2>5 DEF RecipeFails, Stop, Positions
    <3> QED
      BY <3>1, <3>2
  <2>6. CASE NoRuleToMake(r, e)
    BY <2>6 DEF NoRuleToMake, Stop, NewerOK, Contents, Exists, Positions
  <2> QED
    BY <1>10, <2>3, <2>4, <2>5, <2>6
<1>11. ASSUME NEW r \in Rules, CutShort(r)
       PROVE  Typed'
  <2>1. Wants(r) /\ TargetsOf(r) \subseteq Targets
    BY <1>11, BuildOfRule DEF CutShort, CutOff
  <2>2. Positions'
    BY <1>11, <2>1 DEF CutShort, Stop, Positions, Wants
  <2> QED
    BY <1>11, <2>2 DEF CutShort, NewerOK, Contents, Exists
<1> QED
  BY <1>0, <1>1, <1>2, <1>3, <1>4, <1>5, <1>6, <1>7, <1>8, <1>9, <1>10, <1>11, Steps

LEMMA AlwaysTyped ==
  Spec => []Typed
<1>1. Init => Typed
  BY FirstTypes
<1>2. Typed /\ [Next]_vars => Typed'
  BY TypesStay
<1> QED
  BY <1>1, <1>2, PTL DEF Spec

\* What is compared in make is there, and newer than something that is there; make
\* works with the makefiles of a project.
THEOREM TypeCorrect ==
  Spec => []TypeOK
<1>1. Typed => TypeOK
  BY DEF Typed, TypeOK, NewerOK, Positions, Texts
<1> QED
  BY <1>1, AlwaysTyped, PTL

-----------------------------------------------------------------------------
(* What is on disk was made by some recipe, from what it has read; whatever*)
(* has changed since then, make can tell.                                  *)

Noticed(t, x, old) ==
  LET stamp == Lint(t[2], x[2])
  IN  /\ x \in Needed[t] => (~Exists(x) \/ old = disk[x] \/ x \in newer[t])
      /\ x[1] = "source" /\ stamp \in Needed[t] =>
           \/ Exists(x) /\ old = disk[x]
           \/ stamp \in newer[t] \/ ~Exists(stamp) \/ x \in newer[stamp]

MadeBy(t, e) ==
  /\ e.target = t /\ e.recipe
  /\ disk[t] = <<e.line, [x \in e.reads |-> disk[t][2][x]]>>
  /\ \A x \in e.reads : Noticed(t, x, disk[t][2][x])
  /\ Build(t[2]) \in Needed[t] =>
       \/ Build(t[2]) \in newer[t]
       \/ Exists(Build(t[2])) /\ e \in MakeOf(t[2]).entries

Made ==
  \A t \in Targets \cap DOMAIN disk : t[1] # "artifact" => \E e \in AllEntries : MadeBy(t, e)

\* A stamp depends on the file it is about.
LEMMA StampNeeds ==
  ASSUME NEW t \in Targets, NEW s \in Needed[t], s[1] = "lint"
  PROVE  s \in Targets /\ Source(s[3]) \in Needed[s]
<1>1. PICK e \in AllEntries : e.target = t /\ e.recipe /\ s \in e.needs
  BY NeededFiles
<1>2. PICK p \in Project : \E r \in RulesOf(p) : e \in EntriesOf(p, r)
  BY EntriesOfAll
<1>3. PICK r \in RulesOf(p) : e \in EntriesOf(p, r)
  BY <1>2
<1>4. PICK f : s = Lint(r, f) /\ LintEntry(r, f) \in EntriesOf(p, r)
  BY <1>1, <1>3, StampsAreOwn
<1>5. LintEntry(r, f) \in AllEntries
  BY <1>4, EntriesOfAll
<1>6. LintEntry(r, f).target = s /\ LintEntry(r, f).recipe /\ Source(f) \in LintEntry(r, f).needs
  BY <1>4 DEF LintEntry
<1>7. s \in Targets
  BY <1>5, <1>6, EntriesOfAll
<1>8. LintEntry(r, f).needs \subseteq Needed[s]
  BY <1>5, <1>6, NeededFiles
<1>9. s[3] = f
  BY <1>4 DEF Lint
<1> QED
  BY <1>6, <1>7, <1>8, <1>9

\* Writing other files leaves a target as it was made, or shows.
LEMMA WrittenShows ==
  ASSUME Typed, NEW W, Written(W), \A x \in W : x[1] = "source" => x = Source(x[2]),
         NEW t \in Targets, t \in DOMAIN disk, t \notin W, NEW e \in AllEntries, MadeBy(t, e)
  PROVE  MadeBy(t, e)'
<1> DEFINE old(x) == disk[t][2][x]
<1>1. /\ \A s \in DOMAIN Needed : s \notin W /\ Exists(s) => newer'[s] = newer[s] \cup (W \cap Needed[s])
      /\ \A x : x \notin W => (x \in DOMAIN disk' <=> x \in DOMAIN disk)
      /\ \A x \in DOMAIN disk : x \notin W => disk'[x] = disk[x]
  BY DEF Written, Newer
<1>2. disk'[t] = disk[t] /\ newer'[t] = newer[t] \cup (W \cap Needed[t])
  BY <1>1, NeededFiles DEF Exists
<1>3. ASSUME NEW x \in e.reads
      PROVE  Noticed(t, x, old(x))'
  <2> DEFINE stamp == Lint(t[2], x[2])
  <2>1. Noticed(t, x, old(x))
    BY DEF MadeBy
  <2>2. x \in Needed[t] => (x \notin DOMAIN disk' \/ old(x) = disk'[x] \/ x \in newer'[t])
    BY <1>1, <1>2, <2>1 DEF Noticed, Exists
  <2>3. ASSUME x[1] = "source", stamp \in Needed[t]
        PROVE  \/ x \in DOMAIN disk' /\ old(x) = disk'[x]
               \/ stamp \in newer'[t] \/ stamp \notin DOMAIN disk' \/ x \in newer'[stamp]
    <3>1. stamp[1] = "lint" /\ stamp[3] = x[2]
      BY DEF Lint
    <3>2. stamp \in Targets /\ Source(x[2]) \in Needed[stamp]
      BY <2>3, <3>1, StampNeeds
    <3>3. stamp \in DOMAIN Needed
      BY <3>2, NeededFiles
    <3>4. CASE stamp \in W
      BY <1>2, <2>3, <3>4
    <3>5. CASE stamp \notin W /\ x \in W
      <4>1. x \in Needed[stamp]
        BY <2>3, <3>2, <3>5
      <4> QED
        BY <1>1, <3>3, <3>5, <4>1 DEF Exists
    <3>6. CASE stamp \notin W /\ x \notin W
      <4>1. \/ x \in DOMAIN disk /\ old(x) = disk[x]
            \/ stamp \in newer[t] \/ stamp \notin DOMAIN disk \/ x \in newer[stamp]
        BY <2>1, <2>3 DEF Noticed, Exists
      <4> QED
        BY <1>1, <1>2, <3>3, <3>6, <4>1 DEF Exists
    <3> QED
      BY <3>4, <3>5, <3>6
  <2> QED
    BY <1>2, <2>2, <2>3 DEF Noticed, Exists
<1>4. Build(t[2]) \in Needed[t] =>
        \/ Build(t[2]) \in newer'[t]
        \/ Exists(Build(t[2]))' /\ e \in (MakeOf(t[2]).entries)'
  BY <1>1, <1>2 DEF MadeBy, Exists, MakeOf
<1> QED
  BY <1>2, <1>3, <1>4 DEF MadeBy

\* So does removing others.
LEMMA RemovedShows ==
  ASSUME Typed, NEW W, Removed(W), \A x \in W : x[1] \in TargetKinds,
         NEW t \in Targets, t \in DOMAIN disk, t \notin W, NEW e \in AllEntries, MadeBy(t, e)
  PROVE  MadeBy(t, e)'
<1> DEFINE old(x) == disk[t][2][x]
<1>1. /\ \A s \in DOMAIN Needed : s \notin W => newer'[s] = newer[s]
      /\ \A x : x \in DOMAIN disk' <=> x \in DOMAIN disk /\ x \notin W
      /\ \A x \in DOMAIN disk : x \notin W => disk'[x] = disk[x]
  BY DEF Removed
<1>2. disk'[t] = disk[t] /\ newer'[t] = newer[t]
  BY <1>1, NeededFiles
<1>3. ASSUME NEW x \in e.reads
      PROVE  Noticed(t, x, old(x))'
  <2> DEFINE stamp == Lint(t[2], x[2])
  <2>1. Noticed(t, x, old(x))
    BY DEF MadeBy
  <2>2. x \in Needed[t] => (x \notin DOMAIN disk' \/ old(x) = disk'[x] \/ x \in newer'[t])
    BY <1>1, <1>2, <2>1 DEF Noticed, Exists
  <2>3. ASSUME x[1] = "source", stamp \in Needed[t]
        PROVE  \/ x \in DOMAIN disk' /\ old(x) = disk'[x]
               \/ stamp \in newer'[t] \/ stamp \notin DOMAIN disk' \/ x \in newer'[stamp]
    <3>1. stamp[1] = "lint"
      BY DEF Lint
    <3>2. stamp \in DOMAIN Needed
      BY <2>3, <3>1, StampNeeds, NeededFiles
    <3>3. x \notin W
      BY <2>3 DEF TargetKinds
    <3>4. \/ x \in DOMAIN disk /\ old(x) = disk[x]
          \/ stamp \in newer[t] \/ stamp \notin DOMAIN disk \/ x \in newer[stamp]
      BY <2>1, <2>3 DEF Noticed, Exists
    <3> QED
      BY <1>1, <1>2, <3>2, <3>3, <3>4
  <2> QED
    BY <1>2, <2>2, <2>3 DEF Noticed, Exists
<1>4. Build(t[2]) \notin W
  BY DEF Build, TargetKinds
<1>5. Build(t[2]) \in Needed[t] =>
        \/ Build(t[2]) \in newer'[t]
        \/ Exists(Build(t[2]))' /\ e \in (MakeOf(t[2]).entries)'
  BY <1>1, <1>2, <1>4 DEF MadeBy, Exists, MakeOf
<1> QED
  BY <1>2, <1>3, <1>5 DEF MadeBy

\* A recipe makes its target as if there were nothing: ar adds to no old archive.
LEMMA MadeAfresh ==
  ASSUME NEW e
  PROVE  Result(e) = Afresh(e)
<1>1. e.target \notin RmFiles({e.target})
  BY DEF RmFiles
<1> QED
  BY <1>1 DEF Result, Afresh, Ar

LEMMA RemakeMakes ==
  ASSUME Typed, NEW r \in Rules, Exists(Build(r)), NEW e \in MakeOf(r).entries, Remake(r, e)
  PROVE  MadeBy(e.target, e)'
<1> DEFINE t == e.target
           p == Meant(disk[Build(r)])
<1>1. p \in Project /\ r \in RulesOf(p) /\ e \in EntriesOf(p, r) /\ e \in AllEntries
  BY BuildOfRule DEF Typed
<1>2. e.recipe /\ \A f \in e.reads : f \in DOMAIN disk
  BY DEF Remake, Exists
<1>3. t[2] = r
  BY <1>1, EntryOfRule
<1>4. /\ t \in Outputs(e) /\ t \in Targets
      /\ \A x \in Outputs(e) : x[1] \in TargetKinds
  BY <1>1, OutputsAreTargets
<1>5. /\ DOMAIN disk' = DOMAIN disk \cup Outputs(e)
      /\ \A x \in DOMAIN disk : x \notin Outputs(e) => disk'[x] = disk[x]
      /\ disk'[t] = <<e.line, [f \in e.reads |-> disk[f]]>>
  <2>1. disk'[t] = Result(e)
    BY <1>1, <1>4, RemakeWrites
  <2> QED
    BY <1>1, <2>1, RemakeWrites, MadeAfresh DEF Afresh, Written
<1>6. \A x \in e.reads : x \notin Outputs(e)
  BY <1>1, <1>2, WhatIsRead
<1>7. \A x \in e.reads : disk'[t][2][x] = disk'[x] /\ x \in DOMAIN disk'
  BY <1>2, <1>5, <1>6
<1>8. disk'[t] = <<e.line, [x \in e.reads |-> disk'[t][2][x]]>>
  BY <1>5
<1>9. \A x \in e.reads : Noticed(t, x, disk[t][2][x])'
  BY <1>7 DEF Noticed, Exists
<1>10. Exists(Build(t[2]))' /\ e \in (MakeOf(t[2]).entries)'
  <2>1. Build(r) \notin Outputs(e)
    BY <1>4 DEF Build, TargetKinds
  <2>2. Build(r) \in DOMAIN disk' /\ disk'[Build(r)] = disk[Build(r)]
    BY <1>5, <2>1 DEF Exists
  <2> QED
    BY <1>3, <2>2 DEF Exists, MakeOf
<1> QED
  BY <1>2, <1>8, <1>9, <1>10 DEF MadeBy

LEMMA FirstMade ==
  Init => Made
<1> SUFFICES ASSUME Init, NEW t \in Targets, t \in DOMAIN disk
             PROVE  FALSE
  BY DEF Made
<1>1. DOMAIN disk = {Source(x) : x \in Sources} \cup DOMAIN Generated[project] /\ project \in Project
  BY IncrementalAssumption DEF Init
<1> QED
  BY <1>1, DifferentFiles DEF GeneratedFiles

\* A step that makes no target keeps those that are there as they were made.
LEMMA OthersShow ==
  ASSUME Typed, Made, NEW W,
         \/ Written(W) /\ \A x \in W : x[1] = "source" => x = Source(x[2])
         \/ Removed(W) /\ \A x \in W : x[1] \in TargetKinds,
         NEW t \in Targets, t \in DOMAIN disk', t[1] # "artifact", t \notin W
  PROVE  \E e \in AllEntries : MadeBy(t, e)'
<1>1. t \in DOMAIN disk
  BY DEF Written, Removed
<1>2. PICK e \in AllEntries : MadeBy(t, e)
  BY <1>1 DEF Made
<1>3. MadeBy(t, e)'
  BY <1>1, <1>2, WrittenShows, RemovedShows
<1> QED
  BY <1>3

LEMMA MadeStays ==
  ASSUME Typed, Made, [Next]_vars
  PROVE  Made'
<1>0. ASSUME UNCHANGED <<disk, newer>>
      PROVE  Made'
  BY <1>0 DEF Made, MadeBy, Noticed, Exists, MakeOf
<1>1. ASSUME NEW W, W \cap Targets = {},
             \/ Written(W) /\ \A x \in W : x[1] = "source" => x = Source(x[2])
             \/ Removed(W) /\ \A x \in W : x[1] \in TargetKinds
      PROVE  Made'
  <2> SUFFICES ASSUME NEW t \in Targets, t \in DOMAIN disk', t[1] # "artifact"
               PROVE  \E e \in AllEntries : MadeBy(t, e)'
    BY DEF Made
  <2> QED
    BY <1>1, OthersShow
<1>2. ASSUME NEW W, Removed(W), \A x \in W : x[1] \in TargetKinds
      PROVE  Made'
  <2> SUFFICES ASSUME NEW t \in Targets, t \in DOMAIN disk', t[1] # "artifact"
               PROVE  \E e \in AllEntries : MadeBy(t, e)'
    BY DEF Made
  <2>1. t \notin W
    BY <1>2 DEF Removed
  <2> QED
    BY <1>2, <2>1, OthersShow
<1>3. ASSUME NEW f \in SourcesOf(project), EditSource(f)
      PROVE  Made'
  <2>1. Written({Source(f)}) /\ Source(f) \notin Targets
    BY <1>3, EditWrites, DifferentFiles
  <2>2. \A x \in {Source(f)} : x[1] = "source" => x = Source(x[2])
    BY DEF Source
  <2> QED
    BY <2>1, <2>2, <1>1
<1>4. ASSUME NEW p \in Project, EditProject(p)
      PROVE  Made'
  <2>1. \A x \in Rewritten(project, p) : x = Marker \/ x[1] = "BUILD"
    BY DEF Rewritten, BuildFile
  <2>2. Rewritten(project, p) \cap Targets = {} /\ \A x \in Rewritten(project, p) : x[1] # "source"
    BY <2>1, DifferentFiles DEF Marker, TargetKinds
  <2> QED
    BY <1>4, <2>2, ProjectWrites, <1>1
<1>5. ASSUME NEW r \in Rules, Clean(r)
      PROVE  Made'
  BY <1>5, CleanRemoves, <1>2 DEF Typed
<1>6. ASSUME GenCompletes \/ GenFails
      PROVE  Made'
  <2>1. project \in Project
    BY DEF Typed, Positions
  <2>2. PICK all, torn : Write(all, torn) /\ all \cup torn \subseteq DOMAIN Generated[project]
    BY <1>6, <2>1, GenWrites
  <2>3. Written(all \cup torn) /\ all \cup torn \subseteq GeneratedFiles
    BY <2>1, <2>2, WriteFiles
  <2>4. \A x \in all \cup torn : x \notin Targets /\ x[1] # "source"
    BY <2>3, DifferentFiles DEF GeneratedKinds
  <2> QED
    BY <2>3, <2>4, <1>1
<1>7. CASE TouchMark
  <2>1. Written({Mark}) /\ Mark \notin Targets /\ Mark[1] # "source"
    BY <1>7, TouchWrites, DifferentFiles DEF Mark
  <2> QED
    BY <2>1, <1>1
<1>8. ASSUME NEW r \in Rules, Readable(r), NEW e \in MakeOf(r).entries,
             Skip(r, e) \/ Remake(r, e) \/ RecipeFails(r, e) \/ NoRuleToMake(r, e)
      PROVE  Made'
  <2>1. Exists(Build(r)) /\ e \in AllEntries
    BY <1>8, BuildOfRule DEF Readable, Typed
  <2>2. CASE Skip(r, e) \/ NoRuleToMake(r, e)
    BY <2>2, <1>0 DEF Skip, NoRuleToMake
  <2>3. CASE RecipeFails(r, e)
    <3>1. Removed({e.target}) /\ e.target[1] \in TargetKinds
      BY <2>1, <2>3, FailureRemoves, OutputsAreTargets DEF Typed
    <3> QED
      BY <3>1, <1>2
  <2>4. CASE Remake(r, e)
    <3> SUFFICES ASSUME NEW t \in Targets, t \in DOMAIN disk', t[1] # "artifact"
                 PROVE  \E d \in AllEntries : MadeBy(t, d)'
      BY DEF Made
    <3>1. CASE t = e.target
      BY <2>1, <2>4, <3>1, <1>8, RemakeMakes
    <3>2. CASE t # e.target
      <4>1. t \notin Outputs(e)
        BY <3>2 DEF Outputs
      <4>2. Written(Outputs(e)) /\ \A x \in Outputs(e) : x[1] # "source"
        BY <2>1, <2>4, RemakeWrites, OutputsAreTargets DEF TargetKinds
      <4> QED
        BY <4>1, <4>2, OthersShow
    <3> QED
      BY <3>1, <3>2
  <2> QED
    BY <1>8, <2>2, <2>3, <2>4
<1>9. CASE UNCHANGED vars
  BY <1>9, <1>0 DEF vars
<1>10. CASE MakeStart \/ TestStart \/ NothingToMakeFrom \/ MarkIsFresh \/ NoGoal \/ MakeEnds \/ Interrupt
              \/ \E r \in Rules : CannotRead(r) \/ CutShort(r)
  BY <1>10, <1>0 DEF MakeStart, TestStart, NothingToMakeFrom, MarkIsFresh, NoGoal, MakeEnds, Interrupt,
       CannotRead, CutShort
<1>11. CASE Gen \/ Regenerate
  BY <1>11, <1>6 DEF Gen, Regenerate
<1> QED
  BY <1>3, <1>4, <1>5, <1>7, <1>8, <1>9, <1>10, <1>11, Steps

-----------------------------------------------------------------------------
(* What the mark stands for.  Behind a mark that was touched after a gen   *)
(* that went well there is a project of which every BUILD file that is     *)
(* older than the mark still says the same.                                *)

SameSince(p, rs) ==
  \A r \in rs : r \in RulesOf(project) /\ BuildFile(r) \notin newer[Mark] =>
    r \in RulesOf(p) /\ Setup[p].rules[r] = Setup[project].rules[r]

Unedited(p) ==
  /\ Marker \notin newer[Mark]
  /\ \A r \in RulesOf(p) : r \in RulesOf(project) /\ BuildFile(r) \notin newer[Mark]

MarkTells ==
  Exists(Mark) /\ ~missed =>
    \E p \in Project : SameSince(p, Rules) /\ (Unedited(p) => Stale = {})

\* ... and one whose root makefile is there.
RootTells ==
  Exists(RootMakefile) =>
    \E p \in Project : /\ Generated[p][RootMakefile] = Generated[Meant(disk[RootMakefile])][RootMakefile]
                       /\ Exists(Mark) /\ ~missed => SameSince(p, RulesOf(p))

Current ==
  /\ phase = "regen" /\ ~missed => Stale = {}
  /\ phase = "rules" /\ calm /\ ~missed => Stale = {}
  /\ phase = "pre" => Exists(RootMakefile) /\ graph = disk[RootMakefile]
  /\ ConfigCurrent /\ MarkTells /\ RootTells

\* Only makefiles and projects make a difference to what is stale.
LEMMA StaleStays ==
  ASSUME NEW W, Written(W) \/ Removed(W), W \cap GeneratedFiles = {},
         project \in Project, project' = project
  PROVE  Stale' = Stale
<1>1. \A f \in DOMAIN Generated[project] : /\ f \in DOMAIN disk' <=> f \in DOMAIN disk
                                           /\ f \in DOMAIN disk => disk'[f] = disk[f]
  BY DEF Written, Removed, GeneratedFiles
<1> QED
  BY <1>1 DEF Stale, Exists, Wanted

\* Writing or removing anything but makefiles, BUILD files and the mark does not
\* change what they tell.
LEMMA TellsStays ==
  ASSUME Typed, MarkTells, RootTells, NEW W, Written(W) \/ Removed(W),
         W \cap GeneratedFiles = {}, Mark \notin W, W \cap Needed[Mark] = {},
         project' = project, missed' = missed
  PROVE  Stale' = Stale /\ MarkTells' /\ RootTells'
<1>1. Stale' = Stale
  BY StaleStays DEF Typed, Positions
<1>2. newer'[Mark] = newer[Mark] /\ (Exists(Mark)' <=> Exists(Mark))
  <2>1. Mark \in DOMAIN Needed
    BY NeededFiles
  <2>2. CASE Written(W)
    <3>1. newer'[Mark] = IF ~Exists(Mark) THEN {} ELSE newer[Mark] \cup (W \cap Needed[Mark])
      BY <2>1, <2>2 DEF Written, Newer
    <3>2. ~Exists(Mark) => newer[Mark] = {}
      BY <2>1 DEF Typed, NewerOK
    <3> QED
      BY <2>2, <3>1, <3>2 DEF Written, Exists
  <2>3. CASE Removed(W)
    BY <2>1, <2>3 DEF Removed, Exists
  <2> QED
    BY <2>2, <2>3
<1>3. \A rs : \A p \in Project : /\ SameSince(p, rs)' <=> SameSince(p, rs)
                                 /\ Unedited(p)' <=> Unedited(p)
  BY <1>2 DEF SameSince, Unedited
<1>4. MarkTells'
  BY <1>1, <1>2, <1>3 DEF MarkTells
<1>5. RootMakefile \in GeneratedFiles
  BY BuildsAreGenerated DEF GeneratedFiles, Typed, Positions
<1>6. Exists(RootMakefile)' => Exists(RootMakefile) /\ disk'[RootMakefile] = disk[RootMakefile]
  BY <1>5 DEF Exists, Written, Removed
<1>7. RootTells'
  BY <1>2, <1>3, <1>6 DEF RootTells, Meant
<1> QED
  BY <1>1, <1>4, <1>7

\* When all makefiles are right, the project that they are made of is the one.
LEMMA FreshTells ==
  ASSUME Typed', Stale' = {}
  PROVE  MarkTells' /\ RootTells'
<1>1. project' \in Project
  BY DEF Typed, Positions
<1>2. \A rs : SameSince(project, rs)'
  BY DEF SameSince
<1>3. MarkTells'
  BY <1>1, <1>2 DEF MarkTells
<1>4. RootMakefile \in DOMAIN Generated[project']
  BY <1>1, BuildsAreGenerated
<1>5. disk'[RootMakefile] = Content[RootMakefile][project']
  BY <1>4 DEF Stale, Wanted
<1>6. Generated[project'][RootMakefile] = Generated[Meant(disk'[RootMakefile])][RootMakefile]
  BY <1>1, <1>4, <1>5, ContentNames, MeantOf
<1>7. RootTells'
  BY <1>1, <1>2, <1>6 DEF RootTells, Meant
<1> QED
  BY <1>3, <1>7

\* A gen that completes leaves nothing stale.
LEMMA CompleteIsFresh ==
  ASSUME Typed, GenCompletes, project' = project
  PROVE  Stale' = {}
<1>1. project \in Project
  BY DEF Typed, Positions
<1>2. PICK all, torn : /\ Write(all, torn) /\ all \cup torn \subseteq DOMAIN Generated[project]
                       /\ torn = {} /\ Stale \subseteq all
  BY <1>1, GenWrites
<1>3. /\ Written(all \cup torn)
      /\ DOMAIN disk' = DOMAIN disk \cup all \cup torn
      /\ \A x \in all \ torn : disk'[x] = Wanted(x)
  BY <1>1, <1>2, WriteFiles
<1>4. ASSUME NEW f \in DOMAIN Generated[project]
      PROVE  f \in DOMAIN disk' /\ disk'[f] = Wanted(f)
  <2>1. CASE f \in all
    BY <2>1, <1>2, <1>3
  <2>2. CASE f \notin all
    <3>1. f \in DOMAIN disk /\ disk[f] = Wanted(f)
      BY <2>2, <1>2 DEF Stale, Exists
    <3> QED
      BY <3>1, <2>2, <1>2, <1>3 DEF Written
  <2> QED
    BY <2>1, <2>2
<1> QED
  BY <1>4 DEF Stale, Exists, Wanted

\* An edit that the mark does not see has not changed the rule.
LEMMA EditTells ==
  ASSUME Typed, NEW q \in Project, EditProject(q), Exists(Mark)
  PROVE  /\ newer[Mark] \subseteq newer'[Mark]
         /\ \A r \in RulesOf(q) : BuildFile(r) \notin newer'[Mark] =>
              r \in RulesOf(project) /\ Setup[project].rules[r] = Setup[q].rules[r]
         /\ Marker \notin newer'[Mark] => Settings(Setup[project]) = Settings(Setup[q])
<1>1. Mark \notin Rewritten(project, q)
  BY DEF Rewritten, Mark, BuildFile, Marker
<1>2. newer'[Mark] = newer[Mark] \cup (Rewritten(project, q) \cap Needed[Mark])
  BY <1>1, NeededFiles DEF EditProject, Newer
<1>3. Marker \in Needed[Mark] /\ \A r \in RulesOf(q) : BuildFile(r) \in Needed[Mark]
  BY NeededFiles, BuildsAreGenerated
<1>4. ASSUME NEW r \in RulesOf(q), BuildFile(r) \notin newer'[Mark]
      PROVE  r \in RulesOf(project) /\ Setup[project].rules[r] = Setup[q].rules[r]
  <2>1. BuildFile(r) \notin Rewritten(project, q)
    BY <1>2, <1>3, <1>4
  <2> QED
    BY <2>1 DEF Rewritten
<1>5. Marker \notin newer'[Mark] => Settings(Setup[project]) = Settings(Setup[q])
  BY <1>2, <1>3 DEF Rewritten
<1> QED
  BY <1>2, <1>4, <1>5

LEMMA EditKeepsTells ==
  ASSUME Typed, MarkTells, RootTells, NEW q \in Project, EditProject(q)
  PROVE  MarkTells' /\ RootTells'
<1>1. project' = q /\ disk' = disk /\ (~missed' => ~missed) /\ project \in Project
  BY DEF EditProject, Typed, Positions
<1>2. ASSUME NEW p \in Project, NEW rs, Exists(Mark), SameSince(p, rs)
      PROVE  SameSince(p, rs)'
  BY <1>1, <1>2, EditTells DEF SameSince
<1>3. ASSUME NEW p \in Project, Exists(Mark), SameSince(p, Rules), Unedited(p)', Unedited(p) => Stale = {}
      PROVE  Stale' = {}
  <2>1. \A r \in RulesOf(p) : r \in RulesOf(q) /\ BuildFile(r) \notin newer'[Mark]
    BY <1>1, <1>3 DEF Unedited
  <2>2. \A r \in RulesOf(p) : /\ r \in RulesOf(project) /\ r \in Rules
                              /\ Setup[project].rules[r] = Setup[q].rules[r]
                              /\ BuildFile(r) \notin newer[Mark]
    BY <2>1, <1>1, <1>3, EditTells, BuildsAreGenerated
  <2>3. Unedited(p)
    BY <2>2, <1>3, EditTells DEF Unedited
  <2>4. \A r \in RulesOf(p) : Setup[p].rules[r] = Setup[project].rules[r]
    BY <2>2, <1>3 DEF SameSince
  <2>5. RulesOf(p) = RulesOf(project) /\ RulesOf(p) = RulesOf(q)
    <3>1. (\A r \in RulesOf(p) : r \in RulesOf(project) /\ Setup[p].rules[r] = Setup[project].rules[r])
            => RulesOf(p) = RulesOf(project)
      BY <1>1, IncrementalAssumption
    <3>2. (\A r \in RulesOf(p) : r \in RulesOf(q) /\ Setup[p].rules[r] = Setup[q].rules[r])
            => RulesOf(p) = RulesOf(q)
      BY IncrementalAssumption
    <3> QED
      BY <3>1, <3>2, <2>1, <2>2, <2>4
  <2>6. Settings(Setup[project]) = Settings(Setup[q])
    BY <1>3, EditTells DEF Unedited
  <2>7. Generated[project] = Generated[q]
    <3>1. RulesOf(project) = RulesOf(q)
      BY <2>5
    <3>2. \A r \in RulesOf(project) : Setup[project].rules[r] = Setup[q].rules[r]
      BY <2>2, <2>5
    <3> QED
      BY <1>1, <2>6, <3>1, <3>2, SameMakefiles
  <2>8. \A f \in DOMAIN Generated[project] : Content[f][project] = Content[f][q]
    BY <1>1, <2>7, ContentNames
  <2>9. Stale = {}
    BY <1>3, <2>3
  <2> QED
    BY <1>1, <2>7, <2>8, <2>9 DEF Stale, Exists, Wanted
<1>4. MarkTells'
  BY <1>1, <1>2, <1>3 DEF MarkTells, Exists
<1>5. RootTells'
  BY <1>1, <1>2 DEF RootTells, Exists, Meant
<1> QED
  BY <1>4, <1>5

\* The files that are no makefiles and that nothing tells the mark about.
LEMMA QuietFiles ==
  ASSUME NEW W, \A x \in W : x[1] \in TargetKinds \/ x[1] = "source"
  PROVE  W \cap GeneratedFiles = {} /\ Mark \notin W /\ W \cap Needed[Mark] = {}
<1>1. Needed[Mark] = {Marker} \cup {BuildFile(r) : r \in Rules}
  BY NeededFiles
<1>2. \A x \in Needed[Mark] : x[1] \in {"marker", "BUILD"}
  BY <1>1 DEF Marker, BuildFile
<1> QED
  BY <1>2, DifferentFiles DEF TargetKinds, GeneratedKinds, Mark

\* make does not regenerate: nothing is newer than the mark that it depends on.
LEMMA FreshMark ==
  ASSUME Typed, Current, MarkIsFresh, ~missed
  PROVE  Stale = {}
<1> DEFINE g == Meant(graph)
<1>1. /\ Exists(RootMakefile) /\ graph = disk[RootMakefile] /\ g \in Project /\ project \in Project
      /\ Exists(Mark) /\ newer[Mark] \cap MarkNeeds = {} /\ MarkNeeds \subseteq Present
  BY MeantOf DEF MarkIsFresh, Current, Typed, Positions
<1>2. PICK p \in Project : SameSince(p, Rules) /\ (Unedited(p) => Stale = {})
  BY <1>1 DEF Current, MarkTells
<1>3. PICK q \in Project : /\ Generated[q][RootMakefile] = Generated[g][RootMakefile]
                           /\ SameSince(q, RulesOf(q))
  BY <1>1 DEF Current, RootTells
<1>4. RulesOf(q) = RulesOf(g)
  BY <1>1, <1>3, RootTellsRules
<1>5. ASSUME NEW r \in RulesOf(q)
      PROVE  r \in RulesOf(project) /\ BuildFile(r) \notin newer[Mark]
  <2>1. BuildFile(r) \in MarkNeeds
    BY <1>4 DEF MarkNeeds
  <2>2. BuildFile(r) \in Present /\ BuildFile(r) \notin newer[Mark]
    BY <2>1, <1>1
  <2>3. r \in RulesOf(project)
    BY <2>2 DEF Present, BuildFile, Marker
  <2> QED
    BY <2>2, <2>3
<1>6. RulesOf(q) = RulesOf(project)
  <2>1. \A r \in RulesOf(q) : r \in RulesOf(project) /\ Setup[q].rules[r] = Setup[project].rules[r]
    BY <1>3, <1>5 DEF SameSince
  <2> QED
    BY <2>1, <1>1, IncrementalAssumption
<1>7. RulesOf(project) = RulesOf(p)
  <2>1. \A r \in RulesOf(project) : r \in RulesOf(p) /\ Setup[project].rules[r] = Setup[p].rules[r]
    BY <1>1, <1>2, <1>5, <1>6, BuildsAreGenerated DEF SameSince
  <2> QED
    BY <2>1, <1>1, IncrementalAssumption
<1>8. Marker \notin newer[Mark]
  BY <1>1 DEF MarkNeeds
<1>9. Unedited(p)
  BY <1>5, <1>6, <1>7, <1>8 DEF Unedited
<1> QED
  BY <1>2, <1>9

LEMMA FirstCurrent ==
  Init => Current
<1> SUFFICES ASSUME Init
             PROVE  Current
  OBVIOUS
<1>1. project \in Project /\ phase = "idle" /\ result = "none" /\ DOMAIN disk =
         {Source(x) : x \in Sources} \cup DOMAIN Generated[project]
  BY IncrementalAssumption DEF Init
<1>2. ~Exists(Mark)
  BY <1>1, DifferentFiles DEF Exists, GeneratedFiles
<1>3. RootMakefile \in DOMAIN Generated[project] /\ RootMakefile[1] # "source"
  BY <1>1, BuildsAreGenerated DEF RootMakefile
<1>4. disk[RootMakefile] = Content[RootMakefile][project]
  BY <1>3 DEF Init, Wanted
<1>5. Generated[project][RootMakefile] = Generated[Meant(disk[RootMakefile])][RootMakefile]
  BY <1>1, <1>3, <1>4, ContentNames, MeantOf
<1> QED
  BY <1>1, <1>2, <1>5 DEF Current, ConfigCurrent, MarkTells, RootTells

\* A step that changes nothing of what the mark is about.
LEMMA CurrentKept ==
  ASSUME Typed, Current, Stale' = Stale, MarkTells', RootTells',
         ~missed' => ~missed,
         phase' = "regen" => phase = "regen",
         phase' = "rules" => phase = "rules" /\ (calm' => calm),
         phase' = "pre" => /\ phase = "pre" /\ graph' = graph
                           /\ Exists(RootMakefile)' /\ disk'[RootMakefile] = disk[RootMakefile],
         result' # "none" => result # "none"
  PROVE  Current'
BY DEF Current, ConfigCurrent

\* The same for what a step writes or removes besides makefiles.
LEMMA CurrentAside ==
  ASSUME Typed, Current, NEW W, Written(W) \/ Removed(W),
         \A x \in W : x[1] \in TargetKinds \/ x[1] = "source",
         project' = project, missed' = missed,
         phase' = "regen" => phase = "regen",
         phase' = "rules" => phase = "rules" /\ (calm' => calm),
         phase' = "pre" => phase = "pre" /\ graph' = graph,
         result' # "none" => result # "none"
  PROVE  Current'
<1>1. Stale' = Stale /\ MarkTells' /\ RootTells'
  BY QuietFiles, TellsStays DEF Current
<1>2. RootMakefile \notin W
  BY DEF RootMakefile, TargetKinds
<1>3. Exists(RootMakefile) => Exists(RootMakefile)' /\ disk'[RootMakefile] = disk[RootMakefile]
  BY <1>2 DEF Exists, Written, Removed
<1> QED
  BY <1>1, <1>3, CurrentKept DEF Current

\* A mark that does not hide from make what a gen has missed is older than a BUILD
\* file, or than JK_ROOT.
LEMMA OldMark ==
  ASSUME Typed, Exists(Mark), ~MarkHides, NEW p \in Project, SameSince(p, Rules)
  PROVE  ~Unedited(p)
<1> SUFFICES ASSUME Unedited(p)
             PROVE  FALSE
  OBVIOUS
<1>1. project \in Project
  BY DEF Typed, Positions
<1>2. \A r \in RulesOf(p) : r \in RulesOf(project) /\ Setup[p].rules[r] = Setup[project].rules[r]
  BY BuildsAreGenerated DEF Unedited, SameSince
<1>3. RulesOf(p) = RulesOf(project)
  BY <1>1, <1>2, IncrementalAssumption
<1>4. newer[Mark] \cap ({Marker} \cup {BuildFile(r) : r \in RulesOf(project)}) = {}
  BY <1>3 DEF Unedited
<1> QED
  BY <1>4 DEF MarkHides

\* A gen that fails behind no make leaves what the mark tells, or make will not run it
\* again.
LEMMA FailureTells ==
  ASSUME Typed, Typed', Current, Gen, ~GenCompletes
  PROVE  Current'
<1>1. project \in Project /\ project' = project /\ phase' = phase /\ phase = "idle"
        /\ result' = "none" /\ (missed' <=> missed \/ MarkHides)
  <2>1. GenFails /\ phase = "idle" /\ phase' = phase /\ project' = project /\ result' = "none"
    BY DEF Gen, make
  <2>2. missed' <=> missed \/ phase = "pre" \/ MarkHides
    BY <2>1 DEF GenFails
  <2> QED
    BY <2>1, <2>2 DEF Typed, Positions
<1>2. PICK all, torn : Write(all, torn) /\ all \cup torn \subseteq DOMAIN Generated[project]
  BY <1>1, GenWrites DEF Gen
<1> DEFINE W == all \cup torn
<1>3. /\ Written(W) /\ W \subseteq GeneratedFiles
      /\ \A x \in W : disk'[x] = Torn[Wanted(x)] \/ disk'[x] = Wanted(x)
  BY <1>1, <1>2, WriteFiles
<1>4. Mark \notin W /\ W \cap Needed[Mark] = {}
  <2>1. \A x \in Needed[Mark] : x[1] \in {"marker", "BUILD"}
    BY NeededFiles DEF Marker, BuildFile
  <2> QED
    BY <1>3, <2>1, DifferentFiles DEF GeneratedKinds
<1>5. newer'[Mark] = newer[Mark] /\ (Exists(Mark)' <=> Exists(Mark))
  <2>1. Mark \in DOMAIN Needed
    BY NeededFiles
  <2>2. newer'[Mark] = IF ~Exists(Mark) THEN {} ELSE newer[Mark] \cup (W \cap Needed[Mark])
    BY <2>1, <1>3, <1>4 DEF Written, Newer
  <2>3. ~Exists(Mark) => newer[Mark] = {}
    BY <2>1 DEF Typed, NewerOK
  <2> QED
    BY <1>3, <1>4, <2>2, <2>3 DEF Written, Exists
<1>6. \A rs : \A p \in Project : (SameSince(p, rs)' <=> SameSince(p, rs)) /\ (Unedited(p)' <=> Unedited(p))
  BY <1>1, <1>5 DEF SameSince, Unedited
<1>7. MarkTells'
  <2> SUFFICES ASSUME Exists(Mark)', ~missed'
               PROVE  \E p \in Project : SameSince(p, Rules)' /\ ~Unedited(p)'
    BY DEF MarkTells
  <2>1. Exists(Mark) /\ ~missed /\ ~MarkHides
    BY <1>1, <1>5
  <2>2. PICK p \in Project : SameSince(p, Rules)
    BY <2>1 DEF Current, MarkTells
  <2>3. ~Unedited(p)
    BY <2>1, <2>2, OldMark
  <2> QED
    BY <2>2, <2>3, <1>6
<1>8. RootTells'
  <2> SUFFICES ASSUME Exists(RootMakefile)'
               PROVE  \E p \in Project :
                        /\ Generated[p][RootMakefile] = Generated[Meant(disk'[RootMakefile])][RootMakefile]
                        /\ Exists(Mark)' /\ ~missed' => SameSince(p, RulesOf(p))'
    BY DEF RootTells, Meant
  <2>1. CASE RootMakefile \in W
    <3>1. Wanted(RootMakefile) = Content[RootMakefile][project]
      BY DEF Wanted
    <3>2. /\ Wanted(RootMakefile) \in Project
          /\ Generated[project][RootMakefile] = Generated[Wanted(RootMakefile)][RootMakefile]
      BY <3>1, <1>1, BuildsAreGenerated, ContentNames
    <3>3. Meant(disk'[RootMakefile]) = Wanted(RootMakefile)
      BY <2>1, <1>3, <3>2, MeantOf
    <3>4. SameSince(project, RulesOf(project))'
      BY <1>1 DEF SameSince
    <3> QED
      BY <1>1, <3>2, <3>3, <3>4
  <2>2. CASE RootMakefile \notin W
    <3>1. Exists(RootMakefile) /\ disk'[RootMakefile] = disk[RootMakefile]
      BY <2>2, <1>3 DEF Written, Exists
    <3> QED
      BY <3>1, <1>1, <1>5, <1>6 DEF Current, RootTells
  <2> QED
    BY <2>1, <2>2
<1> QED
  BY <1>1, <1>7, <1>8 DEF Current, ConfigCurrent

\* What the root makefile was written for, it was written for some project.
LEMMA NextRootIsMeant ==
  ASSUME Typed', Exists(RootMakefile)'
  PROVE  Meant(disk[RootMakefile])' \in Project
<1>1. RootMakefile \in GeneratedFiles
  BY BuildsAreGenerated DEF GeneratedFiles, Typed, Positions
<1> QED
  BY <1>1, MeantOf DEF Typed, Contents, WrittenFor, Exists

LEMMA CurrentStays ==
  ASSUME Typed, Typed', Current, [Next]_vars
  PROVE  Current'
<1>1. ASSUME UNCHANGED <<project, disk, newer, missed>>
      PROVE  Stale' = Stale /\ MarkTells' /\ RootTells'
               /\ (Exists(RootMakefile) => Exists(RootMakefile)')
  BY <1>1 DEF Current, Stale, MarkTells, RootTells, SameSince, Unedited, Exists, Wanted, Meant
<1>2. CASE UNCHANGED vars
  BY <1>2, <1>1, CurrentKept DEF vars, make, Current
<1>3. ASSUME NEW f \in SourcesOf(project), EditSource(f)
      PROVE  Current'
  <2>1. Written({Source(f)}) /\ \A x \in {Source(f)} : x[1] = "source"
    BY <1>3, EditWrites DEF Source
  <2>2. /\ project' = project /\ missed' = missed /\ phase' = phase /\ graph' = graph
        /\ calm' = FALSE /\ result' = "none"
    BY <1>3 DEF EditSource, Edited, make
  <2> QED
    BY <2>1, <2>2, CurrentAside
<1>4. ASSUME NEW q \in Project, EditProject(q)
      PROVE  Current'
  <2>1. MarkTells' /\ RootTells'
    BY <1>4, EditKeepsTells DEF Current
  <2>2. /\ disk' = disk /\ phase' = phase /\ graph' = graph /\ calm' = FALSE /\ result' = "none"
        /\ missed' = (missed \/ phase = "regen")
    BY <1>4 DEF EditProject, Edited, make
  <2> QED
    BY <2>1, <2>2 DEF Current, ConfigCurrent, Exists
<1>5. ASSUME NEW r \in Rules, Clean(r)
      PROVE  Current'
  <2>1. PICK all : Removed(all) /\ \A x \in all : x[1] \in TargetKinds
    BY <1>5, CleanRemoves DEF Typed
  <2>2. /\ project' = project /\ missed' = missed /\ phase' = phase /\ graph' = graph
        /\ calm' = FALSE /\ result' = "none"
    BY <1>5 DEF Clean, Edited, make
  <2> QED
    BY <2>1, <2>2, CurrentAside
<1>6. CASE Gen /\ GenCompletes
  <2>1. Stale' = {}
    BY <1>6, CompleteIsFresh DEF Gen
  <2>2. phase' = "idle"
    BY <1>6 DEF Gen, make
  <2> QED
    BY <2>1, <2>2, FreshTells DEF Current, ConfigCurrent
<1>7. CASE Gen /\ ~GenCompletes
  BY <1>7, FailureTells
<1>8. CASE Regenerate /\ GenCompletes
  <2>1. Stale' = {}
    BY <1>8, CompleteIsFresh DEF Regenerate
  <2>2. phase' = "regen"
    BY <1>8 DEF Regenerate
  <2> QED
    BY <2>1, <2>2, FreshTells DEF Current, ConfigCurrent
<1>9. CASE Regenerate /\ ~GenCompletes
  <2>1. missed' /\ phase' = "regen"
    BY <1>9 DEF Regenerate, GenFails
  <2>2. RootTells'
    <3>1. Exists(RootMakefile)' => Meant(disk[RootMakefile])' \in Project
      BY NextRootIsMeant
    <3> QED
      BY <2>1, <3>1 DEF RootTells
  <2> QED
    BY <2>1, <2>2 DEF Current, ConfigCurrent, MarkTells
<1>10. CASE MakeStart \/ TestStart
  <2>1. /\ UNCHANGED <<project, disk, newer, missed>>
        /\ Exists(RootMakefile) /\ graph' = disk[RootMakefile]
        /\ phase' \in {"pre", "test"} /\ result' = "none"
    BY <1>10 DEF MakeStart, TestStart
  <2> QED
    BY <2>1, <1>1 DEF Current, ConfigCurrent
<1>11. CASE NothingToMakeFrom \/ NoGoal \/ Interrupt \/ \E r \in Rules : CannotRead(r)
  <2>1. UNCHANGED <<project, disk, newer, missed, result>> /\ phase' = "idle"
    BY <1>11 DEF NothingToMakeFrom, NoGoal, Interrupt, CannotRead, Stop
  <2> QED
    BY <2>1, <1>1, CurrentKept
<1>12. CASE MarkIsFresh
  <2>1. /\ UNCHANGED <<project, disk, newer, missed, result>>
        /\ phase = "pre" /\ phase' = "rules"
    BY <1>12 DEF MarkIsFresh
  <2>2. ~missed => Stale = {}
    BY <1>12, FreshMark
  <2> QED
    BY <2>1, <2>2, <1>1 DEF Current, ConfigCurrent
<1>13. CASE TouchMark
  <2>1. /\ Written({Mark}) /\ DOMAIN disk' = DOMAIN disk \cup {Mark}
        /\ UNCHANGED <<project, result, missed, graph>> /\ phase = "regen" /\ phase' = "rules"
    BY <1>13, TouchWrites DEF TouchMark
  <2>2. Stale' = Stale
    BY <2>1, StaleStays, DifferentFiles DEF Typed, Positions
  <2>3. CASE missed
    <3>1. RootTells'
      <4>1. Exists(RootMakefile)' => Meant(disk[RootMakefile])' \in Project
        BY NextRootIsMeant
      <4> QED
        BY <2>1, <2>3, <4>1 DEF RootTells
    <3> QED
      BY <2>1, <2>3, <3>1 DEF Current, ConfigCurrent, MarkTells
  <2>4. CASE ~missed
    <3>1. Stale' = {}
      BY <2>1, <2>2, <2>4 DEF Current
    <3> QED
      BY <2>1, <3>1, FreshTells DEF Current, ConfigCurrent
  <2> QED
    BY <2>3, <2>4
<1>14. CASE MakeEnds
  <2>1. /\ UNCHANGED <<project, disk, newer, missed, calm>> /\ phase' = "idle"
        /\ result' # "none" => calm /\ phase = "rules"
    BY <1>14 DEF MakeEnds, Stop
  <2> QED
    BY <2>1, <1>1 DEF Current, ConfigCurrent
<1>15. ASSUME NEW r \in Rules, Readable(r), Wants(r), NEW e \in MakeOf(r).entries,
              Skip(r, e) \/ Remake(r, e) \/ RecipeFails(r, e) \/ NoRuleToMake(r, e)
       PROVE  Current'
  <2>1. Exists(Build(r)) /\ e \in AllEntries
    BY <1>15, BuildOfRule DEF Readable, Typed
  <2>2. CASE Skip(r, e)
    <3>1. UNCHANGED <<project, disk, newer, missed, result, phase, graph, calm>>
      BY <2>2 DEF Skip
    <3> QED
      BY <3>1, <1>1, CurrentKept DEF Current
  <2>3. CASE NoRuleToMake(r, e)
    <3>1. UNCHANGED <<project, disk, newer, missed, result>> /\ phase' = "idle"
      BY <2>3 DEF NoRuleToMake, Stop
    <3> QED
      BY <3>1, <1>1, CurrentKept
  <2>4. CASE Remake(r, e)
    <3>1. Written(Outputs(e)) /\ \A x \in Outputs(e) : x[1] \in TargetKinds
      BY <2>1, <2>4, RemakeWrites, OutputsAreTargets
    <3>2. UNCHANGED <<project, missed, result, phase, graph, calm>>
      BY <2>4 DEF Remake
    <3> QED
      BY <3>1, <3>2, CurrentAside
  <2>5. CASE RecipeFails(r, e)
    <3>1. Removed({e.target}) /\ \A x \in {e.target} : x[1] \in TargetKinds
      BY <2>1, <2>5, FailureRemoves, OutputsAreTargets DEF Typed
    <3>2. UNCHANGED <<project, missed, result>> /\ phase' = "idle"
      BY <2>5 DEF RecipeFails, Stop
    <3> QED
      BY <3>1, <3>2, CurrentAside
  <2> QED
    BY <1>15, <2>2, <2>3, <2>4, <2>5
<1>16. ASSUME NEW r \in Rules, CutShort(r)
       PROVE  Current'
  <2>1. /\ UNCHANGED <<project, disk, newer, missed, result, calm>>
        /\ phase' = "idle" \/ UNCHANGED <<phase, graph>>
    BY <1>16 DEF CutShort, Stop
  <2> QED
    BY <2>1, <1>1, CurrentKept DEF Current
<1> QED
  BY <1>2, <1>3, <1>4, <1>5, <1>6, <1>7, <1>8, <1>9, <1>10, <1>11, <1>12, <1>13, <1>14, <1>15, <1>16, Steps

\* Behind a make that went well the makefiles and compile_commands.json are those of the
\* BUILD files, unless a gen failed or missed an edit and the mark hides it from make.
THEOREM MakefilesAreCurrent ==
  Spec => []ConfigCurrent
<1>1. Init => Current
  BY FirstCurrent
<1>2. Typed /\ Typed' /\ Current /\ [Next]_vars => Current'
  BY CurrentStays
<1>3. Current => ConfigCurrent
  BY DEF Current
<1> QED
  BY <1>1, <1>2, <1>3, AlwaysTyped, PTL DEF Spec

-----------------------------------------------------------------------------
(* What a make that runs has reached, if it works with the right makefiles:*)
(* each target it is done with is newer than what it needs, and stays so.  *)

Settled(e) ==
  Exists(e.target) /\ newer[e.target] \cap e.needs = {} /\ e.needs \subseteq DOMAIN disk

HandledRight(r, e) ==
  /\ e.recipe /\ Ordered(e) => Settled(e)
  /\ e.needs \cap TargetsOf(r) \subseteq handled
  /\ \A q \in Order(r) : RuleDone(q) \/ Circular(r, q)

Right == phase = "rules" /\ calm /\ graph = Wanted(RootMakefile) /\ Stale = {}

Progressing ==
  Right => \A r \in RulesOf(project) : \A e \in EntriesOf(project, r) :
             e.target \in handled => HandledRight(r, e)

Arrived ==
  result = "ok" /\ Stale = {} => \A e \in Makes : e.recipe /\ Ordered(e) => Settled(e)

\* The least set that holds the rule and what its rules depend on.
LEMMA UnderIsLeast ==
  ASSUME NEW p \in Project, NEW r \in RulesOf(p)
  PROVE  /\ \A m \in {r} \cup Under[p][r] :
              m \in RulesOf(p) /\ Setup[p].rules[m].deps \subseteq {r} \cup Under[p][r]
         /\ \A S \in SUBSET RulesOf(p) :
              r \in S /\ (\A m \in S : Setup[p].rules[m].deps \subseteq S) => Under[p][r] \subseteq S
<1> DEFINE P == Loaded(Setup[p])
           g == [q \in RulesOf(p) |-> Setup[p].rules[q].deps]
<1>1. DOMAIN P.rules = RulesOf(p) /\ P.rules = Setup[p].rules
  BY DEF Loaded, RulesOf
<1>2. Below(P, r) = Reachable(g)[r] \ {r}
  BY <1>1 DEF Below
<1>3. Under[p][r] = Reachable(g)[r] \ {r}
  BY <1>2, BelowAreRules
<1>4. Reachable(g)[r] = {n \in RulesOf(p) : \A S \in ClosedSets(g) : r \in S => n \in S}
  BY DEF Reachable
<1>5. ClosedSets(g) = {S \in SUBSET RulesOf(p) : \A m \in S : g[m] \cap RulesOf(p) \subseteq S}
  BY DEF ClosedSets
<1>6. \A m \in RulesOf(p) : g[m] = Setup[p].rules[m].deps /\ g[m] \subseteq RulesOf(p)
  BY IncrementalAssumption
<1> HIDE DEF g
<1>7. {r} \cup Under[p][r] = Reachable(g)[r]
  BY <1>3, <1>4
<1>8. ASSUME NEW m \in Reachable(g)[r]
      PROVE  m \in RulesOf(p) /\ Setup[p].rules[m].deps \subseteq Reachable(g)[r]
  BY <1>4, <1>5, <1>6
<1>9. ASSUME NEW S \in SUBSET RulesOf(p), r \in S, \A m \in S : Setup[p].rules[m].deps \subseteq S
      PROVE  Under[p][r] \subseteq S
  <2>1. S \in ClosedSets(g)
    BY <1>5, <1>6, <1>9
  <2> QED
    BY <2>1, <1>9, <1>4, <1>7
<1> QED
  BY <1>7, <1>8, <1>9

\* The right makefiles are those of the project.
LEMMA RightMakefiles ==
  ASSUME Typed, Stale = {}, NEW r \in RulesOf(project)
  PROVE  /\ Exists(Build(r)) /\ ~CutOff(Build(r))
         /\ MakeOf(r).entries = EntriesOf(project, r)
         /\ TargetsOf(r) = TargetsIn(project, r)
<1>1. project \in Project /\ Build(r) \in DOMAIN Generated[project]
  BY MakefilesOf DEF Typed, Positions
<1>2. Exists(Build(r)) /\ disk[Build(r)] = Content[Build(r)][project]
  BY <1>1 DEF Stale, Wanted
<1>3. disk[Build(r)] \in Project /\ Generated[disk[Build(r)]][Build(r)] = Generated[project][Build(r)]
  BY <1>1, <1>2, ContentNames
<1>4. MakeOf(r).entries = EntriesOf(project, r)
  BY <1>1, <1>3, MakefilesOf, MeantOf DEF MakeOf
<1> QED
  BY <1>2, <1>3, <1>4 DEF TargetsOf, TargetsIn, CutOff

LEMMA RightRoot ==
  ASSUME Typed, graph = Wanted(RootMakefile)
  PROVE  /\ graph \in Project /\ Meant(graph) = graph
         /\ RulesOf(graph) = RulesOf(project) /\ Under[graph] = Under[project]
         /\ \A r \in RulesOf(project) : Order(r) = Setup[project].rules[r].deps
<1>1. project \in Project /\ RootMakefile \in DOMAIN Generated[project]
  BY BuildsAreGenerated DEF Typed, Positions
<1>2. /\ graph \in Project /\ Meant(graph) = graph
      /\ Generated[graph][RootMakefile] = Generated[project][RootMakefile]
  BY <1>1, ContentNames, MeantOf DEF Wanted
<1>3. RulesOf(graph) = RulesOf(project) /\ Under[graph] = Under[project]
  BY <1>1, <1>2, RootTellsRules
<1>4. \A r \in RulesOf(project) : Order(r) = Setup[project].rules[r].deps
  BY <1>1, <1>2, OrderOfRoot DEF Order
<1> QED
  BY <1>2, <1>3, <1>4

\* Where nothing loops, all rules below one that make has begun with are done.
LEMMA BelowIsDone ==
  ASSUME Typed, Right, Progressing, NEW r \in RulesOf(project),
         NEW e \in EntriesOf(project, r), e.target \in handled,
         \A q \in {r} \cup Under[project][r] : ~Loops(q)
  PROVE  \A q \in Under[project][r] : RuleDone(q)
<1>1. project \in Project
  BY DEF Typed, Positions
<1> DEFINE R == {r} \cup Under[project][r]
           S == {q \in R : q = r \/ RuleDone(q)}
<1>2. /\ \A m \in R : m \in RulesOf(project) /\ Setup[project].rules[m].deps \subseteq R
      /\ \A T \in SUBSET RulesOf(project) :
           r \in T /\ (\A m \in T : Setup[project].rules[m].deps \subseteq T) => Under[project][r] \subseteq T
  BY <1>1, UnderIsLeast
<1>3. ASSUME NEW m \in S, NEW q \in Setup[project].rules[m].deps
      PROVE  q \in S
  <2>1. m \in RulesOf(project) /\ q \in R
    BY <1>2
  <2>2. \E d \in EntriesOf(project, m) : d.target \in handled
    <3>1. CASE m = r
      BY <3>1
    <3>2. CASE RuleDone(m)
      <4>1. TargetsIn(project, m) \subseteq handled
        BY <3>2, <2>1, RightMakefiles DEF RuleDone, Right
      <4>2. \E d \in EntriesOf(project, m) : TRUE
        BY <1>1, <2>1, OwnTargets DEF TargetsIn
      <4> QED
        BY <4>1, <4>2 DEF TargetsIn
    <3> QED
      BY <3>1, <3>2
  <2>3. \A s \in Order(m) : RuleDone(s) \/ Circular(m, s)
    BY <2>1, <2>2 DEF Progressing, HandledRight
  <2>4. RuleDone(q) \/ Circular(m, q)
    BY <1>1, <2>1, <2>3, RightRoot DEF Right
  <2>5. ~Circular(m, q)
    <3>1. ~Loops(m)
      OBVIOUS
    <3>2. Under[Meant(graph)] = Under[project]
      BY RightRoot DEF Right
    <3> QED
      BY <3>1, <3>2 DEF Loops, Circular
  <2> QED
    BY <2>1, <2>4, <2>5
<1>4. S \in SUBSET RulesOf(project) /\ r \in S
  BY <1>2
<1>5. \A m \in S : Setup[project].rules[m].deps \subseteq S
  BY <1>3
<1>6. Under[project][r] \subseteq S
  BY <1>2, <1>4, <1>5
<1>7. r \notin Under[project][r]
  BY <1>1, BelowAreRules
<1> QED
  BY <1>6, <1>7

\* What a step writes is not needed by anything make is done with.
LEMMA NothingUndone ==
  ASSUME Typed, Right, Progressing,
         NEW r0 \in RulesOf(project), NEW e0 \in EntriesOf(project, r0), e0.target \notin handled,
         NEW r \in RulesOf(project), NEW e \in EntriesOf(project, r), e.target \in handled,
         e.recipe, Ordered(e)
  PROVE  Outputs(e0) \cap e.needs = {} /\ e.target \notin Outputs(e0)
<1>1. project \in Project
  BY DEF Typed, Positions
<1>2. e0.target[2] = r0 /\ e.target[2] = r /\ e.target[1] # "artifact"
  BY <1>1, EntryOfRule
<1>3. e.target \notin Outputs(e0)
  BY <1>2 DEF Outputs
<1>4. ASSUME NEW x \in Outputs(e0), x \in e.needs
      PROVE  FALSE
  <2>1. x = e0.target \/ (e0.target[1] = "checkpoint" /\ x = <<"artifact", r0>>)
    BY <1>2 DEF Outputs
  <2>2. x[2] = r0
    BY <2>1, <1>2
  <2>3. x[1] \in TargetKinds
    BY <2>1, <1>1, EntryOfRule DEF TargetKinds
  <2>4. CASE x \in TargetsIn(project, r)
    <3>1. r = r0
      BY <1>1, <2>2, <2>4, EntryOfRule DEF TargetsIn
    <3>2. TargetsOf(r) = TargetsIn(project, r)
      BY RightMakefiles DEF Right
    <3>3. x \in handled
      BY <1>4, <2>4, <3>2 DEF Progressing, HandledRight
    <3>4. e0.target[1] = "checkpoint" /\ x = <<"artifact", r0>>
      BY <2>1, <3>3
    <3>5. IsScript(project, r0, e0)
      BY <1>1, <3>4, EntryForms, FormOfTarget
    <3>6. IsScript(project, r, e)
      <4>1. RuleIn(project, r).kind = "shell_script"
        BY <3>1, <3>5 DEF IsScript
      <4>2. ~IsLint(project, r, e) /\ ~IsObject(project, r, e) /\ ~IsProtoc(project, r, e)
              /\ ~IsArchive(project, r, e) /\ ~IsLink(project, r, e)
        BY <4>1 DEF IsLint, IsObject, IsProtoc, IsArchive, IsLink, CCKinds
      <4> QED
        BY <1>1, <1>2, <4>2, EntryForms, FormOfTarget
    <3>7. x[1] = "source"
      BY <1>4, <3>6 DEF IsScript, Scripts, Source
    <3> QED
      BY <3>4, <3>7
  <2>5. CASE x \in {Flags(r), Toolchain(r), Build(r)}
    BY <2>3, <2>5 DEF Flags, Toolchain, Build, TargetKinds
  <2>6. CASE x[1] = "source"
    BY <2>3, <2>6 DEF TargetKinds
  <2>7. CASE e.target[1] = "binary" /\ \E q \in Under[project][r] : x = Exported(Loaded(Setup[project]), q)
    <3>1. r0 \in Under[project][r]
      BY <2>2, <2>7 DEF Exported
    <3>2. \A q \in {r} \cup Under[project][r] : ~Loops(q)
      BY <1>2, <2>7 DEF Ordered
    <3>3. RuleDone(r0)
      BY <3>1, <3>2, BelowIsDone
    <3>4. TargetsIn(project, r0) \subseteq handled
      BY <3>3, RightMakefiles DEF RuleDone, Right
    <3> QED
      BY <3>4 DEF TargetsIn
  <2> QED
    BY <1>1, <1>4, <2>4, <2>5, <2>6, <2>7, WhatIsNeeded
<1> QED
  BY <1>3, <1>4

\* Rules stay done while others are made.
LEMMA DoneStays ==
  ASSUME Typed, Stale = {}, project' = project, handled \subseteq handled',
         \A q \in RulesOf(project) : Build(q) \in DOMAIN disk' /\ disk'[Build(q)] = disk[Build(q)]
  PROVE  \A q \in RulesOf(project) : /\ (MakeOf(q).entries)' = MakeOf(q).entries
                                     /\ TargetsOf(q)' = TargetsOf(q)
                                     /\ RuleDone(q) => RuleDone(q)'
<1> SUFFICES ASSUME NEW q \in RulesOf(project)
             PROVE  /\ (MakeOf(q).entries)' = MakeOf(q).entries
                    /\ TargetsOf(q)' = TargetsOf(q)
                    /\ RuleDone(q) => RuleDone(q)'
  OBVIOUS
<1>1. (MakeOf(q).entries)' = MakeOf(q).entries
  BY DEF MakeOf
<1>2. TargetsOf(q)' = TargetsOf(q)
  BY <1>1 DEF TargetsOf
<1> QED
  BY <1>1, <1>2 DEF RuleDone, Exists

\* make is done with one more target.
LEMMA OneMore ==
  ASSUME Typed, Right, Progressing, NEW r0 \in RulesOf(project), NEW e0 \in EntriesOf(project, r0),
         Ready(r0, e0), Skip(r0, e0) \/ Remake(r0, e0),
         NEW r \in RulesOf(project), NEW e \in EntriesOf(project, r), e.target \in handled'
  PROVE  HandledRight(r, e)'
<1>1. project \in Project /\ r \in Rules /\ r0 \in Rules /\ e0 \in AllEntries /\ e \in AllEntries
  BY BuildsAreGenerated, EntriesOfAll DEF Typed, Positions
<1>2. /\ handled' = handled \cup {e0.target} /\ e0.target \notin handled
      /\ UNCHANGED <<project, phase, graph, calm>>
  BY DEF Ready, Skip, Remake
<1>3. \/ Skip(r0, e0) /\ UNCHANGED <<disk, newer>>
      \/ /\ Remake(r0, e0) /\ Written(Outputs(e0))
         /\ DOMAIN disk' = DOMAIN disk \cup Outputs(e0)
  BY <1>1, RemakeWrites DEF Skip
<1>4. \A q \in RulesOf(project) : Build(q) \in DOMAIN disk' /\ disk'[Build(q)] = disk[Build(q)]
  <2> SUFFICES ASSUME NEW q \in RulesOf(project)
               PROVE  Build(q) \in DOMAIN disk' /\ disk'[Build(q)] = disk[Build(q)]
    OBVIOUS
  <2>1. Build(q) \in DOMAIN disk
    BY RightMakefiles DEF Right, Exists
  <2>2. Build(q) \notin Outputs(e0)
    BY <1>1, OutputsAreTargets DEF Build, TargetKinds
  <2> QED
    BY <1>3, <2>1, <2>2 DEF Written
<1>5. \A q \in RulesOf(project) : TargetsOf(q)' = TargetsOf(q) /\ (RuleDone(q) => RuleDone(q)')
  BY <1>2, <1>4, DoneStays DEF Right
<1>6. \A q \in RulesOf(project) : Order(q) \subseteq RulesOf(project) /\ Order(q)' = Order(q)
  <2>1. \A q \in RulesOf(project) : Order(q) = Setup[project].rules[q].deps
    BY RightRoot DEF Right
  <2>2. \A q \in RulesOf(project) : Order(q) \subseteq RulesOf(project)
    <3>1. ASSUME NEW q \in RulesOf(project)
          PROVE  Setup[project].rules[q].deps \subseteq RulesOf(project)
      BY <1>1, IncrementalAssumption
    <3> QED
      BY <2>1, <3>1
  <2>3. \A q : Order(q)' = Order(q)
    BY <1>2 DEF Order
  <2> QED
    BY <2>2, <2>3
<1>7. \A q, s : Circular(q, s)' <=> Circular(q, s)
  BY <1>2 DEF Circular
<1>8. Ordered(e)' <=> Ordered(e)
  BY <1>2 DEF Ordered, Loops
<1>9. CASE e.target = e0.target
  <2>1. r = r0
    BY <1>1, <1>9, EntryOfRule
  <2>2. e = e0
    BY <1>1, <1>9, <2>1, OneEntry
  <2>3. e.needs \cap TargetsOf(r)' \subseteq handled'
    BY <1>2, <1>5, <2>1, <2>2 DEF Ready
  <2>4. \A q \in Order(r)' : RuleDone(q)' \/ Circular(r, q)'
    <3>1. \A q \in Order(r) : RuleDone(q) \/ Circular(r, q)
      BY <2>1 DEF Ready, MayRun, Right
    <3> QED
      BY <1>5, <1>6, <1>7, <3>1
  <2>5. ASSUME e.recipe
        PROVE  Settled(e)'
    <3>1. CASE Skip(r0, e0) /\ UNCHANGED <<disk, newer>>
      <4>1. ~OutOfDate(e)
        BY <2>2, <2>5, <3>1 DEF Skip
      <4> QED
        BY <3>1, <4>1 DEF OutOfDate, Settled, Exists
    <3>2. CASE /\ Remake(r0, e0) /\ Written(Outputs(e0))
               /\ DOMAIN disk' = DOMAIN disk \cup Outputs(e0)
      <4>1. e.target \in Outputs(e0) /\ e.target \in DOMAIN Needed
        BY <1>1, <1>9, OutputsAreTargets, NeededFiles
      <4>2. newer'[e.target] = {}
        BY <3>2, <4>1 DEF Written, Newer
      <4>3. e.needs \subseteq DOMAIN disk'
        BY <2>2, <3>2 DEF Remake, Exists
      <4> QED
        BY <3>2, <4>1, <4>2, <4>3 DEF Settled, Exists
    <3> QED
      BY <1>3, <3>1, <3>2
  <2> QED
    BY <2>3, <2>4, <2>5 DEF HandledRight
<1>10. CASE e.target # e0.target
  <2>1. HandledRight(r, e) /\ e.target \in handled
    BY <1>2, <1>10 DEF Progressing
  <2>2. e.needs \cap TargetsOf(r)' \subseteq handled'
    BY <1>2, <1>5, <2>1 DEF HandledRight
  <2>3. \A q \in Order(r)' : RuleDone(q)' \/ Circular(r, q)'
    BY <1>5, <1>6, <1>7, <2>1 DEF HandledRight
  <2>4. ASSUME e.recipe, Ordered(e)
        PROVE  Settled(e)'
    <3>1. Settled(e)
      BY <2>1, <2>4 DEF HandledRight
    <3>2. CASE UNCHANGED <<disk, newer>>
      BY <3>1, <3>2 DEF Settled, Exists
    <3>3. CASE /\ Remake(r0, e0) /\ Written(Outputs(e0))
               /\ DOMAIN disk' = DOMAIN disk \cup Outputs(e0)
      <4>1. Outputs(e0) \cap e.needs = {} /\ e.target \notin Outputs(e0)
        BY <1>2, <2>1, <2>4, NothingUndone
      <4>2. e.target \in DOMAIN Needed
        BY <1>1, OutputsAreTargets, NeededFiles
      <4>3. newer'[e.target] = newer[e.target] \cup (Outputs(e0) \cap Needed[e.target])
        BY <3>1, <3>3, <4>1, <4>2 DEF Written, Newer, Settled
      <4> QED
        BY <3>1, <3>3, <4>1, <4>3 DEF Settled, Exists
    <3> QED
      BY <1>3, <3>2, <3>3
  <2> QED
    BY <1>8, <2>2, <2>3, <2>4 DEF HandledRight
<1> QED
  BY <1>9, <1>10

LEMMA ProgressStays ==
  ASSUME Typed, Typed', Progressing, [Next]_vars
  PROVE  Progressing'
<1> SUFFICES ASSUME Right', NEW r \in RulesOf(project'), NEW e \in EntriesOf(project', r),
                    e.target \in handled'
             PROVE  HandledRight(r, e)'
  BY DEF Progressing
<1>1. phase' = "rules" /\ calm' /\ handled' # {}
  BY DEF Right
<1>2. CASE UNCHANGED vars
  <2>1. UNCHANGED <<project, disk, newer, phase, graph, handled, calm>>
    BY <1>2 DEF vars, make
  <2>2. Right
    BY <2>1 DEF Right, Stale, Exists, Wanted
  <2>3. HandledRight(r, e)
    BY <2>1, <2>2 DEF Progressing
  <2> QED
    BY <2>1, <2>3
    DEF HandledRight, Settled, Ordered, Loops, Exists, TargetsOf, MakeOf, Order, RuleDone, Circular
<1>3. CASE Edit
  BY <1>1, <1>3 DEF Edit, EditSource, EditProject, Clean, Edited
<1>4. CASE Gen \/ MakeStart \/ TestStart \/ NothingToMakeFrom \/ MarkIsFresh \/ Regenerate \/ TouchMark
              \/ NoGoal \/ MakeEnds \/ Interrupt \/ \E q \in Rules : CannotRead(q)
  BY <1>1, <1>4 DEF Gen, MakeStart, TestStart, NothingToMakeFrom, MarkIsFresh, Regenerate, TouchMark,
       NoGoal, MakeEnds, Interrupt, CannotRead, Stop, make, Typed, Positions
<1>5. ASSUME NEW r0 \in Rules, Wants(r0), Readable(r0), NEW e0 \in MakeOf(r0).entries, Ready(r0, e0),
             Skip(r0, e0) \/ Remake(r0, e0) \/ RecipeFails(r0, e0) \/ NoRuleToMake(r0, e0)
      PROVE  HandledRight(r, e)'
  <2>1. Skip(r0, e0) \/ Remake(r0, e0)
    BY <1>1, <1>5 DEF RecipeFails, NoRuleToMake, Stop
  <2>2. UNCHANGED <<project, phase, graph, calm>>
    BY <2>1 DEF Skip, Remake
  <2>3. Stale' = Stale
    <3>1. CASE Skip(r0, e0)
      BY <3>1 DEF Skip, Stale, Exists, Wanted
    <3>2. CASE Remake(r0, e0)
      <4>1. e0 \in AllEntries
        BY <1>5, BuildOfRule DEF Readable, Typed
      <4>2. Outputs(e0) \cap GeneratedFiles = {} /\ Written(Outputs(e0))
        BY <3>2, <4>1, RemakeWrites, OutputsAreTargets, DifferentFiles DEF TargetKinds, GeneratedKinds
      <4> QED
        BY <2>2, <4>2, StaleStays DEF Typed, Positions
    <3> QED
      BY <2>1, <3>1, <3>2
  <2>4. Right
    BY <2>2, <2>3 DEF Right, Wanted
  <2>5. r0 \in RulesOf(project)
    BY <2>4, <1>5, RightRoot DEF Right, Wants, Typed, Positions
  <2>6. e0 \in EntriesOf(project, r0)
    BY <1>5, <2>4, <2>5, RightMakefiles DEF Right
  <2> QED
    BY <1>5, <2>1, <2>2, <2>4, <2>5, <2>6, OneMore
<1>6. ASSUME NEW q \in Rules, CutShort(q)
      PROVE  FALSE
  <2>1. UNCHANGED <<project, disk, newer, phase, graph, calm>> /\ Wants(q) /\ CutOff(Build(q))
    BY <1>1, <1>6 DEF CutShort, Stop
  <2>2. Right
    BY <2>1 DEF Right, Stale, Exists, Wanted
  <2>3. q \in RulesOf(project)
    BY <2>1, <2>2, RightRoot DEF Right, Wants
  <2> QED
    BY <2>1, <2>2, <2>3, RightMakefiles DEF Right
<1> QED
  BY <1>2, <1>3, <1>4, <1>5, <1>6, Steps DEF Edit

\* What a project makes.
LEMMA MakesOf ==
  ASSUME Typed
  PROVE  /\ \A e \in Makes : \E r \in RulesOf(project) : e \in EntriesOf(project, r)
         /\ \A r \in RulesOf(project) : EntriesOf(project, r) \subseteq Makes
         /\ Makes \subseteq AllEntries
<1>1. project \in Project
  BY DEF Typed, Positions
<1>2. \A r \in RulesOf(project) : Generated[project][Build(r)].entries = EntriesOf(project, r)
  BY <1>1, MakefilesOf
<1>3. \A e \in Makes : \E r \in RulesOf(project) : e \in EntriesOf(project, r)
  BY <1>2 DEF Makes
<1>4. \A r \in RulesOf(project) : EntriesOf(project, r) \subseteq Makes
  BY <1>2 DEF Makes
<1> QED
  BY <1>1, <1>3, <1>4, EntriesOfAll

LEMMA ArrivedStays ==
  ASSUME Typed, Arrived, Progressing, [Next]_vars
  PROVE  Arrived'
<1>1. CASE UNCHANGED vars
  BY <1>1 DEF vars, make, Arrived, Makes, Settled, Stale, Exists, Wanted, Ordered, Loops
<1>2. CASE MakeEnds
  <2> SUFFICES ASSUME result' = "ok", Stale' = {}, NEW e \in Makes', e.recipe, Ordered(e)'
               PROVE  Settled(e)'
    BY DEF Arrived
  <2>1. UNCHANGED <<project, disk, newer>>
    BY <1>2 DEF MakeEnds
  <2>2. Right
    BY <1>2, <2>1 DEF MakeEnds, Right, Stale, Exists, Wanted
  <2>3. e \in Makes /\ Ordered(e)
    BY <2>1 DEF Makes, Ordered, Loops
  <2>4. PICK r \in RulesOf(project) : e \in EntriesOf(project, r)
    BY <2>3, MakesOf
  <2>5. r \in Rules /\ r \in RulesOf(Meant(graph)) /\ graph \in Project
    BY <2>2, <2>4, RightRoot, BuildsAreGenerated DEF Right, Typed, Positions
  <2>6. RuleDone(r)
    BY <1>2, <2>2, <2>5 DEF MakeEnds, Wants, Right
  <2>7. e.target \in handled
    BY <2>2, <2>4, <2>6, RightMakefiles DEF RuleDone, Right, TargetsIn
  <2>8. Settled(e)
    BY <2>2, <2>3, <2>4, <2>7 DEF Progressing, HandledRight
  <2> QED
    BY <2>1, <2>8 DEF Settled, Exists
<1>3. ASSUME NEW r \in Rules, Wants(r), NEW e \in MakeOf(r).entries,
             Skip(r, e) \/ Remake(r, e) \/ RecipeFails(r, e) \/ NoRuleToMake(r, e)
      PROVE  result' # "ok"
  BY <1>3 DEF Wants, Skip, Remake, RecipeFails, NoRuleToMake, Typed, Positions
<1>4. CASE Edit \/ Gen \/ MakeStart \/ TestStart \/ NothingToMakeFrom \/ MarkIsFresh \/ Regenerate
             \/ TouchMark \/ NoGoal \/ Interrupt \/ \E r \in Rules : CannotRead(r) \/ CutShort(r)
  <2>1. CASE Edit
    BY <2>1 DEF Edit, EditSource, EditProject, Clean, Edited, Arrived
  <2>2. CASE Gen \/ MakeStart \/ TestStart
    BY <2>2 DEF Gen, MakeStart, TestStart, Arrived
  <2>3. CASE NothingToMakeFrom \/ MarkIsFresh \/ Regenerate \/ TouchMark \/ NoGoal \/ Interrupt
               \/ \E r \in Rules : CannotRead(r) \/ CutShort(r)
    <3>1. result' = result /\ phase # "idle"
      BY <2>3 DEF NothingToMakeFrom, MarkIsFresh, Regenerate, TouchMark, NoGoal, Interrupt, CannotRead,
           CutShort, Wants
    <3> QED
      BY <3>1 DEF Typed, Positions, Arrived
  <2> QED
    BY <1>4, <2>1, <2>2, <2>3
<1> QED
  BY <1>1, <1>2, <1>3, <1>4, Steps DEF Edit, Arrived

LEMMA FirstArrived ==
  Init => Made /\ Progressing /\ Arrived
<1>1. Init => Progressing /\ Arrived
  BY DEF Init, Progressing, Arrived, Right
<1> QED
  BY <1>1, FirstMade

LEMMA AlwaysMade ==
  Spec => [](Typed /\ Made /\ Progressing /\ Arrived)
<1>1. Init => Made /\ Progressing /\ Arrived
  BY FirstArrived
<1>2. Typed /\ Typed' /\ Made /\ Progressing /\ Arrived /\ [Next]_vars => Made' /\ Progressing' /\ Arrived'
  BY MadeStays, ProgressStays, ArrivedStays
<1> QED
  BY <1>1, <1>2, AlwaysTyped, PTL DEF Spec

\* After a make that went well nothing but the files of always_compile would be made
\* again.
THEOREM MakesSettle ==
  Spec => []SettledIsQuiet
<1>1. Typed /\ Arrived => SettledIsQuiet
  <2> SUFFICES ASSUME Typed, Arrived, result = "ok", Stale = {},
                      NEW e \in Makes, e.recipe, Ordered(e), OutOfDate(e)
               PROVE  e.force
    BY DEF SettledIsQuiet
  <2>1. Settled(e)
    BY DEF Arrived
  <2> QED
    BY <2>1 DEF Settled, OutOfDate, Exists
<1> QED
  BY <1>1, AlwaysMade, PTL

\* What is settled and was made by its own recipe is what the recipe makes now.
LEMMA SettledIsExact ==
  ASSUME Typed, Made, Arrived, result = "ok", Stale = {},
         NEW e \in Makes, e.recipe, SeesFiles(e), SeesRecipe(e), Ordered(e)
  PROVE  Exists(e.target) /\ disk[e.target] = Afresh(e)
<1> DEFINE t == e.target
<1>1. Settled(e) /\ e \in AllEntries /\ project \in Project
  BY MakesOf DEF Arrived, Typed, Positions
<1>2. PICK r \in RulesOf(project) : e \in EntriesOf(project, r)
  BY MakesOf
<1>3. t[2] = r /\ t \in Targets /\ t[1] # "artifact" /\ r \in Rules
  BY <1>1, <1>2, EntryOfRule, EntriesOfAll, BuildsAreGenerated
<1>4. /\ t \in DOMAIN disk /\ newer[t] \cap e.needs = {} /\ e.needs \subseteq DOMAIN disk
      /\ e.needs \subseteq Needed[t]
  BY <1>1, NeededFiles DEF Settled, Exists
<1>5. PICK d \in AllEntries : MadeBy(t, d)
  BY <1>3, <1>4 DEF Made
<1>6. d.line = e.line /\ d.reads = e.reads
  <2>1. CASE Build(r) \in e.needs
    <3>1. d \in MakeOf(r).entries
      BY <1>3, <1>4, <1>5, <2>1 DEF MadeBy
    <3>2. d \in EntriesOf(project, r)
      BY <1>2, <3>1, RightMakefiles
    <3>3. d = e
      BY <1>1, <1>2, <1>5, <3>2, OneEntry DEF MadeBy
    <3> QED
      BY <3>3
  <2>2. CASE Build(r) \notin e.needs
    <3>1. d.target = t
      BY <1>5 DEF MadeBy
    <3> QED
      BY <1>3, <2>2, <3>1 DEF SeesRecipe
  <2> QED
    BY <2>1, <2>2
<1>7. ASSUME NEW x \in e.reads
      PROVE  disk[t][2][x] = disk[x]
  <2>1. Noticed(t, x, disk[t][2][x])
    BY <1>5, <1>6 DEF MadeBy
  <2>2. CASE x \in e.needs
    BY <1>4, <2>1, <2>2 DEF Noticed, Exists
  <2>3. CASE x \notin e.needs
    <3> DEFINE s == Lint(r, x[2])
    <3>1. s \in e.needs /\ s[1] = "lint"
      BY <1>3, <2>3 DEF SeesFiles, Lint
    <3>2. x = Source(x[2]) /\ x[1] = "source"
      BY <1>1, <1>2, <2>3, WhatIsRead DEF Source
    <3>3. s \in DOMAIN disk /\ s \notin newer[t]
      BY <1>4, <3>1
    <3>4. PICK f : s = Lint(r, f) /\ LintEntry(r, f) \in EntriesOf(project, r)
      BY <1>1, <1>2, <3>1, StampsAreOwn
    <3>5. f = x[2]
      BY <3>4 DEF Lint
    <3> DEFINE l == LintEntry(r, f)
    <3>6. l.target = s /\ l.recipe /\ Source(x[2]) \in l.needs /\ s[1] # "binary" /\ l \in Makes
      BY <1>2, <3>1, <3>4, <3>5, MakesOf DEF LintEntry
    <3> HIDE DEF l, s
    <3>7. Settled(l)
      BY <3>6 DEF Arrived, Ordered
    <3>8. Source(x[2]) \notin newer[s]
      BY <3>6, <3>7 DEF Settled
    <3>9. s \in Needed[t]
      BY <1>4, <3>1
    <3> QED
      BY <1>3, <2>1, <3>2, <3>3, <3>8, <3>9 DEF Noticed, Exists, s
  <2> QED
    BY <2>2, <2>3
<1>8. disk[t] = <<e.line, [x \in e.reads |-> disk[t][2][x]]>>
  BY <1>5, <1>6 DEF MadeBy
<1>9. [x \in e.reads |-> disk[t][2][x]] = [x \in e.reads |-> disk[x]]
  BY <1>7
<1> QED
  BY <1>4, <1>8, <1>9 DEF Afresh, Exists

\* After a make that went well with the right makefiles each target that make can see
\* everything of is what a build from nothing would make.
THEOREM BuildsAreExact ==
  Spec => []MakeIsExact
<1>1. Typed /\ Made /\ Arrived => MakeIsExact
  BY SettledIsExact DEF MakeIsExact
<1> QED
  BY <1>1, AlwaysMade, PTL

\* A gen on a project that has not changed leaves what objects and stamps depend on.
LEMMA GenSpares ==
  ASSUME Typed, Stale = {}, GenCompletes \/ GenFails, NEW e \in Makes,
         e.target[1] \in {"object", "lint"}, ~OutOfDate(e)
  PROVE  ~OutOfDate(e)'
<1>1. project \in Project /\ e \in AllEntries
  BY MakesOf DEF Typed, Positions
<1>2. PICK r \in RulesOf(project) : e \in EntriesOf(project, r)
  BY MakesOf
<1>3. PICK all, torn : /\ Write(all, torn)
                       /\ all \cup torn \subseteq DOMAIN Generated[project]
                       /\ all \cup torn \subseteq Stale \cup Numbered \cup {Database}
  BY <1>1, GenWrites
<1> DEFINE W == all \cup torn
<1>4. \A x \in W : x[1] \in {"root", "build", "database"}
  BY <1>3 DEF Numbered, RootMakefile, Build, Database
<1>5. Written(W) /\ W \subseteq GeneratedFiles /\ DOMAIN disk \subseteq DOMAIN disk'
  BY <1>1, <1>3, WriteFiles
<1>6. W \cap e.needs = {}
  BY <1>1, <1>2, <1>4, EntryOfRule
<1>7. e.target \in DOMAIN Needed /\ e.target \notin W
  BY <1>1, <1>5, EntriesOfAll, NeededFiles, DifferentFiles
<1>8. e.target \in DOMAIN disk /\ newer[e.target] \cap e.needs = {} /\ ~e.force
        /\ e.needs \subseteq DOMAIN disk
  BY DEF OutOfDate, Exists
<1> HIDE DEF W
<1>9. newer'[e.target] = newer[e.target] \cup (W \cap Needed[e.target])
  BY <1>5, <1>7, <1>8 DEF Written, Newer, Exists
<1>10. newer'[e.target] \cap e.needs = {}
  BY <1>6, <1>8, <1>9
<1>11. e.target \in DOMAIN disk' /\ \A f \in e.needs : f \in DOMAIN disk'
  BY <1>5, <1>8
<1> QED
  BY <1>8, <1>10, <1>11 DEF OutOfDate, Exists

LEMMA EditsAreCounted == Spec => [](edits \in Nat)
<1> DEFINE Counted == edits \in Nat
<1>1. Init => Counted
  BY DEF Init
<1>2. Counted /\ [Next]_vars => Counted'
  <2> SUFFICES ASSUME Counted, [Next]_vars
               PROVE  edits' \in Nat
    OBVIOUS
  <2>1. CASE Edit
    <3>1. edits' = edits + 1
      BY <2>1 DEF Edit, EditSource, EditProject, Clean, Edited
    <3> QED
      BY <3>1
  <2>2. CASE Gen \/ Regenerate
    BY <2>2 DEF Gen, Regenerate, GenCompletes, GenFails, Failure, counts
  <2>3. CASE UNCHANGED vars \/ MakeStart \/ TestStart \/ NothingToMakeFrom \/ MarkIsFresh \/ TouchMark
               \/ NoGoal \/ MakeEnds \/ Interrupt \/ \E r \in Rules : CannotRead(r) \/ CutShort(r)
    BY <2>3 DEF vars, MakeStart, TestStart, NothingToMakeFrom, MarkIsFresh, TouchMark, NoGoal, MakeEnds,
         Interrupt, CannotRead, CutShort, Failure, counts
  <2>4. ASSUME NEW r \in Rules, Wants(r), NEW d \in MakeOf(r).entries,
               Skip(r, d) \/ Remake(r, d) \/ RecipeFails(r, d) \/ NoRuleToMake(r, d)
        PROVE  edits' \in Nat
    BY <2>4 DEF Skip, Remake, RecipeFails, NoRuleToMake, Failure, counts
  <2> QED
    BY <2>1, <2>2, <2>3, <2>4, Steps DEF Edit
<1>3. Spec => []Counted
  <2> HIDE DEF Counted
  <2> QED
    BY <1>1, <1>2, PTL DEF Spec
<1> QED
  BY <1>3

LEMMA RegenStep ==
  ASSUME Typed, edits \in Nat, [Next]_vars, Stale = {}, edits' = edits, phase = "idle" \/ phase' = "regen",
         NEW e \in Makes, e.target[1] \in {"object", "lint"}, ~OutOfDate(e)
  PROVE  ~OutOfDate(e)'
<1>1. ASSUME UNCHANGED <<disk, newer>>
      PROVE  ~OutOfDate(e)'
  BY <1>1 DEF OutOfDate, Exists
<1>2. CASE Gen \/ Regenerate
  BY <1>2, GenSpares DEF Gen, Regenerate
<1>3. CASE UNCHANGED vars \/ MakeStart \/ TestStart \/ NothingToMakeFrom \/ MarkIsFresh \/ NoGoal
             \/ MakeEnds \/ Interrupt \/ \E r \in Rules : CannotRead(r) \/ CutShort(r)
  BY <1>1, <1>3 DEF vars, MakeStart, TestStart, NothingToMakeFrom, MarkIsFresh, NoGoal, MakeEnds,
       Interrupt, CannotRead, CutShort
<1>4. CASE Edit
  <2>1. edits' = edits + 1
    BY <1>4 DEF Edit, EditSource, EditProject, Clean, Edited
  <2> QED
    BY <2>1
<1>5. CASE TouchMark
  BY <1>5 DEF TouchMark
<1>6. ASSUME NEW r \in Rules, Wants(r), NEW d \in MakeOf(r).entries,
             Skip(r, d) \/ Remake(r, d) \/ RecipeFails(r, d) \/ NoRuleToMake(r, d)
      PROVE  FALSE
  BY <1>6 DEF Wants, Skip, Remake, RecipeFails, NoRuleToMake, Stop
<1> QED
  BY <1>2, <1>3, <1>4, <1>5, <1>6, Steps DEF Edit

\* Regenerating recompiles and lints nothing, although the makefiles may be numbered
\* differently.
THEOREM ObjectsAreSpared ==
  Spec => RegenSparesObjects
<1> DEFINE Spared == Stale = {} /\ edits' = edits /\ (phase = "idle" \/ phase' = "regen") =>
        \A e \in Makes : e.target[1] \in {"object", "lint"} /\ ~OutOfDate(e) => ~OutOfDate(e)'
<1>1. Typed /\ edits \in Nat /\ [Next]_vars => [Spared]_vars
  BY RegenStep
<1>2. Spec => [][Spared]_vars
  BY <1>1, AlwaysTyped, EditsAreCounted, PTL DEF Spec
<1> QED
  BY <1>2 DEF RegenSparesObjects
=============================================================================
