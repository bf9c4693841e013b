---------------------------- MODULE RuleMakefile ----------------------------
(***************************************************************************)
(* What the makefile compilers (impls/compilers/makefile/) write for a     *)
(* project: flags.make, toolchain.make and build.make in the working       *)
(* folder of each rule, and the Makefile and compile_commands.json at the  *)
(* project's root.                                                         *)
(*                                                                         *)
(* A project is a record [marker, settings, rules]: marker is the file that*)
(* marks its root, settings are the fields that JK_ROOT gives ("tools",    *)
(* "compile" and "link" stand for all of them), and rules maps each rule to*)
(* [kind, sources, headers, nolint, force, flags, deps], with all patterns *)
(* expanded.  The compilers only see Loaded(p), a record [config, rules],  *)
(* which is the p of the operators from there on.  A file is a tuple: its  *)
(* kind, then its rule or name.                                            *)
(*                                                                         *)
(* build.make has a set of entries, one for each file (Makefile::Target):  *)
(*   needs   the prerequisites                                             *)
(*   reads   the files the recipe's result depends on                      *)
(*   line    what else the result depends on: the command itself           *)
(*   recipe  FALSE if there is none                                        *)
(*   force   TRUE if jk_force, a phony target, is a prerequisite           *)
(* One build type is modelled: the targets of another share only the lint  *)
(* stamps.                                                                 *)
(***************************************************************************)
EXTENDS FiniteSets, Reachability

CONSTANTS
  IllTyped,   \* a setting of the wrong type
  Extension,  \* Extension[f]: "c", "cc" (for all of C++), or another one
  Includes    \* Includes[f]: the headers that compiling f reads

Kinds == {"cc_library", "cc_binary", "cc_test", "proto_library", "shell_script"}

Source(f)    == <<"source", f>>
Flags(r)     == <<"flags", r>>
Toolchain(r) == <<"toolchain", r>>
Build(r)     == <<"build", r>>
RootMakefile == <<"root">>
Database == <<"database">>
Lint(r, f)   == <<"lint", r, f>>
Object(r, input) == <<"object", r, input>>

\* The configuration when JK_ROOT is empty or not there.
Default == [tools |-> "gcc", compile |-> "-Wall", link |-> "-levent"]

\* A setting that is not there, or has the wrong type, has its default value.
ExtractValue(settings, field) ==
  IF field \in DOMAIN settings /\ settings[field] # IllTyped
    THEN settings[field] ELSE Default[field]

\* Found by walking up from the working directory, or gen throws.
ResolveFrom(p) == p.marker \in {"JK_ROOT", "BLADE_ROOT"}

\* The old marker is as good as an empty JK_ROOT: it is never parsed.
Settings(p) == IF p.marker = "JK_ROOT" THEN p.settings ELSE <<>>

Config(p) == [field \in DOMAIN Default |-> ExtractValue(Settings(p), field)]

\* What gen makes of a project once it has found its root.
Loaded(p) == [config |-> Config(p), rules |-> p.rules]

\* ExportedFiles: what a dependent is linked with.
Exported(p, r) ==
  LET kind == p.rules[r].kind
  IN  <<IF kind \in {"cc_binary", "cc_test"} THEN "binary"
        ELSE IF kind = "shell_script" THEN "artifact" ELSE "library", r>>

\* Everything a rule needs, without the rule itself.
Below(p, r) == Reachable([q \in DOMAIN p.rules |-> p.rules[q].deps])[r] \ {r}

-----------------------------------------------------------------------------
(* The entries of build.make.                                              *)

IsCSourceFile(f) == Extension[f] = "c"

\* What protoc generates is C++.
IsCppSourceFile(f, input) == Extension[f] = "cc" \/ input[1] = "pb.cc"

\* The compiler for a file.  One of another kind is logged, and has no recipe.
Compiler(f, input) ==
  IF IsCppSourceFile(f, input) THEN "CXX" ELSE IF IsCSourceFile(f) THEN "CC" ELSE "none"

Linted(rule) == (rule.sources \cup rule.headers) \ rule.nolint
HeaderLints(r, rule) == {Lint(r, h) : h \in rule.headers \cap Linted(rule)}

LintEntry(r, f) ==
  [target |-> Lint(r, f), needs |-> {Source(f), Toolchain(r)}, reads |-> {Source(f)},
   line |-> "cpplint", recipe |-> TRUE, force |-> FALSE]

\* Whatever the makefiles list.
Read(r, f, input) == {Flags(r), Toolchain(r), input} \cup {Source(g) : g \in Includes[f]}

\* stamps: the file itself, unless it is not linted, and the linted headers.  A
\* file that has no compiler is not a prerequisite itself, nor are the headers.
ObjectNeeds(r, f, input, stamps) ==
  {Flags(r), Toolchain(r)}
    \cup (IF Compiler(f, input) = "none" THEN {Lint(r, g) : g \in stamps \cap {f}}
          ELSE {input} \cup {Lint(r, g) : g \in stamps})

\* Mutation: an object depends on the build.make it is written in.
ObjectOfBuild(r, rule, f, input, stamps) ==
  [target |-> Object(r, input), needs |-> ObjectNeeds(r, f, input, stamps) \cup {Build(r)},
   reads  |-> Read(r, f, input), line |-> Compiler(f, input),
   recipe |-> Compiler(f, input) # "none", force |-> f \in rule.force]

ObjectEntry(r, rule, f, input, stamps) ==
  [target |-> Object(r, input), needs |-> ObjectNeeds(r, f, input, stamps),
   reads  |-> Read(r, f, input), line |-> Compiler(f, input),
   recipe |-> Compiler(f, input) # "none", force |-> f \in rule.force]

\* The old archive is removed first: the new one holds these objects only.
ArchiveEntry(r, objects, lints) ==
  [target |-> <<"library", r>>,
   needs  |-> objects \cup lints \cup {Build(r), Toolchain(r), Flags(r)},
   reads  |-> objects, line |-> "ar", recipe |-> TRUE, force |-> FALSE]

LinkEntry(p, r, objects, lints) ==
  LET artifacts == {Exported(p, q) : q \in Below(p, r)}
  IN  [target |-> <<"binary", r>>,
       needs  |-> objects \cup lints \cup artifacts \cup {Build(r)},
       reads  |-> objects \cup artifacts,
       line   |-> p.config.link, recipe |-> TRUE, force |-> FALSE]

\* lint_headers and add_source_files_commands
CCEntries(r, rule) ==
  {LintEntry(r, f) : f \in Linted(rule)}
    \cup {ObjectEntry(r, rule, f, Source(f), ({f} \cup rule.headers) \cap Linted(rule)) :
            f \in rule.sources}

LibraryEntries(p, r) ==
  LET rule == p.rules[r]
  IN  CCEntries(r, rule)
        \cup {ArchiveEntry(r, {Object(r, Source(f)) : f \in rule.sources}, HeaderLints(r, rule))}

BinaryEntries(p, r) ==
  LET rule == p.rules[r]
  IN  CCEntries(r, rule)
        \cup {LinkEntry(p, r, {Object(r, Source(f)) : f \in rule.sources}, HeaderLints(r, rule))}

\* protoc writes the header together with the source; no target asks for it.
ProtocEntry(r, f) ==
  [target |-> <<"pb.cc", r, f>>, needs |-> {Source(f)}, reads |-> {Source(f)},
   line |-> "protoc", recipe |-> TRUE, force |-> FALSE]

\* The generated sources are never linted.
ProtoEntries(p, r) ==
  LET rule == p.rules[r]
  IN  {ProtocEntry(r, f) : f \in rule.sources}
        \cup {ObjectEntry(r, rule, f, <<"pb.cc", r, f>>, {}) : f \in rule.sources}
        \cup {ArchiveEntry(r, {Object(r, <<"pb.cc", r, f>>) : f \in rule.sources}, {})}

\* The script installs the artifact, then CHECK_POINT is touched; the entry of
\* the artifact has no recipe.
ScriptEntries(p, r) ==
  LET scripts == {Source(f) : f \in p.rules[r].sources}
  IN  {[target |-> <<"checkpoint", r>>, needs |-> scripts, reads |-> scripts,
        line |-> "script", recipe |-> TRUE, force |-> FALSE],
       [target |-> <<"artifact", r>>, needs |-> {<<"checkpoint", r>>}, reads |-> scripts,
        line |-> "script", recipe |-> FALSE, force |-> FALSE]}

\* A test is a binary, with the target "test" besides.
Entries(p, r) ==
  LET kind == p.rules[r].kind
  IN  CASE kind = "cc_library"    -> LibraryEntries(p, r)
        [] kind \in {"cc_binary", "cc_test"} -> BinaryEntries(p, r)
        [] kind = "proto_library" -> ProtoEntries(p, r)
        [] kind = "shell_script"  -> ScriptEntries(p, r)

\* clean_statements: the target "clean" spares the stamps of linted sources, and
\* what protoc has written.
Cleaned(p, r) ==
  HeaderLints(r, p.rules[r])
    \cup {t \in {e.target : e \in Entries(p, r)} : t[1] \notin {"lint", "pb.cc"}}

BuildMake(p, r) ==
  [entries |-> Entries(p, r), clean |-> Cleaned(p, r), test |-> p.rules[r].kind = "cc_test"]

-----------------------------------------------------------------------------
(* The other makefiles.                                                    *)

\* Include and define flags are inherited from all the rules below.
FlagsMake(p, r) == <<p.config.compile, [q \in {r} \cup Below(p, r) |-> p.rules[q].flags]>>

\* The tools and where they are found.
ToolchainMake(p) == p.config.tools

IsCC(p, r) == p.rules[r].kind # "shell_script"

\* The order in which the root makefile has the rules made, and the rules of its
\* target "test".
Root(p) ==
  [order |-> [r \in DOMAIN p.rules |-> p.rules[r].deps],
   tests |-> {r \in DOMAIN p.rules : p.rules[r].kind = "cc_test"}]

\* Only a cc_library has a compiler for compile_commands.json; the tasks add
\* their entries in any order.
Commands(p) ==
  LET libraries == {r \in DOMAIN p.rules : p.rules[r].kind = "cc_library"}
  IN  [r \in libraries |-> <<p.rules[r].sources, ToolchainMake(p), FlagsMake(p, r)>>]

\* Everything gen writes, each file with its content.
Makefiles(p) ==
  LET cc == {r \in DOMAIN p.rules : IsCC(p, r)}
      all == {RootMakefile, Database} \cup {Build(r) : r \in DOMAIN p.rules}
               \cup {Flags(r) : r \in cc} \cup {Toolchain(r) : r \in cc}
  IN  [f \in all |->
         CASE f[1] = "root"      -> Root(p)
           [] f[1] = "database"  -> Commands(p)
           [] f[1] = "build"     -> BuildMake(p, f[2])
           [] f[1] = "flags"     -> FlagsMake(p, f[2])
           [] f[1] = "toolchain" -> ToolchainMake(p)]
=============================================================================
