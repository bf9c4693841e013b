------------------------- MODULE MCIncrementalBuild -------------------------
(* IncrementalBuild on projects of two rules.                              *)
EXTENDS IncrementalBuild, Sequences, TLC

CONSTANTS lib, app, tool, f, g, h, k, odd

Rule(kind, sources, headers, deps) ==
  [kind |-> kind, sources |-> sources, headers |-> headers, nolint |-> {f, g},
   force |-> {}, flags |-> "f1", deps |-> deps]

\* An application, and the library it is linked with.
Base == [marker |-> "JK_ROOT", settings |-> <<>>,
         rules |-> (lib :> Rule("cc_library", {f}, {h}, {}))
                     @@ (app :> Rule("cc_binary", {g}, {}, {lib}))]

\* There are other tools, and flags of the wrong type; or the library has other
\* flags, a second source, which is always compiled, and binaries are linked in
\* another way; or it is another kind of rule; or the two are libraries that
\* depend on each other, one with a source that is no C; or the application is a
\* test; or a script has taken the library's place; or the project has the old
\* marker, or none.
Tuned   == [Base EXCEPT !.settings = ("tools" :> "clang") @@ ("compile" :> IllTyped)]
Grown   == [Base EXCEPT !.rules[lib].sources = {f, k}, !.rules[lib].force = {k},
                        !.rules[lib].flags = "f2", !.settings = ("link" :> "-lrt")]
Proto   == [Base EXCEPT !.rules[lib] = Rule("proto_library", {k}, {}, {})]
Script  == [Base EXCEPT !.rules = (tool :> Rule("shell_script", {k}, {}, {}))
                                    @@ (app :> Rule("cc_binary", {g}, {}, {tool}))]
Circle  == [Base EXCEPT !.rules[lib].deps = {app},
                        !.rules[app] = Rule("cc_library", {g, odd}, {}, {lib})]
Tested  == [Base EXCEPT !.rules[app].kind = "cc_test"]
Blade   == [Tuned EXCEPT !.marker = "BLADE_ROOT"]
Lost    == [Base EXCEPT !.marker = "none"]

Projects == ("base" :> Base) @@ ("tuned" :> Tuned) @@ ("grown" :> Grown)
              @@ ("proto" :> Proto) @@ ("script" :> Script) @@ ("circle" :> Circle)
              @@ ("tested" :> Tested) @@ ("blade" :> Blade) @@ ("lost" :> Lost)
Names == DOMAIN Projects
BaseOnly == {"base"}
SomeChanges ==
  {<<"base", p>> : p \in Names \ {"base"}}
    \cup {<<"grown", "base">>, <<"script", "base">>, <<"blade", "base">>}

CutNames == [p \in Names |-> p \o "~"]

SomeIncludes == (f :> {h}) @@ (g :> {}) @@ (h :> {}) @@ (k :> {}) @@ (odd :> {})
Extensions == (f :> "cc") @@ (g :> "cc") @@ (h :> "h") @@ (k :> "c") @@ (odd :> "rs")
=============================================================================
