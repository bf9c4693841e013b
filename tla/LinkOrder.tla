----------------------------- MODULE LinkOrder -----------------------------
(***************************************************************************)
(* How a cc_binary gets its link line: generate_all runs Tarjan over the   *)
(* requested rules, the compiler of the binary sorts the components and    *)
(* keeps the ones that the binary's component reaches, each between        *)
(* --start-group and --end-group (cc_binary_compiler.cc).                  *)
(*                                                                         *)
(* A rule that was requested and is needed by an earlier request has two   *)
(* components, so this module asks what matters for linking: is a library  *)
(* still always behind its users?                                          *)
(***************************************************************************)
EXTENDS Tarjan

VARIABLES phase, scanned, ingress_cnt, Q, sorted, edges

Sort == INSTANCE TopologicalSort

sortVars == <<phase, scanned, ingress_cnt, Q, sorted, edges>>
linkVars == <<vars, sortVars>>

LinkInit == Init /\ Sort!SortInit

Analyse == Search /\ UNCHANGED sortVars

Order == Finished /\ Sort!SortStep /\ UNCHANGED vars

Linked == phase = "done"

LinkNext ==
  \/ Analyse
  \/ Order
  \/ Linked /\ UNCHANGED linkVars

LinkSpec == LinkInit /\ [][LinkNext]_linkVars /\ WF_linkVars(Analyse \/ Order)

-----------------------------------------------------------------------------
\* Mutation: only the components the binary depends on directly.
DirectDeps(id) == Sort!Deps(id)

\* The dfs over Deps of lines 117-124: everything below id, without id.
Visited(id) ==
  LET below == Reachable([n \in Sort!Ids |-> Sort!Deps(n)])
  IN  UNION {below[d] : d \in Sort!Deps(id)}

\* The groups of the link line, as positions in the result of the sort, which
\* is the order they are written in (deps_and_flags).
LinkLine(rule) ==
  LET visited == Visited(scc_id[rule])
  IN  {i \in DOMAIN sorted : sorted[i] \in visited}

Group(i) == sccs[sorted[i] + 1].Rules

\* Mutation: the dfs of the root makefile leaves out where it starts.
BelowRequests == UNION {Visited(scc_id[r]) : r \in Requested}

\* The dfs of RootCompiler::Compile from the requested rules.
RootVisited == UNION {{scc_id[r]} \cup Visited(scc_id[r]) : r \in Requested}

\* The components whose rules get targets in the root makefile, likewise.
RootLine ==
  LET visited == RootVisited
  IN  {i \in DOMAIN sorted : sorted[i] \in visited}

\* Whatever was requested, in whatever order: every library of the line that a
\* library of the line needs is in the same group or in a later one, so that a
\* linker that reads the line once finds its symbols.
UsersFirst ==
  Linked => \A rule \in Needed :
    LET line == LinkLine(rule) IN
    \A i \in line : \A r \in Group(i) : \A d \in Dependencies[r] :
      \E j \in line : j >= i /\ d \in Group(j)

\* Everything a binary needs is on its line, apart from what is in a cycle with
\* the binary itself; nothing else is.
LineComplete ==
  Linked => \A rule \in Needed :
    LET line  == LinkLine(rule)
        reach == Reach
        below == reach[rule] \ {rule}
    IN  /\ UNION {Group(i) : i \in line} \subseteq below \cup {rule}
        /\ \A s \in below : rule \in reach[s] \/ \E i \in line : s \in Group(i)

\* The root makefile has targets for exactly the rules that were compiled, and
\* a rule whose targets it defines twice was requested by name although another
\* request (a repetition of it, perhaps) needs it.
RootComplete ==
  Linked =>
    LET line  == RootLine
        reach == Reach
        Others(r) == {args[k] : k \in {k \in DOMAIN args :
                                         \E m \in DOMAIN args : m # k /\ args[m] = r}}
    IN  /\ UNION {Group(i) : i \in line} = Needed
        /\ \A i, j \in line : i # j =>
             \A r \in Group(i) \cap Group(j) :
               r \in Requested /\ \E a \in Others(r) : r \in reach[a]

\* Both algorithms end.
LinkEnds == <>Linked

\* The state of both algorithms is well typed: the counts of the sort never wrap.
LinkTypeOK == TypeOK /\ Sort!SortTypeOK

\* A component is sorted only after every component that depends on it, and in
\* the end all of them are sorted, each once.
DependentsFirst == Sort!DependentsFirst /\ Sort!EachOnce
=============================================================================
