------------------------------- MODULE Tarjan -------------------------------
(***************************************************************************)
(* core/algorithms/tarjan.hh: the strongly connected components of the     *)
(* rules that gen was asked to build, by a depth-first search whose call   *)
(* stack is part of the state.                                             *)
(*                                                                         *)
(* The outer loop calls dfs on EVERY requested rule, also on one that an   *)
(* earlier search has visited: such a rule gets a second component, of its *)
(* own, and _scc_id names the last one.  The properties say what survives  *)
(* of "strongly connected components" and what does not.                   *)
(***************************************************************************)
EXTENDS Integers, Sequences, FiniteSets, Reachability

CONSTANTS
  Rule,       \* the build rules
  DepGraphs,  \* the candidates for BuildRule::Dependencies: Rule -> SUBSET Rule
  ArgLists    \* the candidates for the rules named on the command line

ASSUME TarjanAssumption ==
  /\ DepGraphs \subseteq [Rule -> SUBSET Rule]
  /\ ArgLists \subseteq Seq(Rule)

VARIABLES
  Dependencies,  \* what each rule depends on; the order of the vector is left open
  args,          \* the range rg
  next,          \* the position of the loop over rg
  calls,         \* the activations of dfs: the rule and its unvisited dependencies
  dfncnt, dfn, low,
  stack,         \* the rules whose component is not closed, oldest first
  sccs,          \* the components closed so far; id i is sccs[i + 1]
  scc_id         \* BuildRule::_scc_id

graph == <<Dependencies, args>>
search == <<next, calls, dfncnt, dfn, low, stack>>
vars == <<graph, search, sccs, scc_id>>

OnStack == {stack[i] : i \in DOMAIN stack}   \* in_stack
Top == calls[Len(calls)]
Smaller(a, b) == IF a < b THEN a ELSE b

Init ==
  /\ Dependencies \in DepGraphs
  /\ args \in ArgLists
  /\ next = 1
  /\ calls = <<>>
  /\ dfncnt = 0
  /\ dfn = [r \in Rule |-> 0]
  /\ low = [r \in Rule |-> 0]
  /\ stack = <<>>
  /\ sccs = <<>>
  /\ scc_id = [r \in Rule |-> -1]

-----------------------------------------------------------------------------
\* dfs(rule) begins; `below` are the activations it is called from.
Enter(rule, below) ==
  /\ dfncnt' = dfncnt + 1
  /\ dfn' = [dfn EXCEPT ![rule] = dfncnt + 1]
  /\ low' = [low EXCEPT ![rule] = dfncnt + 1]
  /\ stack' = Append(stack, rule)
  /\ calls' = Append(below, [rule |-> rule, todo |-> Dependencies[rule]])

\* Mutation: the dependency stays on the list.
Keep(n) == calls

\* The activations once the innermost one has dealt with its dependency n.
Without(n) == [calls EXCEPT ![Len(calls)].todo = @ \ {n}]

\* The loop over rg, line 89: no test of dfn.
StartAt(rule) ==
  /\ Enter(rule, <<>>)
  /\ next' = next + 1
  /\ UNCHANGED <<graph, sccs, scc_id>>

NextArg ==
  /\ calls = <<>> /\ next <= Len(args)
  /\ StartAt(args[next])

\* dfn[v] == 0: the recursive call.
Descend ==
  /\ calls # <<>>
  /\ \E n \in Top.todo : dfn[n] = 0 /\ Enter(n, Without(n))
  /\ UNCHANGED <<graph, next, sccs, scc_id>>

\* Mutation: an edge to a closed component lowers low, too.
SeenAnywhere(n) == dfn[n] # 0

StillOpen(n) == dfn[n] # 0 /\ n \in OnStack

\* An edge to a rule that is still on the stack.
BackEdge ==
  /\ calls # <<>>
  /\ \E n \in Top.todo :
       /\ StillOpen(n)
       /\ low' = [low EXCEPT ![Top.rule] = Smaller(@, dfn[n])]
       /\ calls' = Without(n)
  /\ UNCHANGED <<graph, next, dfncnt, dfn, stack, sccs, scc_id>>

\* An edge into a component that is closed: nothing to do.
CrossEdge ==
  /\ calls # <<>>
  /\ \E n \in Top.todo :
       /\ dfn[n] # 0 /\ ~StillOpen(n)
       /\ calls' = Without(n)
  /\ UNCHANGED <<graph, next, dfncnt, dfn, low, stack, sccs, scc_id>>

\* The stack from rule upwards: what the two pop sequences remove.
From(rule) == {i \in DOMAIN stack : \E j \in 1..i : stack[j] = rule}

\* Mutation: the component keeps the edges to itself.
AllTargets(rules, id) == UNION {{id[d] : d \in Dependencies[r]} : r \in rules}

\* The ids of the other components that these rules depend on.
DepIds(rules, id) ==
  {i \in AllTargets(rules, id) : \A r \in rules : i # id[r]}

IsRoot(rule) == low[rule] = dfn[rule]

\* Mutation: the caller does not learn of low.
ReturnForgets ==
  /\ calls' = SubSeq(calls, 1, Len(calls) - 1)
  /\ low' = low

\* dfs returns to its caller, which takes over low.
Return ==
  /\ calls' = SubSeq(calls, 1, Len(calls) - 1)
  /\ low' = IF Len(calls) = 1 THEN low
            ELSE LET caller == calls[Len(calls) - 1].rule
                 IN  [low EXCEPT ![caller] = Smaller(@, low[Top.rule])]

CloseComponent ==
  /\ calls # <<>> /\ Top.todo = {} /\ IsRoot(Top.rule)
  /\ LET popped == {stack[i] : i \in From(Top.rule)}
         id     == [r \in Rule |-> IF r \in popped THEN Len(sccs) ELSE scc_id[r]]
     IN  /\ scc_id' = id
         /\ sccs' = Append(sccs, [Rules |-> popped, Deps |-> DepIds(popped, id)])
         /\ stack' = SubSeq(stack, 1, Len(stack) - Cardinality(From(Top.rule)))
  /\ Return
  /\ UNCHANGED <<graph, next, dfncnt, dfn>>

LeaveOpen ==
  /\ calls # <<>> /\ Top.todo = {} /\ ~IsRoot(Top.rule)
  /\ Return
  /\ UNCHANGED <<graph, next, dfncnt, dfn, stack, sccs, scc_id>>

Finished == calls = <<>> /\ next > Len(args)

Search == NextArg \/ Descend \/ BackEdge \/ CrossEdge \/ CloseComponent \/ LeaveOpen

Next == Search \/ (Finished /\ UNCHANGED vars)

Spec == Init /\ [][Next]_vars /\ WF_vars(Search)

-----------------------------------------------------------------------------
(* Reference definitions and properties.                                   *)

\* The rules that each rule needs, itself included.
Reach == Reachable(Dependencies)

Requested == {args[i] : i \in DOMAIN args}
Needed == UNION {Reach[r] : r \in Requested}

\* The numbers of the search; a rule is active once at most, and the open
\* rules are the ones entered and not closed.
TypeOK ==
  /\ next \in 1..(Len(args) + 1)
  /\ \A i, j \in DOMAIN calls : calls[i].rule = calls[j].rule => i = j
  /\ {calls[i].rule : i \in DOMAIN calls} \subseteq OnStack
  /\ \A r \in Rule : /\ low[r] <= dfn[r] /\ dfn[r] <= dfncnt
                     /\ scc_id[r] \in -1..(Len(sccs) - 1)
  /\ \A i \in DOMAIN sccs : sccs[i].Rules \subseteq Rule

\* The rules of one component reach one another, also when a rule was searched
\* twice: what is linked between --start-group and --end-group is a real cycle.
ComponentsAreCycles ==
  LET reach == Reach IN
  \A i \in DOMAIN sccs : \A r \in sccs[i].Rules : sccs[i].Rules \subseteq reach[r]

\* Deps names components closed earlier only (so never -1 as an unsigned, never
\* itself): the graph of the components has no cycle for topological_sort to
\* stop at, and the assertions of lines 68 and 77 hold.
DepsPointBack ==
  \A i \in DOMAIN sccs : \A d \in sccs[i].Deps : d \in 0..(i - 2)

\* When no requested rule needs another one, the components are exactly the
\* strongly connected components of what is needed, each once, and Deps names
\* exactly the other ones that a rule of the component depends on.
RequestsIndependent ==
  LET reach == Reach IN
  \A i, j \in DOMAIN args : i # j => args[j] \notin reach[args[i]]

ExactWhenIndependent ==
  Finished /\ RequestsIndependent =>
    LET reach == Reach IN
    /\ {sccs[i].Rules : i \in DOMAIN sccs} = {{s \in reach[r] : r \in reach[s]} : r \in Needed}
    /\ \A i, j \in DOMAIN sccs : sccs[i].Rules \cap sccs[j].Rules # {} => i = j
    /\ \A i, j \in DOMAIN sccs :
         j - 1 \in sccs[i].Deps <=>
           i # j /\ \E r \in sccs[i].Rules : Dependencies[r] \cap sccs[j].Rules # {}
=============================================================================
