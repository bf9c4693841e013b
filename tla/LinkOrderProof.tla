--------------------------- MODULE LinkOrderProof ---------------------------
(***************************************************************************)
(* Theorems about Tarjan and LinkOrder, for every set of rules, every      *)
(* graph of dependencies and every list of requests, repetitions included: *)
(* first the components that the algorithm finds, then, from its invariant *)
(* and one of the sort, the order of a link line.                          *)
(***************************************************************************)
EXTENDS LinkOrder, FiniteSetTheorems, WellFoundedInduction, TLAPS

Call == [rule : Rule, todo : SUBSET Rule]
Component == [Rules : SUBSET Rule, Deps : SUBSET Int]

-----------------------------------------------------------------------------
(* Tarjan's algorithm: its inductive invariant.                            *)

Typed ==
  /\ Dependencies \in [Rule -> SUBSET Rule]
  /\ args \in Seq(Rule)
  /\ next \in 1..(Len(args) + 1)
  /\ calls \in Seq(Call)
  /\ dfncnt \in Nat
  /\ dfn \in [Rule -> Nat]
  /\ low \in [Rule -> Nat]
  /\ stack \in Seq(Rule)
  /\ sccs \in Seq(Component)
  /\ scc_id \in [Rule -> Int]

\* The numbers grow along the stack and along the calls, which are made by rules
\* on the stack; nothing on the stack is older than the first call.
Numbered ==
  /\ \A r \in Rule : low[r] <= dfn[r] /\ dfn[r] <= dfncnt
  /\ \A i, j \in DOMAIN stack : i < j => dfn[stack[i]] < dfn[stack[j]]
  /\ \A s \in OnStack : calls # <<>> /\ 1 <= dfn[s] /\ dfn[calls[1].rule] <= dfn[s]
  /\ \A i, j \in DOMAIN calls : i < j => dfn[calls[i].rule] < dfn[calls[j].rule]
  /\ \A i \in DOMAIN calls : /\ calls[i].rule \in OnStack
                             /\ calls[i].todo \subseteq Dependencies[calls[i].rule]

\* low[s] is the number of a rule on the stack that s needs.
LowIsReached ==
  \A s \in OnStack : \E t \in OnStack : low[s] = dfn[t] /\ t \in Reach[s]

\* A call needs whatever is above it on the stack.
CallsReachUp ==
  \A s \in OnStack : \A j \in DOMAIN calls :
    dfn[calls[j].rule] <= dfn[s] => s \in Reach[calls[j].rule]

\* Whatever is on the stack needs the call below it, and so the ones after it.
ReachesCalls ==
  \A s \in OnStack : \A j \in DOMAIN calls :
    (\A i \in DOMAIN calls : i > j => dfn[s] < dfn[calls[i].rule]) => calls[j].rule \in Reach[s]

\* dfs(r) has dealt with the dependency d, if it has begun.
Dealt(r, d) ==
  d \in Dependencies[r] /\ \A j \in DOMAIN calls : calls[j].rule = r => d \notin calls[j].todo

\* It has entered it...
DealtIsEntered ==
  \A r \in Rule : \A d \in Rule : dfn[r] # 0 /\ Dealt(r, d) => dfn[d] # 0

\* ... and if that one is still open, the call below r knows its number.
LowKnows ==
  \A r, d \in OnStack : \A j \in DOMAIN calls :
    /\ Dealt(r, d)
    /\ dfn[calls[j].rule] <= dfn[r]
    /\ \A i \in DOMAIN calls : i > j => dfn[r] < dfn[calls[i].rule]
    => low[calls[j].rule] <= dfn[d]

\* An entered rule is on the stack or in a component...
Closed ==
  \A r \in Rule : /\ scc_id[r] \in -1..(Len(sccs) - 1)
                  /\ dfn[r] # 0 => r \in OnStack \/ scc_id[r] >= 0
                  /\ scc_id[r] >= 0 => dfn[r] # 0 /\ r \in sccs[scc_id[r] + 1].Rules

\* ... the last of which is the one that scc_id names.
LastNamed ==
  \A i \in DOMAIN sccs : sccs[i].Rules # {} /\ \A r \in sccs[i].Rules : scc_id[r] >= i - 1

\* A dependency of a component is inside or in one that Deps names, and Deps
\* names nothing else.
DepsCover ==
  \A i \in DOMAIN sccs :
    /\ \A r \in sccs[i].Rules : \A d \in Dependencies[r] :
         d \in sccs[i].Rules \/ \E e \in sccs[i].Deps : d \in sccs[e + 1].Rules
    /\ \A e \in sccs[i].Deps :
         \E r \in sccs[i].Rules : \E d \in Dependencies[r] : d \in sccs[e + 1].Rules

\* The rule was requested, and another request needs it.
RequestedAndNeeded(r) ==
  \E k, m \in DOMAIN args : k # m /\ args[m] = r /\ r \in Reach[args[k]]

\* What was entered is needed by a request that has been searched from; only
\* what was requested, too, comes twice.
Searched ==
  /\ \A k \in DOMAIN args : k < next => dfn[args[k]] # 0
  /\ \A r \in Rule : dfn[r] # 0 => \E k \in DOMAIN args : k < next /\ r \in Reach[args[k]]
  /\ \A r \in OnStack : scc_id[r] >= 0 => RequestedAndNeeded(r)
  /\ \A i, j \in DOMAIN sccs : i # j =>
       \A r \in sccs[i].Rules \cap sccs[j].Rules : RequestedAndNeeded(r)

Walk == LowIsReached /\ CallsReachUp /\ ReachesCalls /\ DealtIsEntered /\ LowKnows
Result == Closed /\ LastNamed /\ DepsCover /\ ComponentsAreCycles /\ DepsPointBack

IInv == Typed /\ Numbered /\ Walk /\ Result /\ Searched

-----------------------------------------------------------------------------
(* Lemmas about the search.                                                *)

\* What a rule needs is closed under dependencies, and every closed set that
\* contains the rule contains all of it.
LEMMA ReachFacts ==
  ASSUME Dependencies \in [Rule -> SUBSET Rule], NEW r \in Rule
  PROVE  /\ Reach[r] \subseteq Rule
         /\ r \in Reach[r]
         /\ \A s \in Reach[r] : Dependencies[s] \subseteq Reach[r]
         /\ \A S \in SUBSET Rule :
              r \in S /\ (\A s \in S : Dependencies[s] \subseteq S) => Reach[r] \subseteq S
<1> DEFINE closed == ClosedSets(Dependencies)
<1>1. DOMAIN Dependencies = Rule
  OBVIOUS
<1>2. Reach[r] = {s \in Rule : \A S \in closed : r \in S => s \in S}
  BY <1>1 DEF Reach, Reachable
<1>3. closed = {S \in SUBSET Rule : \A s \in S : Dependencies[s] \subseteq S}
  BY <1>1 DEF ClosedSets
<1> QED
  BY <1>2, <1>3

LEMMA ReachIsTransitive ==
  ASSUME Dependencies \in [Rule -> SUBSET Rule], NEW r \in Rule, NEW s \in Reach[r]
  PROVE  Reach[s] \subseteq Reach[r]
<1>1. Reach[r] \in SUBSET Rule /\ \A q \in Reach[r] : Dependencies[q] \subseteq Reach[r]
  BY ReachFacts
<1> QED
  BY <1>1, ReachFacts

LEMMA SequenceFacts ==
  ASSUME NEW S, NEW s \in Seq(S)
  PROVE  /\ Len(s) \in Nat /\ DOMAIN s = 1..Len(s)
         /\ \A i \in DOMAIN s : s[i] \in S
         /\ s # <<>> <=> Len(s) >= 1
OBVIOUS

LEMMA ComponentFacts ==
  ASSUME Typed
  PROVE  /\ Len(sccs) \in Nat /\ DOMAIN sccs = 1..Len(sccs)
         /\ \A i \in DOMAIN sccs : sccs[i].Rules \subseteq Rule /\ sccs[i].Deps \subseteq Int
<1>1. sccs \in Seq(Component)
  BY DEF Typed
<1>2. /\ Len(sccs) \in Nat /\ DOMAIN sccs = 1..Len(sccs)
      /\ \A i \in DOMAIN sccs : sccs[i] \in Component
  BY <1>1, SequenceFacts
<1> QED
  BY <1>2 DEF Component

LEMMA AppendFacts ==
  ASSUME NEW S, NEW s \in Seq(S), NEW e \in S, NEW t, t = Append(s, e)
  PROVE  /\ t \in Seq(S) /\ Len(t) = Len(s) + 1
         /\ \A i \in 1..Len(s) : t[i] = s[i]
         /\ t[Len(s) + 1] = e
OBVIOUS

LEMMA GraphUnchanged ==
  ASSUME UNCHANGED graph
  PROVE  Dependencies' = Dependencies /\ args' = args /\ Reach' = Reach
BY DEF graph, Reach

LEMMA InitHolds == Init => IInv
<1> SUFFICES ASSUME Init
             PROVE  IInv
  OBVIOUS
<1>1. Typed
  BY TarjanAssumption DEF Init, Typed, Call, Component
<1>2. OnStack = {}
  BY DEF Init, OnStack
<1>3. Numbered /\ Walk
  BY <1>1, <1>2 DEF Init, Numbered, Walk, LowIsReached, CallsReachUp, ReachesCalls, DealtIsEntered, LowKnows
<1>4. Result
  BY <1>1 DEF Init, Result, Closed, LastNamed, DepsCover, ComponentsAreCycles, DepsPointBack
<1>5. Searched
  BY <1>1, <1>2 DEF Init, Searched, Typed
<1> QED
  BY <1>1, <1>3, <1>4, <1>5 DEF IInv

-----------------------------------------------------------------------------
(* dfs begins.                                                             *)

\* Whatever the calls below, the new rule gets the greatest number and the top
\* of the stack.
LEMMA EnterFacts ==
  ASSUME Typed, Numbered, NEW rule \in Rule, rule \notin OnStack,
         NEW below \in Seq(Call), Enter(rule, below)
  PROVE  /\ calls' \in Seq(Call) /\ Len(calls') = Len(below) + 1
         /\ \A i \in 1..Len(below) : calls'[i] = below[i]
         /\ calls'[Len(below) + 1] = [rule |-> rule, todo |-> Dependencies[rule]]
         /\ stack' \in Seq(Rule) /\ OnStack' = OnStack \cup {rule}
         /\ \A i, j \in DOMAIN stack' : i < j => dfn'[stack'[i]] < dfn'[stack'[j]]
         /\ dfncnt' = dfncnt + 1 /\ dfn' \in [Rule -> Nat] /\ low' \in [Rule -> Nat]
         /\ dfn'[rule] = dfncnt + 1 /\ low'[rule] = dfncnt + 1
         /\ \A r \in Rule \ {rule} : dfn'[r] = dfn[r] /\ low'[r] = low[r]
<1>1. [rule |-> rule, todo |-> Dependencies[rule]] \in Call
  BY DEF Typed, Call
<1>2. /\ calls' \in Seq(Call) /\ Len(calls') = Len(below) + 1
      /\ \A i \in 1..Len(below) : calls'[i] = below[i]
      /\ calls'[Len(below) + 1] = [rule |-> rule, todo |-> Dependencies[rule]]
  <2> DEFINE e == [rule |-> rule, todo |-> Dependencies[rule]]
  <2>1. calls' = Append(below, e)
    BY DEF Enter
  <2> HIDE DEF e
  <2>2. e \in Call
    BY <1>1 DEF e
  <2>3. /\ calls' \in Seq(Call) /\ Len(calls') = Len(below) + 1
        /\ \A i \in 1..Len(below) : calls'[i] = below[i]
        /\ calls'[Len(below) + 1] = e
    BY <2>1, <2>2, AppendFacts
  <2> QED
    BY <2>3 DEF e
<1>3. /\ stack' \in Seq(Rule) /\ Len(stack') = Len(stack) + 1
      /\ \A i \in 1..Len(stack) : stack'[i] = stack[i]
      /\ stack'[Len(stack) + 1] = rule
      /\ stack \in Seq(Rule) /\ Len(stack) \in Nat
      /\ DOMAIN stack = 1..Len(stack) /\ DOMAIN stack' = 1..(Len(stack) + 1)
  <2>1. stack \in Seq(Rule) /\ stack' = Append(stack, rule)
    BY DEF Enter, Typed
  <2>2. /\ stack' \in Seq(Rule) /\ Len(stack') = Len(stack) + 1
        /\ \A i \in 1..Len(stack) : stack'[i] = stack[i]
        /\ stack'[Len(stack) + 1] = rule
    BY <2>1, AppendFacts
  <2>3. Len(stack) \in Nat /\ DOMAIN stack = 1..Len(stack) /\ DOMAIN stack' = 1..Len(stack')
    BY <2>1, <2>2, SequenceFacts
  <2> QED
    BY <2>1, <2>2, <2>3
<1>4. /\ dfncnt' = dfncnt + 1 /\ dfn' \in [Rule -> Nat] /\ low' \in [Rule -> Nat]
      /\ dfn'[rule] = dfncnt + 1 /\ low'[rule] = dfncnt + 1
      /\ \A r \in Rule \ {rule} : dfn'[r] = dfn[r] /\ low'[r] = low[r]
  BY DEF Enter, Typed
<1>5. OnStack' = OnStack \cup {rule}
  <2>1. OnStack = {stack[i] : i \in 1..Len(stack)} /\ OnStack' = {stack'[i] : i \in 1..(Len(stack) + 1)}
    BY <1>3 DEF OnStack
  <2> QED
    BY <2>1, <1>3
<1>6. \A i \in 1..Len(stack) : stack'[i] \in Rule \ {rule}
  BY <1>3, SequenceFacts DEF OnStack
<1>7. ASSUME NEW i \in DOMAIN stack', NEW j \in DOMAIN stack', i < j
      PROVE  dfn'[stack'[i]] < dfn'[stack'[j]]
  <2>1. i \in 1..Len(stack) /\ j \in 1..(Len(stack) + 1) /\ Len(stack) \in Nat
    BY <1>3, <1>7
  <2>2. CASE j = Len(stack) + 1
    <3> DEFINE q == stack[i]
    <3>1. q \in Rule \ {rule} /\ stack'[i] = q
      BY <2>1, <1>3, <1>6
    <3>2. dfn'[q] = dfn[q] /\ dfn[q] \in Nat /\ dfn[q] <= dfncnt /\ dfncnt \in Nat
      BY <3>1, <1>4 DEF Numbered, Typed
    <3>3. stack'[j] = rule /\ dfn'[rule] = dfncnt + 1
      BY <2>2, <1>3, <1>4
    <3> HIDE DEF q
    <3> QED
      BY <3>1, <3>2, <3>3
  <2>3. CASE j \in 1..Len(stack)
    <3>1. i \in DOMAIN stack /\ j \in DOMAIN stack
      BY <2>1, <2>3, <1>3, <1>7
    <3>2. dfn'[stack'[i]] = dfn[stack[i]] /\ dfn'[stack'[j]] = dfn[stack[j]]
      BY <3>1, <1>3, <1>4, <1>6
    <3> QED
      BY <3>1, <3>2, <1>7 DEF Numbered
  <2> QED
    BY <2>1, <2>2, <2>3
<1> QED
  BY <1>2, <1>3, <1>4, <1>5, <1>7

LEMMA NextArgKeeps == IInv /\ NextArg => IInv'
<1> SUFFICES ASSUME IInv, NextArg
             PROVE  IInv'
  OBVIOUS
<1> USE DEF IInv
<1> DEFINE rule == args[next]
<1>1. /\ calls = <<>> /\ next \in DOMAIN args /\ next \in Nat /\ rule \in Rule
      /\ next' \in 1..(Len(args) + 1) /\ next' = next + 1
      /\ Enter(rule, <<>>) /\ sccs' = sccs /\ scc_id' = scc_id
  BY DEF NextArg, StartAt, Typed
<1>2. Dependencies' = Dependencies /\ args' = args /\ Reach' = Reach
  BY GraphUnchanged DEF NextArg, StartAt
<1>3. OnStack = {}
  BY <1>1 DEF Numbered
<1> HIDE DEF rule
<1>4. /\ calls' \in Seq(Call) /\ Len(calls') = 1
      /\ calls'[1] = [rule |-> rule, todo |-> Dependencies[rule]]
      /\ stack' \in Seq(Rule) /\ OnStack' = {rule}
      /\ \A i, j \in DOMAIN stack' : i < j => dfn'[stack'[i]] < dfn'[stack'[j]]
      /\ dfncnt' = dfncnt + 1 /\ dfn' \in [Rule -> Nat] /\ low' \in [Rule -> Nat]
      /\ dfn'[rule] = dfncnt + 1 /\ low'[rule] = dfncnt + 1
      /\ \A r \in Rule \ {rule} : dfn'[r] = dfn[r] /\ low'[r] = low[r]
  <2> DEFINE below == <<>>
  <2>1. below \in Seq(Call) /\ Len(below) = 0 /\ Enter(rule, below) /\ rule \notin OnStack
    BY <1>1, <1>3
  <2> HIDE DEF below
  <2>2. /\ calls' \in Seq(Call) /\ Len(calls') = Len(below) + 1
        /\ calls'[Len(below) + 1] = [rule |-> rule, todo |-> Dependencies[rule]]
        /\ stack' \in Seq(Rule) /\ OnStack' = OnStack \cup {rule}
        /\ \A i, j \in DOMAIN stack' : i < j => dfn'[stack'[i]] < dfn'[stack'[j]]
        /\ dfncnt' = dfncnt + 1 /\ dfn' \in [Rule -> Nat] /\ low' \in [Rule -> Nat]
        /\ dfn'[rule] = dfncnt + 1 /\ low'[rule] = dfncnt + 1
        /\ \A r \in Rule \ {rule} : dfn'[r] = dfn[r] /\ low'[r] = low[r]
    BY <2>1, <1>1, EnterFacts
  <2> QED
    BY <2>1, <2>2, <1>3
<1>5. DOMAIN calls' = {1} /\ calls' # <<>> /\ calls'[1].rule = rule /\ calls'[1].todo = Dependencies[rule]
  <2>1. DOMAIN calls' = 1..Len(calls') /\ (calls' # <<>> <=> Len(calls') >= 1)
    BY <1>4, SequenceFacts
  <2> QED
    BY <2>1, <1>4
<1>6. Typed'
  <2>1. dfncnt' \in Nat
    BY <1>4 DEF Typed
  <2> QED
    BY <2>1, <1>1, <1>2, <1>4 DEF Typed
<1>7. Numbered'
  <2>1. \A r \in Rule : low'[r] <= dfn'[r] /\ dfn'[r] <= dfncnt'
    <3> SUFFICES ASSUME NEW r \in Rule
                 PROVE  low'[r] <= dfn'[r] /\ dfn'[r] <= dfncnt'
      OBVIOUS
    <3>1. dfn[r] \in Nat /\ low[r] <= dfn[r] /\ dfn[r] <= dfncnt /\ dfncnt \in Nat
      BY DEF Numbered, Typed
    <3>2. CASE r = rule
      BY <3>1, <3>2, <1>4
    <3>3. CASE r # rule
      BY <3>1, <3>3, <1>4
    <3> QED
      BY <3>2, <3>3
  <2>2. \A s \in OnStack' : calls' # <<>> /\ 1 <= dfn'[s] /\ dfn'[calls'[1].rule] <= dfn'[s]
    BY <1>1, <1>4, <1>5 DEF Typed
  <2>3. \A i, j \in DOMAIN calls' : ~(i < j)
    BY <1>5
  <2>4. \A i \in DOMAIN calls' : /\ calls'[i].rule \in OnStack'
                                 /\ calls'[i].todo \subseteq Dependencies'[calls'[i].rule]
    BY <1>2, <1>4, <1>5
  <2> QED
    BY <2>1, <2>2, <2>3, <2>4, <1>4 DEF Numbered
<1>8. Walk'
  <2>1. rule \in Reach[rule]
    BY <1>1, ReachFacts DEF Typed
  <2>2. LowIsReached' /\ CallsReachUp' /\ ReachesCalls'
    BY <2>1, <1>2, <1>4, <1>5 DEF LowIsReached, CallsReachUp, ReachesCalls
  <2>3. ASSUME NEW r, NEW d, Dealt(r, d)'
        PROVE  r # rule
    BY <2>3, <1>2, <1>5 DEF Dealt
  <2>4. ASSUME NEW r \in Rule, NEW d \in Rule, Dealt(r, d)', dfn'[r] # 0
        PROVE  dfn'[d] # 0
    <3>1. r # rule /\ Dealt(r, d) /\ dfn[r] # 0
      BY <2>3, <2>4, <1>1, <1>2, <1>4 DEF Dealt
    <3>2. dfn[d] # 0
      BY <3>1 DEF Walk, DealtIsEntered
    <3>3. CASE d = rule
      <4>1. dfn'[d] = dfncnt + 1 /\ dfncnt \in Nat
        BY <3>3, <1>4 DEF Typed
      <4> QED
        BY <4>1
    <3>4. CASE d # rule
      BY <3>2, <3>4, <1>4
    <3> QED
      BY <3>3, <3>4
  <2>5. LowKnows'
    BY <2>3, <1>4 DEF LowKnows
  <2> QED
    BY <2>2, <2>4, <2>5 DEF Walk, DealtIsEntered
<1>9. Result'
  <2>1. Closed'
    <3>1. \A r \in Rule : dfn'[r] = 0 => dfn[r] = 0
      BY <1>1, <1>4 DEF Typed
    <3>2. \A r \in Rule : dfn'[r] # 0 => r \in OnStack' \/ scc_id[r] >= 0
      BY <1>3, <1>4 DEF Result, Closed
    <3> QED
      BY <3>1, <3>2, <1>1 DEF Result, Closed
  <2> QED
    BY <2>1, <1>1, <1>2 DEF Result, LastNamed, DepsCover, ComponentsAreCycles, DepsPointBack
<1>10. Searched'
  <2>1. rule \in Reach[rule] /\ next \in Nat
    BY <1>1, ReachFacts DEF Typed
  <2>2. \A r : RequestedAndNeeded(r)' <=> RequestedAndNeeded(r)
    BY <1>2 DEF RequestedAndNeeded
  <2>3. \A k \in DOMAIN args : k < next + 1 => dfn'[args[k]] # 0
    <3>1. ASSUME NEW k \in DOMAIN args, k < next + 1
          PROVE  args[k] \in Rule /\ (args[k] = rule \/ dfn[args[k]] # 0)
      <4>1. k \in Nat /\ args[k] \in Rule
        BY SequenceFacts DEF Typed
      <4>2. k = next \/ k < next
        BY <4>1, <3>1, <1>1
      <4> QED
        BY <4>1, <4>2 DEF Searched, rule
    <3>2. dfn'[rule] # 0
      BY <1>4 DEF Typed
    <3> QED
      BY <3>1, <3>2, <1>4
  <2>4. \A r \in Rule : dfn'[r] # 0 => \E k \in DOMAIN args : k < next + 1 /\ r \in Reach[args[k]]
    <3> SUFFICES ASSUME NEW r \in Rule, dfn'[r] # 0
                 PROVE  \E k \in DOMAIN args : k < next + 1 /\ r \in Reach[args[k]]
      OBVIOUS
    <3>1. CASE r = rule
      BY <3>1, <2>1, <1>1 DEF rule
    <3>2. CASE r # rule
      <4>1. dfn[r] # 0
        BY <3>2, <1>4
      <4>2. PICK k \in DOMAIN args : k < next /\ r \in Reach[args[k]]
        BY <4>1 DEF Searched
      <4>3. DOMAIN args = 1..Len(args) /\ Len(args) \in Nat
        BY SequenceFacts DEF Typed
      <4>4. k \in Nat
        BY <4>3
      <4>5. k < next + 1
        BY <4>2, <4>4, <2>1
      <4> QED
        BY <4>2, <4>5
    <3> QED
      BY <3>1, <3>2
  <2>5. scc_id[rule] >= 0 => RequestedAndNeeded(rule)
    <3> SUFFICES ASSUME scc_id[rule] >= 0
                 PROVE  RequestedAndNeeded(rule)
      OBVIOUS
    <3>1. dfn[rule] # 0
      BY <1>1 DEF Result, Closed
    <3>2. PICK k \in DOMAIN args : k < next /\ rule \in Reach[args[k]]
      BY <3>1, <1>1 DEF Searched
    <3>3. DOMAIN args = 1..Len(args) /\ Len(args) \in Nat
      BY SequenceFacts DEF Typed
    <3>4. next <= Len(args) /\ next \in 1..Len(args) + 1
      BY DEF NextArg, Typed
    <3>5. next \in DOMAIN args /\ k \in Nat
      BY <3>3, <3>4
    <3>6. k # next
      BY <3>2, <3>5, <2>1
    <3> QED
      BY <3>2, <3>5, <3>6 DEF RequestedAndNeeded, rule
  <2> QED
    BY <2>2, <2>3, <2>4, <2>5, <1>1, <1>2, <1>4 DEF Searched
<1> QED
  BY <1>6, <1>7, <1>8, <1>9, <1>10

-----------------------------------------------------------------------------
(* dfs looks at a dependency.                                              *)

\* The innermost call loses the dependency, nothing else changes.
LEMMA WithoutFacts ==
  ASSUME calls \in Seq(Call), calls # <<>>, NEW n
  PROVE  /\ Without(n) \in Seq(Call) /\ Len(Without(n)) = Len(calls)
         /\ \A i \in DOMAIN calls :
              /\ Without(n)[i].rule = calls[i].rule
              /\ Without(n)[i].todo = IF i = Len(calls) THEN calls[i].todo \ {n} ELSE calls[i].todo
<1>1. /\ Len(calls) \in Nat \ {0} /\ DOMAIN calls = 1..Len(calls)
      /\ \A i \in DOMAIN calls : calls[i] \in Call
  BY SequenceFacts
<1> DEFINE below == Without(n)
           last == [rule |-> calls[Len(calls)].rule, todo |-> calls[Len(calls)].todo \ {n}]
<1>2. calls[Len(calls)] \in Call
  BY <1>1
<1>3. [calls[Len(calls)] EXCEPT !.todo = @ \ {n}] = last /\ last \in Call
  <2> DEFINE c == calls[Len(calls)]
  <2>1. c \in [rule : Rule, todo : SUBSET Rule]
    BY <1>2 DEF Call
  <2> HIDE DEF c
  <2>2. [c EXCEPT !.todo = @ \ {n}] = [rule |-> c.rule, todo |-> c.todo \ {n}]
    <3> DEFINE e == [c EXCEPT !.todo = @ \ {n}]
    <3>1. e \in [rule : Rule, todo : SUBSET Rule] /\ e.rule = c.rule /\ e.todo = c.todo \ {n}
      BY <2>1
    <3> HIDE DEF e
    <3>2. e = [rule |-> e.rule, todo |-> e.todo]
      BY <3>1
    <3> QED
      BY <3>1, <3>2 DEF e
  <2>3. [rule |-> c.rule, todo |-> c.todo \ {n}] \in Call
    BY <2>1 DEF Call
  <2> QED
    BY <2>2, <2>3 DEF c
<1>4. below = [calls EXCEPT ![Len(calls)] = last]
  BY <1>3 DEF Without
<1>5. /\ last.rule = calls[Len(calls)].rule
      /\ last.todo = calls[Len(calls)].todo \ {n}
  OBVIOUS
<1> HIDE DEF last, below
<1>6. below \in Seq(Call) /\ Len(below) = Len(calls)
  BY <1>1, <1>3, <1>4
<1>7. \A i \in DOMAIN calls : below[i] = IF i = Len(calls) THEN last ELSE calls[i]
  BY <1>1, <1>4
<1> QED
  BY <1>5, <1>6, <1>7 DEF below

\* Where the search stands when a call is active.
LEMMA TopFacts ==
  ASSUME Typed, Numbered, calls # <<>>
  PROVE  /\ Len(calls) \in Nat \ {0} /\ DOMAIN calls = 1..Len(calls)
         /\ \A i \in DOMAIN calls : calls[i] \in Call
         /\ Top.rule \in OnStack /\ Top.rule \in Rule /\ Top.todo \subseteq Dependencies[Top.rule]
         /\ Dependencies[Top.rule] \subseteq Rule /\ OnStack \subseteq Rule
         /\ \A i \in DOMAIN calls : dfn[calls[i].rule] <= dfn[Top.rule]
<1>1. /\ Len(calls) \in Nat \ {0} /\ DOMAIN calls = 1..Len(calls)
      /\ \A i \in DOMAIN calls : calls[i] \in Call
  BY SequenceFacts DEF Typed
<1>2. OnStack \subseteq Rule
  BY SequenceFacts DEF Typed, OnStack
<1>3. Len(calls) \in DOMAIN calls
  BY <1>1
<1>4. Top.rule \in OnStack /\ Top.todo \subseteq Dependencies[Top.rule]
  BY <1>3 DEF Numbered, Top
<1>5. Dependencies[Top.rule] \subseteq Rule
  BY <1>2, <1>4 DEF Typed
<1>6. ASSUME NEW i \in DOMAIN calls
      PROVE  dfn[calls[i].rule] <= dfn[Top.rule]
  <2>1. dfn[calls[i].rule] \in Nat
    BY <1>1, <1>6 DEF Typed, Call
  <2>2. CASE i = Len(calls)
    BY <2>1, <2>2 DEF Top
  <2>3. CASE i < Len(calls)
    <3>1. dfn[calls[i].rule] < dfn[Top.rule]
      BY <2>3, <1>3 DEF Numbered, Top
    <3>2. dfn[Top.rule] \in Nat
      BY <1>2, <1>4 DEF Typed
    <3> QED
      BY <2>1, <3>1, <3>2
  <2> QED
    BY <2>2, <2>3, <1>1
<1> QED
  BY <1>1, <1>2, <1>4, <1>5, <1>6

LEMMA DescendKeeps == IInv /\ Descend => IInv'
<1> SUFFICES ASSUME IInv, Descend
             PROVE  IInv'
  OBVIOUS
<1> USE DEF IInv
<1>1. calls # <<>> /\ UNCHANGED <<graph, next, sccs, scc_id>>
  BY DEF Descend
<1>2. PICK n \in Top.todo : dfn[n] = 0 /\ Enter(n, Without(n))
  BY DEF Descend
<1>3. /\ Dependencies' = Dependencies /\ args' = args /\ Reach' = Reach
      /\ next' = next /\ sccs' = sccs /\ scc_id' = scc_id
  BY <1>1, GraphUnchanged
<1> DEFINE N == Len(calls)
           v == Top.rule
<1>4. /\ N \in Nat \ {0} /\ DOMAIN calls = 1..N
      /\ \A i \in DOMAIN calls : calls[i] \in Call
      /\ v \in OnStack /\ v \in Rule /\ Top.todo \subseteq Dependencies[v]
      /\ Dependencies[v] \subseteq Rule /\ OnStack \subseteq Rule
      /\ v = calls[N].rule
  BY <1>1, TopFacts DEF Top
<1>5. n \in Rule /\ n \in Dependencies[v] /\ n \notin OnStack
  BY <1>2, <1>4 DEF Numbered
<1>6. /\ calls' \in Seq(Call) /\ DOMAIN calls' = 1..(N + 1)
      /\ \A i \in 1..N : /\ calls'[i].rule = calls[i].rule
                         /\ calls'[i].todo = IF i = N THEN calls[i].todo \ {n} ELSE calls[i].todo
      /\ calls'[N + 1].rule = n /\ calls'[N + 1].todo = Dependencies[n]
      /\ stack' \in Seq(Rule) /\ OnStack' = OnStack \cup {n}
      /\ \A i, j \in DOMAIN stack' : i < j => dfn'[stack'[i]] < dfn'[stack'[j]]
      /\ dfncnt' = dfncnt + 1 /\ dfn' \in [Rule -> Nat] /\ low' \in [Rule -> Nat]
      /\ dfn'[n] = dfncnt + 1 /\ low'[n] = dfncnt + 1
      /\ \A r \in Rule \ {n} : dfn'[r] = dfn[r] /\ low'[r] = low[r]
  <2> DEFINE below == Without(n)
  <2>1. /\ below \in Seq(Call) /\ Len(below) = N
        /\ \A i \in DOMAIN calls :
             /\ below[i].rule = calls[i].rule
             /\ below[i].todo = IF i = N THEN calls[i].todo \ {n} ELSE calls[i].todo
    BY <1>1, WithoutFacts DEF Typed
  <2>2. Enter(n, below)
    BY <1>2
  <2> HIDE DEF below, N, v
  <2>3. /\ calls' \in Seq(Call) /\ Len(calls') = Len(below) + 1
        /\ \A i \in 1..Len(below) : calls'[i] = below[i]
        /\ calls'[Len(below) + 1] = [rule |-> n, todo |-> Dependencies[n]]
        /\ stack' \in Seq(Rule) /\ OnStack' = OnStack \cup {n}
        /\ \A i, j \in DOMAIN stack' : i < j => dfn'[stack'[i]] < dfn'[stack'[j]]
        /\ dfncnt' = dfncnt + 1 /\ dfn' \in [Rule -> Nat] /\ low' \in [Rule -> Nat]
        /\ dfn'[n] = dfncnt + 1 /\ low'[n] = dfncnt + 1
        /\ \A r \in Rule \ {n} : dfn'[r] = dfn[r] /\ low'[r] = low[r]
    BY <2>1, <2>2, <1>5, EnterFacts
  <2>4. DOMAIN calls' = 1..Len(calls')
    BY <2>3, SequenceFacts
  <2>5. DOMAIN calls' = 1..(N + 1)
    BY <2>1, <2>3, <2>4
  <2>6. \A i \in 1..N : /\ calls'[i].rule = calls[i].rule
                        /\ calls'[i].todo = IF i = N THEN calls[i].todo \ {n} ELSE calls[i].todo
    BY <2>1, <2>3, <1>4
  <2>7. calls'[N + 1] = [rule |-> n, todo |-> Dependencies[n]]
    BY <2>1, <2>3
  <2>8. calls'[N + 1].rule = n /\ calls'[N + 1].todo = Dependencies[n]
    BY <2>7
  <2> QED
    BY <2>3, <2>5, <2>6, <2>8
<1> HIDE DEF N, v
<1>a. /\ N \in Nat \ {0} /\ DOMAIN calls = 1..N /\ DOMAIN calls' = 1..(N + 1) /\ N + 1 \in DOMAIN calls'
      /\ calls'[N + 1].rule = n /\ \A i \in 1..N : i \in DOMAIN calls' /\ calls'[i].rule = calls[i].rule
  <2>1. N + 1 \in 1..(N + 1) /\ \A i \in 1..N : i \in 1..(N + 1)
    BY <1>4
  <2>2. /\ DOMAIN calls' = 1..(N + 1) /\ calls'[N + 1].rule = n
        /\ \A i \in 1..N : calls'[i].rule = calls[i].rule
    BY <1>6
  <2> QED
    BY <2>1, <2>2, <1>4
<1>b. calls' # <<>>
  BY <1>a, <1>6, SequenceFacts
<1>7. dfncnt \in Nat /\ \A r \in Rule : dfn[r] \in Nat /\ low[r] \in Nat /\ low[r] <= dfn[r] /\ dfn[r] <= dfncnt
  BY DEF Numbered, Typed
<1>8. \A s \in OnStack : s # n /\ dfn'[s] = dfn[s] /\ low'[s] = low[s] /\ dfn'[s] < dfn'[n]
  BY <1>4, <1>5, <1>6, <1>7
<1>c. \A s \in OnStack : ~(dfn'[n] <= dfn'[s])
  BY <1>4, <1>6, <1>7, <1>8
<1>9. \A i \in 1..N : calls[i].rule \in OnStack
  BY <1>4 DEF Numbered
<1>10. Typed'
  <2>1. dfncnt' \in Nat
    BY <1>6, <1>7
  <2> QED
    BY <2>1, <1>3, <1>6 DEF Typed
<1>11. Numbered'
  <2>1. ASSUME NEW r \in Rule
        PROVE  low'[r] <= dfn'[r] /\ dfn'[r] <= dfncnt'
    <3>a. /\ dfncnt' = dfncnt + 1 /\ dfn'[n] = dfncnt + 1 /\ low'[n] = dfncnt + 1
          /\ r # n => dfn'[r] = dfn[r] /\ low'[r] = low[r]
      BY <1>6
    <3>1. CASE r = n
      BY <3>1, <3>a, <1>7
    <3>2. CASE r # n
      BY <3>2, <3>a, <1>7
    <3> QED
      BY <3>1, <3>2
  <2>2. ASSUME NEW s \in OnStack'
        PROVE  calls' # <<>> /\ 1 <= dfn'[s] /\ dfn'[calls'[1].rule] <= dfn'[s]
    <3>1. calls' # <<>> /\ 1 \in 1..N /\ calls'[1].rule = calls[1].rule /\ calls[1].rule \in OnStack
      BY <1>a, <1>b, <1>9
    <3>2. CASE s = n
      <4>1. dfn'[calls[1].rule] < dfn'[n] /\ dfn'[n] = dfncnt + 1
        BY <3>1, <1>6, <1>8
      <4>2. dfn'[calls[1].rule] \in Nat
        BY <3>1, <1>4, <1>6
      <4> QED
        BY <4>1, <4>2, <3>1, <3>2, <1>7
    <3>3. CASE s \in OnStack
      BY <3>1, <3>3, <1>8 DEF Numbered
    <3> QED
      BY <3>2, <3>3, <1>6
  <2>3. ASSUME NEW i \in DOMAIN calls', NEW j \in DOMAIN calls', i < j
        PROVE  dfn'[calls'[i].rule] < dfn'[calls'[j].rule]
    <3>1. i \in 1..N /\ (j \in 1..N \/ j = N + 1)
      BY <2>3, <1>4, <1>6
    <3>2. calls'[i].rule = calls[i].rule /\ calls[i].rule \in OnStack
      BY <3>1, <1>6, <1>9
    <3>3. CASE j = N + 1
      BY <3>2, <3>3, <1>6, <1>8
    <3>4. CASE j \in 1..N
      <4>1. dfn[calls[i].rule] < dfn[calls[j].rule]
        BY <3>1, <3>4, <2>3, <1>a DEF Numbered
      <4>2. calls'[j].rule = calls[j].rule /\ calls[j].rule \in OnStack
        BY <3>4, <1>a, <1>9
      <4> QED
        BY <4>1, <4>2, <3>2, <1>8
    <3> QED
      BY <3>1, <3>3, <3>4
  <2>4. ASSUME NEW i \in DOMAIN calls'
        PROVE  calls'[i].rule \in OnStack' /\ calls'[i].todo \subseteq Dependencies'[calls'[i].rule]
    <3>1. CASE i = N + 1
      BY <3>1, <1>3, <1>6
    <3>2. CASE i \in 1..N
      <4>1. calls[i].todo \subseteq Dependencies[calls[i].rule]
        BY <3>2, <1>4 DEF Numbered
      <4> QED
        BY <4>1, <3>2, <1>3, <1>6, <1>9
    <3> QED
      BY <3>1, <3>2, <1>4, <1>6
  <2> QED
    BY <2>1, <2>2, <2>3, <2>4, <1>6 DEF Numbered
<1>12. LowIsReached'
  <2> SUFFICES ASSUME NEW s \in OnStack'
               PROVE  \E t \in OnStack' : low'[s] = dfn'[t] /\ t \in Reach[s]
    BY <1>3 DEF LowIsReached
  <2>1. CASE s = n
    <3>1. n \in Reach[n]
      BY <1>5, ReachFacts DEF Typed
    <3> QED
      BY <3>1, <2>1, <1>6
  <2>2. CASE s \in OnStack
    <3>1. PICK t \in OnStack : low[s] = dfn[t] /\ t \in Reach[s]
      BY <2>2 DEF Walk, LowIsReached
    <3> QED
      BY <3>1, <2>2, <1>6, <1>8
  <2> QED
    BY <2>1, <2>2, <1>6
<1>13. CallsReachUp'
  <2> SUFFICES ASSUME NEW s \in OnStack', NEW j \in DOMAIN calls', dfn'[calls'[j].rule] <= dfn'[s]
               PROVE  s \in Reach[calls'[j].rule]
    BY <1>3 DEF CallsReachUp
  <2>1. CASE j = N + 1
    <3>1. n \in Reach[n]
      BY <1>5, ReachFacts DEF Typed
    <3>2. s = n
      BY <2>1, <1>6, <1>a, <1>8, <1>c
    <3> QED
      BY <3>1, <3>2, <2>1, <1>6
  <2>2. CASE j \in 1..N
    <3>1. calls'[j].rule = calls[j].rule /\ calls[j].rule \in OnStack /\ calls[j].rule \in Rule
      BY <2>2, <1>4, <1>6, <1>9
    <3>2. CASE s \in OnStack
      BY <3>1, <3>2, <2>2, <1>4, <1>8 DEF Walk, CallsReachUp
    <3>3. CASE s = n
      <4>1. dfn[calls[j].rule] <= dfn[v]
        BY <2>2, <1>1, <1>4, TopFacts DEF v
      <4>2. v \in Reach[calls[j].rule]
        BY <4>1, <2>2, <1>4 DEF Walk, CallsReachUp
      <4> QED
        BY <4>2, <3>1, <3>3, <1>5, ReachFacts DEF Typed
    <3> QED
      BY <3>2, <3>3, <1>6
  <2> QED
    BY <2>1, <2>2, <1>4, <1>6
<1>14. ReachesCalls'
  <2> SUFFICES ASSUME NEW s \in OnStack', NEW j \in DOMAIN calls',
                      \A i \in DOMAIN calls' : i > j => dfn'[s] < dfn'[calls'[i].rule]
               PROVE  calls'[j].rule \in Reach[s]
    BY <1>3 DEF ReachesCalls
  <2>1. s \in Rule
    BY <1>4, <1>5, <1>6
  <2>2. CASE j = N + 1
    <3>1. CASE s = n
      BY <3>1, <2>2, <1>5, <1>6, ReachFacts DEF Typed
    <3>2. CASE s \in OnStack
      <4>1. v \in Reach[s]
        BY <3>2, <1>4 DEF Walk, ReachesCalls
      <4>2. n \in Reach[s]
        BY <4>1, <2>1, <1>5, ReachFacts DEF Typed
      <4> QED
        BY <4>2, <2>2, <1>6
    <3> QED
      BY <3>1, <3>2, <1>6
  <2>3. CASE j \in 1..N
    <3>1. dfn'[s] < dfn'[n]
      <4>1. N + 1 > j
        BY <2>3, <1>a
      <4> QED
        BY <4>1, <1>a
    <3>2. s \in OnStack
      <4>1. dfn'[n] \in Nat
        BY <1>5, <1>6
      <4> QED
        BY <4>1, <3>1, <1>6
    <3>3. ASSUME NEW i \in DOMAIN calls, i > j
          PROVE  dfn[s] < dfn[calls[i].rule]
      <4>1. dfn'[s] < dfn'[calls'[i].rule] /\ calls'[i].rule = calls[i].rule /\ calls[i].rule \in OnStack
        BY <3>3, <1>a, <1>9
      <4> QED
        BY <4>1, <3>2, <1>8
    <3>4. calls[j].rule \in Reach[s]
      BY <3>2, <3>3, <2>3, <1>a DEF Walk, ReachesCalls
    <3> QED
      BY <3>4, <2>3, <1>a
  <2> QED
    BY <2>2, <2>3, <1>4, <1>6
\* What has been dealt with now was before, or it is what is entered now.
<1>15. ASSUME NEW r, NEW d, Dealt(r, d)'
       PROVE  r # n /\ (Dealt(r, d) \/ (r = v /\ d = n))
  <2>1. d \in Dependencies[r] /\ \A j \in 1..(N + 1) : calls'[j].rule = r => d \notin calls'[j].todo
    BY <1>3, <1>6, <1>15 DEF Dealt
  <2>2. r # n
    BY <2>1, <1>4, <1>6
  <2>3. ASSUME ~Dealt(r, d)
        PROVE  r = v /\ d = n
    <3>1. PICK j \in 1..N : calls[j].rule = r /\ d \in calls[j].todo
      BY <2>1, <2>3, <1>4 DEF Dealt
    <3>2. d \notin calls'[j].todo
      BY <3>1, <2>1, <1>a
    <3>3. j = N /\ d = n
      BY <3>1, <3>2, <1>6
    <3> QED
      BY <3>1, <3>3, <1>4
  <2> QED
    BY <2>2, <2>3
<1>16. DealtIsEntered'
  <2> SUFFICES ASSUME NEW r \in Rule, NEW d \in Rule, dfn'[r] # 0, Dealt(r, d)'
               PROVE  dfn'[d] # 0
    BY DEF DealtIsEntered
  <2>1. CASE d = n
    BY <2>1, <1>6, <1>7
  <2>2. CASE d # n
    BY <2>2, <1>6, <1>15 DEF Walk, DealtIsEntered
  <2> QED
    BY <2>1, <2>2
<1>17. LowKnows'
  <2> SUFFICES ASSUME NEW r \in OnStack', NEW d \in OnStack', NEW j \in DOMAIN calls',
                      Dealt(r, d)', dfn'[calls'[j].rule] <= dfn'[r],
                      \A i \in DOMAIN calls' : i > j => dfn'[r] < dfn'[calls'[i].rule]
               PROVE  low'[calls'[j].rule] <= dfn'[d]
    BY DEF LowKnows
  <2>1. r \in OnStack /\ (Dealt(r, d) \/ d = n)
    BY <1>6, <1>15
  <2>2. j \in 1..N
    BY <2>1, <1>4, <1>6, <1>8
  <2>3. calls'[j].rule = calls[j].rule /\ calls[j].rule \in OnStack
    BY <2>2, <1>6, <1>9
  <2>4. CASE d = n
    BY <2>3, <2>4, <1>4, <1>6, <1>7, <1>8
  <2>5. CASE d # n
    <3>1. d \in OnStack /\ Dealt(r, d)
      BY <2>1, <2>5, <1>6
    <3>2. dfn[calls[j].rule] <= dfn[r]
      BY <2>1, <2>3, <1>8
    <3>3. ASSUME NEW i \in DOMAIN calls, i > j
          PROVE  dfn[r] < dfn[calls[i].rule]
      <4>1. dfn'[r] < dfn'[calls'[i].rule] /\ calls'[i].rule = calls[i].rule /\ calls[i].rule \in OnStack
        BY <3>3, <1>a, <1>9
      <4> QED
        BY <4>1, <2>1, <1>8
    <3>4. low[calls[j].rule] <= dfn[d]
      BY <2>1, <2>2, <3>1, <3>2, <3>3, <1>4 DEF Walk, LowKnows
    <3> QED
      BY <3>1, <3>4, <2>3, <1>8
  <2> QED
    BY <2>4, <2>5
<1>18. Result'
  <2>1. \A r \in Rule : dfn'[r] = 0 => dfn[r] = 0
    BY <1>2, <1>6
  <2>2. \A r \in Rule : dfn'[r] # 0 => r \in OnStack' \/ scc_id[r] >= 0
    BY <1>6 DEF Result, Closed
  <2>3. Closed'
    BY <2>1, <2>2, <1>3 DEF Result, Closed
  <2> QED
    BY <2>3, <1>3 DEF Result, LastNamed, DepsCover, ComponentsAreCycles, DepsPointBack
<1>19. Searched'
  <2>1. \A r : RequestedAndNeeded(r)' <=> RequestedAndNeeded(r)
    BY <1>3 DEF RequestedAndNeeded
  <2>2. ~(scc_id[n] >= 0)
    BY <1>2, <1>5 DEF Result, Closed
  <2>3. \A k \in DOMAIN args : args[k] \in Rule
    BY SequenceFacts DEF Typed
  <2>4. \A k \in DOMAIN args : k < next => dfn'[args[k]] # 0
    BY <2>3, <1>2, <1>6 DEF Searched
  <2>5. ASSUME NEW r \in Rule, dfn'[r] # 0
        PROVE  \E k \in DOMAIN args : k < next /\ r \in Reach[args[k]]
    <3>1. CASE r # n
      BY <3>1, <2>5, <1>6 DEF Searched
    <3>2. CASE r = n
      <4>1. dfn[v] # 0
        BY <1>4, <1>7 DEF Numbered
      <4>2. PICK k \in DOMAIN args : k < next /\ v \in Reach[args[k]]
        BY <4>1, <1>4 DEF Searched
      <4>3. n \in Reach[args[k]]
        BY <4>2, <2>3, <1>5, ReachFacts DEF Typed
      <4> QED
        BY <4>2, <4>3, <3>2
    <3> QED
      BY <3>1, <3>2
  <2> QED
    BY <2>1, <2>2, <2>4, <2>5, <1>3, <1>6 DEF Searched
<1> QED
  BY <1>10, <1>11, <1>12, <1>13, <1>14, <1>16, <1>17, <1>18, <1>19 DEF Walk

LEMMA LookFacts ==
  ASSUME Typed, calls # <<>>, NEW n, calls' = Without(n)
  PROVE  /\ calls' \in Seq(Call) /\ Len(calls') = Len(calls)
         /\ \A i \in DOMAIN calls :
              /\ calls'[i].rule = calls[i].rule
              /\ calls'[i].todo = IF i = Len(calls) THEN calls[i].todo \ {n} ELSE calls[i].todo
<1>1. /\ Without(n) \in Seq(Call) /\ Len(Without(n)) = Len(calls)
      /\ \A i \in DOMAIN calls :
           /\ Without(n)[i].rule = calls[i].rule
           /\ Without(n)[i].todo = IF i = Len(calls) THEN calls[i].todo \ {n} ELSE calls[i].todo
  BY WithoutFacts DEF Typed
<1> QED
  BY <1>1

\* An edge to a rule that has been entered: if that one is open, the rule that
\* looks takes over its number.
LEMMA LookKeeps ==
  ASSUME IInv, calls # <<>>, NEW n \in Top.todo, dfn[n] # 0,
         calls' \in Seq(Call), Len(calls') = Len(calls),
         \A i \in DOMAIN calls :
           /\ calls'[i].rule = calls[i].rule
           /\ calls'[i].todo = IF i = Len(calls) THEN calls[i].todo \ {n} ELSE calls[i].todo,
         UNCHANGED <<graph, next, dfncnt, dfn, stack, sccs, scc_id>>,
         low' \in [Rule -> Nat], \A r \in Rule \ {Top.rule} : low'[r] = low[r],
         low'[Top.rule] <= low[Top.rule],
         low'[Top.rule] = low[Top.rule] \/ (n \in OnStack /\ low'[Top.rule] = dfn[n]),
         n \in OnStack => low'[Top.rule] <= dfn[n]
  PROVE  IInv'
<1> USE DEF IInv
<1>1. /\ Dependencies' = Dependencies /\ args' = args /\ Reach' = Reach
      /\ next' = next /\ dfncnt' = dfncnt /\ dfn' = dfn
      /\ stack' = stack /\ OnStack' = OnStack /\ sccs' = sccs /\ scc_id' = scc_id
  BY GraphUnchanged DEF OnStack
<1> DEFINE N == Len(calls)
           v == Top.rule
<1>2. /\ N \in Nat \ {0} /\ DOMAIN calls = 1..N
      /\ \A i \in DOMAIN calls : calls[i] \in Call
      /\ v \in OnStack /\ v \in Rule /\ Top.todo \subseteq Dependencies[v]
      /\ Dependencies[v] \subseteq Rule /\ OnStack \subseteq Rule
      /\ v = calls[N].rule
  BY TopFacts DEF Top
<1>3. n \in Rule /\ n \in Dependencies[v]
  BY <1>2
<1>4. /\ calls' \in Seq(Call) /\ Len(calls') = N
      /\ \A i \in DOMAIN calls :
           /\ calls'[i].rule = calls[i].rule
           /\ calls'[i].todo = IF i = N THEN calls[i].todo \ {n} ELSE calls[i].todo
  OBVIOUS
<1>5. calls' # <<>> /\ DOMAIN calls' = DOMAIN calls
  BY <1>2, <1>4, SequenceFacts
<1>6. /\ \A r \in Rule \ {v} : low'[r] = low[r]
      /\ low'[v] <= low[v] /\ (low'[v] = low[v] \/ (n \in OnStack /\ low'[v] = dfn[n]))
      /\ n \in OnStack => low'[v] <= dfn[n]
  OBVIOUS
<1> HIDE DEF N, v
<1>7. \A r \in Rule : /\ dfn[r] \in Nat /\ low[r] \in Nat /\ low'[r] \in Nat
                      /\ low'[r] <= low[r] /\ low[r] <= dfn[r] /\ dfn[r] <= dfncnt
  <2> SUFFICES ASSUME NEW r \in Rule
               PROVE  /\ dfn[r] \in Nat /\ low[r] \in Nat /\ low'[r] \in Nat
                      /\ low'[r] <= low[r] /\ low[r] <= dfn[r] /\ dfn[r] <= dfncnt
    OBVIOUS
  <2>1. dfn[r] \in Nat /\ low[r] \in Nat /\ low'[r] \in Nat /\ low[r] <= dfn[r] /\ dfn[r] <= dfncnt
    BY DEF Numbered, Typed
  <2>2. low'[r] <= low[r]
    BY <2>1, <1>6
  <2> QED
    BY <2>1, <2>2
<1>8. Typed'
  BY <1>1, <1>4 DEF Typed
<1>9. Numbered'
  <2>1. \A r \in Rule : low'[r] <= dfn[r] /\ dfn[r] <= dfncnt
    <3> SUFFICES ASSUME NEW r \in Rule
                 PROVE  low'[r] <= dfn[r] /\ dfn[r] <= dfncnt
      OBVIOUS
    <3>1. /\ dfn[r] \in Nat /\ low[r] \in Nat /\ low'[r] \in Nat
          /\ low'[r] <= low[r] /\ low[r] <= dfn[r] /\ dfn[r] <= dfncnt
      BY <1>7
    <3> QED
      BY <3>1
  <2>2. 1 \in DOMAIN calls
    BY <1>2
  <2>3. \A i \in DOMAIN calls : calls'[i].todo \subseteq calls[i].todo
    BY <1>4
  <2>4. \A s \in OnStack : calls' # <<>> /\ 1 <= dfn[s] /\ dfn[calls'[1].rule] <= dfn[s]
    BY <2>2, <1>4, <1>5 DEF Numbered
  <2>5. \A i, j \in DOMAIN calls : i < j => dfn[calls'[i].rule] < dfn[calls'[j].rule]
    BY <1>4 DEF Numbered
  <2>6. \A i \in DOMAIN calls : /\ calls'[i].rule \in OnStack
                                /\ calls'[i].todo \subseteq Dependencies[calls'[i].rule]
    BY <2>3, <1>4 DEF Numbered
  <2>7. \A i, j \in DOMAIN stack : i < j => dfn[stack[i]] < dfn[stack[j]]
    BY DEF Numbered
  <2> QED
    BY <2>1, <2>4, <2>5, <2>6, <2>7, <1>1, <1>5 DEF Numbered
<1>10. LowIsReached'
  <2> SUFFICES ASSUME NEW s \in OnStack
               PROVE  \E t \in OnStack : low'[s] = dfn[t] /\ t \in Reach[s]
    BY <1>1 DEF LowIsReached
  <2>1. CASE low'[s] = low[s]
    BY <2>1 DEF Walk, LowIsReached
  <2>2. CASE low'[s] # low[s]
    <3>1. s = v /\ n \in OnStack /\ low'[s] = dfn[n]
      BY <2>2, <1>2, <1>6
    <3>2. n \in Reach[v]
      <4>1. v \in Reach[v] /\ \A q \in Reach[v] : Dependencies[q] \subseteq Reach[v]
        BY <1>2, ReachFacts DEF Typed
      <4> QED
        BY <4>1, <1>3
    <3> QED
      BY <3>1, <3>2
  <2> QED
    BY <2>1, <2>2
<1>11. CallsReachUp' /\ ReachesCalls'
  BY <1>1, <1>4, <1>5 DEF Walk, CallsReachUp, ReachesCalls
<1>12. ASSUME NEW r, NEW d, Dealt(r, d)'
       PROVE  Dealt(r, d) \/ (r = v /\ d = n)
  <2>1. d \in Dependencies[r] /\ \A j \in DOMAIN calls : calls[j].rule = r => d \notin calls'[j].todo
    BY <1>1, <1>4, <1>5, <1>12 DEF Dealt
  <2>2. ASSUME ~Dealt(r, d)
        PROVE  r = v /\ d = n
    <3>1. PICK j \in DOMAIN calls : calls[j].rule = r /\ d \in calls[j].todo
      BY <2>1, <2>2 DEF Dealt
    <3>2. d \notin calls'[j].todo
      BY <3>1, <2>1
    <3>3. j = N /\ d = n
      BY <3>1, <3>2, <1>4
    <3> QED
      BY <3>1, <3>3, <1>2
  <2> QED
    BY <2>2
<1>13. DealtIsEntered'
  BY <1>1, <1>12 DEF Walk, DealtIsEntered
<1>14. LowKnows'
  <2> SUFFICES ASSUME NEW r \in OnStack', NEW d \in OnStack', NEW j \in DOMAIN calls',
                      Dealt(r, d)', dfn'[calls'[j].rule] <= dfn'[r],
                      \A i \in DOMAIN calls' : i > j => dfn'[r] < dfn'[calls'[i].rule]
               PROVE  low'[calls'[j].rule] <= dfn'[d]
    BY DEF LowKnows
  <2>a. /\ r \in OnStack /\ d \in OnStack /\ j \in DOMAIN calls
        /\ dfn[calls[j].rule] <= dfn[r] /\ calls'[j].rule = calls[j].rule
        /\ \A i \in DOMAIN calls : i > j => dfn[r] < dfn[calls[i].rule]
    BY <1>1, <1>4, <1>5
  <2>1. CASE Dealt(r, d)
    <3>1. low[calls[j].rule] <= dfn[d]
      BY <2>1, <2>a DEF Walk, LowKnows
    <3>2. calls[j].rule \in Rule /\ d \in Rule
      BY <2>a, <1>2 DEF Numbered
    <3> QED
      BY <3>1, <3>2, <2>a, <1>1, <1>7
  <2>2. CASE r = v /\ d = n
    <3>1. j = N
      <4>1. j \in 1..N /\ (N > j => dfn[v] < dfn[v])
        BY <2>2, <2>a, <1>2
      <4>2. dfn[v] \in Nat
        BY <1>2, <1>7
      <4> QED
        BY <4>1, <4>2, <1>2
    <3> QED
      BY <3>1, <2>2, <2>a, <1>1, <1>2, <1>6
  <2> QED
    BY <2>1, <2>2, <1>12
<1>15. Result'
  BY <1>1 DEF Result, Closed, LastNamed, DepsCover, ComponentsAreCycles, DepsPointBack
<1>16. Searched'
  <2>1. \A r : RequestedAndNeeded(r)' <=> RequestedAndNeeded(r)
    BY <1>1 DEF RequestedAndNeeded
  <2> QED
    BY <2>1, <1>1 DEF Searched
<1> QED
  BY <1>8, <1>9, <1>10, <1>11, <1>13, <1>14, <1>15, <1>16 DEF Walk

LEMMA BackEdgeKeeps == IInv /\ BackEdge => IInv'
<1> SUFFICES ASSUME IInv, BackEdge
             PROVE  IInv'
  OBVIOUS
<1>1. calls # <<>> /\ UNCHANGED <<graph, next, dfncnt, dfn, stack, sccs, scc_id>>
  BY DEF BackEdge
<1>2. PICK n \in Top.todo :
        /\ StillOpen(n)
        /\ low' = [low EXCEPT ![Top.rule] = Smaller(@, dfn[n])]
        /\ calls' = Without(n)
  BY DEF BackEdge
<1>3. Top.rule \in Rule /\ Top.todo \subseteq Rule
  BY <1>1, TopFacts DEF IInv
<1> DEFINE v == Top.rule
<1>4. dfn[n] \in Nat /\ low[v] \in Nat
  BY <1>3 DEF IInv, Typed
<1>5. /\ low' \in [Rule -> Nat] /\ \A r \in Rule \ {v} : low'[r] = low[r]
      /\ low'[v] = Smaller(low[v], dfn[n])
  <2> HIDE DEF v
  <2>1. Smaller(low[v], dfn[n]) \in Nat
    BY <1>4 DEF Smaller
  <2>2. low' = [low EXCEPT ![v] = Smaller(low[v], dfn[n])]
    BY <1>2 DEF v
  <2>3. v \in Rule
    BY <1>3 DEF v
  <2> QED
    BY <2>1, <2>2, <2>3 DEF IInv, Typed
<1>6. /\ low'[v] <= low[v] /\ low'[v] <= dfn[n]
      /\ low'[v] = low[v] \/ low'[v] = dfn[n]
  BY <1>4, <1>5 DEF Smaller
<1>7. dfn[n] # 0 /\ n \in OnStack
  BY <1>2 DEF StillOpen
<1> HIDE DEF v
<1>8. /\ calls' \in Seq(Call) /\ Len(calls') = Len(calls)
      /\ \A i \in DOMAIN calls :
           /\ calls'[i].rule = calls[i].rule
           /\ calls'[i].todo = IF i = Len(calls) THEN calls[i].todo \ {n} ELSE calls[i].todo
  BY <1>1, <1>2, LookFacts DEF IInv
<1> QED
  BY <1>1, <1>2, <1>5, <1>6, <1>7, <1>8, LookKeeps DEF v

LEMMA CrossEdgeKeeps == IInv /\ CrossEdge => IInv'
<1> SUFFICES ASSUME IInv, CrossEdge
             PROVE  IInv'
  OBVIOUS
<1>1. calls # <<>> /\ low' = low /\ UNCHANGED <<graph, next, dfncnt, dfn, stack, sccs, scc_id>>
  BY DEF CrossEdge
<1>2. PICK n \in Top.todo : dfn[n] # 0 /\ n \notin OnStack /\ calls' = Without(n)
  BY DEF CrossEdge, StillOpen
<1>3. Top.rule \in Rule
  BY <1>1, TopFacts DEF IInv
<1>4. low' \in [Rule -> Nat] /\ low'[Top.rule] \in Nat /\ low'[Top.rule] <= low[Top.rule]
  BY <1>1, <1>3 DEF IInv, Typed
<1>5. /\ calls' \in Seq(Call) /\ Len(calls') = Len(calls)
      /\ \A i \in DOMAIN calls :
           /\ calls'[i].rule = calls[i].rule
           /\ calls'[i].todo = IF i = Len(calls) THEN calls[i].todo \ {n} ELSE calls[i].todo
  BY <1>1, <1>2, LookFacts DEF IInv
<1> QED
  BY <1>1, <1>2, <1>4, <1>5, LookKeeps

-----------------------------------------------------------------------------
(* dfs returns.                                                            *)

LEMMA PrefixFacts ==
  ASSUME NEW S, NEW s \in Seq(S), NEW k \in 0..Len(s)
  PROVE  /\ SubSeq(s, 1, k) \in Seq(S) /\ Len(SubSeq(s, 1, k)) = k
         /\ \A i \in 1..k : SubSeq(s, 1, k)[i] = s[i]
OBVIOUS

\* A call goes; its caller may take over its low.
LEMMA ReturnFacts ==
  ASSUME Typed, Numbered, calls # <<>>, Return
  PROVE  /\ calls' \in Seq(Call) /\ DOMAIN calls' = 1..(Len(calls) - 1)
         /\ \A i \in DOMAIN calls' : calls'[i] = calls[i] /\ i \in DOMAIN calls /\ i # Len(calls)
         /\ low' \in [Rule -> Nat]
         /\ \A r \in Rule : \/ low'[r] = low[r]
                            \/ /\ Len(calls) > 1 /\ r = calls[Len(calls) - 1].rule
                               /\ low'[r] = low[Top.rule] /\ low'[r] < low[r]
         /\ Len(calls) > 1 => low'[calls[Len(calls) - 1].rule] <= low[Top.rule]
<1>1. /\ Len(calls) \in Nat \ {0} /\ DOMAIN calls = 1..Len(calls)
      /\ Top.rule \in Rule /\ OnStack \subseteq Rule
  BY TopFacts
<1>2. calls \in Seq(Call) /\ Len(calls) - 1 \in 0..Len(calls)
  BY <1>1 DEF Typed
<1> DEFINE rest == SubSeq(calls, 1, Len(calls) - 1)
<1>3. rest \in Seq(Call) /\ Len(rest) = Len(calls) - 1 /\ \A i \in 1..(Len(calls) - 1) : rest[i] = calls[i]
  BY <1>2, PrefixFacts
<1>4. calls' = rest
  BY DEF Return
<1> HIDE DEF rest
<1>5. DOMAIN calls' = 1..(Len(calls) - 1)
  BY <1>3, <1>4, SequenceFacts
<1>6. \A i \in DOMAIN calls' : calls'[i] = calls[i] /\ i \in DOMAIN calls /\ i # Len(calls)
  BY <1>1, <1>3, <1>4, <1>5
<1>7. CASE Len(calls) = 1
  <2>1. low' = low
    BY <1>7 DEF Return
  <2> QED
    BY <2>1, <1>3, <1>4, <1>5, <1>6, <1>7 DEF Typed
<1>8. CASE Len(calls) > 1
  <2> DEFINE u == calls[Len(calls) - 1].rule
             v == Top.rule
  <2>1. Len(calls) - 1 \in DOMAIN calls
    BY <1>1, <1>8
  <2>2. u \in Rule /\ v \in Rule
    BY <2>1, <1>1 DEF Numbered
  <2>3. low' = [low EXCEPT ![u] = Smaller(low[u], low[v])]
    <3>1. Len(calls) # 1
      BY <1>1, <1>8
    <3>2. low' = [low EXCEPT ![u] = Smaller(@, low[v])]
      BY <3>1, Zenon DEF Return
    <3> QED
      BY <3>2, Zenon
  <2> HIDE DEF u, v
  <2>4. low[u] \in Nat /\ low[v] \in Nat
    BY <2>2 DEF Typed
  <2>5. /\ Smaller(low[u], low[v]) \in Nat /\ Smaller(low[u], low[v]) <= low[v]
        /\ \/ Smaller(low[u], low[v]) = low[u]
           \/ Smaller(low[u], low[v]) = low[v] /\ Smaller(low[u], low[v]) < low[u]
    BY <2>4 DEF Smaller
  <2> DEFINE least == Smaller(low[u], low[v])
  <2> HIDE DEF least
  <2>6. low' \in [Rule -> Nat] /\ low'[u] = least /\ \A r \in Rule \ {u} : low'[r] = low[r]
    BY <2>2, <2>3, <2>5 DEF Typed, least
  <2>7. \A r \in Rule : low'[r] = low[r] \/ (r = u /\ low'[r] = low[v] /\ low'[r] < low[r])
    BY <2>5, <2>6 DEF least
  <2>8. low'[u] <= low[v]
    BY <2>5, <2>6 DEF least
  <2> QED
    BY <2>6, <2>7, <2>8, <1>3, <1>4, <1>5, <1>6, <1>8 DEF u, v
<1> QED
  BY <1>1, <1>7, <1>8

\* What a return that leaves the dependencies alone does to the numbers and to
\* the dependencies that have been dealt with.
LEMMA ReturnKeepsNumbers ==
  ASSUME Typed, Numbered, calls # <<>>, Top.todo = {}, Return, UNCHANGED <<graph, dfn>>
  PROVE  /\ \A r \in Rule : low'[r] <= dfn[r] /\ low'[r] <= low[r]
         /\ \A r, d : Dealt(r, d)' => Dealt(r, d)
<1>1. /\ DOMAIN calls' = 1..(Len(calls) - 1)
      /\ \A i \in DOMAIN calls' : calls'[i] = calls[i] /\ i \in DOMAIN calls /\ i # Len(calls)
      /\ low' \in [Rule -> Nat]
      /\ \A r \in Rule : low'[r] = low[r] \/ low'[r] < low[r]
  BY ReturnFacts
<1>2. Dependencies' = Dependencies
  BY GraphUnchanged
<1>3. ASSUME NEW r \in Rule
      PROVE  low'[r] <= dfn[r] /\ low'[r] <= low[r]
  <2>1. low[r] \in Nat /\ dfn[r] \in Nat /\ low[r] <= dfn[r] /\ low'[r] \in Nat
    BY <1>1 DEF Typed, Numbered
  <2> QED
    BY <2>1, <1>1
<1>4. ASSUME NEW r, NEW d, Dealt(r, d)'
      PROVE  Dealt(r, d)
  <2>1. d \in Dependencies[r] /\ \A j \in DOMAIN calls' : calls[j].rule = r => d \notin calls[j].todo
    BY <1>1, <1>2, <1>4 DEF Dealt
  <2>2. \A j \in DOMAIN calls : j \in DOMAIN calls' \/ j = Len(calls)
    BY <1>1, TopFacts
  <2>3. calls[Len(calls)].todo = {}
    BY DEF Top
  <2> QED
    BY <2>1, <2>2, <2>3 DEF Dealt
<1> QED
  BY <1>3, <1>4

LEMMA LeaveOpenKeeps == IInv /\ LeaveOpen => IInv'
<1> SUFFICES ASSUME IInv, LeaveOpen
             PROVE  IInv'
  OBVIOUS
<1> USE DEF IInv
<1> DEFINE N == Len(calls)
           v == Top.rule
           u == calls[N - 1].rule
<1>1. /\ calls # <<>> /\ Top.todo = {} /\ low[v] # dfn[v] /\ Return
      /\ UNCHANGED <<graph, next, dfncnt, dfn, stack, sccs, scc_id>>
  BY DEF LeaveOpen, IsRoot
<1>2. /\ Dependencies' = Dependencies /\ args' = args /\ Reach' = Reach
      /\ next' = next /\ dfncnt' = dfncnt /\ dfn' = dfn
      /\ stack' = stack /\ OnStack' = OnStack /\ sccs' = sccs /\ scc_id' = scc_id
  BY <1>1, GraphUnchanged DEF OnStack
<1>3. /\ N \in Nat \ {0} /\ DOMAIN calls = 1..N
      /\ \A i \in DOMAIN calls : calls[i] \in Call
      /\ v \in OnStack /\ v \in Rule /\ OnStack \subseteq Rule
      /\ \A i \in DOMAIN calls : dfn[calls[i].rule] <= dfn[v]
      /\ v = calls[N].rule
  BY <1>1, TopFacts DEF Top
<1>4. \A r \in Rule : dfn[r] \in Nat /\ low[r] \in Nat /\ low[r] <= dfn[r] /\ dfn[r] <= dfncnt
  BY DEF Typed, Numbered
<1>5. PICK t \in OnStack : low[v] = dfn[t] /\ t \in Reach[v]
  BY <1>3 DEF Walk, LowIsReached
<1>6. dfn[t] < dfn[v]
  BY <1>1, <1>3, <1>4, <1>5
<1>7. N > 1
  <2>1. dfn[calls[1].rule] <= dfn[t]
    BY <1>5 DEF Numbered
  <2>2. ~(dfn[v] <= dfn[t])
    BY <1>3, <1>4, <1>5, <1>6
  <2> QED
    BY <2>1, <2>2, <1>3
<1>8. /\ calls' \in Seq(Call) /\ DOMAIN calls' = 1..(N - 1)
      /\ \A i \in DOMAIN calls' : calls'[i] = calls[i] /\ i \in DOMAIN calls /\ i # N
      /\ low' \in [Rule -> Nat]
      /\ \A r \in Rule : low'[r] = low[r] \/ (r = u /\ low'[r] = low[v])
      /\ low'[u] <= low[v]
  BY <1>1, <1>7, ReturnFacts
<1>9. /\ \A r \in Rule : low'[r] <= dfn[r] /\ low'[r] <= low[r]
      /\ \A r, d : Dealt(r, d)' => Dealt(r, d)
  BY <1>1, ReturnKeepsNumbers
<1>10. N - 1 \in DOMAIN calls /\ N - 1 \in DOMAIN calls' /\ 1 \in DOMAIN calls'
  BY <1>3, <1>7, <1>8
<1>11. u \in OnStack /\ u \in Rule /\ dfn[u] < dfn[v]
  <2>1. N - 1 < N /\ N \in DOMAIN calls
    BY <1>3
  <2> QED
    BY <2>1, <1>3, <1>10 DEF Numbered
<1>12. \A i \in DOMAIN calls : i > N - 1 => i = N
  BY <1>3
<1> HIDE DEF N, u, v
<1>13. \A q \in Reach[v] : q \in Reach[u]
  <2>1. v \in Reach[u]
    BY <1>3, <1>10 DEF Walk, CallsReachUp, u
  <2> QED
    BY <2>1, <1>11, ReachIsTransitive DEF Typed
<1>14. \A s \in OnStack : u \in Reach[s]
  <2> SUFFICES ASSUME NEW s \in OnStack
               PROVE  u \in Reach[s]
    OBVIOUS
  <2>1. ASSUME NEW q \in OnStack, dfn[q] < dfn[v]
        PROVE  u \in Reach[q]
    <3>1. \A i \in DOMAIN calls : i > N - 1 => dfn[q] < dfn[calls[i].rule]
      BY <2>1, <1>3, <1>12
    <3> QED
      BY <3>1, <1>10 DEF Walk, ReachesCalls, u
  <2>2. v \in Reach[s]
    <3>1. N \in DOMAIN calls /\ \A i \in DOMAIN calls : ~(i > N)
      BY <1>3
    <3> QED
      BY <3>1, <1>3 DEF Walk, ReachesCalls
  <2>3. Reach[v] \subseteq Reach[s] /\ Reach[t] \subseteq Reach[v]
    BY <2>2, <1>3, <1>5, ReachIsTransitive DEF Typed
  <2> QED
    BY <2>1, <2>3, <1>5, <1>6
<1>15. Typed'
  BY <1>2, <1>8 DEF Typed
<1>16. Numbered'
  <2>1. calls' # <<>>
    BY <1>8, <1>10, SequenceFacts
  <2>2. \A s \in OnStack : 1 <= dfn[s] /\ dfn[calls'[1].rule] <= dfn[s]
    BY <1>8, <1>10 DEF Numbered
  <2>3. \A i, j \in DOMAIN calls' : i < j => dfn[calls'[i].rule] < dfn[calls'[j].rule]
    BY <1>8 DEF Numbered
  <2>4. \A i \in DOMAIN calls' : /\ calls'[i].rule \in OnStack
                                 /\ calls'[i].todo \subseteq Dependencies[calls'[i].rule]
    BY <1>8 DEF Numbered
  <2>5. \A i, j \in DOMAIN stack : i < j => dfn[stack[i]] < dfn[stack[j]]
    BY DEF Numbered
  <2> QED
    BY <2>1, <2>2, <2>3, <2>4, <2>5, <1>2, <1>4, <1>9 DEF Numbered
<1>17. LowIsReached'
  <2> SUFFICES ASSUME NEW s \in OnStack
               PROVE  \E q \in OnStack : low'[s] = dfn[q] /\ q \in Reach[s]
    BY <1>2 DEF LowIsReached
  <2>1. CASE low'[s] = low[s]
    BY <2>1 DEF Walk, LowIsReached
  <2>2. CASE s = u /\ low'[s] = low[v]
    BY <2>2, <1>5, <1>13
  <2> QED
    BY <2>1, <2>2, <1>3, <1>8
<1>18. CallsReachUp'
  BY <1>2, <1>8 DEF Walk, CallsReachUp
<1>19. ReachesCalls'
  <2> SUFFICES ASSUME NEW s \in OnStack, NEW j \in DOMAIN calls',
                      \A i \in DOMAIN calls' : i > j => dfn[s] < dfn[calls'[i].rule]
               PROVE  calls'[j].rule \in Reach[s]
    BY <1>2 DEF ReachesCalls
  <2>1. j \in DOMAIN calls /\ calls'[j].rule = calls[j].rule
    BY <1>8
  <2>2. CASE j = N - 1
    BY <2>1, <2>2, <1>14 DEF u
  <2>3. CASE j # N - 1
    <3>1. N - 1 > j
      BY <2>3, <1>3, <1>8
    <3>2. dfn[s] < dfn[u]
      BY <3>1, <1>8, <1>10 DEF u
    <3>3. dfn[s] < dfn[v]
      BY <3>2, <1>3, <1>4, <1>11
    <3>4. ASSUME NEW i \in DOMAIN calls, i > j
          PROVE  dfn[s] < dfn[calls[i].rule]
      <4>1. i = N \/ i \in DOMAIN calls'
        BY <1>3, <1>8
      <4> QED
        BY <4>1, <3>3, <3>4, <1>3, <1>8
    <3> QED
      BY <3>4, <2>1 DEF Walk, ReachesCalls
  <2> QED
    BY <2>2, <2>3
<1>20. DealtIsEntered'
  BY <1>2, <1>9 DEF Walk, DealtIsEntered
<1>21. LowKnows'
  <2> SUFFICES ASSUME NEW r \in OnStack', NEW d \in OnStack', NEW j \in DOMAIN calls',
                      Dealt(r, d)', dfn'[calls'[j].rule] <= dfn'[r],
                      \A i \in DOMAIN calls' : i > j => dfn'[r] < dfn'[calls'[i].rule]
               PROVE  low'[calls'[j].rule] <= dfn'[d]
    BY DEF LowKnows
  <2>1. /\ r \in OnStack /\ d \in OnStack /\ r \in Rule /\ d \in Rule
        /\ j \in DOMAIN calls /\ Dealt(r, d) /\ dfn[calls[j].rule] <= dfn[r]
        /\ calls'[j].rule = calls[j].rule /\ calls[j].rule \in Rule
        /\ \A i \in DOMAIN calls' : i > j => dfn[r] < dfn[calls[i].rule]
    BY <1>2, <1>3, <1>8, <1>9 DEF Numbered
  <2>2. CASE dfn[r] < dfn[v]
    <3>1. ASSUME NEW i \in DOMAIN calls, i > j
          PROVE  dfn[r] < dfn[calls[i].rule]
      <4>1. i = N \/ i \in DOMAIN calls'
        BY <1>3, <1>8
      <4> QED
        BY <4>1, <3>1, <2>1, <2>2, <1>3
    <3>2. low[calls[j].rule] <= dfn[d]
      BY <3>1, <2>1 DEF Walk, LowKnows
    <3>3. low'[calls[j].rule] <= low[calls[j].rule] /\ low'[calls[j].rule] \in Nat
      BY <2>1, <1>8, <1>9
    <3> QED
      BY <3>2, <3>3, <2>1, <1>2, <1>4
  <2>3. CASE ~(dfn[r] < dfn[v])
    <3>1. dfn[v] <= dfn[r]
      BY <2>1, <2>3, <1>3, <1>4
    <3>2. N \in DOMAIN calls /\ \A i \in DOMAIN calls : ~(i > N)
      BY <1>3
    <3>3. low[v] <= dfn[d]
      BY <3>1, <3>2, <2>1, <1>3 DEF Walk, LowKnows
    <3>4. j = N - 1
      <4>1. ASSUME N - 1 > j
            PROVE  FALSE
        <5>1. dfn[r] < dfn[u]
          BY <4>1, <2>1, <1>10 DEF u
        <5> QED
          BY <5>1, <3>1, <2>1, <1>3, <1>4, <1>11
      <4> QED
        BY <4>1, <1>3, <1>8
    <3>5. low'[u] <= low[v] /\ low'[u] \in Nat
      BY <1>8, <1>11
    <3> QED
      BY <3>3, <3>4, <3>5, <2>1, <1>2, <1>3, <1>4 DEF u
  <2> QED
    BY <2>2, <2>3
<1>22. Result'
  BY <1>2 DEF Result, Closed, LastNamed, DepsCover, ComponentsAreCycles, DepsPointBack
<1>23. Searched'
  <2>1. \A r : RequestedAndNeeded(r)' <=> RequestedAndNeeded(r)
    BY <1>2 DEF RequestedAndNeeded
  <2> QED
    BY <2>1, <1>2 DEF Searched
<1> QED
  BY <1>15, <1>16, <1>17, <1>18, <1>19, <1>20, <1>21, <1>22, <1>23 DEF Walk

\* From finds the rules that are not older than the given one, and what is left
\* of the stack are the others.
LEMMA PoppedFacts ==
  ASSUME Typed, Numbered, NEW v \in OnStack
  PROVE  /\ {stack[i] : i \in From(v)} = {s \in OnStack : dfn[v] <= dfn[s]}
         /\ LET rest == SubSeq(stack, 1, Len(stack) - Cardinality(From(v)))
            IN  /\ rest \in Seq(Rule)
                /\ {rest[i] : i \in DOMAIN rest} = {s \in OnStack : dfn[s] < dfn[v]}
                /\ \A i, j \in DOMAIN rest : i < j => dfn[rest[i]] < dfn[rest[j]]
<1> DEFINE L == Len(stack)
<1>1. /\ L \in Nat /\ DOMAIN stack = 1..L /\ \A i \in 1..L : stack[i] \in Rule /\ dfn[stack[i]] \in Nat
      /\ stack \in Seq(Rule)
  BY SequenceFacts DEF Typed
<1>2. PICK p \in 1..L : stack[p] = v
  BY <1>1 DEF OnStack
<1>3. \A i, j \in 1..L : i < j => dfn[stack[i]] < dfn[stack[j]]
  BY <1>1 DEF Numbered
<1>4. \A i \in 1..L : (i >= p => dfn[v] <= dfn[stack[i]]) /\ (i < p => dfn[stack[i]] < dfn[v])
  <2> SUFFICES ASSUME NEW i \in 1..L
               PROVE  (i >= p => dfn[v] <= dfn[stack[i]]) /\ (i < p => dfn[stack[i]] < dfn[v])
    OBVIOUS
  <2>1. i < p => dfn[stack[i]] < dfn[v]
    BY <1>2, <1>3
  <2>2. p < i => dfn[v] < dfn[stack[i]]
    BY <1>2, <1>3
  <2>3. dfn[v] \in Nat /\ dfn[stack[i]] \in Nat /\ i \in Nat /\ p \in Nat
    BY <1>1, <1>2
  <2>4. i = p => dfn[v] = dfn[stack[i]]
    BY <1>2
  <2> HIDE DEF L
  <2> QED
    BY <2>1, <2>2, <2>3, <2>4
<1>5. \A j \in 1..L : stack[j] = v <=> j = p
  <2> SUFFICES ASSUME NEW j \in 1..L, stack[j] = v
               PROVE  j = p
    BY <1>2
  <2>1. ~(j < p) /\ ~(p < j)
    BY <1>1, <1>2, <1>3
  <2> QED
    BY <2>1, <1>1
<1>6. From(v) = p..L
  <2>1. ASSUME NEW i \in 1..L
        PROVE  (\E j \in 1..i : stack[j] = v) <=> i \in p..L
    <3>1. i \in Nat /\ p \in Nat /\ L \in Nat /\ 1 <= i /\ i <= L /\ 1 <= p /\ p <= L
      BY <1>1
    <3>2. \A j \in 1..i : j \in 1..L
      BY <3>1
    <3> QED
      BY <3>1, <3>2, <1>5
  <2>2. p..L \subseteq 1..L
    BY <1>1
  <2> QED
    BY <2>1, <2>2, <1>1 DEF From
<1>7. Cardinality(From(v)) = L - p + 1
  <2>1. p \in Int /\ L \in Int /\ ~(p > L)
    BY <1>1
  <2> QED
    BY <2>1, <1>6, FS_Interval
<1> DEFINE rest == SubSeq(stack, 1, L - Cardinality(From(v)))
<1>8. L - Cardinality(From(v)) = p - 1 /\ p - 1 \in 0..L
  BY <1>1, <1>7
<1>9. rest \in Seq(Rule) /\ Len(rest) = p - 1 /\ \A i \in 1..(p - 1) : rest[i] = stack[i]
  <2>1. \A k \in 0..L : SubSeq(stack, 1, k) \in Seq(Rule) /\ Len(SubSeq(stack, 1, k)) = k
                       /\ \A i \in 1..k : SubSeq(stack, 1, k)[i] = stack[i]
    BY <1>1, PrefixFacts
  <2> QED
    BY <2>1, <1>8
<1> HIDE DEF rest, L
<1>10. DOMAIN rest = 1..(p - 1)
  BY <1>9, SequenceFacts
<1>11. \A i \in 1..(p - 1) : i \in 1..L /\ i < p
  BY <1>1
<1>12. \A i \in 1..L : i \in p..L <=> i >= p
  BY <1>1
<1>13. \A s \in OnStack : \E i \in 1..L : s = stack[i]
  BY <1>1 DEF OnStack
<1>14. \A i \in 1..L : stack[i] \in OnStack
  BY <1>1 DEF OnStack
<1>15. {stack[i] : i \in From(v)} = {s \in OnStack : dfn[v] <= dfn[s]}
  <2>1. ASSUME NEW i \in p..L
        PROVE  stack[i] \in OnStack /\ dfn[v] <= dfn[stack[i]]
    <3>1. i \in 1..L /\ i >= p
      BY <1>1
    <3> QED
      BY <3>1, <1>4, <1>14
  <2>2. ASSUME NEW s \in OnStack, dfn[v] <= dfn[s]
        PROVE  \E i \in p..L : s = stack[i]
    <3>1. PICK i \in 1..L : s = stack[i]
      BY <1>13
    <3>2. ~(dfn[s] < dfn[v])
      BY <2>2, <3>1, <1>1, <1>2
    <3>3. ~(i < p) /\ i \in Nat /\ p \in Nat
      BY <3>1, <3>2, <1>1, <1>4
    <3> QED
      BY <3>1, <3>3, <1>12
  <2> QED
    BY <2>1, <2>2, <1>6
<1>16. {rest[i] : i \in DOMAIN rest} = {s \in OnStack : dfn[s] < dfn[v]}
  <2>1. ASSUME NEW i \in DOMAIN rest
        PROVE  rest[i] \in OnStack /\ dfn[rest[i]] < dfn[v]
    BY <1>4, <1>9, <1>10, <1>11, <1>14
  <2>2. ASSUME NEW s \in OnStack, dfn[s] < dfn[v]
        PROVE  \E i \in DOMAIN rest : s = rest[i]
    <3>1. PICK i \in 1..L : s = stack[i]
      BY <1>13
    <3>2. ~(dfn[v] <= dfn[s])
      BY <2>2, <3>1, <1>1, <1>2
    <3>3. ~(i >= p)
      BY <3>1, <3>2, <1>4
    <3>4. i \in 1..(p - 1)
      BY <3>3, <1>1
    <3> QED
      BY <3>1, <3>4, <1>9, <1>10
  <2> QED
    BY <2>1, <2>2
<1>17. \A i, j \in DOMAIN rest : i < j => dfn[rest[i]] < dfn[rest[j]]
  BY <1>3, <1>9, <1>10, <1>11
<1> QED
  BY <1>9, <1>15, <1>16, <1>17 DEF rest, L

\* A dependency of a rule that is popped is popped, too, or has a component.
LEMMA PoppedDependencies ==
  ASSUME IInv, calls # <<>>, Top.todo = {}, low[Top.rule] = dfn[Top.rule],
         NEW r \in OnStack, dfn[Top.rule] <= dfn[r],
         NEW d \in Dependencies[r], ~(d \in OnStack /\ dfn[Top.rule] <= dfn[d])
  PROVE  d \in Rule /\ scc_id[d] >= 0
<1> USE DEF IInv
<1> DEFINE N == Len(calls)
           v == Top.rule
<1>1. /\ N \in Nat \ {0} /\ DOMAIN calls = 1..N
      /\ v \in OnStack /\ v \in Rule /\ OnStack \subseteq Rule
      /\ \A i \in DOMAIN calls : dfn[calls[i].rule] <= dfn[v]
      /\ v = calls[N].rule /\ calls[N].todo = {}
  BY TopFacts DEF Top
<1>2. r \in Rule /\ d \in Rule
  BY <1>1 DEF Typed
<1>3. \A q \in Rule : dfn[q] \in Nat
  BY DEF Typed
<1>4. Dealt(r, d)
  <2> SUFFICES ASSUME NEW j \in DOMAIN calls, calls[j].rule = r
               PROVE  calls[j].todo = {}
    BY DEF Dealt
  <2>1. ~(j < N)
    <3>1. N \in DOMAIN calls
      BY <1>1
    <3>2. j < N => dfn[r] < dfn[v]
      BY <3>1, <1>1 DEF Numbered
    <3> QED
      BY <3>2, <1>1, <1>2, <1>3
  <2>2. j = N
    BY <2>1, <1>1
  <2> QED
    BY <2>2, <1>1
<1>5. dfn[r] # 0
  BY <1>2, <1>3 DEF Numbered
<1>6. dfn[d] # 0
  BY <1>2, <1>4, <1>5 DEF Walk, DealtIsEntered
<1>7. d \notin OnStack
  <2> SUFFICES ASSUME d \in OnStack
               PROVE  FALSE
    OBVIOUS
  <2>1. N \in DOMAIN calls /\ \A i \in DOMAIN calls : ~(i > N)
    BY <1>1
  <2>2. low[calls[N].rule] <= dfn[d]
    BY <2>1, <1>1, <1>4 DEF Walk, LowKnows
  <2> QED
    BY <2>2, <1>1
<1> QED
  BY <1>2, <1>6, <1>7 DEF Result, Closed

LEMMA CloseComponentKeeps == IInv /\ CloseComponent => IInv'
<1> SUFFICES ASSUME IInv, CloseComponent
             PROVE  IInv'
  OBVIOUS
<1> USE DEF IInv
<1> DEFINE N == Len(calls)
           L == Len(sccs)
           v == Top.rule
           popped == {s \in OnStack : dfn[v] <= dfn[s]}
           id == [r \in Rule |-> IF r \in popped THEN L ELSE scc_id[r]]
           deps == DepIds(popped, id)
           new == [Rules |-> popped, Deps |-> deps]
<1>1. /\ calls # <<>> /\ Top.todo = {} /\ low[v] = dfn[v] /\ Return
      /\ UNCHANGED <<graph, next, dfncnt, dfn>>
  BY DEF CloseComponent, IsRoot
<1>2. /\ Dependencies' = Dependencies /\ args' = args /\ Reach' = Reach
      /\ next' = next /\ dfncnt' = dfncnt /\ dfn' = dfn
  BY <1>1, GraphUnchanged
<1>3. /\ N \in Nat \ {0} /\ DOMAIN calls = 1..N
      /\ v \in OnStack /\ v \in Rule /\ OnStack \subseteq Rule
      /\ \A i \in DOMAIN calls : dfn[calls[i].rule] <= dfn[v]
      /\ v = calls[N].rule /\ N \in DOMAIN calls
  BY <1>1, TopFacts DEF Top
<1>4. \A r \in Rule : dfn[r] \in Nat /\ low[r] \in Nat /\ low[r] <= dfn[r] /\ dfn[r] <= dfncnt
  BY DEF Typed, Numbered
<1>5. /\ {stack[i] : i \in From(v)} = popped
      /\ stack' = SubSeq(stack, 1, Len(stack) - Cardinality(From(v)))
      /\ stack' \in Seq(Rule)
      /\ OnStack' = {s \in OnStack : dfn[s] < dfn[v]}
      /\ \A i, j \in DOMAIN stack' : i < j => dfn[stack'[i]] < dfn[stack'[j]]
  <2>1. stack' = SubSeq(stack, 1, Len(stack) - Cardinality(From(v)))
    BY DEF CloseComponent
  <2> HIDE DEF v
  <2>2. LET rest == SubSeq(stack, 1, Len(stack) - Cardinality(From(v)))
        IN  /\ rest \in Seq(Rule)
            /\ {rest[i] : i \in DOMAIN rest} = {s \in OnStack : dfn[s] < dfn[v]}
            /\ \A i, j \in DOMAIN rest : i < j => dfn[rest[i]] < dfn[rest[j]]
    BY <1>3, PoppedFacts
  <2>3. {stack[i] : i \in From(v)} = popped
    BY <1>3, PoppedFacts
  <2> QED
    BY <2>1, <2>2, <2>3 DEF OnStack
<1>6. scc_id' = id /\ sccs' = Append(sccs, new)
  BY <1>5 DEF CloseComponent
<1>7. \A s \in OnStack : s \in popped \/ s \in OnStack'
  BY <1>3, <1>4, <1>5
<1>8. v \in popped /\ popped \subseteq OnStack /\ popped \subseteq Rule
  BY <1>3, <1>4
<1>9. sccs \in Seq(Component) /\ L \in Nat /\ DOMAIN sccs = 1..L
      /\ \A i \in 1..L : sccs[i].Rules \subseteq Rule
  <2>1. sccs \in Seq(Component)
    BY DEF Typed
  <2>2. \A i \in DOMAIN sccs : sccs[i] \in Component
    BY <2>1, SequenceFacts
  <2> QED
    BY <2>1, <2>2, SequenceFacts DEF Component
<1>10. \A r \in Rule : scc_id[r] \in -1..(L - 1)
  BY DEF Result, Closed
<1> HIDE DEF N, L, v
<1>11. /\ \A r \in popped : id[r] = L
       /\ \A r \in Rule \ popped : id[r] = scc_id[r] /\ id[r] # L
       /\ id \in [Rule -> Int]
  BY <1>8, <1>9, <1>10
<1> HIDE DEF popped, id
<1>12. \A e : e \in deps <=> \E r \in popped : \E d \in Dependencies[r] : d \notin popped /\ e = scc_id[d]
  <2>1. \A r \in popped : Dependencies[r] \subseteq Rule
    BY <1>8 DEF Typed
  <2>2. \A e : e \in deps <=> e # L /\ \E r \in popped : \E d \in Dependencies[r] : e = id[d]
    BY <1>8, <1>11 DEF DepIds, AllTargets
  <2>3. ASSUME NEW e \in deps
        PROVE  \E r \in popped : \E d \in Dependencies[r] : d \notin popped /\ e = scc_id[d]
    BY <2>1, <2>2, <1>11
  <2>4. ASSUME NEW r \in popped, NEW d \in Dependencies[r], d \notin popped
        PROVE  scc_id[d] \in deps
    <3>1. d \in Rule \ popped
      BY <2>1, <2>4
    <3> QED
      BY <3>1, <2>2, <1>11
  <2> HIDE DEF deps
  <2> QED
    BY <2>3, <2>4
<1> HIDE DEF deps
\* The ids that the component depends on are those of earlier components.
<1>13. ASSUME NEW r \in popped, NEW d \in Dependencies[r], d \notin popped
       PROVE  scc_id[d] \in 0..(L - 1) /\ d \in sccs[scc_id[d] + 1].Rules
  <2>1. r \in OnStack /\ dfn[v] <= dfn[r] /\ ~(d \in OnStack /\ dfn[v] <= dfn[d])
    BY <1>13 DEF popped
  <2>2. d \in Rule /\ scc_id[d] >= 0
    BY <2>1, <1>1, PoppedDependencies DEF v
  <2>3. scc_id[d] \in 0..(L - 1)
    BY <2>2, <1>9, <1>10
  <2> QED
    BY <2>2, <2>3 DEF Result, Closed
<1>14. new \in Component /\ new.Rules = popped /\ new.Deps = deps
  <2>1. deps \subseteq Int
    BY <1>12, <1>13
  <2> QED
    BY <2>1, <1>8 DEF Component
<1> HIDE DEF new
<1>15. /\ sccs' \in Seq(Component) /\ Len(sccs') = L + 1 /\ DOMAIN sccs' = 1..(L + 1)
       /\ \A i \in 1..L : sccs'[i] = sccs[i]
       /\ sccs'[L + 1] = new
  <2>1. /\ sccs' \in Seq(Component) /\ Len(sccs') = L + 1
        /\ \A i \in 1..L : sccs'[i] = sccs[i]
        /\ sccs'[L + 1] = new
    BY <1>6, <1>9, <1>14, AppendFacts DEF L
  <2> QED
    BY <2>1, SequenceFacts
<1>16. \A i \in 1..(L + 1) : i \in 1..L \/ i = L + 1
  BY <1>9
\* The caller, if there is one, is older than the component.
<1>17. /\ calls' \in Seq(Call) /\ DOMAIN calls' = 1..(N - 1)
       /\ \A i \in DOMAIN calls' : calls'[i] = calls[i] /\ i \in DOMAIN calls /\ i # N
       /\ low' \in [Rule -> Nat]
       /\ \A r \in Rule : low'[r] = low[r]
  <2>1. /\ calls' \in Seq(Call) /\ DOMAIN calls' = 1..(N - 1)
        /\ \A i \in DOMAIN calls' : calls'[i] = calls[i] /\ i \in DOMAIN calls /\ i # N
        /\ low' \in [Rule -> Nat]
        /\ \A r \in Rule : \/ low'[r] = low[r]
                           \/ N > 1 /\ r = calls[N - 1].rule /\ low'[r] = low[v] /\ low'[r] < low[r]
    BY <1>1, ReturnFacts DEF N, v
  <2>2. ASSUME NEW r \in Rule, N > 1, r = calls[N - 1].rule, low'[r] = low[v], low'[r] < low[r]
        PROVE  FALSE
    <3>1. N - 1 \in DOMAIN calls /\ N - 1 < N
      BY <2>2, <1>3
    <3>2. dfn[r] < dfn[v]
      BY <3>1, <2>2, <1>3 DEF Numbered
    <3> QED
      BY <3>2, <2>2, <1>1, <1>3, <1>4 DEF v
  <2> QED
    BY <2>1, <2>2
<1>18. \A r, d : Dealt(r, d)' => Dealt(r, d)
  BY <1>1, ReturnKeepsNumbers
<1>19. \A i \in DOMAIN calls' : calls'[i].rule = calls[i].rule /\ calls[i].rule \in OnStack'
  <2> SUFFICES ASSUME NEW i \in DOMAIN calls'
               PROVE  calls'[i].rule = calls[i].rule /\ calls[i].rule \in OnStack'
    OBVIOUS
  <2>1. i \in DOMAIN calls /\ calls'[i] = calls[i] /\ i < N
    BY <1>3, <1>17
  <2>2. calls[i].rule \in OnStack /\ dfn[calls[i].rule] < dfn[v]
    BY <2>1, <1>3 DEF Numbered
  <2> QED
    BY <2>1, <2>2, <1>5
<1>20. \A s \in OnStack' : s \in OnStack /\ s \in Rule /\ dfn[s] < dfn[v] /\ s \notin popped
  BY <1>3, <1>4, <1>5 DEF popped
<1>21. ASSUME NEW s \in OnStack', NEW j \in DOMAIN calls',
              \A i \in DOMAIN calls' : i > j => dfn[s] < dfn[calls'[i].rule]
       PROVE  \A i \in DOMAIN calls : i > j => dfn[s] < dfn[calls[i].rule]
  <2> SUFFICES ASSUME NEW i \in DOMAIN calls, i > j
               PROVE  dfn[s] < dfn[calls[i].rule]
    OBVIOUS
  <2>1. CASE i = N
    BY <2>1, <1>3, <1>20
  <2>2. CASE i # N
    <3>1. i \in DOMAIN calls'
      BY <2>2, <1>3, <1>17
    <3> QED
      BY <3>1, <1>17, <1>21
  <2> QED
    BY <2>1, <2>2
<1>22. Typed'
  BY <1>2, <1>5, <1>6, <1>11, <1>15, <1>17 DEF Typed
<1>23. Numbered'
  <2>1. ASSUME NEW s \in OnStack'
        PROVE  calls' # <<>> /\ 1 <= dfn[s] /\ dfn[calls'[1].rule] <= dfn[s]
    <3>1. 1 <= dfn[s] /\ dfn[calls[1].rule] <= dfn[s]
      BY <1>20 DEF Numbered
    <3>2. N # 1
      BY <3>1, <1>3, <1>4, <1>20
    <3>3. 1 \in DOMAIN calls'
      <4>1. 1 \in 1..(N - 1)
        BY <3>2, <1>3
      <4> QED
        BY <4>1, <1>17
    <3>4. calls' # <<>>
      <4>1. DOMAIN calls' = 1..Len(calls') /\ Len(calls') \in Nat /\ (calls' # <<>> <=> Len(calls') >= 1)
        BY <1>17, SequenceFacts
      <4> QED
        BY <4>1, <3>3
    <3>5. calls'[1] = calls[1]
      BY <3>3, <1>17
    <3> QED
      BY <3>1, <3>4, <3>5
  <2>2. \A i, j \in DOMAIN calls' : i < j => dfn[calls'[i].rule] < dfn[calls'[j].rule]
    BY <1>17 DEF Numbered
  <2>3. \A i \in DOMAIN calls' : calls'[i].todo \subseteq Dependencies[calls'[i].rule]
    BY <1>17 DEF Numbered
  <2> QED
    BY <2>1, <2>2, <2>3, <1>2, <1>4, <1>5, <1>17, <1>19 DEF Numbered
<1>24. LowIsReached'
  <2> SUFFICES ASSUME NEW s \in OnStack'
               PROVE  \E t \in OnStack' : low'[s] = dfn[t] /\ t \in Reach[s]
    BY <1>2 DEF LowIsReached
  <2>1. PICK t \in OnStack : low[s] = dfn[t] /\ t \in Reach[s]
    BY <1>20 DEF Walk, LowIsReached
  <2>2. dfn[t] < dfn[v]
    BY <2>1, <1>3, <1>4, <1>20
  <2> QED
    BY <2>1, <2>2, <1>5, <1>17, <1>20
<1>25. CallsReachUp'
  BY <1>2, <1>17, <1>20 DEF Walk, CallsReachUp
<1>26. ReachesCalls'
  <2> SUFFICES ASSUME NEW s \in OnStack', NEW j \in DOMAIN calls',
                      \A i \in DOMAIN calls' : i > j => dfn[s] < dfn[calls'[i].rule]
               PROVE  calls'[j].rule \in Reach[s]
    BY <1>2 DEF ReachesCalls
  <2>1. \A i \in DOMAIN calls : i > j => dfn[s] < dfn[calls[i].rule]
    BY <1>21
  <2> QED
    BY <2>1, <1>17, <1>20 DEF Walk, ReachesCalls
<1>27. DealtIsEntered'
  BY <1>2, <1>18 DEF Walk, DealtIsEntered
<1>28. LowKnows'
  <2> SUFFICES ASSUME NEW r \in OnStack', NEW d \in OnStack', NEW j \in DOMAIN calls',
                      Dealt(r, d)', dfn'[calls'[j].rule] <= dfn'[r],
                      \A i \in DOMAIN calls' : i > j => dfn'[r] < dfn'[calls'[i].rule]
               PROVE  low'[calls'[j].rule] <= dfn'[d]
    BY DEF LowKnows
  <2>1. \A i \in DOMAIN calls : i > j => dfn[r] < dfn[calls[i].rule]
    BY <1>2, <1>21
  <2>2. /\ r \in OnStack /\ d \in OnStack /\ j \in DOMAIN calls /\ Dealt(r, d)
        /\ dfn[calls[j].rule] <= dfn[r]
    BY <1>2, <1>17, <1>18, <1>20
  <2>3. low[calls[j].rule] <= dfn[d]
    BY <2>1, <2>2 DEF Walk, LowKnows
  <2> QED
    BY <2>3, <1>2, <1>17, <1>19, <1>20
<1>29. Closed' /\ LastNamed'
  <2>1. ASSUME NEW r \in Rule
        PROVE  /\ id[r] \in -1..L
               /\ dfn[r] # 0 => r \in OnStack' \/ id[r] >= 0
               /\ id[r] >= 0 => dfn[r] # 0 /\ r \in sccs'[id[r] + 1].Rules
    <3>1. CASE r \in popped
      BY <3>1, <1>4, <1>8, <1>9, <1>11, <1>14, <1>15 DEF Numbered
    <3>2. CASE r \notin popped
      <4>1. id[r] = scc_id[r] /\ id[r] \in -1..(L - 1)
        BY <3>2, <1>10, <1>11
      <4>2. dfn[r] # 0 => r \in OnStack' \/ id[r] >= 0
        BY <4>1, <3>2, <1>7 DEF Result, Closed
      <4>3. id[r] >= 0 => dfn[r] # 0 /\ r \in sccs[id[r] + 1].Rules
        BY <4>1 DEF Result, Closed
      <4>4. id[r] >= 0 => id[r] + 1 \in 1..L
        BY <4>1, <1>9
      <4> QED
        BY <4>1, <4>2, <4>3, <4>4, <1>9, <1>15
    <3> QED
      BY <3>1, <3>2
  <2>2. ASSUME NEW i \in 1..(L + 1)
        PROVE  sccs'[i].Rules # {} /\ \A r \in sccs'[i].Rules : id[r] >= i - 1
    <3>1. CASE i = L + 1
      BY <3>1, <1>8, <1>9, <1>11, <1>14, <1>15
    <3>2. CASE i \in 1..L
      <4>1. sccs'[i] = sccs[i] /\ sccs[i].Rules # {} /\ sccs[i].Rules \subseteq Rule
        BY <3>2, <1>9, <1>15 DEF Result, LastNamed
      <4>2. ASSUME NEW r \in sccs[i].Rules
            PROVE  id[r] >= i - 1
        <5>1. scc_id[r] >= i - 1
          BY <3>2, <1>9 DEF Result, LastNamed
        <5>2. L >= i - 1
          BY <3>2, <1>9
        <5> QED
          BY <5>1, <5>2, <4>1, <1>11
      <4> QED
        BY <4>1, <4>2
    <3> QED
      BY <3>1, <3>2, <1>16
  <2>3. Len(sccs') - 1 = L
    BY <1>9, <1>15
  <2>4. \A r \in Rule : /\ scc_id'[r] \in -1..(Len(sccs') - 1)
                        /\ dfn'[r] # 0 => r \in OnStack' \/ scc_id'[r] >= 0
                        /\ scc_id'[r] >= 0 => dfn'[r] # 0 /\ r \in sccs'[scc_id'[r] + 1].Rules
    BY <2>1, <2>3, <1>2, <1>6
  <2>5. \A i \in DOMAIN sccs' : sccs'[i].Rules # {} /\ \A r \in sccs'[i].Rules : scc_id'[r] >= i - 1
    BY <2>2, <1>6, <1>15
  <2>6. Closed'
    BY <2>4 DEF Closed
  <2>7. LastNamed'
    BY <2>5 DEF LastNamed
  <2> QED
    BY <2>6, <2>7
<1>30. DepsPointBack'
  <2> SUFFICES ASSUME NEW i \in 1..(L + 1), NEW d \in sccs'[i].Deps
               PROVE  d \in 0..(i - 2)
    BY <1>15 DEF DepsPointBack
  <2>1. CASE i = L + 1
    <3>1. PICK r \in popped : \E q \in Dependencies[r] : q \notin popped /\ d = scc_id[q]
      BY <2>1, <1>12, <1>14, <1>15
    <3>2. d \in 0..(L - 1)
      BY <3>1, <1>13
    <3> QED
      BY <3>2, <2>1, <1>9
  <2>2. CASE i \in 1..L
    BY <2>2, <1>9, <1>15 DEF Result, DepsPointBack
  <2> QED
    BY <2>1, <2>2, <1>16
<1>31. DepsCover'
  <2> SUFFICES ASSUME NEW i \in 1..(L + 1)
               PROVE  /\ \A r \in sccs'[i].Rules : \A d \in Dependencies[r] :
                           d \in sccs'[i].Rules \/ \E e \in sccs'[i].Deps : d \in sccs'[e + 1].Rules
                      /\ \A e \in sccs'[i].Deps :
                           \E r \in sccs'[i].Rules : \E d \in Dependencies[r] : d \in sccs'[e + 1].Rules
    BY <1>2, <1>15 DEF DepsCover
  <2>1. CASE i = L + 1
    <3>1. \A k \in 0..(L - 1) : k + 1 \in 1..L
      BY <1>9
    <3>2. ASSUME NEW r \in popped, NEW d \in Dependencies[r], d \notin popped
          PROVE  scc_id[d] \in deps /\ d \in sccs'[scc_id[d] + 1].Rules
      BY <3>1, <3>2, <1>12, <1>13, <1>15
    <3>3. ASSUME NEW e \in deps
          PROVE  \E r \in popped : \E d \in Dependencies[r] : d \in sccs'[e + 1].Rules
      BY <3>2, <1>12
    <3> QED
      BY <3>2, <3>3, <2>1, <1>14, <1>15
  <2>2. CASE i \in 1..L
    <3>1. sccs'[i] = sccs[i] /\ i \in DOMAIN sccs
      BY <2>2, <1>9, <1>15
    <3>2. \A e \in sccs[i].Deps : sccs'[e + 1] = sccs[e + 1]
      <4>1. \A e \in sccs[i].Deps : e \in 0..(i - 2)
        BY <3>1 DEF Result, DepsPointBack
      <4>2. \A e \in 0..(i - 2) : e + 1 \in 1..L
        BY <2>2, <1>9
      <4> QED
        BY <4>1, <4>2, <1>15
    <3> QED
      BY <3>1, <3>2 DEF Result, DepsCover
  <2> QED
    BY <2>1, <2>2, <1>16
<1>32. ComponentsAreCycles'
  <2> SUFFICES ASSUME NEW i \in 1..(L + 1), NEW r \in sccs'[i].Rules
               PROVE  sccs'[i].Rules \subseteq Reach[r]
    BY <1>2, <1>15 DEF ComponentsAreCycles
  <2>1. CASE i = L + 1
    <3>1. r \in popped /\ sccs'[i].Rules = popped
      BY <2>1, <1>14, <1>15
    <3>2. v \in Reach[r]
      <4>1. \A k \in DOMAIN calls : ~(k > N)
        BY <1>3
      <4> QED
        BY <4>1, <3>1, <1>3, <1>8 DEF Walk, ReachesCalls
    <3>3. popped \subseteq Reach[v]
      BY <1>3, <1>8 DEF Walk, CallsReachUp, popped
    <3>4. Reach[v] \subseteq Reach[r]
      BY <3>1, <3>2, <1>8, ReachIsTransitive DEF Typed
    <3> QED
      BY <3>1, <3>3, <3>4
  <2>2. CASE i \in 1..L
    BY <2>2, <1>9, <1>15 DEF Result, ComponentsAreCycles
  <2> QED
    BY <2>1, <2>2, <1>16
<1>33. Searched'
  <2>1. \A r : RequestedAndNeeded(r)' <=> RequestedAndNeeded(r)
    BY <1>2 DEF RequestedAndNeeded
  <2>2. \A r \in OnStack' : id[r] >= 0 => RequestedAndNeeded(r)
    BY <1>11, <1>20 DEF Searched
  <2>3. ASSUME NEW i \in 1..L, NEW r \in sccs[i].Rules \cap popped
        PROVE  RequestedAndNeeded(r)
    <3>1. scc_id[r] >= i - 1 /\ i >= 1 /\ r \in Rule /\ scc_id[r] \in Int /\ i \in Int
      BY <1>8, <1>9, <1>10 DEF Result, LastNamed
    <3>2. scc_id[r] >= 0
      BY <3>1
    <3> QED
      BY <3>2, <1>8 DEF Searched
  <2>4. ASSUME NEW i \in 1..(L + 1), NEW j \in 1..(L + 1), i # j,
               NEW r \in sccs'[i].Rules \cap sccs'[j].Rules
        PROVE  RequestedAndNeeded(r)
    <3>1. CASE i \in 1..L /\ j \in 1..L
      BY <3>1, <2>4, <1>9, <1>15 DEF Searched
    <3>2. CASE i = L + 1 /\ j \in 1..L
      BY <3>2, <2>3, <2>4, <1>14, <1>15
    <3>3. CASE i \in 1..L /\ j = L + 1
      BY <3>3, <2>3, <2>4, <1>14, <1>15
    <3> QED
      BY <3>1, <3>2, <3>3, <2>4, <1>16
  <2> QED
    BY <2>1, <2>2, <2>4, <1>2, <1>6, <1>15 DEF Searched
<1> QED
  BY <1>22, <1>23, <1>24, <1>25, <1>26, <1>27, <1>28, <1>29, <1>30, <1>31, <1>32, <1>33 DEF Walk, Result

LEMMA NextKeeps == IInv /\ [Next]_vars => IInv'
<1> SUFFICES ASSUME IInv, [Next]_vars
             PROVE  IInv'
  OBVIOUS
<1>1. CASE UNCHANGED vars
  <2>1. /\ UNCHANGED <<Dependencies, args, next, calls, dfncnt, dfn, low, stack, sccs, scc_id>>
        /\ Reach' = Reach /\ OnStack' = OnStack
    BY <1>1 DEF vars, graph, search, Reach, OnStack
  <2>2. (\A r, d : Dealt(r, d)' <=> Dealt(r, d)) /\ (\A r : RequestedAndNeeded(r)' <=> RequestedAndNeeded(r))
    BY <2>1 DEF Dealt, RequestedAndNeeded
  <2>3. Typed' /\ Numbered'
    BY <2>1 DEF IInv, Typed, Numbered
  <2>4. Walk'
    BY <2>1, <2>2
    DEF IInv, Walk, LowIsReached, CallsReachUp, ReachesCalls, DealtIsEntered, LowKnows
  <2>5. Result'
    BY <2>1 DEF IInv, Result, Closed, LastNamed, DepsCover, ComponentsAreCycles, DepsPointBack
  <2>6. Searched'
    BY <2>1, <2>2 DEF IInv, Searched
  <2> QED
    BY <2>3, <2>4, <2>5, <2>6 DEF IInv
<1>2. CASE Search
  BY <1>2, NextArgKeeps, DescendKeeps, BackEdgeKeeps, CrossEdgeKeeps, CloseComponentKeeps, LeaveOpenKeeps
  DEF Search
<1> QED
  BY <1>1, <1>2 DEF Next

-----------------------------------------------------------------------------
(* What the invariant says of the components.                              *)

LEMMA TypeOKHolds == IInv => TypeOK
<1> SUFFICES ASSUME IInv
             PROVE  TypeOK
  OBVIOUS
<1> USE DEF IInv
<1>1. \A i, j \in DOMAIN calls : calls[i].rule = calls[j].rule => i = j
  <2> SUFFICES ASSUME NEW i \in DOMAIN calls, NEW j \in DOMAIN calls, calls[i].rule = calls[j].rule
               PROVE  i = j
    OBVIOUS
  <2>1. i \in Nat /\ j \in Nat /\ calls[i] \in Call /\ calls[j] \in Call
    BY SequenceFacts DEF Typed
  <2>2. dfn[calls[i].rule] \in Nat
    BY <2>1 DEF Typed, Call
  <2>3. (i < j => dfn[calls[i].rule] < dfn[calls[j].rule]) /\ (j < i => dfn[calls[j].rule] < dfn[calls[i].rule])
    BY DEF Numbered
  <2> QED
    BY <2>1, <2>2, <2>3
<1>2. \A i \in DOMAIN sccs : sccs[i].Rules \subseteq Rule
  BY ComponentFacts
<1>3. next \in 1..(Len(args) + 1)
  BY DEF Typed
<1>4. {calls[i].rule : i \in DOMAIN calls} \subseteq OnStack
  BY DEF Numbered
<1>5. \A r \in Rule : low[r] <= dfn[r] /\ dfn[r] <= dfncnt /\ scc_id[r] \in -1..(Len(sccs) - 1)
  BY DEF Numbered, Result, Closed
<1> QED
  BY <1>1, <1>2, <1>3, <1>4, <1>5 DEF TypeOK

\* Whatever a component needs is in it or in an earlier one.
LEMMA NeededIsEarlier ==
  ASSUME IInv, NEW k \in DOMAIN sccs, NEW r \in sccs[k].Rules
  PROVE  \A s \in Reach[r] : \E i \in DOMAIN sccs : i <= k /\ s \in sccs[i].Rules
<1> USE DEF IInv
<1> DEFINE upTo == {s \in Rule : \E i \in DOMAIN sccs : i <= k /\ s \in sccs[i].Rules}
<1>1. /\ DOMAIN sccs = 1..Len(sccs) /\ Len(sccs) \in Nat
      /\ \A i \in DOMAIN sccs : sccs[i].Rules \subseteq Rule
  BY ComponentFacts
<1>2. ASSUME NEW s \in upTo, NEW d \in Dependencies[s]
      PROVE  d \in upTo
  <2>1. PICK i \in DOMAIN sccs : i <= k /\ s \in sccs[i].Rules
    OBVIOUS
  <2>2. d \in Rule
    BY DEF Typed
  <2>3. CASE d \in sccs[i].Rules
    BY <2>1, <2>2, <2>3
  <2>4. CASE \E e \in sccs[i].Deps : d \in sccs[e + 1].Rules
    <3>1. PICK e \in sccs[i].Deps : d \in sccs[e + 1].Rules
      BY <2>4
    <3>2. e \in 0..(i - 2)
      BY DEF Result, DepsPointBack
    <3>3. e + 1 \in DOMAIN sccs /\ e + 1 <= k
      BY <3>2, <2>1, <1>1
    <3> QED
      BY <3>1, <3>3, <2>2
  <2> QED
    BY <2>1, <2>3, <2>4 DEF Result, DepsCover
<1>3. r \in upTo
  <2>1. k <= k /\ r \in Rule
    BY <1>1
  <2> QED
    BY <2>1
<1>4. upTo \in SUBSET Rule /\ \A s \in upTo : Dependencies[s] \subseteq upTo
  BY <1>2
<1> HIDE DEF upTo
<1>5. Reach[r] \subseteq upTo
  <2>1. r \in Rule /\ Dependencies \in [Rule -> SUBSET Rule]
    BY <1>3, <1>4 DEF Typed
  <2> QED
    BY <2>1, <1>3, <1>4, ReachFacts
<1> QED
  BY <1>5 DEF upTo

\* When the search is over, the components hold what the requests need.
LEMMA FinishedFacts ==
  ASSUME IInv, Finished
  PROVE  /\ \A r \in Needed : /\ r \in Rule /\ scc_id[r] + 1 \in DOMAIN sccs
                              /\ r \in sccs[scc_id[r] + 1].Rules
         /\ \A i \in DOMAIN sccs : sccs[i].Rules \subseteq Needed
<1> USE DEF IInv
<1> DEFINE entered == {r \in Rule : dfn[r] # 0}
<1>1. calls = <<>> /\ ~(next <= Len(args)) /\ OnStack = {}
  <2>1. calls = <<>> /\ next > Len(args)
    BY DEF Finished
  <2>2. next \in Nat /\ Len(args) \in Nat
    BY SequenceFacts DEF Typed
  <2> QED
    BY <2>1, <2>2 DEF Numbered
<1>2. \A k \in DOMAIN args : k < next /\ args[k] \in Rule
  <2>1. /\ DOMAIN args = 1..Len(args) /\ Len(args) \in Nat /\ next \in Nat
        /\ \A k \in DOMAIN args : args[k] \in Rule
    BY SequenceFacts DEF Typed
  <2> QED
    BY <2>1, <1>1
<1>3. \A r \in entered : Dependencies[r] \subseteq entered
  <2>1. DOMAIN calls = {}
    BY <1>1
  <2>2. \A r \in Rule : Dependencies[r] \subseteq Rule
    BY DEF Typed
  <2> QED
    BY <2>1, <2>2 DEF Walk, DealtIsEntered, Dealt
<1>4. \A k \in DOMAIN args : args[k] \in entered
  BY <1>2 DEF Searched
<1>5. entered \in SUBSET Rule
  OBVIOUS
<1>6. \A r \in entered : r \in Needed
  <2> SUFFICES ASSUME NEW r \in entered
               PROVE  r \in Needed
    OBVIOUS
  <2>1. PICK k \in DOMAIN args : r \in Reach[args[k]]
    BY DEF Searched
  <2> QED
    BY <2>1 DEF Needed, Requested
<1> HIDE DEF entered
<1>7. \A r \in Needed : r \in entered
  <2> SUFFICES ASSUME NEW r \in Needed
               PROVE  r \in entered
    OBVIOUS
  <2>1. PICK k \in DOMAIN args : r \in Reach[args[k]]
    BY DEF Needed, Requested
  <2>2. Reach[args[k]] \subseteq entered
    BY <1>2, <1>3, <1>4, <1>5, ReachFacts DEF Typed
  <2> QED
    BY <2>1, <2>2
<1>8. ASSUME NEW r \in Needed
      PROVE  r \in Rule /\ scc_id[r] + 1 \in DOMAIN sccs /\ r \in sccs[scc_id[r] + 1].Rules
  <2>1. r \in Rule /\ dfn[r] # 0
    BY <1>7 DEF entered
  <2>2. scc_id[r] >= 0 /\ scc_id[r] \in -1..(Len(sccs) - 1)
    BY <2>1, <1>1 DEF Result, Closed
  <2>3. DOMAIN sccs = 1..Len(sccs) /\ Len(sccs) \in Nat
    BY SequenceFacts DEF Typed
  <2>4. scc_id[r] + 1 \in DOMAIN sccs
    BY <2>2, <2>3
  <2> QED
    BY <2>1, <2>2, <2>4 DEF Result, Closed
<1>9. ASSUME NEW i \in DOMAIN sccs, NEW r \in sccs[i].Rules
      PROVE  r \in Needed
  <2>1. r \in Rule /\ i \in Nat /\ i >= 1
    BY ComponentFacts
  <2>2. scc_id[r] \in Int /\ scc_id[r] >= i - 1
    BY <2>1 DEF Result, LastNamed, Typed
  <2>3. scc_id[r] >= 0
    BY <2>1, <2>2
  <2> QED
    BY <2>1, <2>3, <1>6 DEF Result, Closed, entered
<1> QED
  BY <1>8, <1>9

LEMMA ExactHolds == IInv => ExactWhenIndependent
<1> SUFFICES ASSUME IInv, Finished, RequestsIndependent
             PROVE  /\ {sccs[i].Rules : i \in DOMAIN sccs} =
                          {{s \in Reach[r] : r \in Reach[s]} : r \in Needed}
                    /\ \A i, j \in DOMAIN sccs : sccs[i].Rules \cap sccs[j].Rules # {} => i = j
                    /\ \A i, j \in DOMAIN sccs :
                         j - 1 \in sccs[i].Deps <=>
                           i # j /\ \E r \in sccs[i].Rules : Dependencies[r] \cap sccs[j].Rules # {}
  BY DEF ExactWhenIndependent
<1> USE DEF IInv
<1>1. \A i, j \in DOMAIN sccs : sccs[i].Rules \cap sccs[j].Rules # {} => i = j
  <2>1. \A r : ~RequestedAndNeeded(r)
    BY DEF RequestsIndependent, RequestedAndNeeded
  <2> QED
    BY <2>1 DEF Searched
<1>2. ASSUME NEW c \in DOMAIN sccs, NEW r \in sccs[c].Rules
      PROVE  sccs[c].Rules = {s \in Reach[r] : r \in Reach[s]}
  <2>1. \A s \in sccs[c].Rules : s \in Reach[r] /\ r \in Reach[s]
    BY DEF Result, ComponentsAreCycles
  <2>2. ASSUME NEW s \in Reach[r], r \in Reach[s]
        PROVE  s \in sccs[c].Rules
    <3>1. PICK i \in DOMAIN sccs : i <= c /\ s \in sccs[i].Rules
      BY NeededIsEarlier
    <3>2. PICK j \in DOMAIN sccs : j <= i /\ r \in sccs[j].Rules
      BY <3>1, <2>2, NeededIsEarlier
    <3>3. j = c
      BY <3>2, <1>1
    <3>4. i = c
      BY <3>1, <3>2, <3>3, SequenceFacts DEF Typed
    <3> QED
      BY <3>1, <3>4
  <2> QED
    BY <2>1, <2>2
<1>3. \A r \in Needed : \E c \in DOMAIN sccs : r \in sccs[c].Rules
  BY FinishedFacts
<1>4. \A c \in DOMAIN sccs : \E r \in Needed : r \in sccs[c].Rules
  BY FinishedFacts DEF Result, LastNamed
<1> DEFINE Class(r) == {s \in Reach[r] : r \in Reach[s]}
<1>5. ASSUME NEW c \in DOMAIN sccs
      PROVE  \E r \in Needed : sccs[c].Rules = Class(r)
  BY <1>2, <1>4
<1>6. ASSUME NEW r \in Needed
      PROVE  \E c \in DOMAIN sccs : sccs[c].Rules = Class(r)
  BY <1>2, <1>3
<1>7. {sccs[i].Rules : i \in DOMAIN sccs} = {Class(r) : r \in Needed}
  <2> HIDE DEF Class, IInv
  <2> QED
    BY <1>5, <1>6
<1>8. ASSUME NEW i \in DOMAIN sccs, NEW j \in DOMAIN sccs, j - 1 \in sccs[i].Deps
      PROVE  i # j /\ \E r \in sccs[i].Rules : Dependencies[r] \cap sccs[j].Rules # {}
  <2>1. i \in Nat /\ j \in Nat
    BY SequenceFacts DEF Typed
  <2>2. j - 1 \in 0..(i - 2)
    BY <1>8 DEF Result, DepsPointBack
  <2>3. i # j /\ (j - 1) + 1 = j
    BY <2>1, <2>2
  <2> QED
    BY <1>8, <2>3 DEF Result, DepsCover
<1>9. ASSUME NEW i \in DOMAIN sccs, NEW j \in DOMAIN sccs, i # j,
             NEW r \in sccs[i].Rules, NEW d \in Dependencies[r], d \in sccs[j].Rules
      PROVE  j - 1 \in sccs[i].Deps
  <2>1. d \notin sccs[i].Rules
    BY <1>9, <1>1
  <2>2. PICK e \in sccs[i].Deps : d \in sccs[e + 1].Rules
    BY <2>1 DEF Result, DepsCover
  <2>3. e \in 0..(i - 2)
    BY DEF Result, DepsPointBack
  <2>4. DOMAIN sccs = 1..Len(sccs) /\ Len(sccs) \in Nat
    BY SequenceFacts DEF Typed
  <2>5. e + 1 \in DOMAIN sccs
    BY <2>3, <2>4
  <2>6. e + 1 = j
    BY <2>2, <2>5, <1>9, <1>1
  <2>7. e = j - 1
    BY <2>3, <2>4, <2>6
  <2> QED
    BY <2>7
<1> QED
  BY <1>1, <1>7, <1>8, <1>9

-----------------------------------------------------------------------------

LEMMA Invariance == Spec => []IInv
<1> QED
  BY InitHolds, NextKeeps, PTL DEF Spec

\* TypeOK: the numbers of the search, and no rule is searched twice at a time.
THEOREM TypeCorrect == Spec => []TypeOK
<1> QED
  BY Invariance, TypeOKHolds, PTL

\* ComponentsAreCycles: whatever is requested, also when a rule is searched from
\* twice, the rules of a component need one another.
THEOREM ComponentsAreReal == Spec => []ComponentsAreCycles
<1>1. IInv => ComponentsAreCycles
  BY DEF IInv, Result
<1> QED
  BY <1>1, Invariance, PTL

\* DepsPointBack: the graph of the components has no cycle.
THEOREM ComponentsAreOrdered == Spec => []DepsPointBack
<1>1. IInv => DepsPointBack
  BY DEF IInv, Result
<1> QED
  BY <1>1, Invariance, PTL

\* ExactWhenIndependent: the algorithm is Tarjan's when no request needs another,
\* and Deps is the graph of the components.
THEOREM TarjanIsRight == Spec => []ExactWhenIndependent
<1> QED
  BY Invariance, ExactHolds, PTL

-----------------------------------------------------------------------------
(* The sort: its inductive invariant.                                      *)

\* The sort begins when the components are there.
SortTyped ==
  /\ phase \in {"idle", "scan", "loop", "done"}
  /\ phase # "idle" => Finished /\ ingress_cnt \in [Sort!Ids -> Nat]
  /\ scanned \in Nat /\ scanned <= Len(sccs)
  /\ Q \in Seq(Sort!Ids) /\ sorted \in Seq(Sort!Ids)
  /\ edges \subseteq Sort!Ids

\* The loop of line 75 is dealing with the dependencies of the last id sorted.
EdgesOfLast ==
  /\ edges # {} => /\ phase = "loop" /\ sorted # <<>>
                   /\ edges \subseteq Sort!Deps(sorted[Len(sorted)])
  /\ phase \in {"idle", "scan"} => sorted = <<>>
  /\ phase \in {"idle", "done"} => Q = <<>>
  /\ phase = "idle" => scanned = 0

\* The dependents of n that have not been counted down.
Pending(n) ==
  {i \in Sort!Ids : /\ n \in Sort!Deps(i)
                    /\ i \in Sort!Sorted => n \in edges /\ i = sorted[Len(sorted)]}

Counted ==
  phase # "idle" => \A n \in Sort!Ids : ingress_cnt[n] = Cardinality(Pending(n))

\* An id is queued when its count is zero, and once.
QueuedAtZero ==
  /\ phase = "scan" => Sort!Waiting = {n \in Sort!Ids : n < scanned /\ ingress_cnt[n] = 0}
  /\ phase \in {"loop", "done"} =>
       \A n \in Sort!Ids : n \in Sort!Waiting \cup Sort!Sorted <=> ingress_cnt[n] = 0

Once ==
  /\ \A i, j \in DOMAIN Q : Q[i] = Q[j] => i = j
  /\ \A i, j \in DOMAIN sorted : sorted[i] = sorted[j] => i = j
  /\ Sort!Waiting \cap Sort!Sorted = {}

SortInv ==
  SortTyped /\ EdgesOfLast /\ Counted /\ QueuedAtZero /\ Once /\ Sort!DependentsFirst

LinkInv == IInv /\ SortInv

-----------------------------------------------------------------------------
(* Lemmas about the sort.                                                  *)

\* A set of naturals below a bound has a greatest element.
LEMMA GreatestExists ==
  ASSUME NEW n \in Nat, NEW S \in SUBSET (0..n), S # {}
  PROVE  \E x \in S : \A y \in S : y <= x
<1> DEFINE T == {n - x : x \in S}
<1>1. T \subseteq Nat /\ T # {}
  <2>1. \A x \in S : x \in 0..n /\ n - x \in Nat
    OBVIOUS
  <2>2. T \subseteq Nat
    BY <2>1
  <2>3. PICK x : x \in S
    OBVIOUS
  <2>4. n - x \in T
    BY <2>3
  <2> QED
    BY <2>2, <2>4
<1> HIDE DEF T
<1>2. PICK t \in T : \A u \in T : ~(<<u, t>> \in OpToRel(<, Nat))
  BY <1>1, NatLessThanWellFounded, WFMin, Zenon
<1>3. \A u \in T : ~(u < t)
  <2>1. \A u, v \in Nat : u < v => <<u, v>> \in OpToRel(<, Nat)
    BY DEF OpToRel
  <2> QED
    BY <2>1, <1>1, <1>2, Zenon
<1>4. PICK x \in S : t = n - x
  BY DEF T
<1>5. ASSUME NEW y \in S
      PROVE  y <= x
  <2>1. n - y \in T
    BY DEF T
  <2>2. ~(n - y < n - x)
    BY <1>3, <1>4, <2>1
  <2> QED
    BY <2>2
<1> QED
  BY <1>5

LEMMA QueueFacts ==
  ASSUME NEW S, NEW q \in Seq(S), q # <<>>
  PROVE  /\ Len(q) \in Nat /\ Len(q) >= 1
         /\ Head(q) = q[1] /\ Head(q) \in S
         /\ Tail(q) \in Seq(S) /\ Len(Tail(q)) = Len(q) - 1
         /\ \A i \in 1..(Len(q) - 1) : Tail(q)[i] = q[i + 1]
OBVIOUS

\* Appending one element keeps a sequence without repetitions so.
LEMMA AppendOnce ==
  ASSUME NEW S, NEW s \in Seq(S), NEW e \in S,
         \A i, j \in DOMAIN s : s[i] = s[j] => i = j,
         \A i \in DOMAIN s : s[i] # e,
         NEW t, t = Append(s, e)
  PROVE  /\ t \in Seq(S)
         /\ \A i, j \in DOMAIN t : t[i] = t[j] => i = j
         /\ {t[i] : i \in DOMAIN t} = {s[i] : i \in DOMAIN s} \cup {e}
<1>1. /\ t \in Seq(S) /\ Len(t) = Len(s) + 1
      /\ \A i \in 1..Len(s) : t[i] = s[i]
      /\ t[Len(s) + 1] = e
  BY AppendFacts
<1>2. Len(s) \in Nat /\ DOMAIN s = 1..Len(s) /\ DOMAIN t = 1..Len(t)
  BY <1>1, SequenceFacts
<1>3. \A i, j \in DOMAIN t : t[i] = t[j] => i = j
  <2>1. \A i \in DOMAIN t : i \in DOMAIN s \/ i = Len(s) + 1
    BY <1>1, <1>2
  <2> QED
    BY <2>1, <1>1, <1>2
<1>4. {t[i] : i \in DOMAIN t} \subseteq {s[i] : i \in DOMAIN s} \cup {e}
  BY <1>1, <1>2
<1>5. {s[i] : i \in DOMAIN s} \cup {e} \subseteq {t[i] : i \in DOMAIN t}
  <2>1. Len(s) + 1 \in DOMAIN t /\ \A i \in DOMAIN s : i \in DOMAIN t
    BY <1>1, <1>2
  <2> QED
    BY <2>1, <1>1, <1>2
<1> QED
  BY <1>1, <1>3, <1>4, <1>5

\* Taking the first one, too.
LEMMA TailOnce ==
  ASSUME NEW S, NEW s \in Seq(S), s # <<>>,
         \A i, j \in DOMAIN s : s[i] = s[j] => i = j
  PROVE  /\ Tail(s) \in Seq(S)
         /\ \A i, j \in DOMAIN Tail(s) : Tail(s)[i] = Tail(s)[j] => i = j
         /\ {Tail(s)[i] : i \in DOMAIN Tail(s)} = {s[i] : i \in DOMAIN s} \ {Head(s)}
<1> DEFINE t == Tail(s)
<1>1. /\ t \in Seq(S) /\ Len(t) = Len(s) - 1 /\ Head(s) = s[1]
      /\ Len(s) \in Nat /\ Len(s) >= 1
      /\ \A i \in 1..(Len(s) - 1) : t[i] = s[i + 1]
  BY QueueFacts
<1> HIDE DEF t
<1>2. DOMAIN s = 1..Len(s) /\ DOMAIN t = 1..(Len(s) - 1)
  BY <1>1, SequenceFacts
<1>3. \A i \in DOMAIN t : i + 1 \in DOMAIN s /\ t[i] = s[i + 1] /\ i + 1 # 1
  BY <1>1, <1>2
<1>4. \A i, j \in DOMAIN t : t[i] = t[j] => i = j
  <2>1. \A i, j \in DOMAIN t : i + 1 = j + 1 => i = j
    BY <1>2
  <2> QED
    BY <2>1, <1>3
<1>5. {t[i] : i \in DOMAIN t} \subseteq {s[i] : i \in DOMAIN s} \ {Head(s)}
  <2>1. 1 \in DOMAIN s
    BY <1>1, <1>2
  <2> QED
    BY <2>1, <1>1, <1>3
<1>6. {s[i] : i \in DOMAIN s} \ {Head(s)} \subseteq {t[i] : i \in DOMAIN t}
  <2>1. ASSUME NEW i \in DOMAIN s, i # 1
        PROVE  i - 1 \in DOMAIN t /\ t[i - 1] = s[i]
    <3>1. i \in 1..Len(s)
      BY <1>2
    <3>2. i - 1 \in 1..(Len(s) - 1) /\ (i - 1) + 1 = i
      BY <3>1, <2>1, <1>1
    <3> QED
      BY <3>2, <1>1, <1>2
  <2>2. \A i \in DOMAIN s : s[i] # Head(s) => i # 1
    BY <1>1
  <2>3. \A i \in DOMAIN s : s[i] # Head(s) => \E k \in DOMAIN t : t[k] = s[i]
    BY <2>1, <2>2
  <2> QED
    BY <2>3
<1> QED
  BY <1>1, <1>4, <1>5, <1>6 DEF t

\* The ids, and what DepsPointBack says of them.
LEMMA IdFacts ==
  ASSUME IInv
  PROVE  /\ Len(sccs) \in Nat /\ Sort!Ids = 0..(Len(sccs) - 1)
         /\ \A i \in Sort!Ids : i \in Nat /\ i + 1 \in DOMAIN sccs
         /\ \A i \in DOMAIN sccs : i - 1 \in Sort!Ids
         /\ \A i \in Sort!Ids : \A d \in Sort!Deps(i) : d \in Sort!Ids /\ d < i
<1>1. Typed /\ DepsPointBack
  BY DEF IInv, Result
<1>2. Len(sccs) \in Nat /\ DOMAIN sccs = 1..Len(sccs)
  BY <1>1, ComponentFacts
<1>3. Sort!Ids = 0..(Len(sccs) - 1)
  BY DEF Sort!Ids
<1>4. /\ \A i \in Sort!Ids : i \in Nat /\ i + 1 \in DOMAIN sccs
      /\ \A i \in DOMAIN sccs : i - 1 \in Sort!Ids
  BY <1>2, <1>3
<1>5. ASSUME NEW i \in Sort!Ids, NEW d \in Sort!Deps(i)
      PROVE  d \in Sort!Ids /\ d < i
  <2>1. i \in Nat /\ i + 1 \in DOMAIN sccs /\ d \in sccs[i + 1].Deps
    BY <1>4 DEF Sort!Deps
  <2>2. d \in 0..(i + 1 - 2)
    BY <2>1, <1>1 DEF DepsPointBack
  <2> QED
    BY <2>1, <2>2, <1>2, <1>3
<1> QED
  BY <1>2, <1>3, <1>4, <1>5

LEMMA PendingIsFinite ==
  ASSUME IInv, NEW n
  PROVE  /\ IsFiniteSet(Pending(n)) /\ Cardinality(Pending(n)) \in Nat
         /\ Cardinality(Pending(n)) = 0 <=> Pending(n) = {}
<1>1. IsFiniteSet(Sort!Ids)
  BY IdFacts, FS_Interval
<1>2. Pending(n) \subseteq Sort!Ids
  BY DEF Pending
<1>3. IsFiniteSet(Pending(n))
  BY <1>1, <1>2, FS_Subset
<1> QED
  BY <1>3, FS_EmptySet, FS_CardinalityType

-----------------------------------------------------------------------------
(* The search goes on before the sort begins.                              *)

LEMMA LinkInitHolds == LinkInit => LinkInv
<1> SUFFICES ASSUME LinkInit
             PROVE  LinkInv
  OBVIOUS
<1>1. Init /\ Sort!SortInit
  BY DEF LinkInit
<1>2. IInv
  BY <1>1, InitHolds
<1>3. sccs = <<>> /\ Len(sccs) = 0
  BY <1>1 DEF Init
<1>4. SortTyped
  BY <1>1, <1>3 DEF Sort!SortInit, SortTyped
<1>5. EdgesOfLast /\ Counted /\ QueuedAtZero /\ Once /\ Sort!DependentsFirst
  BY <1>1 DEF Sort!SortInit, EdgesOfLast, Counted, QueuedAtZero, Once, Sort!DependentsFirst,
              Sort!Waiting, Sort!Sorted
<1> QED
  BY <1>2, <1>4, <1>5 DEF LinkInv, SortInv

LEMMA AnalyseKeeps ==
  ASSUME LinkInv, Analyse
  PROVE  LinkInv'
<1>1. IInv'
  BY NextKeeps DEF LinkInv, Analyse, Next
<1>2. UNCHANGED sortVars /\ ~Finished
  <2>1. Search
    BY DEF Analyse
  <2>2. next \in Nat /\ Len(args) \in Nat
    BY SequenceFacts DEF LinkInv, IInv, Typed
  <2>3. ~Finished
    BY <2>1, <2>2 DEF Search, Finished, NextArg, Descend, BackEdge, CrossEdge, CloseComponent, LeaveOpen
  <2> QED
    BY <2>3 DEF Analyse
<1>3. /\ phase = "idle" /\ phase' = phase /\ scanned' = scanned
      /\ Q = <<>> /\ Q' = Q /\ sorted = <<>> /\ sorted' = sorted
      /\ edges = {} /\ edges' = edges
  BY <1>2 DEF LinkInv, SortInv, SortTyped, EdgesOfLast, sortVars
<1>4. Len(sccs') \in Nat /\ scanned = 0
  BY <1>1, <1>3, IdFacts, ComponentFacts DEF IInv, LinkInv, SortInv, EdgesOfLast
<1>5. SortTyped'
  BY <1>3, <1>4 DEF SortTyped
<1>6. EdgesOfLast' /\ Counted' /\ QueuedAtZero' /\ Once' /\ Sort!DependentsFirst'
  BY <1>3, <1>4 DEF EdgesOfLast, Counted, QueuedAtZero, Once, Sort!DependentsFirst,
                    Sort!Waiting, Sort!Sorted
<1> QED
  BY <1>1, <1>5, <1>6 DEF LinkInv, SortInv

-----------------------------------------------------------------------------
(* The sort leaves the components alone.                                   *)

LEMMA OrderFacts ==
  ASSUME LinkInv, UNCHANGED vars
  PROVE  /\ IInv' /\ (Finished <=> Finished') /\ sccs' = sccs
         /\ Sort!Ids' = Sort!Ids
         /\ \A i : Sort!Deps(i)' = Sort!Deps(i)
<1>1. IInv'
  BY NextKeeps DEF LinkInv
<1>2. UNCHANGED <<sccs, calls, next, args>>
  BY DEF vars, graph, search
<1> QED
  BY <1>1, <1>2 DEF Finished, Sort!Ids, Sort!Deps

LEMMA CountKeeps ==
  ASSUME LinkInv, Finished, Sort!Count, UNCHANGED vars
  PROVE  LinkInv'
<1>1. /\ IInv /\ IInv' /\ Finished' /\ sccs' = sccs /\ Sort!Ids' = Sort!Ids
      /\ \A i : Sort!Deps(i)' = Sort!Deps(i)
  BY OrderFacts DEF LinkInv
<1>2. /\ SortTyped /\ sorted = <<>> /\ Q = <<>> /\ edges = {} /\ scanned = 0
      /\ phase' = "scan" /\ scanned' = scanned /\ Q' = Q /\ sorted' = sorted /\ edges' = edges
      /\ ingress_cnt' = [n \in Sort!Ids |-> Sort!Dependents(n)]
  BY DEF LinkInv, SortInv, SortTyped, EdgesOfLast, Sort!Count
<1>3. ASSUME NEW n \in Sort!Ids
      PROVE  Sort!Dependents(n) = Cardinality(Pending(n)) /\ Pending(n)' = Pending(n)
  <2>1. {i \in Sort!Ids : n \in Sort!Deps(i)} = Pending(n)
    BY <1>2 DEF Pending, Sort!Sorted
  <2>2. Pending(n)' = Pending(n)
    BY <1>1, <1>2 DEF Pending, Sort!Sorted
  <2>3. Sort!Dependents(n) = Cardinality({i \in Sort!Ids : n \in Sort!Deps(i)})
    BY DEF Sort!Dependents, Sort!Cardinality, Cardinality
  <2> QED
    BY <2>1, <2>2, <2>3, Zenon
<1>4. SortTyped'
  <2>1. ingress_cnt' \in [Sort!Ids -> Nat]
    BY <1>1, <1>2, <1>3, PendingIsFinite
  <2> QED
    BY <1>1, <1>2, <2>1 DEF SortTyped
<1>5. Counted'
  BY <1>1, <1>2, <1>3 DEF Counted
<1>6. QueuedAtZero'
  <2>1. \A n \in Sort!Ids : ~(n < 0)
    BY <1>1, IdFacts
  <2>2. Sort!Waiting' = {}
    BY <1>2 DEF Sort!Waiting
  <2> QED
    BY <1>1, <1>2, <2>1, <2>2 DEF QueuedAtZero
<1>7. EdgesOfLast' /\ Once' /\ Sort!DependentsFirst'
  BY <1>2 DEF EdgesOfLast, Once, Sort!DependentsFirst, Sort!Waiting, Sort!Sorted
<1> QED
  BY <1>1, <1>4, <1>5, <1>6, <1>7 DEF LinkInv, SortInv

\* An id that is not queued yet goes to the end of Q.
LEMMA QueueGrows ==
  ASSUME SortTyped, Once, NEW n \in Sort!Ids, n \notin Sort!Waiting,
         n \notin Sort!Sorted, Q' = Append(Q, n)
  PROVE  /\ Q' \in Seq(Sort!Ids)
         /\ \A i, j \in DOMAIN Q' : Q'[i] = Q'[j] => i = j
         /\ Sort!Waiting' = Sort!Waiting \cup {n}
<1>1. Q \in Seq(Sort!Ids) /\ (\A i, j \in DOMAIN Q : Q[i] = Q[j] => i = j)
  BY DEF SortTyped, Once
<1>2. \A i \in DOMAIN Q : Q[i] # n
  BY DEF Sort!Waiting
<1>3. /\ Q' \in Seq(Sort!Ids)
      /\ \A i, j \in DOMAIN Q' : Q'[i] = Q'[j] => i = j
      /\ {Q'[i] : i \in DOMAIN Q'} = {Q[i] : i \in DOMAIN Q} \cup {n}
  BY <1>1, <1>2, AppendOnce
<1> QED
  BY <1>3 DEF Sort!Waiting

LEMMA ScanKeeps ==
  ASSUME LinkInv, Finished, Sort!Scan, UNCHANGED vars
  PROVE  LinkInv'
<1>1. /\ IInv /\ IInv' /\ Finished' /\ sccs' = sccs /\ Sort!Ids' = Sort!Ids
      /\ \A i : Sort!Deps(i)' = Sort!Deps(i)
  BY OrderFacts DEF LinkInv
<1>2. /\ SortTyped /\ EdgesOfLast /\ Counted /\ QueuedAtZero /\ Once
      /\ phase = "scan" /\ phase' = phase /\ sorted = <<>> /\ sorted' = sorted
      /\ edges = {} /\ edges' = edges /\ ingress_cnt' = ingress_cnt
      /\ scanned \in Sort!Ids /\ scanned' = scanned + 1
      /\ Q' = IF ingress_cnt[scanned] = 0 THEN Append(Q, scanned) ELSE Q
  BY DEF LinkInv, SortInv, SortTyped, EdgesOfLast, Sort!Scan
<1>3. \A n : Pending(n)' = Pending(n)
  BY <1>1, <1>2 DEF Pending, Sort!Sorted
<1>4. Sort!Waiting = {n \in Sort!Ids : n < scanned /\ ingress_cnt[n] = 0} /\ Sort!Sorted = {}
  BY <1>2 DEF QueuedAtZero, Sort!Sorted
<1>5. /\ scanned \in Nat /\ scanned + 1 \in Nat /\ scanned + 1 <= Len(sccs)
      /\ ~(scanned < scanned)
      /\ \A n \in Sort!Ids : n < scanned + 1 <=> n < scanned \/ n = scanned
  BY <1>1, <1>2, IdFacts
<1>6. /\ Q' \in Seq(Sort!Ids)
      /\ \A i, j \in DOMAIN Q' : Q'[i] = Q'[j] => i = j
      /\ Sort!Waiting' = {n \in Sort!Ids : n < scanned + 1 /\ ingress_cnt[n] = 0}
  <2>1. CASE ingress_cnt[scanned] = 0
    <3>1. /\ Q' \in Seq(Sort!Ids)
          /\ \A i, j \in DOMAIN Q' : Q'[i] = Q'[j] => i = j
          /\ Sort!Waiting' = Sort!Waiting \cup {scanned}
      BY <1>2, <1>4, <1>5, <2>1, QueueGrows
    <3> QED
      BY <3>1, <2>1, <1>2, <1>4, <1>5
  <2>2. CASE ingress_cnt[scanned] # 0
    <3>1. Q' = Q /\ Sort!Waiting' = Sort!Waiting
      BY <1>2, <2>2 DEF Sort!Waiting
    <3>2. Q' \in Seq(Sort!Ids) /\ \A i, j \in DOMAIN Q' : Q'[i] = Q'[j] => i = j
      BY <3>1, <1>2 DEF SortTyped, Once
    <3> QED
      BY <3>1, <3>2, <2>2, <1>4, <1>5
  <2> QED
    BY <2>1, <2>2
<1>7. SortTyped'
  BY <1>1, <1>2, <1>5, <1>6 DEF SortTyped
<1>8. Counted'
  BY <1>1, <1>2, <1>3 DEF Counted
<1>9. QueuedAtZero'
  BY <1>1, <1>2, <1>6 DEF QueuedAtZero
<1>10. EdgesOfLast' /\ Once' /\ Sort!DependentsFirst'
  BY <1>2, <1>6 DEF EdgesOfLast, Once, Sort!DependentsFirst, Sort!Sorted
<1> QED
  BY <1>1, <1>7, <1>8, <1>9, <1>10 DEF LinkInv, SortInv

LEMMA ScanEndsKeeps ==
  ASSUME LinkInv, Finished, Sort!ScanEnds, UNCHANGED vars
  PROVE  LinkInv'
<1>1. /\ IInv /\ IInv' /\ Finished' /\ sccs' = sccs /\ Sort!Ids' = Sort!Ids
      /\ \A i : Sort!Deps(i)' = Sort!Deps(i)
  BY OrderFacts DEF LinkInv
<1>2. /\ SortTyped /\ EdgesOfLast /\ Counted /\ QueuedAtZero /\ Once
      /\ phase = "scan" /\ phase' = "loop" /\ sorted = <<>> /\ sorted' = sorted
      /\ edges = {} /\ edges' = edges /\ ingress_cnt' = ingress_cnt
      /\ scanned \notin Sort!Ids /\ scanned' = scanned /\ Q' = Q
  BY DEF LinkInv, SortInv, SortTyped, EdgesOfLast, Sort!ScanEnds
<1>3. \A n : Pending(n)' = Pending(n)
  BY <1>1, <1>2 DEF Pending, Sort!Sorted
<1>4. \A n \in Sort!Ids : n < scanned
  <2>1. /\ scanned \in Nat /\ scanned <= Len(sccs) /\ Len(sccs) \in Nat
        /\ Sort!Ids = 0..(Len(sccs) - 1)
    BY <1>1, <1>2, IdFacts DEF SortTyped
  <2> QED
    BY <2>1, <1>2
<1>5. SortTyped' /\ Counted'
  BY <1>1, <1>2, <1>3 DEF SortTyped, Counted
<1>6. QueuedAtZero'
  <2>1. Sort!Waiting' = Sort!Waiting /\ Sort!Sorted' = {}
    BY <1>2 DEF Sort!Waiting, Sort!Sorted
  <2>2. Sort!Waiting = {n \in Sort!Ids : n < scanned /\ ingress_cnt[n] = 0}
    BY <1>2 DEF QueuedAtZero
  <2> QED
    BY <1>1, <1>2, <1>4, <2>1, <2>2 DEF QueuedAtZero
<1>7. EdgesOfLast' /\ Once' /\ Sort!DependentsFirst'
  BY <1>2 DEF EdgesOfLast, Once, Sort!DependentsFirst, Sort!Sorted, Sort!Waiting
<1> QED
  BY <1>1, <1>5, <1>6, <1>7 DEF LinkInv, SortInv

LEMMA SortEndsKeeps ==
  ASSUME LinkInv, Finished, Sort!SortEnds, UNCHANGED vars
  PROVE  LinkInv'
<1>1. /\ IInv /\ IInv' /\ Finished' /\ sccs' = sccs /\ Sort!Ids' = Sort!Ids
      /\ \A i : Sort!Deps(i)' = Sort!Deps(i)
  BY OrderFacts DEF LinkInv
<1>2. /\ SortTyped /\ EdgesOfLast /\ Counted /\ QueuedAtZero /\ Once /\ Sort!DependentsFirst
      /\ phase = "loop" /\ phase' = "done" /\ sorted' = sorted
      /\ edges = {} /\ edges' = edges /\ ingress_cnt' = ingress_cnt
      /\ scanned' = scanned /\ Q = <<>> /\ Q' = Q
  BY DEF LinkInv, SortInv, Sort!SortEnds
<1>3. \A n : Pending(n)' = Pending(n)
  BY <1>1, <1>2 DEF Pending, Sort!Sorted
<1>4. SortTyped' /\ EdgesOfLast' /\ Counted'
  BY <1>1, <1>2, <1>3 DEF SortTyped, EdgesOfLast, Counted
<1>5. QueuedAtZero' /\ Once' /\ Sort!DependentsFirst'
  BY <1>1, <1>2 DEF QueuedAtZero, Once, Sort!DependentsFirst, Sort!Sorted, Sort!Waiting
<1> QED
  BY <1>1, <1>2, <1>4, <1>5 DEF LinkInv, SortInv

\* The id taken has no dependents left, and its own dependencies wait for it
\* until the loop has counted them down.
LEMMA TakeKeeps ==
  ASSUME LinkInv, Finished, Sort!Take, UNCHANGED vars
  PROVE  LinkInv'
<1> DEFINE h == Head(Q)
<1>1. /\ IInv /\ IInv' /\ Finished' /\ sccs' = sccs /\ Sort!Ids' = Sort!Ids
      /\ \A i : Sort!Deps(i)' = Sort!Deps(i)
  BY OrderFacts DEF LinkInv
<1>2. /\ SortTyped /\ EdgesOfLast /\ Counted /\ QueuedAtZero /\ Once /\ Sort!DependentsFirst
      /\ phase = "loop" /\ phase' = phase /\ sorted' = Append(sorted, h)
      /\ edges = {} /\ edges' = Sort!Deps(h) /\ ingress_cnt' = ingress_cnt
      /\ scanned' = scanned /\ Q # <<>> /\ Q' = Tail(Q)
  BY DEF LinkInv, SortInv, Sort!Take
<1>3. h \in Sort!Ids /\ h \in Sort!Waiting /\ h \notin Sort!Sorted
  <2>1. Q \in Seq(Sort!Ids)
    BY <1>2 DEF SortTyped
  <2>2. h \in Sort!Ids /\ h = Q[1] /\ Len(Q) \in Nat /\ Len(Q) >= 1 /\ DOMAIN Q = 1..Len(Q)
    BY <2>1, <1>2, QueueFacts, SequenceFacts
  <2>3. h \in Sort!Waiting
    BY <2>2 DEF Sort!Waiting
  <2> QED
    BY <2>2, <2>3, <1>2 DEF Once
<1> HIDE DEF h
<1>4. /\ Q' \in Seq(Sort!Ids)
      /\ \A i, j \in DOMAIN Q' : Q'[i] = Q'[j] => i = j
      /\ Sort!Waiting' = Sort!Waiting \ {h}
  <2>1. Q \in Seq(Sort!Ids) /\ (\A i, j \in DOMAIN Q : Q[i] = Q[j] => i = j)
    BY <1>2 DEF SortTyped, Once
  <2>2. /\ Q' \in Seq(Sort!Ids)
        /\ \A i, j \in DOMAIN Q' : Q'[i] = Q'[j] => i = j
        /\ {Q'[i] : i \in DOMAIN Q'} = {Q[i] : i \in DOMAIN Q} \ {Head(Q)}
    <3>1. Q # <<>> /\ Q' = Tail(Q)
      BY <1>2
    <3>2. /\ Tail(Q) \in Seq(Sort!Ids)
          /\ \A i, j \in DOMAIN Tail(Q) : Tail(Q)[i] = Tail(Q)[j] => i = j
          /\ {Tail(Q)[i] : i \in DOMAIN Tail(Q)} = {Q[i] : i \in DOMAIN Q} \ {Head(Q)}
      BY <2>1, <3>1, TailOnce
    <3> QED
      BY <3>1, <3>2
  <2> QED
    BY <2>2 DEF Sort!Waiting, h
<1>5. /\ sorted' \in Seq(Sort!Ids)
      /\ \A i, j \in DOMAIN sorted' : sorted'[i] = sorted'[j] => i = j
      /\ Sort!Sorted' = Sort!Sorted \cup {h}
  <2>1. /\ sorted \in Seq(Sort!Ids) /\ (\A i, j \in DOMAIN sorted : sorted[i] = sorted[j] => i = j)
        /\ \A i \in DOMAIN sorted : sorted[i] # h
    BY <1>2, <1>3 DEF SortTyped, Once, Sort!Sorted
  <2>2. /\ sorted' \in Seq(Sort!Ids)
        /\ \A i, j \in DOMAIN sorted' : sorted'[i] = sorted'[j] => i = j
        /\ {sorted'[i] : i \in DOMAIN sorted'} = {sorted[i] : i \in DOMAIN sorted} \cup {h}
    <3>1. h \in Sort!Ids /\ sorted' = Append(sorted, h)
      BY <1>2, <1>3
    <3> QED
      BY <2>1, <3>1, AppendOnce
  <2> QED
    BY <2>2 DEF Sort!Sorted
<1>6. /\ Len(sorted') = Len(sorted) + 1 /\ Len(sorted) \in Nat
      /\ DOMAIN sorted = 1..Len(sorted) /\ DOMAIN sorted' = 1..(Len(sorted) + 1)
      /\ sorted'[Len(sorted) + 1] = h /\ \A i \in 1..Len(sorted) : sorted'[i] = sorted[i]
  <2>1. sorted \in Seq(Sort!Ids)
    BY <1>2 DEF SortTyped
  <2>2. /\ Len(sorted') = Len(sorted) + 1
        /\ sorted'[Len(sorted) + 1] = h /\ \A i \in 1..Len(sorted) : sorted'[i] = sorted[i]
    BY <2>1, <1>2, <1>3, AppendFacts
  <2>3. /\ Len(sorted) \in Nat /\ DOMAIN sorted = 1..Len(sorted) /\ DOMAIN sorted' = 1..Len(sorted')
    BY <2>1, <1>5, SequenceFacts
  <2> QED
    BY <2>2, <2>3
<1>7. edges' \subseteq Sort!Ids
  BY <1>1, <1>2, <1>3, IdFacts
<1>8. \A n : Pending(n)' = Pending(n)
  <2> SUFFICES ASSUME NEW n
               PROVE  Pending(n)' = Pending(n)
    OBVIOUS
  <2>1. Pending(n) = {i \in Sort!Ids : n \in Sort!Deps(i) /\ i \notin Sort!Sorted}
    BY <1>2 DEF Pending
  <2>2. Pending(n)' = {i \in Sort!Ids :
          n \in Sort!Deps(i) /\ (i \in Sort!Sorted' => n \in edges' /\ i = sorted'[Len(sorted')])}
    BY <1>1 DEF Pending
  <2> QED
    BY <2>1, <2>2, <1>2, <1>3, <1>5, <1>6
<1>9. SortTyped' /\ Counted'
  BY <1>1, <1>2, <1>4, <1>5, <1>7, <1>8 DEF SortTyped, Counted
<1>10. EdgesOfLast'
  <2>1. sorted' # <<>>
    BY <1>5, <1>6, SequenceFacts
  <2> QED
    BY <2>1, <1>1, <1>2, <1>6 DEF EdgesOfLast
<1>11. QueuedAtZero'
  BY <1>1, <1>2, <1>3, <1>4, <1>5 DEF QueuedAtZero
<1>12. Once'
  BY <1>2, <1>4, <1>5 DEF Once
<1>13. Sort!DependentsFirst'
  <2> SUFFICES ASSUME NEW j \in DOMAIN sorted', NEW i \in Sort!Ids, sorted'[j] \in Sort!Deps(i)
               PROVE  \E k \in 1..(j - 1) : sorted'[k] = i
    BY <1>1 DEF Sort!DependentsFirst
  <2>1. CASE j \in DOMAIN sorted
    <3>1. PICK k \in 1..(j - 1) : sorted[k] = i
      BY <2>1, <1>2, <1>6 DEF Sort!DependentsFirst
    <3>2. k \in 1..Len(sorted)
      BY <2>1, <3>1, <1>6
    <3> QED
      BY <3>1, <3>2, <1>6
  <2>2. CASE j = Len(sorted) + 1
    <3>1. h \in Sort!Deps(i)
      BY <2>2, <1>6
    <3>2. Cardinality(Pending(h)) = 0
      BY <1>2, <1>3 DEF Counted, QueuedAtZero
    <3>3. Pending(h) = {}
      BY <3>2, <1>1, PendingIsFinite
    <3>4. i \in Sort!Sorted
      BY <3>1, <3>3 DEF Pending
    <3>5. PICK k \in DOMAIN sorted : sorted[k] = i
      BY <3>4 DEF Sort!Sorted
    <3>6. k \in 1..(j - 1)
      BY <2>2, <1>6
    <3> QED
      BY <3>5, <3>6, <1>6
  <2> QED
    BY <2>1, <2>2, <1>6
<1> QED
  BY <1>1, <1>9, <1>10, <1>11, <1>12, <1>13 DEF LinkInv, SortInv

LEMMA CountDownKeeps ==
  ASSUME LinkInv, Finished, Sort!CountDown, UNCHANGED vars
  PROVE  LinkInv'
<1>1. /\ IInv /\ IInv' /\ Finished' /\ sccs' = sccs /\ Sort!Ids' = Sort!Ids
      /\ \A i : Sort!Deps(i)' = Sort!Deps(i)
  BY OrderFacts DEF LinkInv
<1>2. /\ SortTyped /\ EdgesOfLast /\ Counted /\ QueuedAtZero /\ Once /\ Sort!DependentsFirst
      /\ phase = "loop" /\ phase' = phase /\ sorted' = sorted /\ scanned' = scanned
  BY DEF LinkInv, SortInv, Sort!CountDown
<1>3. PICK n \in edges :
        /\ ingress_cnt' = [ingress_cnt EXCEPT ![n] = @ - 1]
        /\ Q' = IF ingress_cnt[n] = 1 THEN Append(Q, n) ELSE Q
        /\ edges' = edges \ {n}
  BY DEF Sort!CountDown, Sort!LastDependent
<1> DEFINE last == sorted[Len(sorted)]
<1>4. n \in Sort!Ids /\ n \in Sort!Deps(last) /\ sorted # <<>>
  BY <1>2 DEF SortTyped, EdgesOfLast
<1>5. last \in Sort!Ids /\ last \in Sort!Sorted
  <2>1. sorted \in Seq(Sort!Ids)
    BY <1>2 DEF SortTyped
  <2>2. Len(sorted) \in DOMAIN sorted /\ last \in Sort!Ids
    BY <2>1, <1>4, SequenceFacts
  <2> QED
    BY <2>2 DEF Sort!Sorted
<1> HIDE DEF last
<1>6. Sort!Sorted' = Sort!Sorted /\ last' = last
  BY <1>2 DEF Sort!Sorted, last
<1>7. last \in Pending(n) /\ Pending(n)' = Pending(n) \ {last}
  BY <1>1, <1>3, <1>4, <1>5, <1>6 DEF Pending, last
<1>8. \A m : m # n => Pending(m)' = Pending(m)
  BY <1>1, <1>3, <1>6 DEF Pending, last
<1>9. /\ Cardinality(Pending(n)') = ingress_cnt[n] - 1
      /\ ingress_cnt[n] \in Nat /\ ingress_cnt[n] >= 1
  <2>1. /\ IsFiniteSet(Pending(n)) /\ Cardinality(Pending(n)) \in Nat
        /\ Cardinality(Pending(n)) # 0
    BY <1>1, <1>7, PendingIsFinite
  <2>2. Cardinality(Pending(n) \ {last}) = Cardinality(Pending(n)) - 1
    BY <2>1, <1>7, FS_RemoveElement
  <2>3. ingress_cnt[n] = Cardinality(Pending(n))
    BY <1>2, <1>4 DEF Counted
  <2> QED
    BY <2>1, <2>2, <2>3, <1>7
<1>10. /\ ingress_cnt \in [Sort!Ids -> Nat] /\ ingress_cnt' \in [Sort!Ids -> Nat]
       /\ ingress_cnt'[n] = ingress_cnt[n] - 1
       /\ \A m \in Sort!Ids : m # n => ingress_cnt'[m] = ingress_cnt[m]
  BY <1>2, <1>3, <1>4, <1>9 DEF SortTyped
<1>11. n \notin Sort!Waiting /\ n \notin Sort!Sorted
  <2>1. ingress_cnt[n] # 0
    BY <1>9
  <2> QED
    BY <2>1, <1>2, <1>4 DEF QueuedAtZero
<1>12. /\ Q' \in Seq(Sort!Ids)
       /\ \A i, j \in DOMAIN Q' : Q'[i] = Q'[j] => i = j
       /\ Sort!Waiting' = IF ingress_cnt[n] = 1 THEN Sort!Waiting \cup {n} ELSE Sort!Waiting
  <2>1. CASE ingress_cnt[n] = 1
    BY <2>1, <1>2, <1>3, <1>4, <1>11, QueueGrows
  <2>2. CASE ingress_cnt[n] # 1
    BY <2>2, <1>2, <1>3 DEF SortTyped, Once, Sort!Waiting
  <2> QED
    BY <2>1, <2>2
<1>13. SortTyped'
  BY <1>1, <1>2, <1>3, <1>10, <1>12 DEF SortTyped
<1>14. Counted'
  <2>1. \A m \in Sort!Ids : ingress_cnt'[m] = Cardinality(Pending(m)')
    BY <1>2, <1>8, <1>9, <1>10 DEF Counted
  <2> QED
    BY <2>1, <1>1 DEF Counted
<1>15. QueuedAtZero'
  <2>1. \A m \in Sort!Ids : m \in Sort!Waiting' \cup Sort!Sorted' <=> ingress_cnt'[m] = 0
    <3>1. ingress_cnt'[n] = 0 <=> ingress_cnt[n] = 1
      BY <1>9, <1>10
    <3>2. \A m \in Sort!Ids : m \in Sort!Waiting \cup Sort!Sorted <=> ingress_cnt[m] = 0
      BY <1>2 DEF QueuedAtZero
    <3> QED
      BY <3>1, <3>2, <1>6, <1>10, <1>11, <1>12
  <2> QED
    BY <2>1, <1>1, <1>2 DEF QueuedAtZero
<1>16. EdgesOfLast' /\ Once' /\ Sort!DependentsFirst'
  <2>1. EdgesOfLast'
    BY <1>1, <1>2, <1>3 DEF EdgesOfLast
  <2>2. Once'
    BY <1>2, <1>6, <1>11, <1>12 DEF Once
  <2> QED
    BY <2>1, <2>2, <1>1, <1>2 DEF Sort!DependentsFirst
<1> QED
  BY <1>1, <1>13, <1>14, <1>15, <1>16 DEF LinkInv, SortInv

LEMMA LinkNextKeeps == LinkInv /\ [LinkNext]_linkVars => LinkInv'
<1> SUFFICES ASSUME LinkInv, [LinkNext]_linkVars
             PROVE  LinkInv'
  OBVIOUS
<1>1. CASE UNCHANGED linkVars
  <2>1. /\ UNCHANGED <<phase, scanned, ingress_cnt, Q, sorted, edges>>
        /\ IInv' /\ (Finished <=> Finished') /\ sccs' = sccs
        /\ Sort!Ids' = Sort!Ids /\ \A i : Sort!Deps(i)' = Sort!Deps(i)
    BY <1>1, OrderFacts DEF linkVars, sortVars
  <2>2. Sort!Sorted' = Sort!Sorted /\ Sort!Waiting' = Sort!Waiting
    BY <2>1 DEF Sort!Sorted, Sort!Waiting
  <2>3. \A n : Pending(n)' = Pending(n)
    BY <2>1, <2>2 DEF Pending
  <2>4. SortTyped' /\ EdgesOfLast' /\ Counted'
    BY <2>1, <2>3 DEF LinkInv, SortInv, SortTyped, EdgesOfLast, Counted
  <2>5. QueuedAtZero' /\ Once' /\ Sort!DependentsFirst'
    BY <2>1, <2>2 DEF LinkInv, SortInv, QueuedAtZero, Once, Sort!DependentsFirst
  <2> QED
    BY <2>1, <2>4, <2>5 DEF LinkInv, SortInv
<1>2. CASE Analyse
  BY <1>2, AnalyseKeeps
<1>3. CASE Order
  <2>1. Finished /\ Sort!SortStep /\ UNCHANGED vars
    BY <1>3 DEF Order
  <2> QED
    BY <2>1, CountKeeps, ScanKeeps, ScanEndsKeeps, TakeKeeps, CountDownKeeps, SortEndsKeeps
    DEF Sort!SortStep
<1> QED
  BY <1>1, <1>2, <1>3 DEF LinkNext

-----------------------------------------------------------------------------
(* When both algorithms have ended.                                        *)

\* No id is left out: the greatest one would have no dependents left to wait for.
LEMMA AllSorted ==
  ASSUME LinkInv, Linked
  PROVE  Sort!Sorted = Sort!Ids
<1>1. /\ IInv /\ SortTyped /\ EdgesOfLast /\ Counted /\ QueuedAtZero
      /\ phase = "done" /\ Q = <<>> /\ edges = {}
  BY DEF LinkInv, SortInv, Linked, EdgesOfLast
<1>2. Sort!Sorted \subseteq Sort!Ids
  BY <1>1, SequenceFacts DEF SortTyped, Sort!Sorted
<1>3. ASSUME Sort!Ids \ Sort!Sorted # {}
      PROVE  FALSE
  <2>1. /\ Len(sccs) \in Nat /\ Sort!Ids = 0..(Len(sccs) - 1)
        /\ \A i \in Sort!Ids : i \in Nat /\ \A d \in Sort!Deps(i) : d \in Sort!Ids /\ d < i
    BY <1>1, IdFacts
  <2>2. Sort!Ids \ Sort!Sorted \in SUBSET (0..Len(sccs))
    BY <2>1
  <2>3. PICK n \in Sort!Ids \ Sort!Sorted : \A i \in Sort!Ids \ Sort!Sorted : i <= n
    <3> DEFINE left == Sort!Ids \ Sort!Sorted
    <3> HIDE DEF left
    <3>1. left \in SUBSET (0..Len(sccs)) /\ left # {} /\ Len(sccs) \in Nat
      BY <2>1, <2>2, <1>3 DEF left
    <3>2. \E n \in left : \A i \in left : i <= n
      BY <3>1, GreatestExists
    <3> QED
      BY <3>2 DEF left
  <2>4. \A i \in Sort!Ids : n \in Sort!Deps(i) => i \in Sort!Sorted
    BY <2>1, <2>3
  <2>5. Pending(n) = {}
    BY <2>4, <1>1 DEF Pending
  <2>6. ingress_cnt[n] = 0
    BY <2>3, <2>5, <1>1, PendingIsFinite DEF Counted
  <2>7. n \in Sort!Waiting
    BY <2>3, <2>6, <1>1 DEF QueuedAtZero
  <2> QED
    BY <2>7, <1>1 DEF Sort!Waiting
<1> QED
  BY <1>2, <1>3

\* What the dfs over Deps finds, like ReachFacts; the id itself may be left out.
LEMMA VisitedFacts ==
  ASSUME IInv, NEW id \in Sort!Ids
  PROVE  /\ Visited(id) \subseteq Sort!Ids
         /\ Sort!Deps(id) \subseteq Visited(id)
         /\ \A i \in Visited(id) : Sort!Deps(i) \subseteq Visited(id)
         /\ \A S \in SUBSET Sort!Ids :
              Sort!Deps(id) \subseteq S /\ (\A i \in S : Sort!Deps(i) \subseteq S)
              => Visited(id) \subseteq S
<1> DEFINE g == [n \in Sort!Ids |-> Sort!Deps(n)]
           closed == ClosedSets(g)
<1>1. DOMAIN g = Sort!Ids /\ \A n \in Sort!Ids : g[n] = Sort!Deps(n) /\ g[n] \subseteq Sort!Ids
  BY IdFacts
<1>2. closed = {S \in SUBSET Sort!Ids : \A i \in S : Sort!Deps(i) \subseteq S}
  <2> HIDE DEF g
  <2>1. \A S \in SUBSET Sort!Ids : \A i \in S : g[i] \cap DOMAIN g = Sort!Deps(i)
    BY <1>1
  <2> QED
    BY <2>1, <1>1 DEF ClosedSets
<1>3. \A d \in Sort!Ids :
        Reachable(g)[d] = {i \in Sort!Ids : \A S \in closed : d \in S => i \in S}
  <2> HIDE DEF g
  <2> QED
    BY <1>1 DEF Reachable, closed
<1> HIDE DEF closed
<1>4. Visited(id) = UNION {Reachable(g)[d] : d \in Sort!Deps(id)}
  BY DEF Visited, g
<1> HIDE DEF g
<1>5. Sort!Deps(id) \subseteq Sort!Ids
  BY IdFacts
<1>6. \A i : i \in Visited(id) <=>
        i \in Sort!Ids /\ \E d \in Sort!Deps(id) : \A S \in closed : d \in S => i \in S
  BY <1>3, <1>4, <1>5
<1>7. Visited(id) \subseteq Sort!Ids /\ Sort!Deps(id) \subseteq Visited(id)
  BY <1>5, <1>6
<1>8. \A i \in Visited(id) : Sort!Deps(i) \subseteq Visited(id)
  <2> SUFFICES ASSUME NEW i \in Visited(id), NEW e \in Sort!Deps(i)
               PROVE  e \in Visited(id)
    OBVIOUS
  <2>1. e \in Sort!Ids
    BY <1>7, IdFacts
  <2>2. PICK d \in Sort!Deps(id) : \A S \in closed : d \in S => i \in S
    BY <1>6
  <2>3. \A S \in closed : d \in S => e \in S
    BY <1>2, <2>2
  <2> QED
    BY <2>1, <2>3, <1>6
<1>9. ASSUME NEW S \in SUBSET Sort!Ids, Sort!Deps(id) \subseteq S,
             \A i \in S : Sort!Deps(i) \subseteq S
      PROVE  Visited(id) \subseteq S
  <2>1. S \in closed
    BY <1>2, <1>9
  <2> QED
    BY <2>1, <1>6, <1>9
<1> QED
  BY <1>7, <1>8, <1>9

\* The component of a rule that is needed, by its id.
LEMMA OwnFacts ==
  ASSUME LinkInv, Linked, NEW r \in Needed
  PROVE  /\ r \in Rule /\ scc_id[r] \in Sort!Ids
         /\ r \in sccs[scc_id[r] + 1].Rules
<1>1. IInv /\ Finished /\ Typed
  BY DEF LinkInv, SortInv, SortTyped, Linked, IInv
<1>2. r \in Rule /\ scc_id[r] + 1 \in DOMAIN sccs /\ r \in sccs[scc_id[r] + 1].Rules
  BY <1>1, FinishedFacts
<1>3. scc_id[r] \in Int /\ Len(sccs) \in Nat /\ DOMAIN sccs = 1..Len(sccs)
  BY <1>1, <1>2, ComponentFacts DEF Typed
<1>4. scc_id[r] \in 0..(Len(sccs) - 1)
  BY <1>2, <1>3
<1> QED
  BY <1>1, <1>2, <1>4, IdFacts

\* DepsCover, by ids.
LEMMA CoverFacts ==
  ASSUME IInv, NEW i \in Sort!Ids
  PROVE  /\ \A r \in sccs[i + 1].Rules : \A d \in Dependencies[r] :
              d \in sccs[i + 1].Rules \/ \E e \in Sort!Deps(i) : d \in sccs[e + 1].Rules
         /\ \A e \in Sort!Deps(i) :
              \E r \in sccs[i + 1].Rules : \E d \in Dependencies[r] : d \in sccs[e + 1].Rules
         /\ \A r, s \in sccs[i + 1].Rules : s \in Reach[r]
         /\ sccs[i + 1].Rules \subseteq Rule
<1>1. i + 1 \in DOMAIN sccs
  BY IdFacts
<1>2. DepsCover /\ ComponentsAreCycles /\ Typed
  BY DEF IInv, Result
<1>3. sccs[i + 1].Rules \subseteq Rule
  BY <1>1, <1>2, ComponentFacts
<1>4. \A r, s \in sccs[i + 1].Rules : s \in Reach[r]
  BY <1>1, <1>2 DEF ComponentsAreCycles
<1> QED
  BY <1>1, <1>2, <1>3, <1>4 DEF DepsCover, Sort!Deps

\* The rules of a component and of those visited from it: all that r needs.
LEMMA VisitedCoversReach ==
  ASSUME LinkInv, Linked, NEW r \in Needed, NEW s \in Reach[r]
  PROVE  \/ s \in sccs[scc_id[r] + 1].Rules
         \/ \E i \in Visited(scc_id[r]) : s \in sccs[i + 1].Rules
<1> DEFINE own == scc_id[r]
           ids == {own} \cup Visited(own)
           all == {q \in Rule : \E i \in ids : q \in sccs[i + 1].Rules}
<1>1. IInv /\ Dependencies \in [Rule -> SUBSET Rule] /\ r \in Rule
  BY OwnFacts DEF LinkInv, IInv, Typed
<1>2. own \in Sort!Ids /\ r \in sccs[own + 1].Rules
  BY OwnFacts
<1>3. ids \subseteq Sort!Ids /\ \A i \in ids : Sort!Deps(i) \subseteq ids
  BY <1>1, <1>2, VisitedFacts
<1> HIDE DEF ids
<1>4. ASSUME NEW q \in all, NEW d \in Dependencies[q]
      PROVE  d \in all
  <2>1. PICK i \in ids : q \in sccs[i + 1].Rules
    OBVIOUS
  <2>2. d \in Rule
    BY <1>1
  <2>3. d \in sccs[i + 1].Rules \/ \E e \in Sort!Deps(i) : d \in sccs[e + 1].Rules
    BY <1>1, <1>3, <2>1, CoverFacts
  <2> QED
    BY <2>1, <2>2, <2>3, <1>3
<1>5. all \in SUBSET Rule /\ r \in all
  BY <1>1, <1>2 DEF ids
<1> HIDE DEF all
<1>6. Reach[r] \subseteq all
  BY <1>1, <1>4, <1>5, ReachFacts
<1>7. \E i \in ids : s \in sccs[i + 1].Rules
  BY <1>6 DEF all
<1> QED
  BY <1>7 DEF ids

\* And nothing else.
LEMMA VisitedIsNeeded ==
  ASSUME LinkInv, Linked, NEW r \in Needed, NEW i \in Visited(scc_id[r])
  PROVE  sccs[i + 1].Rules \subseteq Reach[r]
<1> DEFINE own == scc_id[r]
           below == {n \in Sort!Ids : sccs[n + 1].Rules \subseteq Reach[r]}
<1>1. IInv /\ Dependencies \in [Rule -> SUBSET Rule] /\ r \in Rule
  BY OwnFacts DEF LinkInv, IInv, Typed
<1>2. own \in Sort!Ids /\ r \in sccs[own + 1].Rules
  BY OwnFacts
<1>3. ASSUME NEW n \in below, NEW e \in Sort!Deps(n)
      PROVE  e \in below
  <2>1. e \in Sort!Ids
    BY <1>1, IdFacts
  <2>2. PICK q \in sccs[n + 1].Rules : \E d \in Dependencies[q] : d \in sccs[e + 1].Rules
    BY <1>1, CoverFacts
  <2>3. PICK d \in Dependencies[q] : d \in sccs[e + 1].Rules
    BY <2>2
  <2>4. q \in Reach[r]
    BY <2>2
  <2>5. d \in Reach[r] /\ Reach[d] \subseteq Reach[r]
    BY <2>3, <2>4, <1>1, ReachFacts, ReachIsTransitive
  <2>6. sccs[e + 1].Rules \subseteq Reach[d]
    BY <2>1, <2>3, <1>1, CoverFacts
  <2> QED
    BY <2>1, <2>5, <2>6
<1>4. own \in below
  <2>1. sccs[own + 1].Rules \subseteq Reach[r]
    BY <1>1, <1>2, CoverFacts
  <2> QED
    BY <2>1, <1>2
<1>5. below \in SUBSET Sort!Ids /\ Sort!Deps(own) \subseteq below /\ \A n \in below : Sort!Deps(n) \subseteq below
  BY <1>3, <1>4
<1> HIDE DEF below
<1>6. Visited(own) \subseteq below
  BY <1>1, <1>2, <1>5, VisitedFacts
<1> QED
  BY <1>6 DEF below

\* Every visited id has its position.
LEMMA PositionExists ==
  ASSUME LinkInv, Linked, NEW id \in Sort!Ids
  PROVE  \E j \in DOMAIN sorted : sorted[j] = id
BY AllSorted DEF Sort!Sorted

LEMMA PositionFacts ==
  ASSUME LinkInv
  PROVE  /\ DOMAIN sorted = 1..Len(sorted) /\ Len(sorted) \in Nat
         /\ \A i \in DOMAIN sorted : i \in Nat /\ sorted[i] \in Sort!Ids
         /\ \A i, j \in DOMAIN sorted : sorted[i] = sorted[j] => i = j
<1>1. sorted \in Seq(Sort!Ids) /\ Once
  BY DEF LinkInv, SortInv, SortTyped
<1>2. /\ DOMAIN sorted = 1..Len(sorted) /\ Len(sorted) \in Nat
      /\ \A i \in DOMAIN sorted : sorted[i] \in Sort!Ids
  BY <1>1, SequenceFacts
<1> QED
  BY <1>1, <1>2 DEF Once

LEMMA UsersFirstHolds == LinkInv => UsersFirst
<1> SUFFICES ASSUME LinkInv, Linked, NEW rule \in Needed,
                    NEW i \in LinkLine(rule), NEW r \in Group(i), NEW d \in Dependencies[r]
             PROVE  \E j \in LinkLine(rule) : j >= i /\ d \in Group(j)
  BY DEF UsersFirst
<1>1. /\ i \in DOMAIN sorted /\ i \in Nat /\ sorted[i] \in Visited(scc_id[rule])
      /\ sorted[i] \in Sort!Ids /\ i >= i
  BY PositionFacts DEF LinkLine
<1>2. IInv /\ scc_id[rule] \in Sort!Ids
  BY OwnFacts DEF LinkInv
<1>3. CASE d \in Group(i)
  BY <1>1, <1>3
<1>4. CASE \E e \in Sort!Deps(sorted[i]) : d \in sccs[e + 1].Rules
  <2>1. PICK e \in Sort!Deps(sorted[i]) : d \in sccs[e + 1].Rules
    BY <1>4
  <2>2. e \in Visited(scc_id[rule]) /\ e \in Sort!Ids
    BY <1>1, <1>2, VisitedFacts
  <2>3. PICK j \in DOMAIN sorted : sorted[j] = e
    BY <2>2, PositionExists
  <2>4. PICK k \in 1..(j - 1) : sorted[k] = sorted[i]
    BY <2>1, <2>3, <1>1 DEF LinkInv, SortInv, Sort!DependentsFirst
  <2>5. k \in DOMAIN sorted /\ k < j /\ j \in Nat
    BY <2>3, <2>4, PositionFacts
  <2>6. k = i
    BY <2>4, <2>5, <1>1, PositionFacts
  <2>7. j >= i
    BY <2>5, <2>6
  <2> QED
    BY <2>1, <2>2, <2>3, <2>7 DEF LinkLine, Group
<1> QED
  BY <1>1, <1>2, <1>3, <1>4, CoverFacts DEF Group

LEMMA LineCompleteHolds == LinkInv => LineComplete
<1> SUFFICES ASSUME LinkInv, Linked, NEW rule \in Needed
             PROVE  LET below == Reach[rule] \ {rule}
                    IN  /\ UNION {Group(i) : i \in LinkLine(rule)} \subseteq below \cup {rule}
                        /\ \A s \in below :
                             rule \in Reach[s] \/ \E i \in LinkLine(rule) : s \in Group(i)
  BY DEF LineComplete
<1>1. IInv /\ scc_id[rule] \in Sort!Ids /\ rule \in sccs[scc_id[rule] + 1].Rules
  BY OwnFacts DEF LinkInv
<1>2. ASSUME NEW i \in LinkLine(rule), NEW s \in Group(i)
      PROVE  s \in Reach[rule]
  BY VisitedIsNeeded DEF LinkLine, Group
<1>3. ASSUME NEW s \in Reach[rule]
      PROVE  rule \in Reach[s] \/ \E i \in LinkLine(rule) : s \in Group(i)
  <2>1. CASE s \in sccs[scc_id[rule] + 1].Rules
    BY <2>1, <1>1, CoverFacts
  <2>2. CASE \E n \in Visited(scc_id[rule]) : s \in sccs[n + 1].Rules
    <3>1. PICK n \in Visited(scc_id[rule]) : s \in sccs[n + 1].Rules
      BY <2>2
    <3>2. n \in Sort!Ids
      BY <1>1, VisitedFacts
    <3>3. PICK i \in DOMAIN sorted : sorted[i] = n
      BY <3>2, PositionExists
    <3> QED
      BY <3>1, <3>3 DEF LinkLine, Group
  <2> QED
    BY <2>1, <2>2, VisitedCoversReach
<1> QED
  BY <1>2, <1>3

LEMMA RootCompleteHolds == LinkInv => RootComplete
<1> DEFINE Others(r) == {args[k] : k \in {k \in DOMAIN args :
                                            \E m \in DOMAIN args : m # k /\ args[m] = r}}
<1> SUFFICES ASSUME LinkInv, Linked
             PROVE  /\ UNION {Group(i) : i \in RootLine} = Needed
                    /\ \A i, j \in RootLine : i # j =>
                         \A r \in Group(i) \cap Group(j) :
                           r \in Requested /\ \E a \in Others(r) : r \in Reach[a]
  BY DEF RootComplete
<1>1. IInv /\ Finished
  BY DEF LinkInv, SortInv, SortTyped, Linked
<1>2. ASSUME NEW i \in RootLine, NEW s \in Group(i)
      PROVE  s \in Needed
  <2>1. i \in DOMAIN sorted /\ sorted[i] + 1 \in DOMAIN sccs
    BY <1>1, PositionFacts, IdFacts DEF RootLine
  <2> QED
    BY <2>1, <1>1, FinishedFacts DEF Group
<1>3. ASSUME NEW s \in Needed
      PROVE  \E i \in RootLine : s \in Group(i)
  <2>1. PICK r \in Requested : s \in Reach[r]
    BY DEF Needed
  <2>2. r \in Needed
    <3>1. r \in Rule /\ Dependencies \in [Rule -> SUBSET Rule]
      BY <1>1, <2>1, SequenceFacts DEF IInv, Typed, Requested
    <3>2. r \in Reach[r]
      BY <3>1, ReachFacts
    <3> QED
      BY <2>1, <3>2 DEF Needed
  <2>3. PICK n \in {scc_id[r]} \cup Visited(scc_id[r]) : s \in sccs[n + 1].Rules
    BY <2>1, <2>2, VisitedCoversReach
  <2>4. n \in Sort!Ids /\ n \in RootVisited
    <3>1. scc_id[r] \in Sort!Ids
      BY <2>2, OwnFacts
    <3>2. n \in Sort!Ids
      BY <3>1, <2>3, <1>1, VisitedFacts
    <3> QED
      BY <2>1, <2>3, <3>2 DEF RootVisited
  <2>5. PICK i \in DOMAIN sorted : sorted[i] = n
    BY <2>4, PositionExists
  <2> QED
    BY <2>3, <2>4, <2>5 DEF RootLine, Group
<1>4. ASSUME NEW i \in RootLine, NEW j \in RootLine, i # j, NEW r \in Group(i) \cap Group(j)
      PROVE  r \in Requested /\ \E a \in Others(r) : r \in Reach[a]
  <2>1. /\ i \in DOMAIN sorted /\ j \in DOMAIN sorted
        /\ sorted[i] \in Sort!Ids /\ sorted[j] \in Sort!Ids /\ sorted[i] # sorted[j]
    BY <1>4, PositionFacts DEF RootLine
  <2>2. /\ sorted[i] + 1 \in DOMAIN sccs /\ sorted[j] + 1 \in DOMAIN sccs
        /\ sorted[i] + 1 # sorted[j] + 1
    BY <2>1, <1>1, IdFacts
  <2>3. RequestedAndNeeded(r)
    BY <2>2, <1>1 DEF IInv, Searched, Group
  <2>4. PICK k, m \in DOMAIN args : k # m /\ args[m] = r /\ r \in Reach[args[k]]
    BY <2>3 DEF RequestedAndNeeded
  <2>5. r \in Requested /\ args[k] \in Others(r)
    BY <2>4 DEF Requested
  <2> QED
    BY <2>4, <2>5
<1> QED
  BY <1>2, <1>3, <1>4

-----------------------------------------------------------------------------

LEMMA LinkInvariance == LinkSpec => []LinkInv
<1> QED
  BY LinkInitHolds, LinkNextKeeps, PTL DEF LinkSpec

\* LinkTypeOK: the counts of the sort never wrap below zero, and only ids of
\* components are queued, whatever was requested.
THEOREM CountsNeverWrap == LinkSpec => []LinkTypeOK
<1>1. LinkInv => TypeOK
  BY TypeOKHolds DEF LinkInv
<1>2. LinkInv => Sort!SortTypeOK
  <2> SUFFICES ASSUME LinkInv
               PROVE  Sort!SortTypeOK
    OBVIOUS
  <2>1. SortTyped
    BY DEF LinkInv, SortInv
  <2>2. Sort!Waiting \subseteq Sort!Ids /\ Sort!Sorted \subseteq Sort!Ids
    BY <2>1, SequenceFacts DEF SortTyped, Sort!Waiting, Sort!Sorted
  <2> QED
    BY <2>1, <2>2 DEF SortTyped, Sort!SortTypeOK
<1> QED
  BY <1>1, <1>2, LinkInvariance, PTL DEF LinkTypeOK

\* DependentsFirst: every library is sorted behind all of its users, and in the end
\* all of them are.
THEOREM SortIsTopological == LinkSpec => []DependentsFirst
<1>1. LinkInv => DependentsFirst
  <2>1. LinkInv => Sort!DependentsFirst
    BY DEF LinkInv, SortInv
  <2>2. ASSUME LinkInv, phase = "done", NEW i \in Sort!Ids
        PROVE  \E k \in DOMAIN sorted : \A j \in DOMAIN sorted : sorted[j] = i <=> j = k
    <3>1. Sort!Sorted = Sort!Ids
      BY <2>2, AllSorted DEF Linked
    <3>2. PICK k \in DOMAIN sorted : sorted[k] = i
      BY <3>1 DEF Sort!Sorted
    <3> QED
      BY <2>2, <3>2 DEF LinkInv, SortInv, Once
  <2> QED
    BY <2>1, <2>2 DEF DependentsFirst, Sort!EachOnce
<1> QED
  BY <1>1, LinkInvariance, PTL

\* UsersFirst: a linker that reads the line once finds every symbol, also when
\* a library has two groups because it was requested by name, too.
THEOREM LinkLineIsOrdered == LinkSpec => []UsersFirst
<1> QED
  BY LinkInvariance, UsersFirstHolds, PTL

\* LineComplete: what a binary needs is on its link line, and nothing else.
THEOREM LinkLineIsComplete == LinkSpec => []LineComplete
<1> QED
  BY LinkInvariance, LineCompleteHolds, PTL

\* RootComplete: the root makefile has targets for exactly what was compiled.
THEOREM RootIsComplete == LinkSpec => []RootComplete
<1> QED
  BY LinkInvariance, RootCompleteHolds, PTL

\* ComponentsAreCycles, DepsPointBack and ExactWhenIndependent for the two
\* algorithms in sequence: the sort does not disturb what Tarjan's found.
THEOREM ComponentsStayRight ==
  LinkSpec => [](ComponentsAreCycles /\ DepsPointBack /\ ExactWhenIndependent)
<1>1. LinkInv => ComponentsAreCycles /\ DepsPointBack /\ ExactWhenIndependent
  BY ExactHolds DEF LinkInv, IInv, Result
<1> QED
  BY <1>1, LinkInvariance, PTL
=============================================================================
