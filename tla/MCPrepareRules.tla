--------------------------- MODULE MCPrepareRules ---------------------------
(* PrepareRules on every graph of a small set of rules.                    *)
EXTENDS PrepareRules, Graphs

CONSTANTS a, b, c

AllGraphs == {g \in [Rule -> SUBSET Rule] : \A r \in Rule : r \notin g[r]}

\* One, two or three libraries; b may have an ill-typed argument.
SomeCC == {{a}, {a, b}, {a, b, c}}
BadB == {[r \in Rule |-> IF r = b THEN bad ELSE {}] :
           bad \in {{}, {"includes"}, {"defines", "other"}}}

\* On these graphs Reachable is what Graphs computes by recursion.
ASSUME ReachableIsConnected ==
  \A g \in AllGraphs :
    LET edges == {e \in Rule \X Rule : e[2] \in g[e[1]]}
        connected == ConnectionsIn([node |-> Rule, edge |-> edges])
    IN  \A r, s \in Rule : s \in Reachable(g)[r] <=> connected[r, s]
=============================================================================
