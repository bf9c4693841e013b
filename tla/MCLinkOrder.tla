---------------------------- MODULE MCLinkOrder ----------------------------
(* LinkOrder on every graph of three rules, self-dependencies included, and *)
(* every graph of four rules with at most MaxDeps dependencies each.        *)
EXTENDS LinkOrder, SequencesExt

CONSTANTS a, b, c, d, MaxArgs, MaxDeps

AllOfThree ==
  {g \in [Rule -> SUBSET {a, b, c}] : g[d] = {}}
FewOfFour ==
  {g \in [Rule -> SUBSET Rule] : \A r \in Rule : r \notin g[r] /\ Cardinality(g[r]) <= MaxDeps}
SmallGraphs == AllOfThree \cup FewOfFour

\* Up to a renaming of the rules, which the sets of graphs do not notice, rules
\* are first requested in this order.
Names == <<a, b, c>>
FewArgs ==
  {s \in BoundedSeq({a, b, c}, MaxArgs) \ {<<>>} :
     \A i \in DOMAIN s : \A j \in 2..3 : s[i] = Names[j] => \E k \in 1..(i - 1) : s[k] = Names[j - 1]}
=============================================================================
