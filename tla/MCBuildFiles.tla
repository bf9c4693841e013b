---------------------------- MODULE MCBuildFiles ----------------------------
(* BuildFiles on three packages a, b and "a/b", each with few rules.       *)
EXTENDS BuildFiles, TLC

CONSTANTS MaxRules, MaxDeps

a == <<"a">>
b == <<"b">>
ab == <<"a", "/", "b">>

Packages == {a, b, ab}

Id(prefix, p, n) == prefix \o p \o <<":", n>>

\* Ids as the documentation has them, and what else the parser is given.
Documented ==
  {Id(<<"//">>, p, "x") : p \in {b, ab}} \cup {Id(<<>>, <<>>, n) : n \in {"x", "y"}}
    \cup {Id(<<"//">>, b \o <<"/", "BUILD">>, "x")}
Relative == Id(<<>>, b, "x")
Odd == {Relative, Id(<<"//">>, <<>>, "x"), Id(<<"##">>, a, "x"), <<"x">>,
        Id(<<"//">>, b, "x") \o <<"@", "1.0">>, Id(<<"//">>, b, "x") \o <<"/", "y">>}

ArgumentIds ==
  {Id(<<"//">>, p, n) : p \in {a, b, <<>>, a \o <<"/", "BUILD">>}, n \in {"x", "y", "..."}}
    \cup {Id(<<>>, a, "x")}

AllIds == Documented \cup Odd \cup ArgumentIds

Call(n, ids) == [name |-> Str(n), deps |-> List(SetToSeq({Str(id) : id \in ids}))]

Few(ids) == UNION {kSubset(k, ids) : k \in 0..MaxDeps}

\* What is refused: a number, a rule without a name, a string for a list.
Wrong == {[name |-> Other], [deps |-> List(<<>>)], [name |-> Str("x"), deps |-> Str(<<>>)]}

\* At most MaxRules rules in the file of a (names repeat) or one odd one, and
\* one in each of the others.
AnyFiles ==
  LET calls(names, ids) == {Call(n, D) : n \in names, D \in Few(ids)}
      fileOfA == BoundedSeq(calls({"x", "y"}, Documented \cup {Relative}), MaxRules)
                   \cup {<<c>> : c \in calls({"x"}, Odd) \cup Wrong}
      fileOfB == {<<>>} \cup {<<c>> : c \in calls({"x"}, {Id(<<"//">>, p, "x") : p \in {a, ab}})}
      fileOfAB == {<<c>> : c \in calls({"x"}, {Id(<<"//">>, b, "x")})}
  IN  {(a :> fa) @@ (b :> fb) @@ (ab :> fab) :
         fa \in fileOfA, fb \in fileOfB, fab \in fileOfAB}

RelativeFiles ==
  [Package -> {<<>>, <<Call("x", {})>>, <<Call("x", {Relative})>>}]
VersionedFiles ==
  [Package -> {<<>>, <<[name |-> Str("x"), version |-> Str("1.0")]>>}]

New(ids) == [old |-> FALSE, ids |-> ids]
AnyArguments ==
  {New({Id(<<"//">>, a, "...")}), New({Id(<<"//">>, a \o <<"/", "BUILD">>, "y"), Id(<<"//">>, b, "x")}),
   New({Id(<<>>, a, "x")}), New({Id(<<"//">>, <<>>, "x")}),
   [old |-> TRUE, ids |-> {a \o <<"/", "BUILD">>}], [old |-> TRUE, ids |-> {a}]}
OneArgument == {New({Id(<<"//">>, a, "x")})}
AllOfA == {New({Id(<<"//">>, a, "...")})}
=============================================================================
