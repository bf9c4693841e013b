---------------------------- MODULE DependencyId ----------------------------
(***************************************************************************)
(* core/models/dependent.cc: what the combinators of core/parser make of a *)
(* dependency string.  A string is a sequence of tokens: a word for each   *)
(* longest run of characters that a name may have, and the separators      *)
(* "//", "##", "/", ":", "@" (so no two words and no two "/" are           *)
(* neighbours).  A parser takes the rest of the input and returns what it  *)
(* has read and what is left, or fails.                                    *)
(***************************************************************************)
EXTENDS Naturals, Sequences, SequencesExt

CONSTANTS
  PackageWord,  \* letters, digits, "_", "-" and escaped characters
  RuleWord,     \* letters, digits, "_", "-" and "."
  VersionText   \* what the semver library accepts

Separator == {"//", "##", "/", ":", "@"}
Token == PackageWord \cup RuleWord \cup VersionText \cup Separator

Prefix == {"//", "##"}
None == <<>>    \* an optional without a value

\* The last conjunct holds in TLA+, where strings are sequences; the provers do
\* not look into strings.
ASSUME WordsAssumption ==
  /\ "BUILD" \in PackageWord
  /\ (PackageWord \cup RuleWord) \cap Separator = {}
  /\ None \notin Separator

Fail == [ok |-> FALSE]
Read(value, rest) == [ok |-> TRUE, value |-> value, rest |-> rest]

\* MakeCharPredict and its kin, on tokens.
One(set, in) == IF in # <<>> /\ Head(in) \in set THEN Read(Head(in), Tail(in)) ELSE Fail

\* position_prefix: MakeStringEq, once for each prefix.
PositionPrefix(in) == One(Prefix, in)

\* first + parser, where second is what parser makes of the rest (if there is
\* one); of the two values the second is kept.
Rest(first) == IF first.ok THEN first.rest ELSE <<>>
Then(first, second) == IF first.ok THEN second ELSE Fail

Optional(result, in) == IF result.ok THEN result ELSE Read(None, in)

\* A reading of the first n tokens is a word, and again "/" and a word...
Alternates(in, n) ==
  \A i \in 1..n : in[i] \in IF i % 2 = 1 THEN PackageWord ELSE {"/"}

\* Mutation: "/BUILD" stays a part of the name.
WithSuffix(name) == name

\* The name of the package without "/BUILD" at its end.
PackageOf(name) ==
  IF Len(name) > 2 /\ Last(name) = "BUILD" THEN SubSeq(name, 1, Len(name) - 2) ELSE name

\* p_package reads as much as it can; a "/" without a word is left alone.
ReadPackage(in) ==
  LET lengths == {n \in DOMAIN in : n % 2 = 1 /\ Alternates(in, n)}
  IN  IF lengths = {} THEN Fail
      ELSE LET n == CHOOSE n \in lengths : \A m \in lengths : m <= n
           IN  Read(PackageOf(SubSeq(in, 1, n)), SubSeq(in, n + 1, Len(in)))

\* rule_name: a colon and a word; what follows is not looked at here.
RuleName(in) ==
  LET colon == One({":"}, in) IN Then(colon, One(RuleWord, Rest(colon)))

Everything(in) == IF in # <<>> THEN Read(in, <<>>) ELSE Fail

\* version_str: everything behind an "@", if there is anything.
Version(in) ==
  LET at == One({"@"}, in) IN Then(at, Everything(Rest(at)))

Position(prefix, package) ==
  CASE prefix = "//" -> "absolute"
    [] prefix = "##" -> "builtin"
    [] prefix = None /\ package # None -> "relative"
    [] OTHER -> "this"

\* The end of the input is never asked for: what is left over is ignored, and
\* an absolute rule may come without a package.  Only a bad version throws.
ParseIdString(id) ==
  LET prefix  == Optional(PositionPrefix(id), id)
      package == Optional(ReadPackage(prefix.rest), prefix.rest)
      rule    == RuleName(package.rest)
      version == Optional(Version(rule.rest), rule.rest)
  IN  IF rule.ok /\ version.value \in {None} \cup {<<v>> : v \in VersionText}
        THEN [ok |-> TRUE, pos |-> Position(prefix.value, package.value),
              pkg |-> package.value, name |-> rule.value]
        ELSE Fail
=============================================================================
