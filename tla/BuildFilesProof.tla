-------------------------- MODULE BuildFilesProof ---------------------------
(***************************************************************************)
(* Theorems about BuildFiles, for every set of packages, BUILD files and   *)
(* command lines: what the parser makes of the documented ids, what is     *)
(* loaded, and what the tasks find.                                        *)
(***************************************************************************)
EXTENDS BuildFiles, SequenceTheorems, WellFoundedInduction, TLAPS

-----------------------------------------------------------------------------
(* The parser.                                                             *)

\* A set of naturals below a bound has a greatest element.
LEMMA GreatestExists ==
  ASSUME NEW n \in Nat, NEW S \in SUBSET (0..n), S # {}
  PROVE  \E x \in S : \A y \in S : y <= x
<1> DEFINE T == {n - x : x \in S}
<1>1. T \subseteq Nat /\ T # {}
  <2>1. \A x \in S : x \in 0..n /\ n - x \in Nat
    OBVIOUS
  <2>2. T \subseteq Nat
    BY <2>1
  <2>3. PICK x : x \in S
    OBVIOUS
  <2>4. n - x \in T
    BY <2>3
  <2> QED
    BY <2>2, <2>4
<1> HIDE DEF T
<1>2. PICK t \in T : \A u \in T : ~(<<u, t>> \in OpToRel(<, Nat))
  BY <1>1, NatLessThanWellFounded, WFMin, Zenon
<1>3. \A u \in T : ~(u < t)
  <2>1. \A u, v \in Nat : u < v => <<u, v>> \in OpToRel(<, Nat)
    BY DEF OpToRel
  <2> QED
    BY <2>1, <1>1, <1>2, Zenon
<1>4. PICK x \in S : t = n - x
  BY DEF T
<1>5. ASSUME NEW y \in S
      PROVE  y <= x
  <2>1. n - y \in T
    BY DEF T
  <2>2. ~(n - y < n - x)
    BY <1>3, <1>4, <2>1
  <2> QED
    BY <2>2
<1> QED
  BY <1>5

LEMMA EmptyFacts ==
  \A s \in Seq(Token) : /\ Len(s) \in Nat
                        /\ s = <<>> <=> Len(s) = 0
                        /\ s # <<>> <=> Len(s) >= 1
                        /\ s # <<>> => Head(s) = s[1]
OBVIOUS

LEMMA ReadFacts ==
  \A value, rest : Read(value, rest).ok /\ Read(value, rest).value = value /\ Read(value, rest).rest = rest
BY DEF Read

LEMMA OneFacts ==
  ASSUME NEW set, NEW in \in Seq(Token)
  PROVE  /\ One(set, in).ok \in BOOLEAN
         /\ One(set, in).ok <=> in # <<>> /\ in[1] \in set
         /\ One(set, in).ok => /\ One(set, in).value = in[1]
                               /\ One(set, in).rest = Tail(in)
<1>1. in # <<>> => Head(in) = in[1]
  OBVIOUS
<1> QED
  BY <1>1 DEF One, Read, Fail

\* What is left of the id behind "//".
LEMMA TailFacts ==
  ASSUME NEW in \in Seq(Token), in # <<>>
  PROVE  /\ Len(in) \in Nat /\ Len(in) >= 1
         /\ Tail(in) \in Seq(Token) /\ Len(Tail(in)) = Len(in) - 1
         /\ \A i \in 1..(Len(in) - 1) : Tail(in)[i] = in[i + 1]
OBVIOUS

LEMMA PackageOfFacts ==
  ASSUME NEW name \in Seq(Token), name # <<>>
  PROVE  PackageOf(name) \in Seq(Token) /\ PackageOf(name) # None
<1>1. Len(name) \in Nat /\ Len(name) >= 1
  OBVIOUS
<1>2. CASE Len(name) > 2
  <2>1. SubSeq(name, 1, Len(name) - 2) \in Seq(Token) /\ Len(SubSeq(name, 1, Len(name) - 2)) = Len(name) - 2
    BY <1>1, <1>2
  <2>2. SubSeq(name, 1, Len(name) - 2) # <<>>
    <3>1. \A s \in Seq(Token) : s # <<>> <=> Len(s) >= 1
      BY EmptyFacts
    <3>2. Len(name) - 2 >= 1
      BY <1>1, <1>2
    <3> QED
      BY <2>1, <3>1, <3>2
  <2>3. PackageOf(name) = name \/ PackageOf(name) = SubSeq(name, 1, Len(name) - 2)
    BY DEF PackageOf
  <2> QED
    BY <2>1, <2>2, <2>3 DEF None
<1> QED
  BY <1>1, <1>2 DEF PackageOf, None

\* The lengths of the beginnings of `in` that are words with "/" between them.
Lengths(in) == {n \in DOMAIN in : n % 2 = 1 /\ Alternates(in, n)}

LEMMA ReadPackageFacts ==
  ASSUME NEW in \in Seq(Token)
  PROVE  \/ /\ Lengths(in) = {} /\ ReadPackage(in) = Fail
         \/ \E n \in Lengths(in) :
            /\ \A m \in Lengths(in) : m <= n
            /\ ReadPackage(in) = Read(PackageOf(SubSeq(in, 1, n)), SubSeq(in, n + 1, Len(in)))
<1> DEFINE Longest(n) == \A m \in Lengths(in) : m <= n
           n == CHOOSE n \in Lengths(in) : Longest(n)
<1>1. CASE Lengths(in) = {}
  BY <1>1 DEF ReadPackage, Lengths
<1>2. CASE Lengths(in) # {}
  <2>1. Lengths(in) \in SUBSET (0..Len(in)) /\ Len(in) \in Nat
    BY DEF Lengths
  <2>2. \E k \in Lengths(in) : Longest(k)
    BY <2>1, <1>2, GreatestExists
  <2>3. n \in Lengths(in) /\ Longest(n)
    BY <2>2
  <2>4. ReadPackage(in) = Read(PackageOf(SubSeq(in, 1, n)), SubSeq(in, n + 1, Len(in)))
    BY <1>2 DEF ReadPackage, Lengths
  <2> QED
    BY <2>3, <2>4
<1> QED
  BY <1>1, <1>2

LEMMA LengthFacts ==
  ASSUME NEW in \in Seq(Token), NEW n \in Lengths(in)
  PROVE  /\ n \in 1..Len(in) /\ Len(in) \in Nat
         /\ in[1] \in PackageWord
         /\ SubSeq(in, 1, n) \in Seq(Token) /\ Len(SubSeq(in, 1, n)) = n
         /\ \A i \in 1..n : SubSeq(in, 1, n)[i] = in[i]
         /\ SubSeq(in, n + 1, Len(in)) \in Seq(Token)
         /\ Len(SubSeq(in, n + 1, Len(in))) = Len(in) - n
         /\ \A i \in 1..(Len(in) - n) : SubSeq(in, n + 1, Len(in))[i] = in[n + i]
<1>1. n \in 1..Len(in) /\ Len(in) \in Nat /\ Alternates(in, n)
  BY DEF Lengths
<1>2. in[1] \in PackageWord
  <2>1. 1 \in 1..n /\ 1 % 2 = 1
    BY <1>1
  <2> QED
    BY <2>1, <1>1 DEF Alternates
<1>3. \A i \in 1..Len(in) : in[i] \in Token
  OBVIOUS
<1>4. /\ SubSeq(in, 1, n) \in Seq(Token) /\ Len(SubSeq(in, 1, n)) = n
      /\ \A i \in 1..n : SubSeq(in, 1, n)[i] = in[i]
  BY <1>1, <1>3
<1>5. /\ SubSeq(in, n + 1, Len(in)) \in Seq(Token)
      /\ Len(SubSeq(in, n + 1, Len(in))) = Len(in) - n
      /\ \A i \in 1..(Len(in) - n) : SubSeq(in, n + 1, Len(in))[i] = in[n + i]
  BY <1>1, <1>3
<1> QED
  BY <1>1, <1>2, <1>4, <1>5

\* The parts of ParseIdString: the value of the prefix, what is left behind it,
\* the package read there, and whether a rule's name is next.
PrefixOf(id) == IF id # <<>> /\ id[1] \in Prefix THEN id[1] ELSE None
Behind(id) == IF id # <<>> /\ id[1] \in Prefix THEN Tail(id) ELSE id
PackageAt(in) == Optional(ReadPackage(in), in)
Named(rest) == Len(rest) >= 2 /\ rest[1] = ":" /\ rest[2] \in RuleWord

LEMMA PrefixFacts ==
  ASSUME NEW id \in Seq(Token)
  PROVE  /\ Behind(id) \in Seq(Token)
         /\ Optional(PositionPrefix(id), id) = Read(PrefixOf(id), Behind(id))
<1>1. CASE id # <<>> /\ id[1] \in Prefix
  <2>1. Head(id) = id[1] /\ Tail(id) \in Seq(Token)
    BY <1>1
  <2>2. PositionPrefix(id) = Read(id[1], Tail(id))
    BY <1>1, <2>1 DEF PositionPrefix, One
  <2> QED
    BY <1>1, <2>1, <2>2 DEF Optional, Read, PrefixOf, Behind
<1>2. CASE ~(id # <<>> /\ id[1] \in Prefix)
  <2>1. id # <<>> => Head(id) = id[1]
    OBVIOUS
  <2>2. PositionPrefix(id) = Fail
    BY <1>2, <2>1 DEF PositionPrefix, One
  <2> QED
    BY <1>2, <2>2 DEF Optional, Fail, PrefixOf, Behind
<1> QED
  BY <1>1, <1>2

LEMMA PackageAtFacts ==
  ASSUME NEW in \in Seq(Token)
  PROVE  \/ /\ Lengths(in) = {} /\ PackageAt(in) = Read(None, in)
         \/ \E n \in Lengths(in) :
            /\ \A m \in Lengths(in) : m <= n
            /\ PackageAt(in) = Read(PackageOf(SubSeq(in, 1, n)), SubSeq(in, n + 1, Len(in)))
<1>1. CASE Lengths(in) = {} /\ ReadPackage(in) = Fail
  BY <1>1 DEF PackageAt, Optional, Fail
<1>2. ASSUME NEW n \in Lengths(in), \A m \in Lengths(in) : m <= n,
             ReadPackage(in) = Read(PackageOf(SubSeq(in, 1, n)), SubSeq(in, n + 1, Len(in)))
      PROVE  PackageAt(in) = Read(PackageOf(SubSeq(in, 1, n)), SubSeq(in, n + 1, Len(in)))
  BY <1>2 DEF PackageAt, Optional, Read
<1> QED
  BY <1>1, <1>2, ReadPackageFacts

LEMMA RuleNameFacts ==
  ASSUME NEW rest \in Seq(Token)
  PROVE  \/ Named(rest) /\ RuleName(rest) = Read(rest[2], Tail(Tail(rest)))
         \/ ~Named(rest) /\ RuleName(rest) = Fail
<1>1. Len(rest) \in Nat /\ (rest # <<>> <=> Len(rest) >= 1)
  OBVIOUS
<1>2. CASE ~(rest # <<>> /\ rest[1] = ":")
  <2>1. ~One({":"}, rest).ok
    BY <1>2, OneFacts
  <2> QED
    BY <1>1, <1>2, <2>1 DEF RuleName, Then, Named
<1>3. CASE rest # <<>> /\ rest[1] = ":"
  <2>1. One({":"}, rest).ok /\ One({":"}, rest).rest = Tail(rest)
    BY <1>3, OneFacts
  <2>2. RuleName(rest) = One(RuleWord, Tail(rest))
    BY <2>1 DEF RuleName, Then, Rest
  <2>3. /\ Tail(rest) \in Seq(Token) /\ Len(Tail(rest)) = Len(rest) - 1
        /\ Len(rest) >= 2 => Tail(rest)[1] = rest[2]
        /\ Tail(rest) # <<>> <=> Len(rest) >= 2
        /\ Tail(rest) # <<>> => Head(Tail(rest)) = Tail(rest)[1]
    <3>1. /\ Tail(rest) \in Seq(Token) /\ Len(Tail(rest)) = Len(rest) - 1
          /\ \A i \in 1..(Len(rest) - 1) : Tail(rest)[i] = rest[i + 1]
      BY <1>3, TailFacts
    <3>2. /\ Tail(rest) # <<>> <=> Len(Tail(rest)) >= 1
          /\ Tail(rest) # <<>> => Head(Tail(rest)) = Tail(rest)[1]
      BY <3>1, EmptyFacts
    <3>3. Len(rest) >= 2 => Tail(rest)[1] = rest[2]
      BY <1>1, <3>1
    <3> QED
      BY <1>1, <3>1, <3>2, <3>3
  <2> QED
    BY <1>3, <2>2, <2>3 DEF One, Named
<1> QED
  BY <1>2, <1>3

\* A string that is read is a prefix or none, a package or none, and a name...
LEMMA ParseFacts ==
  ASSUME NEW id \in Seq(Token), ParseIdString(id).ok
  PROVE  LET package == PackageAt(Behind(id))
         IN  /\ Named(package.rest)
             /\ ParseIdString(id) = [ok |-> TRUE, pos |-> Position(PrefixOf(id), package.value),
                                     pkg |-> package.value, name |-> package.rest[2]]
<1> DEFINE package == PackageAt(Behind(id))
<1>1. Optional(PositionPrefix(id), id) = Read(PrefixOf(id), Behind(id)) /\ Behind(id) \in Seq(Token)
  BY PrefixFacts
<1>2. package.rest \in Seq(Token)
  <2>1. CASE package = Read(None, Behind(id))
    BY <2>1, <1>1 DEF Read
  <2>2. ASSUME NEW n \in Lengths(Behind(id)),
               package = Read(PackageOf(SubSeq(Behind(id), 1, n)), SubSeq(Behind(id), n + 1, Len(Behind(id))))
        PROVE  package.rest \in Seq(Token)
    <3>1. SubSeq(Behind(id), n + 1, Len(Behind(id))) \in Seq(Token)
      BY <1>1, LengthFacts
    <3> QED
      BY <2>2, <3>1 DEF Read
  <2> QED
    BY <2>1, <2>2, <1>1, PackageAtFacts
<1>3. Read(PrefixOf(id), Behind(id)).value = PrefixOf(id) /\ Read(PrefixOf(id), Behind(id)).rest = Behind(id)
  BY DEF Read
<1> DEFINE rule == RuleName(package.rest)
           version == Optional(Version(rule.rest), rule.rest)
<1>4. ParseIdString(id) =
        IF rule.ok /\ version.value \in {None} \cup {<<v>> : v \in VersionText}
          THEN [ok |-> TRUE, pos |-> Position(PrefixOf(id), package.value),
                pkg |-> package.value, name |-> rule.value]
          ELSE Fail
  BY <1>1, <1>3 DEF ParseIdString, PackageAt
<1> HIDE DEF package, version
<1>5. rule.ok
  BY <1>4 DEF Fail
<1>6. Named(package.rest) /\ rule.value = package.rest[2]
  BY <1>2, <1>5, RuleNameFacts DEF Fail, Read
<1>7. ParseIdString(id) # Fail
  BY DEF Fail
<1> QED
  BY <1>4, <1>6, <1>7 DEF package

LEMMA TwoTokens ==
  ASSUME NEW s \in Seq(Token), Len(s) = 2
  PROVE  Tail(Tail(s)) = <<>>
<1>1. s # <<>> /\ Tail(s) \in Seq(Token) /\ Len(Tail(s)) = 1
  OBVIOUS
<1>2. \A t \in Seq(Token) : Len(t) = 1 => Tail(t) \in Seq(Token) /\ Len(Tail(t)) = 0
  OBVIOUS
<1> QED
  BY <1>1, <1>2, EmptyFacts

\* ... and a string of which nothing is left over is read.
LEMMA ParseSucceeds ==
  ASSUME NEW id \in Seq(Token), PackageAt(Behind(id)).rest \in Seq(Token),
         Named(PackageAt(Behind(id)).rest), Len(PackageAt(Behind(id)).rest) = 2
  PROVE  ParseIdString(id).ok
<1> DEFINE package == PackageAt(Behind(id))
           rule == RuleName(package.rest)
           version == Optional(Version(rule.rest), rule.rest)
<1>1. Optional(PositionPrefix(id), id) = Read(PrefixOf(id), Behind(id))
  BY PrefixFacts
<1>2. Read(PrefixOf(id), Behind(id)).value = PrefixOf(id) /\ Read(PrefixOf(id), Behind(id)).rest = Behind(id)
  BY DEF Read
<1>3. ParseIdString(id) =
        IF rule.ok /\ version.value \in {None} \cup {<<v>> : v \in VersionText}
          THEN [ok |-> TRUE, pos |-> Position(PrefixOf(id), package.value),
                pkg |-> package.value, name |-> rule.value]
          ELSE Fail
  BY <1>1, <1>2 DEF ParseIdString, PackageAt
<1> HIDE DEF package
<1>4. package.rest \in Seq(Token) /\ Named(package.rest) /\ Len(package.rest) = 2
  BY DEF package
<1>5. rule = Read(package.rest[2], Tail(Tail(package.rest)))
  BY <1>4, RuleNameFacts
<1>6. rule.ok /\ rule.rest = <<>>
  <2>1. Tail(Tail(package.rest)) = <<>>
    BY <1>4, TwoTokens
  <2> QED
    BY <1>5, <2>1 DEF Read
<1> HIDE DEF rule
<1>7. version = Read(None, <<>>)
  BY <1>6 DEF Version, Optional, One, Then, Fail
<1> HIDE DEF version
<1>8. version.value = None
  BY <1>7 DEF Read
<1> QED
  BY <1>3, <1>6, <1>8

-----------------------------------------------------------------------------
(* The documented forms.                                                   *)

LEMMA PrefixByElement ==
  ASSUME NEW s \in Seq(Token), NEW t \in Seq(Token)
  PROVE  IsPrefix(s, t) <=> Len(s) <= Len(t) /\ \A i \in 1..Len(s) : s[i] = t[i]
<1>1. Len(s) \in Nat /\ Len(t) \in Nat
  OBVIOUS
<1>2. /\ SubSeq(s, 1, Len(s)) \in Seq(Token) /\ Len(SubSeq(s, 1, Len(s))) = Len(s)
      /\ \A i \in 1..Len(s) : SubSeq(s, 1, Len(s))[i] = s[i]
  OBVIOUS
<1>3. ASSUME Len(s) <= Len(t)
      PROVE  /\ SubSeq(t, 1, Len(s)) \in Seq(Token) /\ Len(SubSeq(t, 1, Len(s))) = Len(s)
             /\ \A i \in 1..Len(s) : SubSeq(t, 1, Len(s))[i] = t[i]
  BY <1>1, <1>3
<1>4. ASSUME Len(s) <= Len(t), \A i \in 1..Len(s) : s[i] = t[i]
      PROVE  SubSeq(s, 1, Len(s)) = SubSeq(t, 1, Len(s))
  BY <1>1, <1>2, <1>3, <1>4
<1> QED
  BY <1>1, <1>2, <1>3, <1>4 DEF IsPrefix

\* A package is read as a whole, so that it does not end in "/BUILD".
LEMMA PackageFacts ==
  ASSUME NEW p \in Package
  PROVE  /\ p \in Seq(Token) /\ Len(p) \in Lengths(p)
         /\ Len(p) \in Nat /\ Len(p) >= 1
         /\ PackageOf(p) = p /\ p # None
<1>1. p \in Seq(Token)
  BY FilesAssumption DEF Token, Separator
<1>2. ReadPackage(p) = Read(p, <<>>) /\ ReadPackage(p) # Fail
  BY FilesAssumption DEF Read, Fail
<1>3. PICK n \in Lengths(p) :
        ReadPackage(p) = Read(PackageOf(SubSeq(p, 1, n)), SubSeq(p, n + 1, Len(p)))
  BY <1>1, <1>2, ReadPackageFacts
<1>4. PackageOf(SubSeq(p, 1, n)) = p /\ SubSeq(p, n + 1, Len(p)) = <<>>
  <2> DEFINE name == PackageOf(SubSeq(p, 1, n))
             left == SubSeq(p, n + 1, Len(p))
  <2>1. Read(p, <<>>) = Read(name, left)
    BY <1>2, <1>3
  <2> HIDE DEF name, left
  <2>2. Read(p, <<>>).value = p /\ Read(name, left).value = name
    BY ReadFacts
  <2>3. Read(p, <<>>).rest = <<>> /\ Read(name, left).rest = left
    BY ReadFacts
  <2> QED
    BY <2>1, <2>2, <2>3 DEF name, left
<1>5. n \in 1..Len(p) /\ Len(p) \in Nat /\ Len(SubSeq(p, n + 1, Len(p))) = Len(p) - n
  BY <1>1, LengthFacts
<1>6. n = Len(p)
  BY <1>4, <1>5
<1>7. SubSeq(p, 1, n) = p
  BY <1>1, <1>6
<1>8. p # <<>>
  BY <1>5, <1>6
<1> QED
  <2>1. Len(p) \in Lengths(p)
    BY <1>3, <1>6
  <2>2. p # None /\ PackageOf(p) = p
    BY <1>4, <1>7, <1>8 DEF None
  <2> QED
    BY <1>1, <1>5, <1>6, <2>1, <2>2

\* The tokens of an id that opens a package; `more` is the length of the suffix.
OpensBy(p, id, more) ==
  /\ Len(id) >= Len(p) + more + 2
  /\ id[1] = "//"
  /\ \A i \in 1..Len(p) : id[i + 1] = p[i]
  /\ more = 2 => id[Len(p) + 2] = "/" /\ id[Len(p) + 3] = "BUILD"
  /\ id[Len(p) + more + 2] = ":"

LEMMA OpeningFacts ==
  ASSUME NEW p \in Seq(Token), NEW suffix \in Endings
  PROVE  LET opening == <<"//">> \o p \o suffix \o <<":">>
         IN  /\ opening \in Seq(Token) /\ Len(opening) = Len(p) + Len(suffix) + 2
             /\ opening[1] = "//"
             /\ \A i \in 1..Len(p) : opening[i + 1] = p[i]
             /\ \A i \in 1..Len(suffix) : opening[Len(p) + 1 + i] = suffix[i]
             /\ opening[Len(p) + Len(suffix) + 2] = ":"
<1> DEFINE s1 == <<"//">>
           s2 == <<"//">> \o p
           s3 == <<"//">> \o p \o suffix
           s4 == <<":">>
<1>1. s1 \in Seq(Token) /\ Len(s1) = 1 /\ s1[1] = "//" /\ s4 \in Seq(Token) /\ Len(s4) = 1 /\ s4[1] = ":"
  BY DEF Token, Separator
<1>2. suffix \in Seq(Token) /\ Len(suffix) \in Nat /\ Len(p) \in Nat
  <2>1. <<>> \in Seq(Token)
    OBVIOUS
  <2>2. <<"/", "BUILD">> \in Seq(Token)
    BY WordsAssumption DEF Token, Separator
  <2>3. suffix \in Seq(Token)
    BY <2>1, <2>2 DEF Endings
  <2> QED
    BY <2>3, EmptyFacts
<1> HIDE DEF s1, s4
<1>3. /\ s2 \in Seq(Token) /\ Len(s2) = 1 + Len(p)
      /\ \A i \in 1..(1 + Len(p)) : s2[i] = IF i <= 1 THEN s1[i] ELSE p[i - 1]
  <2>1. s2 = s1 \o p
    BY DEF s1
  <2> QED
    BY <1>1, <2>1, ConcatProperties
<1> HIDE DEF s2
<1>4. /\ s3 \in Seq(Token) /\ Len(s3) = 1 + Len(p) + Len(suffix)
      /\ \A i \in 1..(1 + Len(p) + Len(suffix)) :
           s3[i] = IF i <= 1 + Len(p) THEN s2[i] ELSE suffix[i - (1 + Len(p))]
  <2>1. s3 = s2 \o suffix
    BY DEF s2
  <2>2. /\ s2 \o suffix \in Seq(Token) /\ Len(s2 \o suffix) = Len(s2) + Len(suffix)
        /\ \A i \in 1..(Len(s2) + Len(suffix)) :
             (s2 \o suffix)[i] = IF i <= Len(s2) THEN s2[i] ELSE suffix[i - Len(s2)]
    BY <1>2, <1>3, ConcatProperties
  <2> QED
    BY <1>3, <2>1, <2>2
<1> HIDE DEF s3
<1>5. /\ s3 \o s4 \in Seq(Token) /\ Len(s3 \o s4) = 1 + Len(p) + Len(suffix) + 1
      /\ \A i \in 1..(1 + Len(p) + Len(suffix) + 1) :
           (s3 \o s4)[i] = IF i <= 1 + Len(p) + Len(suffix) THEN s3[i] ELSE s4[i - (1 + Len(p) + Len(suffix))]
  <2>1. /\ s3 \o s4 \in Seq(Token) /\ Len(s3 \o s4) = Len(s3) + Len(s4)
        /\ \A i \in 1..(Len(s3) + Len(s4)) :
             (s3 \o s4)[i] = IF i <= Len(s3) THEN s3[i] ELSE s4[i - Len(s3)]
    BY <1>1, <1>4, ConcatProperties
  <2> QED
    BY <1>1, <1>4, <2>1
<1> DEFINE opening == s3 \o s4
<1>6. opening = <<"//">> \o p \o suffix \o <<":">>
  BY DEF s3, s4
<1> HIDE DEF opening
<1>7. opening \in Seq(Token) /\ Len(opening) = Len(p) + Len(suffix) + 2
  BY <1>2, <1>5 DEF opening
<1>8. opening[1] = "//"
  <2>1. opening[1] = s3[1] /\ s3[1] = s2[1] /\ s2[1] = s1[1]
    BY <1>2, <1>3, <1>4, <1>5 DEF opening
  <2> QED
    BY <1>1, <2>1
<1>9. \A i \in 1..Len(p) : opening[i + 1] = p[i]
  <2> SUFFICES ASSUME NEW i \in 1..Len(p)
               PROVE  opening[i + 1] = p[i]
    OBVIOUS
  <2>1. opening[i + 1] = s3[i + 1] /\ s3[i + 1] = s2[i + 1] /\ s2[i + 1] = p[(i + 1) - 1] /\ (i + 1) - 1 = i
    BY <1>2, <1>3, <1>4, <1>5 DEF opening
  <2> QED
    BY <2>1
<1>10. \A i \in 1..Len(suffix) : opening[Len(p) + 1 + i] = suffix[i]
  <2> SUFFICES ASSUME NEW i \in 1..Len(suffix)
               PROVE  opening[Len(p) + 1 + i] = suffix[i]
    OBVIOUS
  <2>1. /\ opening[Len(p) + 1 + i] = s3[Len(p) + 1 + i]
        /\ s3[Len(p) + 1 + i] = suffix[(Len(p) + 1 + i) - (1 + Len(p))]
        /\ (Len(p) + 1 + i) - (1 + Len(p)) = i
    BY <1>2, <1>4, <1>5 DEF opening
  <2> QED
    BY <2>1
<1>11. opening[Len(p) + Len(suffix) + 2] = ":"
  <2>1. /\ opening[Len(p) + Len(suffix) + 2] = s4[(Len(p) + Len(suffix) + 2) - (1 + Len(p) + Len(suffix))]
        /\ (Len(p) + Len(suffix) + 2) - (1 + Len(p) + Len(suffix)) = 1
    BY <1>2, <1>5 DEF opening
  <2> QED
    BY <1>1, <2>1
<1> QED
  BY <1>6, <1>7, <1>8, <1>9, <1>10, <1>11

\* An id opens a package with the suffix of one of the two lengths.
LEMMA OpensFacts ==
  ASSUME NEW p \in Package, NEW id \in Seq(Token)
  PROVE  Opens(p, id) <=> OpensBy(p, id, 0) \/ OpensBy(p, id, 2)
<1>1. p \in Seq(Token) /\ Len(p) \in Nat /\ Len(id) \in Nat
  BY PackageFacts
<1>2. ASSUME NEW suffix \in Endings, NEW more \in {0, 2}, more = Len(suffix),
             more = 2 => suffix[1] = "/" /\ suffix[2] = "BUILD"
      PROVE  IsPrefix(<<"//">> \o p \o suffix \o <<":">>, id) <=> OpensBy(p, id, more)
  <2> DEFINE opening == <<"//">> \o p \o suffix \o <<":">>
  <2>1. /\ opening \in Seq(Token) /\ Len(opening) = Len(p) + more + 2
        /\ opening[1] = "//"
        /\ \A i \in 1..Len(p) : opening[i + 1] = p[i]
        /\ \A i \in 1..more : opening[Len(p) + 1 + i] = suffix[i]
        /\ opening[Len(p) + more + 2] = ":"
    BY <1>1, <1>2, OpeningFacts
  <2> HIDE DEF opening
  <2>2. IsPrefix(opening, id) <=> Len(opening) <= Len(id) /\ \A i \in 1..Len(opening) : opening[i] = id[i]
    BY <2>1, PrefixByElement
  <2>3. ASSUME OpensBy(p, id, more), NEW i \in 1..Len(opening)
        PROVE  opening[i] = id[i]
    <3>1. CASE i = 1 \/ i = Len(p) + more + 2
      BY <2>1, <2>3, <3>1 DEF OpensBy
    <3>2. CASE i \in 2..(Len(p) + 1)
      <4>1. i - 1 \in 1..Len(p) /\ (i - 1) + 1 = i
        BY <1>1, <3>2
      <4>2. opening[(i - 1) + 1] = p[i - 1] /\ id[(i - 1) + 1] = p[i - 1]
        BY <2>1, <2>3, <4>1 DEF OpensBy
      <4> QED
        BY <4>1, <4>2
    <3>3. CASE i \in (Len(p) + 2)..(Len(p) + more + 1)
      <4>1. more = 2 /\ (i = Len(p) + 2 \/ i = Len(p) + 3)
        BY <1>1, <3>3
      <4>2. opening[Len(p) + 1 + 1] = "/" /\ opening[Len(p) + 1 + 2] = "BUILD"
        BY <1>2, <2>1, <4>1
      <4>3. id[Len(p) + 2] = "/" /\ id[Len(p) + 3] = "BUILD"
        BY <2>3, <4>1 DEF OpensBy
      <4>4. Len(p) + 1 + 1 = Len(p) + 2 /\ Len(p) + 1 + 2 = Len(p) + 3
        BY <1>1
      <4> QED
        BY <4>1, <4>2, <4>3, <4>4
    <3> QED
      BY <1>1, <2>1, <3>1, <3>2, <3>3
  <2>4. ASSUME Len(opening) <= Len(id), \A i \in 1..Len(opening) : opening[i] = id[i]
        PROVE  OpensBy(p, id, more)
    <3>1. \A i \in 1..Len(p) : id[i + 1] = p[i]
      <4> SUFFICES ASSUME NEW i \in 1..Len(p)
                   PROVE  id[i + 1] = p[i]
        OBVIOUS
      <4>1. i + 1 \in 1..Len(opening)
        BY <1>1, <2>1
      <4> QED
        BY <2>1, <2>4, <4>1
    <3>2. 1 \in 1..Len(opening) /\ Len(p) + more + 2 \in 1..Len(opening)
      BY <1>1, <2>1
    <3>3. id[1] = "//" /\ id[Len(p) + more + 2] = ":"
      BY <2>1, <2>4, <3>2
    <3>4. ASSUME more = 2
          PROVE  id[Len(p) + 2] = "/" /\ id[Len(p) + 3] = "BUILD"
      <4>1. Len(p) + 2 \in 1..Len(opening) /\ Len(p) + 3 \in 1..Len(opening)
        BY <1>1, <2>1, <3>4
      <4>2. Len(p) + 1 + 1 = Len(p) + 2 /\ Len(p) + 1 + 2 = Len(p) + 3
        BY <1>1
      <4>3. opening[Len(p) + 2] = "/" /\ opening[Len(p) + 3] = "BUILD"
        BY <1>2, <2>1, <3>4, <4>2
      <4> QED
        BY <2>4, <4>1, <4>3
    <3> QED
      BY <2>1, <2>4, <3>1, <3>3, <3>4 DEF OpensBy
  <2>5. OpensBy(p, id, more) => Len(opening) <= Len(id)
    BY <2>1 DEF OpensBy
  <2>6. IsPrefix(opening, id) <=> OpensBy(p, id, more)
    BY <2>2, <2>3, <2>4, <2>5
  <2> QED
    BY <2>6 DEF opening
<1>3. \A opening : opening \in Openings(p) <=>
        opening = <<"//">> \o p \o <<>> \o <<":">> \/ opening = <<"//">> \o p \o <<"/", "BUILD">> \o <<":">>
  BY DEF Openings, Endings
<1>4. IsPrefix(<<"//">> \o p \o <<>> \o <<":">>, id) <=> OpensBy(p, id, 0)
  <2> DEFINE none == <<>>
  <2>1. none \in Endings /\ Len(none) = 0 /\ 0 \in {0, 2} /\ 0 # 2
    BY DEF Endings
  <2> HIDE DEF none
  <2>2. IsPrefix(<<"//">> \o p \o none \o <<":">>, id) <=> OpensBy(p, id, 0)
    BY <1>2, <2>1
  <2> QED
    BY <2>2 DEF none
<1>5. IsPrefix(<<"//">> \o p \o <<"/", "BUILD">> \o <<":">>, id) <=> OpensBy(p, id, 2)
  <2>1. /\ <<"/", "BUILD">> \in Endings /\ Len(<<"/", "BUILD">>) = 2
        /\ <<"/", "BUILD">>[1] = "/" /\ <<"/", "BUILD">>[2] = "BUILD"
    BY DEF Endings
  <2> QED
    BY <1>2, <2>1
<1>6. Opens(p, id) <=> \/ IsPrefix(<<"//">> \o p \o <<>> \o <<":">>, id)
                       \/ IsPrefix(<<"//">> \o p \o <<"/", "BUILD">> \o <<":">>, id)
  <2> DEFINE o1 == <<"//">> \o p \o <<>> \o <<":">>
             o2 == <<"//">> \o p \o <<"/", "BUILD">> \o <<":">>
             before(o) == IsPrefix(o, id)
  <2>1. Opens(p, id) <=> \E opening \in Openings(p) : before(opening)
    BY DEF Opens
  <2>2. \A opening : opening \in Openings(p) <=> opening = o1 \/ opening = o2
    BY <1>3
  <2> HIDE DEF o1, o2, before
  <2>3. Opens(p, id) <=> before(o1) \/ before(o2)
    BY <2>1, <2>2
  <2> QED
    BY <2>3 DEF o1, o2, before
<1> QED
  BY <1>4, <1>5, <1>6

\* What the parser makes of an id that opens a package.
LEMMA OpenedFacts ==
  ASSUME NEW p \in Package, NEW id \in Seq(Token), NEW more \in {0, 2}, OpensBy(p, id, more)
  PROVE  /\ PrefixOf(id) = "//"
         /\ PackageAt(Behind(id)).value = p
         /\ PackageAt(Behind(id)).rest \in Seq(Token)
         /\ Len(PackageAt(Behind(id)).rest) = Len(id) - (Len(p) + more + 1)
         /\ \A i \in 1..(Len(id) - (Len(p) + more + 1)) :
              PackageAt(Behind(id)).rest[i] = id[Len(p) + more + 1 + i]
<1> DEFINE in == Behind(id)
           n == Len(p) + more
<1>1. /\ p \in Seq(Token) /\ Len(p) \in Lengths(p) /\ Len(p) \in Nat /\ Len(p) >= 1
      /\ PackageOf(p) = p
  BY PackageFacts
<1>2. n \in Nat /\ n >= 1 /\ n >= Len(p) /\ (more = 0 => n = Len(p)) /\ (more = 2 => n = Len(p) + 2)
  BY <1>1
<1> HIDE DEF n
<1>3. /\ id # <<>> /\ id[1] = "//" /\ Len(id) \in Nat /\ Len(id) >= n + 2
  BY <1>1, <1>2 DEF OpensBy, n
<1>4. PrefixOf(id) = "//" /\ in = Tail(id)
  BY <1>3 DEF PrefixOf, Behind, Prefix
<1> HIDE DEF in
<1>5. in \in Seq(Token) /\ Len(in) = Len(id) - 1 /\ \A i \in 1..(Len(id) - 1) : in[i] = id[i + 1]
  BY <1>3, <1>4, TailFacts
<1>6. /\ \A i \in 1..Len(p) : in[i] = p[i]
      /\ more = 2 => in[Len(p) + 1] = "/" /\ in[Len(p) + 2] = "BUILD"
      /\ in[n + 1] = ":"
  <2>1. \A i \in 1..Len(p) : in[i] = p[i]
    BY <1>1, <1>2, <1>3, <1>5 DEF OpensBy
  <2>2. ASSUME more = 2
        PROVE  in[Len(p) + 1] = "/" /\ in[Len(p) + 2] = "BUILD"
    <3>1. in[Len(p) + 1] = id[Len(p) + 1 + 1] /\ in[Len(p) + 2] = id[Len(p) + 2 + 1]
      <4>1. Len(p) + 1 \in 1..(Len(id) - 1) /\ Len(p) + 2 \in 1..(Len(id) - 1)
        BY <1>1, <1>2, <1>3, <2>2
      <4> QED
        BY <1>5, <4>1
    <3>2. Len(p) + 1 + 1 = Len(p) + 2 /\ Len(p) + 2 + 1 = Len(p) + 3
      BY <1>1
    <3> QED
      BY <2>2, <3>1, <3>2 DEF OpensBy
  <2>3. in[n + 1] = ":"
    <3>1. in[n + 1] = id[n + 1 + 1] /\ n + 1 + 1 = Len(p) + more + 2
      BY <1>1, <1>2, <1>3, <1>5 DEF n
    <3> QED
      BY <3>1 DEF OpensBy
  <2> QED
    BY <2>1, <2>2, <2>3
<1>7. Len(p) % 2 = 1 /\ \A i \in 1..Len(p) : p[i] \in IF i % 2 = 1 THEN PackageWord ELSE {"/"}
  BY <1>1 DEF Lengths, Alternates
<1>8. n \in Lengths(in)
  <2>1. n % 2 = 1
    BY <1>1, <1>2, <1>7
  <2>2. n \in DOMAIN in
    BY <1>2, <1>3, <1>5
  <2>3. ASSUME NEW i \in 1..n
        PROVE  in[i] \in IF i % 2 = 1 THEN PackageWord ELSE {"/"}
    <3>1. CASE i \in 1..Len(p)
      BY <3>1, <1>6, <1>7
    <3>2. CASE more = 2 /\ i = Len(p) + 1
      <4>1. i % 2 = 0
        BY <1>1, <1>7, <3>2
      <4> QED
        BY <3>2, <4>1, <1>6
    <3>3. CASE more = 2 /\ i = Len(p) + 2
      <4>1. i % 2 = 1
        BY <1>1, <1>7, <3>3
      <4> QED
        BY <3>3, <4>1, <1>6, WordsAssumption
    <3> QED
      BY <1>1, <1>2, <3>1, <3>2, <3>3
  <2> QED
    BY <2>1, <2>2, <2>3 DEF Lengths, Alternates
<1>9. ASSUME NEW m \in Lengths(in)
      PROVE  m <= n
  <2>1. m \in 1..Len(in) /\ Alternates(in, m)
    BY <1>5 DEF Lengths
  <2>2. ASSUME m > n
        PROVE  FALSE
    <3>1. n + 1 \in 1..m
      BY <1>2, <1>5, <2>1, <2>2
    <3>2. in[n + 1] \in PackageWord \/ in[n + 1] = "/"
      BY <2>1, <3>1 DEF Alternates
    <3>3. ":" \notin PackageWord
      BY WordsAssumption DEF Separator
    <3> QED
      BY <1>6, <3>2, <3>3
  <2> QED
    BY <1>2, <1>5, <2>1, <2>2
<1>10. PackageAt(in) = Read(PackageOf(SubSeq(in, 1, n)), SubSeq(in, n + 1, Len(in)))
  <2>1. PICK m \in Lengths(in) :
          /\ \A k \in Lengths(in) : k <= m
          /\ PackageAt(in) = Read(PackageOf(SubSeq(in, 1, m)), SubSeq(in, m + 1, Len(in)))
    BY <1>5, <1>8, PackageAtFacts
  <2>2. m \in 1..Len(in) /\ Len(in) \in Nat
    BY <1>5, LengthFacts
  <2>3. m <= n /\ n <= m
    BY <1>8, <1>9, <2>1
  <2>4. m = n
    BY <1>2, <2>2, <2>3
  <2> QED
    BY <2>1, <2>4
<1>11. /\ SubSeq(in, 1, n) \in Seq(Token) /\ Len(SubSeq(in, 1, n)) = n
       /\ \A i \in 1..n : SubSeq(in, 1, n)[i] = in[i]
       /\ SubSeq(in, n + 1, Len(in)) \in Seq(Token)
       /\ Len(SubSeq(in, n + 1, Len(in))) = Len(in) - n
       /\ \A i \in 1..(Len(in) - n) : SubSeq(in, n + 1, Len(in))[i] = in[n + i]
  BY <1>5, <1>8, LengthFacts
<1> DEFINE s == SubSeq(in, 1, n)
           rest == SubSeq(in, n + 1, Len(in))
<1> HIDE DEF s, rest
<1>12. PackageOf(s) = p
  <2>1. s \in Seq(Token) /\ Len(s) = n /\ \A i \in 1..n : s[i] = in[i]
    BY <1>11 DEF s
  <2>2. CASE more = 0
    <3>1. s = p
      BY <1>1, <1>2, <1>6, <2>1, <2>2
    <3> QED
      BY <1>1, <3>1
  <2>3. CASE more = 2
    <3>1. Len(s) > 2 /\ Last(s) = "BUILD" /\ Len(s) - 2 = Len(p)
      BY <1>1, <1>2, <1>6, <2>1, <2>3 DEF Last
    <3>2. /\ SubSeq(s, 1, Len(p)) \in Seq(Token) /\ Len(SubSeq(s, 1, Len(p))) = Len(p)
          /\ \A i \in 1..Len(p) : SubSeq(s, 1, Len(p))[i] = s[i]
      BY <1>1, <1>2, <2>1
    <3>3. SubSeq(s, 1, Len(p)) = p
      <4>1. \A i \in 1..Len(p) : s[i] = p[i]
        BY <1>1, <1>2, <1>6, <2>1
      <4> DEFINE t == SubSeq(s, 1, Len(p))
      <4>2. t \in Seq(Token) /\ Len(t) = Len(p) /\ \A i \in 1..Len(p) : t[i] = p[i]
        BY <3>2, <4>1
      <4> HIDE DEF t
      <4>3. t = p
        BY <1>1, <4>2
      <4> QED
        BY <4>3 DEF t
    <3> QED
      BY <3>1, <3>3 DEF PackageOf
  <2> QED
    BY <2>2, <2>3
<1>13. PackageAt(in).value = p /\ PackageAt(in).rest = rest
  <2>1. PackageAt(in) = Read(p, rest)
    BY <1>10, <1>12 DEF s, rest
  <2> QED
    BY <2>1, ReadFacts
<1>14. rest \in Seq(Token) /\ Len(rest) = Len(id) - (n + 1)
       /\ \A i \in 1..(Len(id) - (n + 1)) : rest[i] = id[n + 1 + i]
  <2>1. rest \in Seq(Token) /\ Len(rest) = Len(in) - n
    BY <1>11 DEF rest
  <2>2. Len(in) - n = Len(id) - (n + 1)
    BY <1>2, <1>3, <1>5
  <2>3. ASSUME NEW i \in 1..(Len(id) - (n + 1))
        PROVE  rest[i] = id[n + 1 + i]
    <3>1. rest[i] = in[n + i]
      BY <1>11, <2>2 DEF rest
    <3>2. n + i \in 1..(Len(id) - 1) /\ (n + i) + 1 = n + 1 + i
      BY <1>2, <1>3
    <3> QED
      BY <1>5, <3>1, <3>2
  <2> QED
    BY <2>1, <2>2, <2>3
<1> QED
  BY <1>4, <1>13, <1>14 DEF n, in

LEMMA OpenedIsRead ==
  ASSUME NEW p \in Package, NEW id \in Seq(Token), Opens(p, id), ParseIdString(id).ok
  PROVE  ParseIdString(id).pos = "absolute" /\ ParseIdString(id).pkg = p
<1>1. PICK more \in {0, 2} : OpensBy(p, id, more)
  BY OpensFacts
<1>2. PrefixOf(id) = "//" /\ PackageAt(Behind(id)).value = p
  BY <1>1, OpenedFacts
<1>3. /\ ParseIdString(id).pos = Position(PrefixOf(id), PackageAt(Behind(id)).value)
      /\ ParseIdString(id).pkg = PackageAt(Behind(id)).value
  BY ParseFacts
<1> QED
  BY <1>2, <1>3, WordsAssumption DEF Position, Separator

\* The two documented forms are read as they are meant.
LEMMA AbsoluteIsRead ==
  ASSUME NEW p \in Package, NEW n \in RuleWord, NEW id \in {opening \o <<n>> : opening \in Openings(p)}
  PROVE  /\ id \in Seq(Token) /\ Opens(p, id)
         /\ ParseIdString(id).ok /\ ParseIdString(id).pos = "absolute"
         /\ ParseIdString(id).pkg = p /\ ParseIdString(id).name = n
<1>1. PICK suffix \in Endings : id = <<"//">> \o p \o suffix \o <<":">> \o <<n>>
  BY DEF Openings
<1> DEFINE opening == <<"//">> \o p \o suffix \o <<":">>
           name == <<n>>
<1>2. p \in Seq(Token) /\ Len(p) \in Nat /\ Len(p) >= 1
  BY PackageFacts
<1>3. Len(suffix) \in {0, 2}
  BY DEF Endings
<1>4. opening \in Openings(p)
  BY DEF Openings
<1>5. opening \in Seq(Token) /\ Len(opening) = Len(p) + Len(suffix) + 2
  BY <1>2, OpeningFacts
<1>6. name \in Seq(Token) /\ Len(name) = 1 /\ name[1] = n
  BY DEF Token
<1>7. id = opening \o name
  BY <1>1
<1> HIDE DEF opening, name
<1>8. /\ opening \o name \in Seq(Token) /\ Len(opening \o name) = Len(opening) + Len(name)
      /\ \A i \in 1..(Len(opening) + Len(name)) :
           (opening \o name)[i] = IF i <= Len(opening) THEN opening[i] ELSE name[i - Len(opening)]
  BY <1>5, <1>6, ConcatProperties
<1>9. /\ id \in Seq(Token) /\ Len(id) = Len(p) + Len(suffix) + 3
      /\ \A i \in 1..(Len(p) + Len(suffix) + 2) : id[i] = opening[i]
      /\ id[Len(p) + Len(suffix) + 3] = n
  BY <1>2, <1>3, <1>5, <1>6, <1>7, <1>8
<1>10. IsPrefix(opening, id) /\ Opens(p, id)
  <2>1. IsPrefix(opening, id)
    <3>1. Len(opening) <= Len(id) /\ \A i \in 1..Len(opening) : opening[i] = id[i]
      BY <1>2, <1>3, <1>5, <1>9
    <3> QED
      BY <1>5, <1>9, <3>1, PrefixByElement
  <2> QED
    BY <1>4, <2>1 DEF Opens
<1>11. PICK more \in {0, 2} : OpensBy(p, id, more)
  BY <1>9, <1>10, OpensFacts
<1>12. more = Len(suffix)
  <2>1. /\ opening[1] = "//"
        /\ \A i \in 1..Len(suffix) : opening[Len(p) + 1 + i] = suffix[i]
        /\ opening[Len(p) + Len(suffix) + 2] = ":"
    BY <1>2, OpeningFacts DEF opening
  <2>2. ":" # "/"
    OBVIOUS
  <2>3. Len(suffix) = 2 => suffix[1] = "/"
    BY DEF Endings
  <2>4. ASSUME more = 0, Len(suffix) = 2
        PROVE  FALSE
    <3>1. id[Len(p) + 2] = ":"
      BY <1>2, <1>11, <2>4 DEF OpensBy
    <3>2. id[Len(p) + 2] = opening[Len(p) + 2]
      <4>1. Len(p) + 2 \in 1..(Len(p) + Len(suffix) + 2)
        BY <1>2, <2>4
      <4> QED
        BY <4>1, <1>9
    <3>3. opening[Len(p) + 1 + 1] = suffix[1] /\ Len(p) + 1 + 1 = Len(p) + 2
      BY <1>2, <2>1, <2>4
    <3> QED
      BY <2>2, <2>3, <2>4, <3>1, <3>2, <3>3
  <2>5. ASSUME more = 2, Len(suffix) = 0
        PROVE  FALSE
    <3>1. id[Len(p) + 2] = "/"
      BY <1>11, <2>5 DEF OpensBy
    <3>2. id[Len(p) + 2] = opening[Len(p) + 2] /\ Len(p) + Len(suffix) + 2 = Len(p) + 2
      BY <1>2, <1>9, <2>5
    <3> QED
      BY <2>1, <2>2, <3>1, <3>2
  <2> QED
    BY <1>3, <2>4, <2>5
<1> DEFINE rest == PackageAt(Behind(id)).rest
<1>13. /\ PrefixOf(id) = "//" /\ PackageAt(Behind(id)).value = p
       /\ rest \in Seq(Token) /\ Len(rest) = Len(id) - (Len(p) + more + 1)
       /\ \A i \in 1..(Len(id) - (Len(p) + more + 1)) : rest[i] = id[Len(p) + more + 1 + i]
  <2>1. id \in Seq(Token)
    BY <1>9
  <2> QED
    BY <2>1, <1>11, OpenedFacts
<1> HIDE DEF rest
<1>14. Len(rest) = 2 /\ rest[1] = ":" /\ rest[2] = n
  <2>1. Len(id) - (Len(p) + more + 1) = 2
    BY <1>2, <1>3, <1>9, <1>12
  <2>2. rest[1] = id[Len(p) + more + 1 + 1] /\ rest[2] = id[Len(p) + more + 1 + 2]
    BY <1>13, <2>1
  <2>3. Len(p) + more + 1 + 1 = Len(p) + more + 2 /\ Len(p) + more + 1 + 2 = Len(p) + Len(suffix) + 3
    BY <1>2, <1>3, <1>12
  <2> QED
    BY <1>9, <1>11, <1>13, <2>1, <2>2, <2>3 DEF OpensBy
<1>15. Named(rest)
  BY <1>14 DEF Named
<1>16. ParseIdString(id).ok
  BY <1>9, <1>13, <1>14, <1>15, ParseSucceeds DEF rest
<1>17. ParseIdString(id) = [ok |-> TRUE, pos |-> Position(PrefixOf(id), PackageAt(Behind(id)).value),
                            pkg |-> PackageAt(Behind(id)).value, name |-> rest[2]]
  BY <1>9, <1>16, ParseFacts DEF rest
<1>18. ParseIdString(id).name = rest[2]
  BY <1>17
<1>19. ParseIdString(id).pos = "absolute" /\ ParseIdString(id).pkg = p
  BY <1>9, <1>10, <1>16, OpenedIsRead
<1> QED
  BY <1>9, <1>10, <1>14, <1>16, <1>18, <1>19

LEMMA ThisIsRead ==
  ASSUME NEW n \in RuleWord
  PROVE  /\ <<":", n>> \in Seq(Token)
         /\ ParseIdString(<<":", n>>).ok /\ ParseIdString(<<":", n>>).pos = "this"
         /\ ParseIdString(<<":", n>>).name = n
<1> DEFINE id == <<":", n>>
<1>1. id \in Seq(Token) /\ Len(id) = 2 /\ id[1] = ":" /\ id[2] = n /\ id # <<>>
  BY DEF Token, Separator
<1> HIDE DEF id
<1>2. PrefixOf(id) = None /\ Behind(id) = id
  BY <1>1 DEF PrefixOf, Behind, Prefix
<1>3. Lengths(id) = {}
  <2> SUFFICES ASSUME NEW m \in Lengths(id)
               PROVE  FALSE
    OBVIOUS
  <2>1. id[1] \in PackageWord
    BY <1>1, LengthFacts
  <2> QED
    BY <1>1, <2>1, WordsAssumption DEF Separator
<1>4. PackageAt(id) = Read(None, id)
  BY <1>1, <1>3, PackageAtFacts
<1>5. PackageAt(id).value = None /\ PackageAt(id).rest = id
  BY <1>4, ReadFacts
<1>6. Named(id)
  BY <1>1 DEF Named
<1>7. ParseIdString(id).ok
  BY <1>1, <1>2, <1>5, <1>6, ParseSucceeds
<1>8. ParseIdString(id) = [ok |-> TRUE, pos |-> Position(None, None), pkg |-> None, name |-> id[2]]
  BY <1>1, <1>2, <1>5, <1>7, ParseFacts
<1>9. Position(None, None) = "this"
  <2>1. None # "//" /\ None # "##"
    BY WordsAssumption DEF Separator
  <2> QED
    BY <2>1 DEF Position
<1> QED
  BY <1>1, <1>7, <1>8, <1>9 DEF id

\* A package that is read in front of a colon is the one the id opens.
LEMMA ReadIsOpened ==
  ASSUME NEW p \in Package, NEW id \in Seq(Token), PrefixOf(id) = "//",
         NEW n \in Lengths(Behind(id)), PackageOf(SubSeq(Behind(id), 1, n)) = p,
         Named(SubSeq(Behind(id), n + 1, Len(Behind(id))))
  PROVE  Opens(p, id)
<1> DEFINE in == Behind(id)
           s == SubSeq(in, 1, n)
           rest == SubSeq(in, n + 1, Len(in))
<1>1. id # <<>> /\ id[1] = "//" /\ in = Tail(id)
  <2>1. None # "//"
    BY WordsAssumption DEF Separator
  <2> QED
    BY <2>1 DEF PrefixOf, Behind, Prefix
<1>2. Len(id) \in Nat /\ Len(id) >= 1 /\ in \in Seq(Token) /\ Len(in) = Len(id) - 1
      /\ \A i \in 1..(Len(id) - 1) : in[i] = id[i + 1]
  BY <1>1, TailFacts
<1> HIDE DEF in
<1>3. /\ n \in 1..Len(in) /\ Alternates(in, n) /\ n % 2 = 1
  BY <1>2 DEF Lengths, in
<1>4. /\ s \in Seq(Token) /\ Len(s) = n
      /\ \A i \in 1..n : s[i] = in[i]
      /\ Len(rest) = Len(in) - n
      /\ \A i \in 1..(Len(in) - n) : rest[i] = in[n + i]
  BY <1>2, LengthFacts DEF in
<1>5. PackageOf(s) = p /\ Named(rest)
  BY DEF in
<1> HIDE DEF s, rest
<1>6. Len(in) - n >= 2 /\ in[n + 1] = ":"
  <2>1. Len(rest) >= 2 /\ rest[1] = ":"
    BY <1>5 DEF Named
  <2>2. 1 \in 1..(Len(in) - n)
    BY <1>2, <1>3, <1>4, <2>1
  <2> QED
    BY <1>4, <2>1, <2>2
<1>7. n + 2 \in 1..Len(id) /\ id[n + 2] = ":"
  <2>1. n + 1 \in 1..(Len(id) - 1) /\ (n + 1) + 1 = n + 2
    BY <1>2, <1>3, <1>6
  <2> QED
    BY <1>2, <1>3, <1>6, <2>1
<1>8. CASE p = s
  <2>1. \A i \in 1..n : id[i + 1] = p[i]
    <3> SUFFICES ASSUME NEW i \in 1..n
                 PROVE  id[i + 1] = p[i]
      OBVIOUS
    <3>1. i \in 1..(Len(id) - 1)
      BY <1>2, <1>3
    <3> QED
      BY <1>2, <1>4, <1>8, <3>1
  <2>2. Len(p) = n
    BY <1>4, <1>8
  <2>3. OpensBy(p, id, 0)
    BY <1>1, <1>2, <1>3, <1>7, <2>1, <2>2 DEF OpensBy
  <2> QED
    BY <2>3, OpensFacts
<1>9. CASE p # s
  <2>1. n > 2 /\ s[n] = "BUILD" /\ p = SubSeq(s, 1, n - 2)
    BY <1>4, <1>5, <1>9 DEF PackageOf, Last
  <2>2. /\ SubSeq(s, 1, n - 2) \in Seq(Token) /\ Len(SubSeq(s, 1, n - 2)) = n - 2
        /\ \A i \in 1..(n - 2) : SubSeq(s, 1, n - 2)[i] = s[i]
    BY <1>3, <1>4, <2>1
  <2>3. Len(p) = n - 2 /\ \A i \in 1..(n - 2) : p[i] = s[i]
    BY <2>1, <2>2
  <2>4. \A i \in 1..Len(p) : id[i + 1] = p[i]
    <3> SUFFICES ASSUME NEW i \in 1..Len(p)
                 PROVE  id[i + 1] = p[i]
      OBVIOUS
    <3>1. i \in 1..n /\ i \in 1..(Len(id) - 1) /\ i \in 1..(n - 2)
      BY <1>2, <1>3, <2>1, <2>3
    <3> QED
      BY <1>2, <1>4, <2>3, <3>1
  <2>5. in[n] = "BUILD" /\ in[n - 1] = "/"
    <3>1. n - 1 \in 1..n /\ (n - 1) % 2 = 0
      BY <1>3, <2>1
    <3>2. n \in 1..n
      BY <1>3
    <3>3. in[n - 1] = "/"
      BY <1>3, <3>1 DEF Alternates
    <3> QED
      BY <1>4, <2>1, <3>2, <3>3
  <2>6. id[Len(p) + 2] = "/" /\ id[Len(p) + 3] = "BUILD"
    <3>1. n \in 1..(Len(id) - 1) /\ n - 1 \in 1..(Len(id) - 1)
      BY <1>2, <1>3, <2>1
    <3>2. n + 1 = Len(p) + 3 /\ (n - 1) + 1 = Len(p) + 2
      BY <1>3, <2>1, <2>3
    <3> QED
      BY <1>2, <2>5, <3>1, <3>2
  <2>7. Len(p) + 2 + 2 = n + 2 /\ Len(id) >= Len(p) + 2 + 2
    BY <1>3, <1>7, <1>2, <2>1, <2>3
  <2>8. OpensBy(p, id, 2)
    BY <1>1, <1>7, <2>4, <2>6, <2>7 DEF OpensBy
  <2> QED
    BY <2>8, OpensFacts
<1> QED
  BY <1>8, <1>9

\* Whatever is read was written for it.
LEMMA ReadFrom ==
  ASSUME NEW id \in Seq(Token), ParseIdString(id).ok
  PROVE  LET parsed == ParseIdString(id)
         IN  /\ parsed.name \in RuleWord
             /\ parsed.pos \in {"absolute", "builtin", "relative", "this"}
             /\ parsed.pos = "absolute" /\ parsed.pkg = None => WithoutPackage(id)
             /\ \A p \in Package : parsed.pos = "absolute" /\ parsed.pkg = p => Opens(p, id)
             /\ parsed.pos = "relative" => Head(id) \notin {"//", ":"}
<1> DEFINE parsed == ParseIdString(id)
           package == PackageAt(Behind(id))
<1>1. /\ Named(package.rest)
      /\ parsed = [ok |-> TRUE, pos |-> Position(PrefixOf(id), package.value),
                   pkg |-> package.value, name |-> package.rest[2]]
  BY ParseFacts
<1>2. Behind(id) \in Seq(Token)
  BY PrefixFacts
<1> HIDE DEF parsed, package
<1>3. /\ parsed.pos = Position(PrefixOf(id), package.value)
      /\ parsed.pkg = package.value /\ parsed.name = package.rest[2]
  BY <1>1
<1>4. None # "//" /\ None # "##"
  BY WordsAssumption DEF Separator
<1>5. PrefixOf(id) \in {"//", "##", None}
  BY DEF PrefixOf, Prefix
<1>6. /\ parsed.pos \in {"absolute", "builtin", "relative", "this"}
      /\ parsed.pos = "absolute" => PrefixOf(id) = "//"
      /\ parsed.pos = "relative" => PrefixOf(id) = None /\ package.value # None
  BY <1>3, <1>4, <1>5 DEF Position
<1>7. CASE Lengths(Behind(id)) = {} /\ package = Read(None, Behind(id))
  <2>1. package.value = None /\ package.rest = Behind(id)
    BY <1>7, ReadFacts
  <2>2. \A p \in Package : parsed.pkg # p
    BY <1>3, <2>1, PackageFacts
  <2>3. ASSUME parsed.pos = "absolute"
        PROVE  WithoutPackage(id)
    <3>1. id # <<>> /\ id[1] = "//" /\ Behind(id) = Tail(id)
      BY <1>4, <1>6, <2>3 DEF PrefixOf, Behind, Prefix
    <3>2. /\ Len(id) \in Nat /\ Len(Tail(id)) = Len(id) - 1
          /\ \A i \in 1..(Len(id) - 1) : Tail(id)[i] = id[i + 1]
      BY <3>1, TailFacts
    <3>3. Len(Tail(id)) >= 2 /\ Tail(id)[1] = ":"
      BY <1>1, <2>1, <3>1 DEF Named
    <3>4. Len(id) >= 3 /\ id[2] = ":"
      <4>1. 1 \in 1..(Len(id) - 1) /\ 1 + 1 = 2
        BY <3>2, <3>3
      <4> QED
        BY <3>2, <3>3, <4>1
    <3> DEFINE hole == <<"//", ":">>
    <3>5. hole \in Seq(Token) /\ Len(hole) = 2 /\ hole[1] = "//" /\ hole[2] = ":"
      BY DEF Token, Separator
    <3> HIDE DEF hole
    <3>6. IsPrefix(hole, id)
      <4>1. Len(hole) <= Len(id) /\ \A i \in 1..Len(hole) : hole[i] = id[i]
        BY <3>1, <3>2, <3>4, <3>5
      <4> QED
        BY <3>5, <4>1, PrefixByElement
    <3> QED
      BY <3>6 DEF WithoutPackage, hole
  <2> QED
    BY <1>1, <1>3, <1>6, <2>1, <2>2, <2>3 DEF Named, parsed
<1>8. ASSUME NEW n \in Lengths(Behind(id)),
             package = Read(PackageOf(SubSeq(Behind(id), 1, n)), SubSeq(Behind(id), n + 1, Len(Behind(id))))
      PROVE  /\ package.value # None
             /\ \A p \in Package : parsed.pos = "absolute" /\ parsed.pkg = p => Opens(p, id)
             /\ parsed.pos = "relative" => Head(id) \notin {"//", ":"}
  <2> DEFINE s == SubSeq(Behind(id), 1, n)
             rest == SubSeq(Behind(id), n + 1, Len(Behind(id)))
  <2>1. s \in Seq(Token) /\ Len(s) = n /\ n \in 1..Len(Behind(id)) /\ Behind(id)[1] \in PackageWord
    BY <1>2, LengthFacts
  <2> HIDE DEF s, rest
  <2>2. package = Read(PackageOf(s), rest)
    BY <1>8 DEF s, rest
  <2>3. package.value = PackageOf(s) /\ package.rest = rest
    BY <2>2, ReadFacts
  <2>4. s # <<>>
    BY <2>1
  <2>5. package.value # None
    BY <2>1, <2>3, <2>4, PackageOfFacts
  <2>6. ASSUME NEW p \in Package, parsed.pos = "absolute", parsed.pkg = p
        PROVE  Opens(p, id)
    <3>1. PackageOf(SubSeq(Behind(id), 1, n)) = p /\ Named(SubSeq(Behind(id), n + 1, Len(Behind(id))))
      BY <1>1, <1>3, <2>3, <2>6 DEF s, rest
    <3>2. PrefixOf(id) = "//"
      BY <1>6, <2>6
    <3> QED
      BY <3>1, <3>2, ReadIsOpened
  <2>7. ASSUME parsed.pos = "relative"
        PROVE  Head(id) \notin {"//", ":"}
    <3>1. PrefixOf(id) = None
      BY <1>6, <2>7
    <3>2. Behind(id) = id
      BY <1>4, <3>1 DEF PrefixOf, Behind, Prefix
    <3>3. Len(id) >= 1
      BY <2>1, <3>2
    <3>4. Head(id) = id[1]
      BY <3>3, EmptyFacts
    <3> QED
      BY <2>1, <3>2, <3>4, WordsAssumption DEF Separator
  <2> QED
    BY <2>5, <2>6, <2>7
<1>9. \/ Lengths(Behind(id)) = {} /\ package = Read(None, Behind(id))
      \/ \E n \in Lengths(Behind(id)) :
           package = Read(PackageOf(SubSeq(Behind(id), 1, n)), SubSeq(Behind(id), n + 1, Len(Behind(id))))
  BY <1>2, PackageAtFacts DEF package
<1> QED
  BY <1>1, <1>3, <1>6, <1>7, <1>8, <1>9 DEF Named, parsed

-----------------------------------------------------------------------------
(* The files.                                                              *)

LEMMA LeastExists ==
  ASSUME NEW S \in SUBSET Nat, S # {}
  PROVE  \E x \in S : \A y \in S : x <= y
<1>1. PICK x \in S : \A y \in S : ~(<<y, x>> \in OpToRel(<, Nat))
  BY NatLessThanWellFounded, WFMin, Zenon
<1>2. \A y \in S : ~(y < x)
  <2>1. \A u, v \in Nat : u < v => <<u, v>> \in OpToRel(<, Nat)
    BY DEF OpToRel
  <2> QED
    BY <2>1, <1>1, Zenon
<1>3. x \in Nat /\ \A y \in S : y \in Nat
  BY <1>1
<1>4. ASSUME NEW y \in S
      PROVE  x <= y
  <2>1. y \in Nat /\ ~(y < x)
    BY <1>2, <1>3
  <2> QED
    BY <1>3, <2>1
<1> QED
  BY <1>1, <1>4

\* The dependencies of a rule are those of a call with its name.
LEMMA ConstructFacts ==
  ASSUME NEW file, file \in Seq(Range(file))
  PROVE  /\ DOMAIN ConstructRules(file) = {NameOf(call) : call \in Range(file)}
         /\ \A n \in DOMAIN ConstructRules(file) :
              \E call \in Range(file) : NameOf(call) = n /\ ConstructRules(file)[n] = DepsOf(call)
<1> DEFINE names == {NameOf(call) : call \in Range(file)}
           First(n, i) == NameOf(file[i]) = n /\ \A j \in 1..(i - 1) : NameOf(file[j]) # n
           first(n) == CHOOSE i \in DOMAIN file : First(n, i)
<1>1. ConstructRules(file) = [n \in names |-> DepsOf(file[first(n)])]
  BY DEF ConstructRules
<1>2. DOMAIN file \subseteq Nat /\ \A i \in DOMAIN file : i \in 1..Len(file)
  OBVIOUS
<1>3. ASSUME NEW n \in names
      PROVE  first(n) \in DOMAIN file /\ First(n, first(n))
  <2> DEFINE S == {i \in DOMAIN file : NameOf(file[i]) = n}
  <2>1. S # {} /\ S \in SUBSET Nat
    <3>1. PICK call \in Range(file) : NameOf(call) = n
      BY <1>3
    <3>2. PICK i \in DOMAIN file : file[i] = call
      BY <3>1 DEF Range
    <3> QED
      BY <1>2, <3>1, <3>2
  <2>2. PICK i \in S : \A j \in S : i <= j
    BY <2>1, LeastExists
  <2>3. i \in DOMAIN file /\ NameOf(file[i]) = n
    BY <2>2
  <2>4. \A j \in 1..(i - 1) : NameOf(file[j]) # n
    <3> SUFFICES ASSUME NEW j \in 1..(i - 1), NameOf(file[j]) = n
                 PROVE  FALSE
      OBVIOUS
    <3>1. i \in 1..Len(file) /\ Len(file) \in Nat /\ DOMAIN file = 1..Len(file)
      BY <1>2, <2>3
    <3>2. j \in DOMAIN file /\ ~(i <= j)
      BY <3>1
    <3> QED
      BY <2>2, <3>2
  <2>5. First(n, i)
    BY <2>3, <2>4
  <2> HIDE DEF First
  <2> QED
    BY <2>3, <2>5
<1> HIDE DEF First, names
<1>4. ASSUME NEW n \in names
      PROVE  \E call \in Range(file) : NameOf(call) = n /\ ConstructRules(file)[n] = DepsOf(call)
  <2>1. first(n) \in DOMAIN file /\ NameOf(file[first(n)]) = n
    BY <1>3 DEF First
  <2> HIDE DEF first
  <2>2. file[first(n)] \in Range(file)
    BY <2>1 DEF Range
  <2>3. ConstructRules(file)[n] = DepsOf(file[first(n)])
    BY <1>1, <1>4 DEF first
  <2> QED
    BY <2>1, <2>2, <2>3
<1> QED
  BY <1>1, <1>4 DEF names

\* A rule that is declared is constructed.
LEMMA DepsAreIds ==
  ASSUME NEW candidate \in FileSets, NEW p \in Package, Constructible(candidate[p])
  PROVE  /\ UNION Range(ConstructRules(candidate[p])) \subseteq IdString
         /\ \A n : (\E call \in Range(candidate[p]) : StringRequired(call, "name") = Ok(n))
                     => n \in DOMAIN ConstructRules(candidate[p])
<1> DEFINE file == candidate[p]
<1>1. file \in Seq(Range(file)) /\ Mentioned(file) \subseteq IdString
  BY FilesAssumption
<1>2. /\ DOMAIN ConstructRules(file) = {NameOf(call) : call \in Range(file)}
      /\ \A n \in DOMAIN ConstructRules(file) :
           \E call \in Range(file) : NameOf(call) = n /\ ConstructRules(file)[n] = DepsOf(call)
  BY <1>1, ConstructFacts
<1>3. Constructible(file)
  OBVIOUS
<1> HIDE DEF file
<1>4. ASSUME NEW call \in Range(file)
      PROVE  DepsOf(call) \subseteq Mentioned(file)
  <2> DEFINE deps == ListOptional(call, "deps", <<>>)
             mentions(c) == LET d == ListOptional(c, "deps", <<>>) IN IF d.ok THEN Range(d.value) ELSE {}
  <2>1. Fields(call)[3] = deps
    BY DEF Fields
  <2>2. Fields(call)[3].ok
    BY <1>3 DEF Constructible
  <2>3. DepsOf(call) = Range(deps.value) /\ deps.ok
    BY <2>1, <2>2 DEF DepsOf
  <2> HIDE DEF deps
  <2>4. mentions(call) = Range(deps.value)
    BY <2>3 DEF deps
  <2>5. Mentioned(file) = UNION {mentions(c) : c \in Range(file)}
    BY DEF Mentioned
  <2> HIDE DEF mentions
  <2> QED
    BY <2>3, <2>4, <2>5
<1>5. UNION Range(ConstructRules(file)) \subseteq IdString
  <2> SUFFICES ASSUME NEW n \in DOMAIN ConstructRules(file)
               PROVE  ConstructRules(file)[n] \subseteq IdString
    BY DEF Range
  <2> QED
    BY <1>1, <1>2, <1>4
<1>6. ASSUME NEW n, NEW call \in Range(file), StringRequired(call, "name") = Ok(n)
      PROVE  n \in DOMAIN ConstructRules(file)
  <2>1. Fields(call)[1] = Ok(n)
    BY <1>6 DEF Fields
  <2>2. NameOf(call) = n
    BY <2>1 DEF NameOf, Ok
  <2> QED
    BY <1>2, <2>2
<1> QED
  BY <1>5, <1>6 DEF file

\* A file whose calls are typed as documented is evaluated and constructed.
LEMMA TypedFilesLoad ==
  ASSUME NEW file, \A call \in Range(file) : TypedRight(call)
  PROVE  Evaluates(file) /\ Constructible(file)
<1> SUFFICES ASSUME NEW call \in Range(file)
             PROVE  /\ \A field \in DOMAIN call : Convertible(call[field])
                    /\ \A i \in 1..3 : Fields(call)[i].ok
  BY DEF Evaluates, Constructible
<1>1. /\ DOMAIN call \subseteq {"name", "deps"}
      /\ StringRequired(call, "name").ok /\ ListOptional(call, "deps", <<>>).ok
  BY DEF TypedRight
<1>2. ~Throws.ok /\ \A v : Ok(v).ok
  BY DEF Throws, Ok
<1>3. \A i \in 1..3 : Fields(call)[i].ok
  <2>1. StringOptional(call, "version", "DEFAULT").ok
    BY <1>1, <1>2 DEF StringOptional
  <2> QED
    BY <1>1, <2>1 DEF Fields
<1>4. ASSUME "name" \in DOMAIN call
      PROVE  Convertible(call["name"])
  <2>1. call["name"].kind = "str"
    BY <1>1, <1>2 DEF StringRequired
  <2> QED
    BY <2>1 DEF Convertible
<1>5. ASSUME "deps" \in DOMAIN call
      PROVE  Convertible(call["deps"])
  <2>1. ListRequired(call, "deps").ok
    BY <1>1, <1>5 DEF ListOptional
  <2>2. call["deps"].kind = "list" /\ Strings(call["deps"]).ok
    BY <1>2, <2>1 DEF ListRequired
  <2>3. \A item \in Range(call["deps"].value) : item.kind = "str"
    BY <1>2, <2>2 DEF Strings
  <2> QED
    BY <2>2, <2>3 DEF Convertible
<1> QED
  BY <1>1, <1>3, <1>4, <1>5

-----------------------------------------------------------------------------
(* The inductive invariant.                                                *)

Phases == {"args", "load", "push", "wait", "select", "done", "aborted", "crashed"}
Failed == phase \in {"aborted", "crashed"}

Typed ==
  /\ phase \in Phases
  /\ files \in FileSets /\ args \in CommandLines
  /\ packages = [p \in DOMAIN packages |-> packages[p]]
  /\ pushed \subseteq Rules
  /\ todo \in [RuleId -> SUBSET IdString]
  /\ Dependencies \in [RuleId -> SUBSET (RuleId \cup {Garbage})]
  /\ \A r \in RuleId : /\ Dependencies[r] \subseteq Rules \cup {Garbage}
                       /\ todo[r] # {} => r \in pushed /\ todo[r] \subseteq Deps(r)
  /\ compiled \subseteq Rules

\* The packages with the rules of their file, and those without a file.
Whole ==
  {p \in Package \cap DOMAIN packages :
     /\ Evaluates(files[p]) /\ Constructible(files[p])
     /\ packages[p] = ConstructRules(files[p])}
Settled == Whole \cup (DOMAIN packages \ Package)

\* Rules come from files, and until the tasks run nothing else makes packages.
Loaded ==
  /\ \A p \in DOMAIN packages : DOMAIN packages[p] # {} => p \in Whole
  /\ phase \in {"args", "load"} => DOMAIN packages \subseteq Settled
  /\ phase \notin {"load", "aborted", "crashed"} => Q = {}

\* What an id needs has been loaded or is waiting to be.
Followed(str) ==
  LET id == Parsed[str]
  IN  id.ok /\ (id.pos = "absolute" /\ id.pkg # None => id.pkg \in Settled \cup Q)

Reached ==
  ~Failed =>
    /\ phase # "args" => \A str \in args.ids :
         Parsed[ArgumentId(str)].pos = "absolute" /\ Followed(ArgumentId(str))
    /\ \A p \in Whole : \A d \in FileDeps(p) : Parsed[d].pos # "builtin" /\ Followed(d)

NoHole ==
  /\ \A p \in Package : \A id \in FileDeps(p) : ~WithoutPackage(id)
  /\ \A str \in args.ids : ~WithoutPackage(ArgumentId(str))

\* Without an id that has no package nothing is loaded that is not needed.
Tight ==
  NoHole =>
    /\ Q \cap Package \subseteq Closure
    /\ \A p \in DOMAIN packages : DOMAIN packages[p] # {} => p \in Closure

Meant(r, ids) == {s \in Rules : \E id \in ids : Says(r[1], id, s)}
Requested == {<<Parsed[ArgumentId(str)].pkg, Parsed[ArgumentId(str)].name>> : str \in args.ids}
Roots == UNION {Selected(c[1], c[2]) : c \in chosen}

\* What is more if all follows the documentation.
CleanInv ==
  Clean =>
    /\ ~Failed
    /\ DOMAIN packages \cup Q \subseteq Closure
    /\ phase \in {"args", "load"} => pushed = {}
    /\ phase # "args" => chosen = Requested
    /\ \A r \in RuleId : Dependencies[r] = IF r \in pushed THEN Meant(r, Deps(r) \ todo[r]) ELSE {}
    /\ phase \in {"wait", "select", "done"} => Rules \subseteq pushed
    /\ phase \in {"select", "done"} => \A r \in RuleId : todo[r] = {}
    /\ phase = "done" => compiled = Below(Roots)

IInv == Typed /\ Loaded /\ Reached /\ Tight /\ CleanInv

-----------------------------------------------------------------------------
(* What depends on the files and the command line alone.                   *)

LEMMA InputsUnchanged ==
  ASSUME UNCHANGED inputs
  PROVE  /\ Closure' = Closure /\ Clean' = Clean /\ NoHole' = NoHole
         /\ UNCHANGED <<files, args>>
         /\ \A p \in Package : FileDeps(p)' = FileDeps(p)
         /\ \A str \in args.ids : ArgumentId(str)' = ArgumentId(str)
<1>1. files' = files /\ args' = args
  BY DEF inputs
<1>2. Asked' = Asked
  BY <1>1 DEF Asked, ArgumentId
<1>3. \A p \in Package : FileDeps(p)' = FileDeps(p)
  BY <1>1 DEF FileDeps
<1>4. \A str \in args.ids : ArgumentId(str)' = ArgumentId(str)
  BY <1>1 DEF ArgumentId
<1>5. Closure' = Closure
  BY <1>1, <1>2 DEF Closure, Opened, FileDeps
<1>6. Clean' = Clean
  BY <1>1, <1>5 DEF Clean, CleanArguments, CleanFiles, Declared, FileDeps
<1>7. NoHole' = NoHole
  BY <1>1 DEF NoHole, FileDeps, ArgumentId
<1> QED
  BY <1>1, <1>3, <1>4, <1>5, <1>6, <1>7

\* The closure contains what is asked for and is closed, and it is the least
\* set of this kind.
LEMMA ClosureFacts ==
  /\ Closure \subseteq Package /\ Asked \subseteq Closure
  /\ \A p \in Closure : Opened(p) \subseteq Closure
  /\ \A S \in SUBSET Package :
       Asked \subseteq S /\ (\A p \in S : Opened(p) \subseteq S) => Closure \subseteq S
<1> DEFINE closed == {S \in SUBSET Package : Asked \subseteq S /\ \A p \in S : Opened(p) \subseteq S}
<1>1. Closure = {p \in Package : \A S \in closed : p \in S}
  BY DEF Closure
<1>2. Asked \subseteq Package /\ \A p \in Package : Opened(p) \subseteq Package
  BY DEF Asked, Opened
<1> QED
  BY <1>1, <1>2

LEMMA IdsAreStrings ==
  ASSUME Typed
  PROVE  /\ \A p \in Package : FileDeps(p) \subseteq IdString
         /\ \A str \in args.ids : ArgumentId(str) \in IdString
         /\ \A id \in IdString : id \in Seq(Token) /\ Parsed[id] = ParseIdString(id)
<1>1. files \in FileSets /\ args \in CommandLines
  BY DEF Typed
<1>2. ASSUME NEW p \in Package
      PROVE  FileDeps(p) \subseteq IdString
  BY <1>1, DepsAreIds DEF FileDeps
<1>3. \A str \in args.ids : ArgumentId(str) \in IdString
  BY <1>1, FilesAssumption DEF ArgumentId
<1>4. \A id \in IdString : id \in Seq(Token) /\ Parsed[id] = ParseIdString(id)
  BY FilesAssumption DEF Parsed
<1> QED
  BY <1>2, <1>3, <1>4

\* What the parser has made of an id.
LEMMA ParsedFacts ==
  ASSUME NEW id \in IdString, Parsed[id].ok
  PROVE  /\ Parsed[id].name \in RuleWord
         /\ Parsed[id].pos \in {"absolute", "builtin", "relative", "this"}
         /\ Parsed[id].pos = "absolute" /\ Parsed[id].pkg = None => WithoutPackage(id)
         /\ \A p \in Package : Parsed[id].pos = "absolute" /\ Parsed[id].pkg = p <=> Opens(p, id)
         /\ Parsed[id].pos = "relative" => Head(id) \notin {"//", ":"}
<1>1. id \in Seq(Token) /\ Parsed[id] = ParseIdString(id)
  BY FilesAssumption DEF Parsed
<1>2. \A p \in Package : Opens(p, id) => Parsed[id].pos = "absolute" /\ Parsed[id].pkg = p
  BY <1>1, OpenedIsRead
<1> QED
  BY <1>1, <1>2, ReadFrom

\* A documented id is read as it is meant, and means one rule.
LEMMA SaysFacts ==
  ASSUME NEW p \in Package, NEW id \in IdString, NEW r \in RuleId, Says(p, id, r)
  PROVE  /\ Parsed[id].ok /\ Parsed[id].name = r[2]
         /\ \/ Parsed[id].pos = "absolute" /\ Parsed[id].pkg = r[1] /\ Opens(r[1], id)
            \/ Parsed[id].pos = "this" /\ r[1] = p
<1>1. Parsed[id] = ParseIdString(id) /\ r[1] \in Package /\ r[2] \in RuleWord
  BY FilesAssumption DEF Parsed, RuleId
<1>2. CASE id \in {opening \o <<r[2]>> : opening \in Openings(r[1])}
  BY <1>1, <1>2, AbsoluteIsRead
<1>3. CASE r[1] = p /\ id = <<":", r[2]>>
  BY <1>1, <1>3, ThisIsRead
<1> QED
  BY <1>2, <1>3 DEF Says

LEMMA OldArgument ==
  ASSUME NEW p \in Package
  PROVE  LET str == p \o <<"/", "BUILD">>
         IN  /\ <<"//">> \o str \o <<":", "...">> \in {opening \o <<"...">> : opening \in Openings(p)}
             /\ str # <<>> /\ Last(str) = "BUILD"
<1> DEFINE a == <<"//">>
           B == <<"/", "BUILD">>
           c == <<":">>
           n == <<"...">>
           cn == <<":", "...">>
<1>1. p \in Seq(Token) /\ Len(p) \in Nat
  BY PackageFacts
<1>2. a \in Seq(Token) /\ c \in Seq(Token) /\ B \in Seq(Token) /\ n \in Seq(Token)
  BY WordsAssumption, FilesAssumption DEF Token, Separator
<1>3. cn = c \o n
  OBVIOUS
<1>4. Len(B) = 2 /\ B[2] = "BUILD" /\ B \in Endings
  BY DEF Endings
<1>5. \A opening : opening = a \o p \o B \o c => opening \in Openings(p)
  BY <1>4 DEF Openings
<1> HIDE DEF a, B, c, n, cn
<1>6. a \o (p \o B) \o cn = (a \o p \o B \o c) \o n
  <2>0. \A s, t, u \in Seq(Token) : (s \o t) \o u = s \o (t \o u)
    BY ConcatAssociative
  <2>1. a \o (p \o B) = (a \o p) \o B
    <3>1. a \in Seq(Token) /\ p \in Seq(Token) /\ B \in Seq(Token)
      BY <1>1, <1>2
    <3>2. (a \o p) \o B = a \o (p \o B)
      BY <3>1, <2>0
    <3> QED
      BY <3>2
  <2>2. (a \o p) \o B \in Seq(Token)
    BY <1>1, <1>2
  <2> DEFINE s == (a \o p) \o B
  <2> HIDE DEF s
  <2>3. s \o (c \o n) = (s \o c) \o n
    BY <1>2, <2>2, <2>0 DEF s
  <2> QED
    BY <1>3, <2>1, <2>3 DEF s
<1>7. a \o (p \o B) \o cn \in {opening \o n : opening \in Openings(p)}
  BY <1>5, <1>6
<1>8. p \o B # <<>> /\ Last(p \o B) = "BUILD"
  <2>1. /\ p \o B \in Seq(Token) /\ Len(p \o B) = Len(p) + Len(B)
        /\ \A i \in 1..(Len(p) + Len(B)) : (p \o B)[i] = IF i <= Len(p) THEN p[i] ELSE B[i - Len(p)]
    BY <1>1, <1>2, ConcatProperties
  <2> DEFINE s == p \o B
  <2> HIDE DEF s
  <2>2. s \in Seq(Token) /\ Len(s) = Len(p) + 2 /\ s[Len(p) + 2] = B[(Len(p) + 2) - Len(p)]
    BY <1>1, <1>4, <2>1 DEF s
  <2>3. (Len(p) + 2) - Len(p) = 2
    BY <1>1
  <2>4. s # <<>> /\ s[Len(s)] = "BUILD"
    BY <1>1, <1>4, <2>2, <2>3
  <2> QED
    BY <2>4 DEF s, Last
<1> QED
  BY <1>7, <1>8 DEF a, B, n, cn

LEMMA CleanArgumentFacts ==
  ASSUME Typed, Clean, NEW str \in args.ids
  PROVE  /\ \E p \in Package, n \in RuleWord :
              /\ ArgumentId(str) \in {opening \o <<n>> : opening \in Openings(p)}
              /\ n # "..." => Declared(<<p, n>>)
         /\ args.old => str # <<>> /\ Last(str) = "BUILD"
<1>1. PICK p \in Package :
        IF args.old THEN str = p \o <<"/", "BUILD">>
        ELSE \E n \in RuleWord :
               /\ str \in {opening \o <<n>> : opening \in Openings(p)}
               /\ n # "..." => Declared(<<p, n>>)
  BY DEF Clean, CleanArguments
<1>2. CASE args.old
  <2>1. str = p \o <<"/", "BUILD">>
    BY <1>1, <1>2
  <2>2. ArgumentId(str) = <<"//">> \o str \o <<":", "...">>
    BY <1>2 DEF ArgumentId, IdOf
  <2>3. "..." \in RuleWord
    BY FilesAssumption
  <2>4. ArgumentId(str) \in {opening \o <<"...">> : opening \in Openings(p)}
    BY <2>1, <2>2, OldArgument
  <2>5. str # <<>> /\ Last(str) = "BUILD"
    BY <2>1, OldArgument
  <2> QED
    BY <2>3, <2>4, <2>5
<1>3. CASE ~args.old
  <2>1. ArgumentId(str) = str
    BY <1>3 DEF ArgumentId, IdOf
  <2> QED
    BY <1>1, <1>3, <2>1
<1> QED
  BY <1>2, <1>3

\* ... so that the parser gets the package and the name right.
LEMMA CleanArgumentsAreRead ==
  ASSUME Typed, Clean, NEW str \in args.ids
  PROVE  LET id == Parsed[ArgumentId(str)]
         IN  /\ id.ok /\ id.pos = "absolute" /\ id.pkg \in Asked /\ id.name \in RuleWord
             /\ ArgumentId(str) \in {opening \o <<id.name>> : opening \in Openings(id.pkg)}
             /\ id.name # "..." => Declared(<<id.pkg, id.name>>)
<1>1. PICK p \in Package, n \in RuleWord :
        /\ ArgumentId(str) \in {opening \o <<n>> : opening \in Openings(p)}
        /\ n # "..." => Declared(<<p, n>>)
  BY CleanArgumentFacts
<1>2. ArgumentId(str) \in IdString /\ Parsed[ArgumentId(str)] = ParseIdString(ArgumentId(str))
  BY IdsAreStrings
<1> DEFINE id == ArgumentId(str)
<1>3. id \in {opening \o <<n>> : opening \in Openings(p)}
  BY <1>1
<1> HIDE DEF id
<1>4. /\ Opens(p, id) /\ ParseIdString(id).ok /\ ParseIdString(id).pos = "absolute"
      /\ ParseIdString(id).pkg = p /\ ParseIdString(id).name = n
  BY <1>3, AbsoluteIsRead
<1>5. p \in Asked
  BY <1>4 DEF Asked, id
<1> QED
  BY <1>1, <1>2, <1>4, <1>5 DEF id

LEMMA DeclaredFacts ==
  ASSUME Typed, NEW r \in RuleId, Declared(r), Constructible(files[r[1]])
  PROVE  r[1] \in Package /\ r[2] \in DOMAIN ConstructRules(files[r[1]])
<1>1. /\ r[1] \in Package
      /\ \E call \in Range(files[r[1]]) : StringRequired(call, "name") = Ok(r[2])
  BY DEF Declared
<1>2. files \in FileSets
  BY DEF Typed
<1> QED
  BY <1>1, <1>2, DepsAreIds

\* What a file of the closure needs, if all follows the documentation.
LEMMA CleanFileFacts ==
  ASSUME Typed, Clean, NEW p \in Closure
  PROVE  /\ p \in Package /\ Evaluates(files[p]) /\ Constructible(files[p])
         /\ \A d \in FileDeps(p) :
              /\ d \in IdString /\ Parsed[d].ok /\ Parsed[d].pos \in {"absolute", "this"}
              /\ Parsed[d].pos = "absolute" => Parsed[d].pkg \in Closure /\ Opens(Parsed[d].pkg, d)
              /\ \E s \in RuleId :
                   /\ Says(p, d, s) /\ s[1] \in Closure /\ s[2] \in DOMAIN ConstructRules(files[s[1]])
<1>1. \A q \in Closure : q \in Package /\ Evaluates(files[q]) /\ Constructible(files[q])
  BY ClosureFacts, TypedFilesLoad DEF Clean, CleanFiles
<1>2. ASSUME NEW d \in FileDeps(p)
      PROVE  /\ d \in IdString /\ Parsed[d].ok /\ Parsed[d].pos \in {"absolute", "this"}
             /\ Parsed[d].pos = "absolute" => Parsed[d].pkg \in Closure /\ Opens(Parsed[d].pkg, d)
             /\ \E s \in RuleId :
                  /\ Says(p, d, s) /\ s[1] \in Closure /\ s[2] \in DOMAIN ConstructRules(files[s[1]])
  <2>1. d \in IdString
    BY <1>1, IdsAreStrings
  <2>2. PICK s \in RuleId : Declared(s) /\ Says(p, d, s)
    BY DEF Clean, CleanFiles
  <2>3. /\ Parsed[d].ok /\ Parsed[d].name = s[2]
        /\ \/ Parsed[d].pos = "absolute" /\ Parsed[d].pkg = s[1] /\ Opens(s[1], d)
           \/ Parsed[d].pos = "this" /\ s[1] = p
    BY <1>1, <2>1, <2>2, SaysFacts
  <2>4. s[1] \in Closure
    <3>1. CASE Opens(s[1], d)
      <4>1. s[1] \in Opened(p)
        BY <3>1 DEF Opened, RuleId
      <4> QED
        BY <4>1, ClosureFacts
    <3> QED
      BY <2>3, <3>1
  <2>5. s[2] \in DOMAIN ConstructRules(files[s[1]])
    BY <1>1, <2>2, <2>4, DeclaredFacts
  <2> QED
    BY <2>1, <2>2, <2>3, <2>4, <2>5
<1> QED
  BY <1>1, <1>2

-----------------------------------------------------------------------------
(* The steps.                                                              *)

LEMMA InitHolds == Init => IInv
<1> SUFFICES ASSUME Init
             PROVE  IInv
  OBVIOUS
<1>1. DOMAIN packages = {} /\ packages = [p \in DOMAIN packages |-> packages[p]]
  BY DEF Init
<1>2. Rules = {} /\ Whole = {}
  BY <1>1 DEF Rules, Whole
<1>3. Typed
  BY <1>1 DEF Init, Typed, Phases
<1>4. Loaded /\ Reached
  BY <1>1, <1>2 DEF Init, Loaded, Reached, Failed, Settled
<1>5. Tight
  BY <1>1 DEF Init, Tight
<1>6. CleanInv
  BY <1>1 DEF Init, CleanInv, Failed
<1> QED
  BY <1>3, <1>4, <1>5, <1>6 DEF IInv

\* The rules that are loaded are those of whole packages.
LEMMA RulesAreWhole ==
  ASSUME Typed, Loaded
  PROVE  /\ Whole \subseteq Package
         /\ \A p \in Whole : /\ p \in DOMAIN packages
                             /\ FileDeps(p) = UNION Range(ConstructRules(files[p]))
                             /\ packages[p] = ConstructRules(files[p])
         /\ \A r \in Rules : r \in RuleId /\ r[1] \in Whole /\ Deps(r) \subseteq FileDeps(r[1])
         /\ \A r \in Rules : Deps(r) \subseteq IdString
<1>1. \A p \in Whole : /\ p \in DOMAIN packages /\ p \in Package
                       /\ FileDeps(p) = UNION Range(ConstructRules(files[p]))
                       /\ packages[p] = ConstructRules(files[p])
  BY DEF Whole, FileDeps
<1>2. ASSUME NEW r \in Rules
      PROVE  r \in RuleId /\ r[1] \in Whole /\ Deps(r) \subseteq FileDeps(r[1])
  <2>1. r \in RuleId /\ r[1] \in DOMAIN packages /\ r[2] \in DOMAIN packages[r[1]]
    BY DEF Rules
  <2>2. r[1] \in Whole
    BY <2>1 DEF Loaded
  <2>3. packages[r[1]][r[2]] \in Range(packages[r[1]])
    BY <2>1 DEF Range
  <2>4. Range(packages[r[1]]) = Range(ConstructRules(files[r[1]]))
    BY <1>1, <2>2
  <2> QED
    BY <1>1, <2>1, <2>2, <2>3, <2>4 DEF Deps
<1> QED
  BY <1>1, <1>2, IdsAreStrings

LEMMA PackagesUnchanged ==
  ASSUME UNCHANGED <<inputs, packages>>
  PROVE  /\ Rules' = Rules /\ Whole' = Whole /\ Settled' = Settled
         /\ \A r \in RuleId : Deps(r)' = Deps(r)
<1>1. files' = files /\ packages' = packages
  BY DEF inputs
<1> QED
  BY <1>1 DEF Rules, Whole, Settled, Deps

\* A package that is added takes nothing away.
LEMMA GrowFacts ==
  ASSUME Typed, NEW p, NEW more, packages' = WithPackage(p, more), UNCHANGED inputs
  PROVE  /\ DOMAIN packages' = DOMAIN packages \cup {p}
         /\ \A q \in DOMAIN packages : packages'[q] = packages[q]
         /\ p \notin DOMAIN packages => packages'[p] = more
         /\ packages' = [q \in DOMAIN packages' |-> packages'[q]]
         /\ p \in DOMAIN packages => packages' = packages
         /\ Rules \subseteq Rules' /\ \A r \in Rules : Deps(r)' = Deps(r)
         /\ Whole \subseteq Whole' /\ Settled \subseteq Settled'
         /\ Whole' \subseteq Whole \cup {p}
<1>1. packages' = [q \in DOMAIN packages \cup {p} |-> IF q \in DOMAIN packages THEN packages[q] ELSE more]
  BY DEF WithPackage
<1>2. /\ DOMAIN packages' = DOMAIN packages \cup {p}
      /\ \A q \in DOMAIN packages : packages'[q] = packages[q]
      /\ p \notin DOMAIN packages => packages'[p] = more
  BY <1>1
<1>3. packages' = [q \in DOMAIN packages' |-> packages'[q]]
  BY <1>1
<1>4. ASSUME p \in DOMAIN packages
      PROVE  packages' = packages
  <2>1. packages = [q \in DOMAIN packages |-> packages[q]] /\ DOMAIN packages \cup {p} = DOMAIN packages
    BY <1>4 DEF Typed
  <2> QED
    BY <1>1, <2>1
<1>5. Rules \subseteq Rules' /\ \A r \in Rules : Deps(r)' = Deps(r)
  BY <1>2 DEF Rules, Deps
<1>6. files' = files
  BY DEF inputs
<1>7. Whole \subseteq Whole' /\ Whole' \subseteq Whole \cup {p}
  BY <1>2, <1>6 DEF Whole
<1>8. Settled \subseteq Settled'
  BY <1>2, <1>7 DEF Settled
<1> QED
  BY <1>2, <1>3, <1>4, <1>5, <1>7, <1>8

\* What has been followed stays so while nothing is dropped from the queue that
\* is not settled.
LEMMA StaysFollowed ==
  ASSUME UNCHANGED inputs, Settled \cup Q \subseteq Settled' \cup Q',
         NEW str, Followed(str)
  PROVE  Followed(str)'
BY DEF Followed, Parsed

\* Where the map of packages stays, so does what was said of the files.
LEMMA FilesStay ==
  ASSUME Typed, Reached, ~Failed, UNCHANGED <<inputs, packages, Q>>
  PROVE  /\ \A p \in Whole' : \A d \in FileDeps(p)' : (Parsed[d].pos # "builtin" /\ Followed(d))'
         /\ phase # "args" => \A str \in args'.ids :
              (Parsed[ArgumentId(str)].pos = "absolute" /\ Followed(ArgumentId(str)))'
<1>1. Whole' = Whole /\ Settled' = Settled /\ Q' = Q
  BY PackagesUnchanged
<1>2. /\ \A p \in Package : FileDeps(p)' = FileDeps(p)
      /\ args' = args /\ \A str \in args.ids : ArgumentId(str)' = ArgumentId(str)
  BY InputsUnchanged
<1>3. \A str : Followed(str) => Followed(str)'
  BY <1>1, StaysFollowed
<1>4. Whole \subseteq Package
  BY DEF Whole
<1>5. \A p \in Whole : \A d \in FileDeps(p) : Parsed[d].pos # "builtin" /\ Followed(d)
  BY DEF Reached
<1>6. phase # "args" => \A str \in args.ids :
        Parsed[ArgumentId(str)].pos = "absolute" /\ Followed(ArgumentId(str))
  BY DEF Reached
<1> QED
  BY <1>1, <1>2, <1>3, <1>4, <1>5, <1>6

LEMMA ReadArgumentsKeeps ==
  ASSUME IInv, ReadArguments
  PROVE  IInv'
<1> USE DEF IInv
<1> DEFINE ids == {Parsed[ArgumentId(str)] : str \in args.ids}
           refused == \/ \E id \in ids : ~id.ok \/ id.pos # "absolute"
                      \/ args.old /\ \E str \in args.ids : str = <<>> \/ Last(str) # "BUILD"
           name(id, hole) == IF id.pkg = None THEN hole ELSE id.pkg
<1>1. /\ phase = "args" /\ Q = {}
      /\ UNCHANGED <<inputs, packages, pushed, todo, Dependencies, compiled>>
  BY DEF ReadArguments, Loaded
<1>2. \/ refused /\ phase' = "aborted" /\ UNCHANGED <<chosen, Q>>
      \/ ~refused /\ Hole(ids) /\ phase' = "crashed" /\ UNCHANGED <<chosen, Q>>
      \/ ~refused /\ \E hole \in Package :
           /\ chosen' = {<<name(id, hole), id.name>> : id \in ids}
           /\ Q' = {name(id, hole) : id \in ids}
           /\ phase' = "load"
  BY DEF ReadArguments
<1>3. /\ Rules' = Rules /\ Whole' = Whole /\ Settled' = Settled
      /\ \A r \in RuleId : Deps(r)' = Deps(r)
  BY <1>1, PackagesUnchanged
<1>4. /\ Closure' = Closure /\ Clean' = Clean /\ NoHole' = NoHole
      /\ UNCHANGED <<files, args>>
      /\ \A p \in Package : FileDeps(p)' = FileDeps(p)
      /\ \A str \in args.ids : ArgumentId(str)' = ArgumentId(str)
  BY <1>1, InputsUnchanged
<1>5. phase' \in {"aborted", "crashed", "load"}
  BY <1>2
<1>6. Typed'
  BY <1>1, <1>3, <1>4, <1>5 DEF Typed, Phases
<1>7. Loaded'
  BY <1>1, <1>3, <1>5 DEF Loaded
<1>8. ASSUME ~refused, NEW str \in args.ids
      PROVE  Parsed[ArgumentId(str)].ok /\ Parsed[ArgumentId(str)].pos = "absolute"
  BY <1>8
<1>9. Reached'
  <2> SUFFICES ASSUME ~refused, NEW hole \in Package,
                      Q' = {name(id, hole) : id \in ids}, phase' = "load"
               PROVE  Reached'
    BY <1>2 DEF Reached, Failed
  <2>1. Settled \cup Q \subseteq Settled' \cup Q'
    BY <1>1, <1>3
  <2>2. \A p \in Whole' : \A d \in FileDeps(p)' : (Parsed[d].pos # "builtin" /\ Followed(d))'
    <3> SUFFICES ASSUME NEW p \in Whole, NEW d \in FileDeps(p)
                 PROVE  (Parsed[d].pos # "builtin" /\ Followed(d))'
      BY <1>3, <1>4 DEF Whole
    <3>1. Parsed[d].pos # "builtin" /\ Followed(d)
      BY <1>1 DEF Reached, Failed
    <3> QED
      BY <1>1, <2>1, <3>1, StaysFollowed
  <2>3. ASSUME NEW str \in args.ids
        PROVE  (Parsed[ArgumentId(str)].pos = "absolute" /\ Followed(ArgumentId(str)))'
    <3> DEFINE id == Parsed[ArgumentId(str)]
    <3>1. id.ok /\ id.pos = "absolute" /\ id \in ids
      BY <1>8
    <3> HIDE DEF ids
    <3>2. id.pkg # None => id.pkg \in Q'
      BY <3>1
    <3>3. ArgumentId(str)' = ArgumentId(str)
      BY <1>4
    <3> QED
      BY <3>1, <3>2, <3>3 DEF Followed
  <2> QED
    BY <1>4, <2>2, <2>3 DEF Reached
<1>10. Tight'
  <2> SUFFICES ASSUME NoHole, NEW q \in Q' \cap Package
               PROVE  q \in Closure
    BY <1>1, <1>4 DEF Tight
  <2>1. PICK hole \in Package : ~refused /\ Q' = {name(id, hole) : id \in ids}
    BY <1>1, <1>2
  <2>2. PICK str \in args.ids : q = name(Parsed[ArgumentId(str)], hole)
    BY <2>1
  <2>3. Parsed[ArgumentId(str)].ok /\ Parsed[ArgumentId(str)].pos = "absolute"
    BY <1>8, <2>1
  <2>4. ArgumentId(str) \in IdString
    BY IdsAreStrings
  <2>5. Parsed[ArgumentId(str)].pkg # None
    BY <2>3, <2>4, ParsedFacts DEF NoHole
  <2>6. q = Parsed[ArgumentId(str)].pkg /\ q \in Package
    BY <2>2, <2>5
  <2>7. Opens(q, ArgumentId(str))
    BY <2>3, <2>4, <2>6, ParsedFacts
  <2> QED
    BY <2>6, <2>7, ClosureFacts DEF Asked
<1>11. CleanInv'
  <2> SUFFICES ASSUME Clean
               PROVE  CleanInv'
    BY <1>4 DEF CleanInv
  <2>1. ASSUME NEW str \in args.ids
        PROVE  LET id == Parsed[ArgumentId(str)]
               IN  /\ id.ok /\ id.pos = "absolute" /\ id.pkg \in Asked
                   /\ id.pkg \in Closure /\ id.pkg # None
                   /\ args.old => str # <<>> /\ Last(str) = "BUILD"
    BY CleanArgumentsAreRead, CleanArgumentFacts, ClosureFacts, PackageFacts
  <2>2. ~refused /\ ~Hole(ids)
    BY <2>1 DEF Hole
  <2>3. PICK hole \in Package :
          /\ chosen' = {<<name(id, hole), id.name>> : id \in ids}
          /\ Q' = {name(id, hole) : id \in ids}
          /\ phase' = "load"
    BY <1>2, <2>2
  <2>4. \A str \in args.ids : name(Parsed[ArgumentId(str)], hole) = Parsed[ArgumentId(str)].pkg
    BY <2>1
  <2>5. chosen' = Requested
    BY <2>3, <2>4 DEF Requested
  <2>6. Requested' = Requested
    BY <1>4 DEF Requested, Parsed
  <2>7. Q' \subseteq Closure
    BY <2>1, <2>3, <2>4
  <2>8. CleanInv /\ ~Failed
    BY <1>1 DEF Failed
  <2>9. \A r \in RuleId : Dependencies[r] = IF r \in pushed THEN Meant(r, Deps(r) \ todo[r]) ELSE {}
    BY <2>8 DEF CleanInv
  <2>10. \A r \in RuleId : Meant(r, Deps(r) \ todo[r])' = Meant(r, Deps(r) \ todo[r])
    BY <1>1, <1>3 DEF Meant
  <2> QED
    BY <1>1, <1>3, <1>4, <2>3, <2>5, <2>6, <2>7, <2>8, <2>9, <2>10 DEF CleanInv, Failed
<1> QED
  BY <1>6, <1>7, <1>9, <1>10, <1>11

\* Steps that leave the rules alone keep what was meant.
LEMMA MeantStays ==
  ASSUME UNCHANGED <<inputs, packages, todo>>
  PROVE  \A r \in RuleId : Meant(r, Deps(r) \ todo[r])' = Meant(r, Deps(r) \ todo[r])
BY PackagesUnchanged DEF Meant

LEMMA SkipLoadedKeeps ==
  ASSUME IInv, NEW p \in Q, SkipLoaded(p)
  PROVE  IInv'
<1> USE DEF IInv
<1>1. /\ phase = "load" /\ p \in DOMAIN packages /\ Q' = Q \ {p}
      /\ UNCHANGED <<inputs, phase, chosen, packages, pushed, todo, Dependencies, compiled>>
  BY DEF SkipLoaded
<1>2. /\ Rules' = Rules /\ Whole' = Whole /\ Settled' = Settled
      /\ \A r \in RuleId : Deps(r)' = Deps(r)
  BY <1>1, PackagesUnchanged
<1>3. /\ Closure' = Closure /\ Clean' = Clean /\ NoHole' = NoHole
      /\ UNCHANGED <<files, args>>
      /\ \A q \in Package : FileDeps(q)' = FileDeps(q)
      /\ \A str \in args.ids : ArgumentId(str)' = ArgumentId(str)
  BY <1>1, InputsUnchanged
<1>4. Typed'
  BY <1>1, <1>2, <1>3 DEF Typed
<1>5. Loaded'
  BY <1>1, <1>2 DEF Loaded
<1>6. Settled \cup Q \subseteq Settled' \cup Q'
  BY <1>1, <1>2 DEF Loaded
<1>7. \A str : Followed(str) => Followed(str)'
  BY <1>1, <1>6, StaysFollowed
<1>8. Reached'
  <2>1. Whole \subseteq Package
    BY DEF Whole
  <2>2. \A q \in Whole : \A d \in FileDeps(q) : Parsed[d].pos # "builtin" /\ Followed(d)
    BY <1>1 DEF Reached, Failed
  <2>3. \A str \in args.ids : Parsed[ArgumentId(str)].pos = "absolute" /\ Followed(ArgumentId(str))
    BY <1>1 DEF Reached, Failed
  <2> QED
    BY <1>2, <1>3, <1>7, <2>1, <2>2, <2>3 DEF Reached
<1>9. Tight'
  BY <1>1, <1>3 DEF Tight
<1>10. CleanInv'
  <2>1. \A r \in RuleId : Meant(r, Deps(r) \ todo[r])' = Meant(r, Deps(r) \ todo[r])
    BY <1>1, MeantStays
  <2>2. Requested' = Requested
    BY <1>3 DEF Requested, Parsed
  <2> QED
    BY <1>1, <1>2, <1>3, <2>1, <2>2 DEF CleanInv, Failed
<1> QED
  BY <1>4, <1>5, <1>8, <1>9, <1>10

\* What LoadBuildFile makes of a file that can be evaluated.
LEMMA FileFacts ==
  ASSUME Typed, NEW p, Evaluates(FileOf(p)), Constructible(FileOf(p))
  PROVE  /\ p \in Package => /\ ConstructRules(FileOf(p)) = ConstructRules(files[p])
                             /\ Evaluates(files[p]) /\ Constructible(files[p])
                             /\ UNION Range(ConstructRules(FileOf(p))) = FileDeps(p)
         /\ p \notin Package => /\ DOMAIN ConstructRules(FileOf(p)) = {}
                                /\ UNION Range(ConstructRules(FileOf(p))) = {}
<1>1. CASE p \in Package
  BY <1>1 DEF FileOf, FileDeps
<1>2. CASE p \notin Package
  <2>1. FileOf(p) = <<>> /\ Range(<<>>) = {}
    BY <1>2 DEF FileOf, Range
  <2>2. DOMAIN ConstructRules(<<>>) = {}
    BY <2>1 DEF ConstructRules
  <2> QED
    BY <1>2, <2>1, <2>2 DEF Range
<1> QED
  BY <1>1, <1>2

LEMMA LoadBuildFileKeeps ==
  ASSUME IInv, NEW p \in Q, LoadBuildFile(p)
  PROVE  IInv'
<1> USE DEF IInv
<1> DEFINE good == Evaluates(FileOf(p)) /\ Constructible(FileOf(p))
           rules == ConstructRules(FileOf(p))
           deps == UNION Range(rules)
           ids == {Parsed[d] : d \in deps}
           refused == \E id \in ids : ~id.ok \/ id.pos = "builtin"
           hollow == Hole({id \in ids : id.pos = "absolute"})
<1>1. /\ phase = "load" /\ p \notin DOMAIN packages
      /\ UNCHANGED <<inputs, chosen, pushed, todo, Dependencies, compiled>>
  BY DEF LoadBuildFile
<1>2. \/ ~good /\ phase' = "aborted" /\ packages' = WithPackage(p, <<>>) /\ Q' = Q
      \/ /\ good /\ packages' = WithPackage(p, rules)
         /\ \/ refused /\ phase' = "aborted" /\ Q' = Q
            \/ hollow /\ phase' = "crashed" /\ Q' = Q
            \/ ~refused /\ phase' = phase /\ \E hole \in Package : Q' = (Q \ {p}) \cup NextFiles(p, ids, hole)
  BY DEF LoadBuildFile
<1>3. PICK more : /\ packages' = WithPackage(p, more)
                  /\ more = <<>> \/ (good /\ more = rules)
  BY <1>2
<1>4. /\ DOMAIN packages' = DOMAIN packages \cup {p}
      /\ \A q \in DOMAIN packages : packages'[q] = packages[q]
      /\ packages'[p] = more
      /\ packages' = [q \in DOMAIN packages' |-> packages'[q]]
      /\ Rules \subseteq Rules' /\ \A r \in Rules : Deps(r)' = Deps(r)
      /\ Whole \subseteq Whole' /\ Settled \subseteq Settled'
      /\ Whole' \subseteq Whole \cup {p}
  BY <1>1, <1>3, GrowFacts
<1>5. /\ Closure' = Closure /\ Clean' = Clean /\ NoHole' = NoHole
      /\ UNCHANGED <<files, args>>
      /\ \A q \in Package : FileDeps(q)' = FileDeps(q)
      /\ \A str \in args.ids : ArgumentId(str)' = ArgumentId(str)
  BY <1>1, InputsUnchanged
<1>6. good => /\ p \in Package => /\ rules = ConstructRules(files[p])
                                  /\ Evaluates(files[p]) /\ Constructible(files[p])
                                  /\ deps = FileDeps(p)
              /\ p \notin Package => DOMAIN rules = {} /\ deps = {}
  BY FileFacts
<1>7. good => deps \subseteq IdString
  BY <1>6, IdsAreStrings
<1>8. DOMAIN more # {} => p \in Whole' /\ p \in Package
  <2>1. DOMAIN <<>> = {}
    OBVIOUS
  <2>2. ASSUME DOMAIN more # {}
        PROVE  p \in Whole' /\ p \in Package
    <3>1. good /\ more = rules
      BY <1>3, <2>1, <2>2
    <3>2. p \in Package
      BY <1>6, <2>2, <3>1
    <3> HIDE DEF rules, good
    <3>3. packages'[p] = ConstructRules(files[p]) /\ Evaluates(files[p]) /\ Constructible(files[p])
      BY <1>4, <1>6, <3>1, <3>2
    <3> QED
      BY <1>4, <1>5, <3>2, <3>3 DEF Whole
  <2> QED
    BY <2>2
<1>9. phase' = "load" => good /\ ~refused /\ more = rules /\ p \in Settled'
  <2>1. ASSUME phase' = "load"
        PROVE  good /\ ~refused /\ packages' = WithPackage(p, rules)
    BY <1>2, <2>1
  <2>2. ASSUME phase' = "load"
        PROVE  packages'[p] = rules
    BY <1>1, <2>1, <2>2, GrowFacts
  <2>3. ASSUME phase' = "load", p \in Package
        PROVE  p \in Whole'
    <3> HIDE DEF rules
    <3> QED
      BY <1>4, <1>5, <1>6, <2>1, <2>2, <2>3 DEF Whole
  <2>4. ASSUME phase' = "load", p \notin Package
        PROVE  p \in Settled'
    BY <1>4, <2>4 DEF Settled
  <2> HIDE DEF rules, refused, good
  <2> QED
    BY <1>4, <2>1, <2>2, <2>3, <2>4 DEF Settled
<1> HIDE DEF good
<1>10. Typed'
  <2>1. phase' \in Phases
    BY <1>1, <1>2 DEF Phases
  <2>2. \A r \in RuleId : todo'[r] # {} => r \in pushed' /\ todo'[r] \subseteq Deps(r)'
    BY <1>1, <1>4 DEF Typed
  <2> QED
    BY <1>1, <1>4, <1>5, <2>1, <2>2 DEF Typed
<1>11. Loaded'
  <2>1. ASSUME NEW q \in DOMAIN packages', DOMAIN packages'[q] # {}
        PROVE  q \in Whole'
    BY <1>4, <1>8, <2>1 DEF Loaded
  <2>2. ASSUME phase' = "load"
        PROVE  DOMAIN packages' \subseteq Settled'
    BY <1>1, <1>4, <1>9, <2>2 DEF Loaded
  <2>3. phase' \in {"load", "aborted", "crashed"}
    BY <1>1, <1>2
  <2> QED
    BY <2>1, <2>2, <2>3 DEF Loaded
<1>12. Reached'
  <2> SUFFICES ASSUME ~Failed'
               PROVE  Reached'
    BY DEF Reached
  <2>1. good /\ phase' = "load" /\ ~refused
    BY <1>1, <1>2 DEF Failed
  <2>2. PICK hole \in Package : Q' = (Q \ {p}) \cup NextFiles(p, ids, hole)
    BY <1>1, <1>2, <2>1
  <2>3. Settled \cup Q \subseteq Settled' \cup Q'
    BY <1>4, <1>9, <2>1, <2>2
  <2>4. \A str : Followed(str) => Followed(str)'
    BY <1>1, <2>3, StaysFollowed
  <2>5. ASSUME NEW d \in deps
        PROVE  (Parsed[d].pos # "builtin" /\ Followed(d))'
    <3>1. Parsed[d].ok /\ Parsed[d].pos # "builtin" /\ Parsed[d] \in ids
      BY <2>1
    <3> HIDE DEF ids
    <3>2. Parsed[d].pos = "absolute" /\ Parsed[d].pkg # None => Parsed[d].pkg \in Q'
      BY <2>2, <3>1 DEF NextFiles
    <3> QED
      BY <3>1, <3>2 DEF Followed, Parsed
  <2>6. ASSUME NEW q \in Whole', NEW d \in FileDeps(q)'
        PROVE  (Parsed[d].pos # "builtin" /\ Followed(d))'
    <3>1. CASE q \in Whole
      <4>1. q \in Package /\ d \in FileDeps(q)
        BY <1>5, <2>6, <3>1 DEF Whole
      <4>2. Parsed[d].pos # "builtin" /\ Followed(d)
        BY <1>1, <3>1, <4>1 DEF Reached, Failed
      <4> QED
        BY <2>4, <4>2 DEF Parsed
    <3>2. CASE q = p
      <4>1. p \in Package
        BY <2>6, <3>2 DEF Whole
      <4>2. d \in deps
        BY <1>5, <1>6, <2>1, <2>6, <3>2, <4>1
      <4> QED
        BY <2>5, <4>2
    <3> QED
      BY <1>4, <2>6, <3>1, <3>2
  <2>7. ASSUME NEW str \in args.ids
        PROVE  (Parsed[ArgumentId(str)].pos = "absolute" /\ Followed(ArgumentId(str)))'
    <3>1. Parsed[ArgumentId(str)].pos = "absolute" /\ Followed(ArgumentId(str))
      BY <1>1 DEF Reached, Failed
    <3>2. ArgumentId(str)' = ArgumentId(str)
      BY <1>5
    <3> QED
      BY <2>4, <3>1, <3>2 DEF Parsed
  <2> QED
    BY <1>5, <2>6, <2>7 DEF Reached
<1>13. Tight'
  <2> SUFFICES ASSUME NoHole
               PROVE  /\ Q' \cap Package \subseteq Closure
                      /\ \A q \in DOMAIN packages' : DOMAIN packages'[q] # {} => q \in Closure
    BY <1>5 DEF Tight
  <2>1. Q \cap Package \subseteq Closure /\ (p \in Package => p \in Closure)
    BY DEF Tight
  <2>2. \A q \in DOMAIN packages' : DOMAIN packages'[q] # {} => q \in Closure
    BY <1>4, <1>8, <2>1 DEF Tight
  <2>3. ASSUME NEW q \in Q' \cap Package, q \notin Q, phase' = "load"
        PROVE  q \in Closure
    <3>1. good /\ ~refused
      BY <1>9, <2>3
    <3>2. PICK hole \in Package : q \in NextFiles(p, ids, hole)
      BY <1>2, <2>3
    <3>3. PICK d \in deps : /\ Parsed[d].pos = "absolute"
                            /\ q = IF Parsed[d].pkg = None THEN hole ELSE Parsed[d].pkg
      BY <2>3, <3>2 DEF NextFiles
    <3>4. p \in Package /\ d \in FileDeps(p) /\ d \in IdString /\ Parsed[d].ok
      BY <1>6, <1>7, <3>1, <3>3
    <3>5. ~WithoutPackage(d)
      BY <3>4 DEF NoHole
    <3>6. Parsed[d].pkg # None
      BY <3>3, <3>4, <3>5, ParsedFacts
    <3>7. Opens(q, d)
      BY <2>3, <3>3, <3>4, <3>6, ParsedFacts
    <3>8. q \in Opened(p)
      BY <2>3, <3>4, <3>7 DEF Opened
    <3> QED
      BY <2>1, <3>4, <3>8, ClosureFacts
  <2>4. phase' # "load" => Q' = Q
    BY <1>1, <1>2
  <2> QED
    BY <2>1, <2>2, <2>3, <2>4
<1>14. CleanInv'
  <2> SUFFICES ASSUME Clean
               PROVE  CleanInv'
    BY <1>5 DEF CleanInv
  <2>1. p \in Closure /\ pushed = {} /\ chosen = Requested /\ Q \subseteq Closure /\ DOMAIN packages \subseteq Closure
    BY <1>1 DEF CleanInv
  <2>2. /\ p \in Package /\ Evaluates(files[p]) /\ Constructible(files[p])
        /\ \A d \in FileDeps(p) :
             /\ Parsed[d].ok /\ Parsed[d].pos \in {"absolute", "this"}
             /\ Parsed[d].pos = "absolute" => Parsed[d].pkg \in Closure
    BY <2>1, CleanFileFacts
  <2>3. good
    BY <2>2 DEF good, FileOf
  <2>4. deps = FileDeps(p)
    BY <1>6, <2>2, <2>3
  <2>5. \A q \in Closure : q # None
    BY ClosureFacts, PackageFacts
  <2>6. \A id \in ids : /\ id.ok /\ id.pos # "builtin" /\ id.pos # "relative"
                        /\ id.pos = "absolute" => id.pkg \in Closure /\ id.pkg # None
    BY <2>2, <2>4, <2>5
  <2> HIDE DEF ids
  <2>7. ~refused /\ ~hollow
    BY <2>6 DEF Hole
  <2>8. PICK hole \in Package : phase' = phase /\ Q' = (Q \ {p}) \cup NextFiles(p, ids, hole)
    BY <1>2, <2>3, <2>7
  <2>9. NextFiles(p, ids, hole) \subseteq Closure
    BY <2>1, <2>6 DEF NextFiles
  <2>10. Requested' = Requested
    BY <1>5 DEF Requested, Parsed
  <2>11. \A r \in RuleId : Dependencies[r] = {}
    BY <2>1 DEF CleanInv
  <2> QED
    BY <1>1, <1>4, <1>5, <2>1, <2>8, <2>9, <2>10, <2>11 DEF CleanInv, Failed
<1> QED
  BY <1>10, <1>11, <1>12, <1>13, <1>14

\* AllLoaded, AllPushed and AllResolved change the phase and nothing else.
LEMMA PhaseKeeps ==
  ASSUME IInv, AllLoaded \/ AllPushed \/ AllResolved
  PROVE  IInv'
<1> USE DEF IInv
<1>1. /\ \/ phase = "load" /\ Q = {} /\ phase' = "push"
         \/ phase = "push" /\ Rules \subseteq pushed /\ phase' = "wait"
         \/ phase = "wait" /\ (\A r \in RuleId : todo[r] = {}) /\ phase' = "select"
      /\ UNCHANGED <<inputs, chosen, Q, packages, pushed, todo, Dependencies, compiled>>
  BY DEF AllLoaded, AllPushed, AllResolved
<1>2. /\ Rules' = Rules /\ Whole' = Whole /\ Settled' = Settled
      /\ \A r \in RuleId : Deps(r)' = Deps(r)
  BY <1>1, PackagesUnchanged
<1>3. /\ Closure' = Closure /\ Clean' = Clean /\ NoHole' = NoHole
      /\ UNCHANGED <<files, args>>
  BY <1>1, InputsUnchanged
<1>4. phase' \in {"push", "wait", "select"} /\ ~Failed /\ phase # "args"
  BY <1>1 DEF Failed
<1>5. Typed'
  BY <1>1, <1>2, <1>3, <1>4 DEF Typed, Phases
<1>6. Loaded'
  BY <1>1, <1>2, <1>4 DEF Loaded
<1>7. Reached'
  BY <1>1, <1>4, FilesStay DEF Reached
<1>8. Tight'
  BY <1>1, <1>3 DEF Tight
<1>9. CleanInv'
  <2>1. \A r \in RuleId : Meant(r, Deps(r) \ todo[r])' = Meant(r, Deps(r) \ todo[r])
    BY <1>1, MeantStays
  <2>2. Requested' = Requested
    BY <1>3 DEF Requested, Parsed, ArgumentId
  <2> QED
    BY <1>1, <1>2, <1>3, <1>4, <2>1, <2>2 DEF CleanInv, Failed
<1> QED
  BY <1>5, <1>6, <1>7, <1>8, <1>9

LEMMA PushTaskKeeps ==
  ASSUME IInv, NEW r \in RuleId, PushTask(r)
  PROVE  IInv'
<1> USE DEF IInv
<1>1. /\ phase = "push" /\ r \in Rules \ pushed
      /\ pushed' = pushed \cup {r} /\ todo' = [todo EXCEPT ![r] = Deps(r)]
      /\ UNCHANGED <<inputs, phase, chosen, Q, packages, Dependencies, compiled>>
  BY DEF PushTask
<1>2. /\ Rules' = Rules /\ Whole' = Whole /\ Settled' = Settled
      /\ \A q \in RuleId : Deps(q)' = Deps(q)
  BY <1>1, PackagesUnchanged
<1>3. /\ Closure' = Closure /\ Clean' = Clean /\ NoHole' = NoHole
      /\ UNCHANGED <<files, args>>
  BY <1>1, InputsUnchanged
<1>4. ~Failed
  BY <1>1 DEF Failed
<1>5. Typed'
  <2>1. Deps(r) \subseteq IdString
    BY <1>1, RulesAreWhole
  <2>2. todo' \in [RuleId -> SUBSET IdString]
    BY <1>1, <2>1 DEF Typed
  <2>3. \A q \in RuleId : todo'[q] # {} => q \in pushed' /\ todo'[q] \subseteq Deps(q)'
    BY <1>1, <1>2 DEF Typed
  <2> QED
    BY <1>1, <1>2, <1>3, <2>2, <2>3 DEF Typed
<1>6. Loaded'
  BY <1>1, <1>2 DEF Loaded
<1>7. Reached'
  BY <1>1, <1>4, FilesStay DEF Reached
<1>8. Tight'
  BY <1>1, <1>3 DEF Tight
<1>9. CleanInv'
  <2> SUFFICES ASSUME Clean
               PROVE  CleanInv'
    BY <1>3 DEF CleanInv
  <2>1. \A q \in RuleId : q # r => Meant(q, Deps(q) \ todo[q])' = Meant(q, Deps(q) \ todo[q])
    BY <1>1, <1>2 DEF Meant, Typed
  <2>2. Meant(r, Deps(r) \ todo[r])' = {}
    <3>1. todo'[r] = Deps(r)
      BY <1>1 DEF Typed
    <3> QED
      BY <1>2, <3>1 DEF Meant
  <2>3. \A q \in RuleId : Dependencies[q] = IF q \in pushed THEN Meant(q, Deps(q) \ todo[q]) ELSE {}
    BY DEF CleanInv
  <2>4. \A q \in RuleId :
          Dependencies'[q] = IF q \in pushed' THEN Meant(q, Deps(q) \ todo[q])' ELSE {}
    BY <1>1, <2>1, <2>2, <2>3
  <2>5. Requested' = Requested
    BY <1>3 DEF Requested, Parsed, ArgumentId
  <2> QED
    BY <1>1, <1>2, <1>3, <1>4, <2>4, <2>5 DEF CleanInv, Failed
<1> QED
  BY <1>5, <1>6, <1>7, <1>8, <1>9

\* The step of a task, whatever it finds: a rule that is there, nothing, or
\* garbage.
Finds(r) ==
  /\ \E p : packages' = WithPackage(p, <<>>)
  /\ phase' \in {phase, "aborted", "crashed"}
  /\ \/ UNCHANGED Dependencies
     \/ \E s \in Rules \cup {Garbage} : Dependencies' = [Dependencies EXCEPT ![r] = @ \cup {s}]

\* What it finds if all follows the documentation.
FindsMeant(r, d) ==
  /\ UNCHANGED <<packages, phase>>
  /\ \E s \in Rules : Says(r[1], d, s) /\ Dependencies' = [Dependencies EXCEPT ![r] = @ \cup {s}]

\* A documented id means one rule.
LEMMA SaysOne ==
  ASSUME NEW p \in Package, NEW id \in IdString, NEW r \in RuleId, Says(p, id, r),
         NEW s \in RuleId, Says(p, id, s)
  PROVE  r = s
<1>1. r[2] = s[2] /\ r[1] = s[1]
  BY SaysFacts
<1> QED
  BY <1>1 DEF RuleId

LEMMA ResolvingKeeps ==
  ASSUME IInv, NEW r \in RuleId, NEW d, NEW pos, Resolving(r, d, pos), Finds(r),
         Clean => FindsMeant(r, d)
  PROVE  IInv'
<1> USE DEF IInv
<1>1. /\ phase \in {"push", "wait"} /\ d \in todo[r]
      /\ todo' = [todo EXCEPT ![r] = @ \ {d}]
      /\ UNCHANGED <<inputs, chosen, Q, pushed, compiled>>
  BY DEF Resolving, Running
<1>2. PICK p : packages' = WithPackage(p, <<>>)
  BY DEF Finds
<1>3. /\ DOMAIN packages' = DOMAIN packages \cup {p}
      /\ \A q \in DOMAIN packages : packages'[q] = packages[q]
      /\ p \notin DOMAIN packages => packages'[p] = <<>>
      /\ packages' = [q \in DOMAIN packages' |-> packages'[q]]
      /\ Rules \subseteq Rules' /\ \A q \in Rules : Deps(q)' = Deps(q)
      /\ Whole \subseteq Whole' /\ Settled \subseteq Settled'
      /\ Whole' \subseteq Whole \cup {p}
      /\ p \in DOMAIN packages => packages' = packages
  BY <1>1, <1>2, GrowFacts
<1>4. /\ Closure' = Closure /\ Clean' = Clean /\ NoHole' = NoHole
      /\ UNCHANGED <<files, args>>
      /\ \A q \in Package : FileDeps(q)' = FileDeps(q)
      /\ \A str \in args.ids : ArgumentId(str)' = ArgumentId(str)
  BY <1>1, InputsUnchanged
<1>5. r \in pushed /\ r \in Rules /\ d \in Deps(r) /\ d \in IdString /\ r[1] \in Package
  BY <1>1, RulesAreWhole DEF Typed
<1>6. phase' \in {phase, "aborted", "crashed"}
  BY DEF Finds
<1>7. Q = {} /\ Q' = {}
  BY <1>1 DEF Loaded
<1>8. Typed'
  <2>1. /\ todo' \in [RuleId -> SUBSET IdString]
        /\ \A q \in RuleId : todo'[q] # {} => q \in pushed' /\ todo'[q] \subseteq Deps(q)'
    <3>1. \A q \in RuleId : todo'[q] \subseteq todo[q]
      BY <1>1 DEF Typed
    <3> QED
      BY <1>1, <1>3, <3>1 DEF Typed
  <2>2. Rules \subseteq RuleId
    BY DEF Rules
  <2>3. /\ Dependencies' \in [RuleId -> SUBSET (RuleId \cup {Garbage})]
        /\ \A q \in RuleId : Dependencies'[q] \subseteq Rules' \cup {Garbage}
    <3>1. CASE UNCHANGED Dependencies
      BY <1>3, <3>1 DEF Typed
    <3>2. ASSUME NEW s \in Rules \cup {Garbage}, Dependencies' = [Dependencies EXCEPT ![r] = @ \cup {s}]
          PROVE  /\ Dependencies' \in [RuleId -> SUBSET (RuleId \cup {Garbage})]
                 /\ \A q \in RuleId : Dependencies'[q] \subseteq Rules' \cup {Garbage}
      BY <1>3, <2>2, <3>2 DEF Typed
    <3> QED
      BY <3>1, <3>2 DEF Finds
  <2> QED
    BY <1>1, <1>3, <1>4, <1>6, <2>1, <2>3 DEF Typed, Phases
<1>9. Loaded'
  <2>1. DOMAIN <<>> = {}
    OBVIOUS
  <2> QED
    BY <1>1, <1>3, <1>6, <1>7, <2>1 DEF Loaded
<1>10. Reached'
  <2> SUFFICES ASSUME ~Failed'
               PROVE  Reached'
    BY DEF Reached
  <2>1. ~Failed /\ phase' = phase /\ phase # "args"
    BY <1>1, <1>6 DEF Failed
  <2>2. \A str : Followed(str) => Followed(str)'
    BY <1>1, <1>3, StaysFollowed
  <2>3. ASSUME NEW q \in Whole', NEW e \in FileDeps(q)'
        PROVE  (Parsed[e].pos # "builtin" /\ Followed(e))'
    <3>1. q \in Package /\ e \in FileDeps(q)
      BY <1>4 DEF Whole
    <3>2. q \in Whole
      <4>0. p \in DOMAIN packages => Whole' = Whole
        BY <1>1, <1>3, PackagesUnchanged
      <4> SUFFICES ASSUME q = p, p \notin DOMAIN packages
                   PROVE  FALSE
        BY <1>3, <2>3, <4>0
      <4>1. /\ packages'[q] = <<>> /\ packages'[q] = ConstructRules(files[q])
            /\ FileDeps(q) = UNION Range(ConstructRules(files[q]))
        BY <1>3, <1>4 DEF Whole, FileDeps
      <4>2. FileDeps(q) = {}
        BY <4>1 DEF Range
      <4> QED
        BY <3>1, <4>2
    <3>3. Parsed[e].pos # "builtin" /\ Followed(e)
      BY <2>1, <3>1, <3>2 DEF Reached
    <3> QED
      BY <2>2, <3>3 DEF Parsed
  <2>4. ASSUME NEW str \in args.ids
        PROVE  (Parsed[ArgumentId(str)].pos = "absolute" /\ Followed(ArgumentId(str)))'
    <3>1. Parsed[ArgumentId(str)].pos = "absolute" /\ Followed(ArgumentId(str))
      BY <2>1 DEF Reached
    <3>2. ArgumentId(str)' = ArgumentId(str)
      BY <1>4
    <3> QED
      BY <2>2, <3>1, <3>2 DEF Parsed
  <2> QED
    BY <1>4, <2>3, <2>4 DEF Reached
<1>11. Tight'
  <2>1. DOMAIN <<>> = {}
    OBVIOUS
  <2> QED
    BY <1>1, <1>3, <1>4, <2>1 DEF Tight
<1>12. CleanInv'
  <2> SUFFICES ASSUME Clean
               PROVE  CleanInv'
    BY <1>4 DEF CleanInv
  <2>1. PICK s \in Rules : /\ UNCHANGED <<packages, phase>>
                           /\ Says(r[1], d, s) /\ Dependencies' = [Dependencies EXCEPT ![r] = @ \cup {s}]
    BY DEF FindsMeant
  <2>2. Rules' = Rules /\ \A q \in RuleId : Deps(q)' = Deps(q)
    BY <1>1, <2>1, PackagesUnchanged
  <2>3. \A q \in RuleId : Dependencies[q] = IF q \in pushed THEN Meant(q, Deps(q) \ todo[q]) ELSE {}
    BY DEF CleanInv
  <2>4. \A q \in RuleId : q # r => Meant(q, Deps(q) \ todo[q])' = Meant(q, Deps(q) \ todo[q])
    BY <1>1, <2>2 DEF Meant, Typed
  <2>5. Meant(r, Deps(r) \ todo[r])' = Meant(r, Deps(r) \ todo[r]) \cup {s}
    <3>1. Deps(r) \ todo'[r] = (Deps(r) \ todo[r]) \cup {d}
      BY <1>1, <1>5 DEF Typed
    <3>2. Meant(r, Deps(r) \ todo[r])' = {t \in Rules : \E id \in (Deps(r) \ todo[r]) \cup {d} : Says(r[1], id, t)}
      BY <2>2, <3>1 DEF Meant
    <3>3. \A t \in Rules : Says(r[1], d, t) => t = s
      BY <1>5, <2>1, SaysOne DEF Rules
    <3> QED
      BY <2>1, <3>2, <3>3 DEF Meant
  <2>6. \A q \in RuleId :
          Dependencies'[q] = IF q \in pushed' THEN Meant(q, Deps(q) \ todo[q])' ELSE {}
    <3>1. /\ Dependencies'[r] = Dependencies[r] \cup {s}
          /\ \A q \in RuleId : q # r => Dependencies'[q] = Dependencies[q]
      BY <2>1 DEF Typed
    <3> QED
      BY <1>1, <1>5, <2>3, <2>4, <2>5, <3>1
  <2>7. Requested' = Requested
    BY <1>4 DEF Requested, Parsed
  <2> QED
    BY <1>1, <1>4, <2>1, <2>2, <2>6, <2>7 DEF CleanInv, Failed
<1> QED
  BY <1>8, <1>9, <1>10, <1>11, <1>12

\* What a task works on has been followed when the file was loaded.
LEMMA TaskFacts ==
  ASSUME IInv, Running, NEW r \in RuleId, NEW d \in todo[r]
  PROVE  /\ r \in Rules /\ d \in Deps(r) /\ d \in IdString /\ r[1] \in Whole
         /\ r[1] \in DOMAIN packages /\ d \in FileDeps(r[1])
         /\ Parsed[d].ok /\ Parsed[d].name \in RuleWord
         /\ Parsed[d].pos = "absolute" /\ Parsed[d].pkg # None => Parsed[d].pkg \in Settled
<1> USE DEF IInv
<1>1. r \in Rules /\ d \in Deps(r)
  BY DEF Typed
<1>2. d \in IdString /\ r[1] \in Whole /\ d \in FileDeps(r[1]) /\ r[1] \in DOMAIN packages
  BY <1>1, RulesAreWhole
<1>3. phase \in {"push", "wait"} /\ ~Failed
  BY DEF Running, Failed
<1>4. Q = {}
  BY <1>3 DEF Loaded
<1>5. Followed(d)
  BY <1>2, <1>3 DEF Reached
<1> QED
  BY <1>1, <1>2, <1>4, <1>5, ParsedFacts DEF Followed

LEMMA LookUpFinds ==
  ASSUME IInv, NEW r \in RuleId, NEW p \in DOMAIN packages, NEW n \in RuleWord,
         LookUp(r, packages[p], p, n)
  PROVE  /\ phase' \in {phase, "aborted", "crashed"}
         /\ \/ UNCHANGED Dependencies
            \/ \E s \in Rules \cup {Garbage} : Dependencies' = [Dependencies EXCEPT ![r] = @ \cup {s}]
<1>1. CASE n \in DOMAIN packages[p]
  <2>1. p \in Package
    BY <1>1 DEF IInv, Loaded, Whole
  <2>2. <<p, n>> \in Rules
    BY <1>1, <2>1 DEF Rules, RuleId
  <2>3. phase' = phase /\ Dependencies' = [Dependencies EXCEPT ![r] = @ \cup {<<p, n>>}]
    BY <1>1 DEF LookUp
  <2> QED
    BY <2>2, <2>3
<1>2. CASE n \notin DOMAIN packages[p]
  BY <1>2 DEF LookUp
<1> QED
  BY <1>1, <1>2

\* If all follows the documentation, the rule that is meant has been loaded.
LEMMA MeantIsThere ==
  ASSUME IInv, Running, NEW r \in RuleId, NEW d \in todo[r], Clean
  PROVE  /\ Parsed[d].pos \in {"absolute", "this"}
         /\ \E s \in Rules :
              /\ Says(r[1], d, s) /\ s = <<s[1], s[2]>> /\ s[2] = Parsed[d].name
              /\ s[2] \in DOMAIN packages[s[1]] /\ s[1] \in DOMAIN packages
              /\ Parsed[d].pos = "absolute" => Parsed[d].pkg = s[1] /\ Parsed[d].pkg # None
              /\ Parsed[d].pos = "this" => s[1] = r[1]
<1> USE DEF IInv
<1>1. /\ d \in IdString /\ r[1] \in Whole /\ r[1] \in DOMAIN packages /\ d \in FileDeps(r[1])
      /\ Parsed[d].pos = "absolute" /\ Parsed[d].pkg # None => Parsed[d].pkg \in Settled
  BY TaskFacts
<1>2. r[1] \in Closure
  BY <1>1 DEF CleanInv
<1>3. PICK s \in RuleId :
        /\ Says(r[1], d, s) /\ s[1] \in Closure /\ s[2] \in DOMAIN ConstructRules(files[s[1]])
  BY <1>1, <1>2, CleanFileFacts
<1>4. Parsed[d].pos \in {"absolute", "this"}
  BY <1>1, <1>2, CleanFileFacts
<1>5. /\ Parsed[d].name = s[2]
      /\ Parsed[d].pos = "absolute" => Parsed[d].pkg = s[1]
      /\ Parsed[d].pos = "this" => s[1] = r[1]
  BY <1>1, <1>2, <1>3, <1>4, SaysFacts, ClosureFacts
<1>6. s[1] \in Package /\ s[1] # None /\ s = <<s[1], s[2]>>
  BY <1>3, PackageFacts DEF RuleId
<1>7. s[1] \in Whole
  BY <1>1, <1>4, <1>5, <1>6 DEF Settled
<1>8. s[1] \in DOMAIN packages /\ s[2] \in DOMAIN packages[s[1]]
  BY <1>3, <1>7, RulesAreWhole
<1>9. s \in Rules
  BY <1>3, <1>8 DEF Rules
<1> QED
  BY <1>3, <1>4, <1>5, <1>6, <1>8, <1>9

LEMMA ResolveThisKeeps ==
  ASSUME IInv, NEW r \in RuleId, NEW d, ResolveThis(r, d)
  PROVE  IInv'
<1>1. /\ Running /\ d \in todo[r] /\ Parsed[d].pos = "this" /\ Resolving(r, d, "this")
      /\ LookUp(r, packages[r[1]], r[1], Parsed[d].name) /\ UNCHANGED <<inputs, packages>>
  BY DEF ResolveThis, Resolving
<1>2. r[1] \in DOMAIN packages /\ Parsed[d].name \in RuleWord
  BY <1>1, TaskFacts
<1>3. packages' = WithPackage(r[1], <<>>)
  <2>1. packages = [q \in DOMAIN packages |-> packages[q]] /\ DOMAIN packages \cup {r[1]} = DOMAIN packages
    BY <1>2 DEF IInv, Typed
  <2> QED
    BY <1>1, <2>1 DEF WithPackage
<1>4. Finds(r)
  BY <1>1, <1>2, <1>3, LookUpFinds DEF Finds
<1>5. ASSUME Clean
      PROVE  FindsMeant(r, d)
  <2>1. PICK s \in Rules :
          /\ Says(r[1], d, s) /\ s = <<s[1], s[2]>> /\ s[2] = Parsed[d].name
          /\ s[2] \in DOMAIN packages[s[1]] /\ s[1] = r[1]
    BY <1>1, <1>5, MeantIsThere
  <2>2. phase' = phase /\ Dependencies' = [Dependencies EXCEPT ![r] = @ \cup {s}]
    BY <1>1, <2>1 DEF LookUp
  <2> QED
    BY <1>1, <2>1, <2>2 DEF FindsMeant
<1> QED
  BY <1>1, <1>4, <1>5, ResolvingKeeps

LEMMA ResolveAbsoluteKeeps ==
  ASSUME IInv, NEW r \in RuleId, NEW d, ResolveAbsolute(r, d)
  PROVE  IInv'
<1>1. /\ Running /\ d \in todo[r] /\ Parsed[d].pos = "absolute" /\ Resolving(r, d, "absolute")
      /\ UNCHANGED inputs
  BY DEF ResolveAbsolute, Resolving
<1>2. PICK p \in Names(Parsed[d]) :
        /\ packages' = WithPackage(p, <<>>)
        /\ IF p \in DOMAIN packages
             THEN LookUp(r, packages[p], p, Parsed[d].name)
             ELSE phase' = "aborted" /\ UNCHANGED Dependencies
  BY DEF ResolveAbsolute
<1>3. Parsed[d].name \in RuleWord
  BY <1>1, TaskFacts
<1>4. Finds(r)
  BY <1>2, <1>3, LookUpFinds DEF Finds
<1>5. ASSUME Clean
      PROVE  FindsMeant(r, d)
  <2>1. PICK s \in Rules :
          /\ Says(r[1], d, s) /\ s = <<s[1], s[2]>> /\ s[2] = Parsed[d].name
          /\ s[2] \in DOMAIN packages[s[1]] /\ s[1] \in DOMAIN packages
          /\ Parsed[d].pkg = s[1] /\ Parsed[d].pkg # None
    BY <1>1, <1>5, MeantIsThere
  <2>2. p = s[1]
    BY <1>2, <2>1 DEF Names
  <2>3. phase' = phase /\ Dependencies' = [Dependencies EXCEPT ![r] = @ \cup {s}]
    BY <1>2, <2>1, <2>2 DEF LookUp
  <2>4. packages' = packages
    BY <1>1, <1>2, <2>1, <2>2, GrowFacts DEF IInv
  <2> QED
    BY <2>1, <2>3, <2>4 DEF FindsMeant
<1> QED
  BY <1>1, <1>4, <1>5, ResolvingKeeps

LEMMA CrashOnHoleKeeps ==
  ASSUME IInv, NEW r \in RuleId, NEW d, CrashOnHole(r, d)
  PROVE  IInv'
<1>1. /\ Running /\ d \in todo[r] /\ Parsed[d].pos = "absolute" /\ Resolving(r, d, "absolute")
      /\ Parsed[d].pkg = None /\ phase' = "crashed" /\ UNCHANGED <<packages, Dependencies>>
  BY DEF CrashOnHole, Resolving
<1>2. r[1] \in DOMAIN packages
  BY <1>1, TaskFacts
<1>3. packages' = WithPackage(r[1], <<>>)
  <2>1. packages = [q \in DOMAIN packages |-> packages[q]] /\ DOMAIN packages \cup {r[1]} = DOMAIN packages
    BY <1>2 DEF IInv, Typed
  <2> QED
    BY <1>1, <2>1 DEF WithPackage
<1>4. Finds(r)
  BY <1>1, <1>3 DEF Finds
<1>5. ~Clean
  BY <1>1, MeantIsThere
<1> QED
  BY <1>1, <1>4, <1>5, ResolvingKeeps

LEMMA ResolveRelativeKeeps ==
  ASSUME IInv, NEW r \in RuleId, NEW d, ResolveRelative(r, d)
  PROVE  IInv'
<1> DEFINE p == Parsed[d].pkg
           n == Parsed[d].name
<1>1. /\ Running /\ d \in todo[r] /\ Parsed[d].pos = "relative" /\ Resolving(r, d, "relative")
      /\ packages' = WithPackage(p, <<>>) /\ UNCHANGED inputs
      /\ \/ LookUp(r, packages'[p], p, n)
         \/ p \notin DOMAIN packages /\ phase' = "aborted" /\ UNCHANGED Dependencies
  BY DEF ResolveRelative, Resolving
<1>2. n \in RuleWord
  BY <1>1, TaskFacts
<1>3. /\ p \in DOMAIN packages => packages'[p] = packages[p]
      /\ p \notin DOMAIN packages => packages'[p] = <<>>
  BY <1>1, GrowFacts DEF IInv
<1>4. Finds(r)
  <2>1. CASE p \in DOMAIN packages
    BY <1>1, <1>2, <1>3, <2>1, LookUpFinds DEF Finds
  <2>2. CASE p \notin DOMAIN packages
    <3>1. DOMAIN <<>> = {}
      OBVIOUS
    <3> QED
      BY <1>1, <1>3, <2>2, <3>1 DEF Finds, LookUp
  <2> QED
    BY <2>1, <2>2
<1>5. ~Clean
  BY <1>1, MeantIsThere
<1> QED
  BY <1>1, <1>4, <1>5, ResolvingKeeps

\* The rules below some rules are closed under dependencies, and the least set
\* of this kind.
LEMMA BelowFacts ==
  ASSUME NEW roots, roots \subseteq Rules
  PROVE  /\ Below(roots) \subseteq Rules /\ roots \subseteq Below(roots)
         /\ \A r \in Below(roots) : Dependencies[r] \cap Rules \subseteq Below(roots)
         /\ \A S \in SUBSET Rules :
              roots \subseteq S /\ (\A r \in S : Dependencies[r] \cap Rules \subseteq S) => Below(roots) \subseteq S
<1> DEFINE graph == [r \in Rules |-> Dependencies[r]]
           closed == ClosedSets(graph)
           from(r) == {q \in Rules : \A S \in closed : r \in S => q \in S}
<1>1. DOMAIN graph = Rules /\ \A r \in Rules : graph[r] = Dependencies[r]
  OBVIOUS
<1> HIDE DEF graph
<1>2. closed = {S \in SUBSET Rules : \A r \in S : Dependencies[r] \cap Rules \subseteq S}
  BY <1>1 DEF ClosedSets
<1>3. Reachable(graph) = [r \in Rules |-> from(r)]
  BY <1>1 DEF Reachable
<1>4. Below(roots) = UNION {from(r) : r \in roots}
  <2>1. Below(roots) = UNION {Reachable(graph)[r] : r \in roots}
    BY DEF Below, graph
  <2>2. \A r \in roots : Reachable(graph)[r] = from(r)
    BY <1>3
  <2> HIDE DEF from
  <2> QED
    BY <2>1, <2>2
<1> HIDE DEF closed
<1>5. Below(roots) \subseteq Rules /\ roots \subseteq Below(roots)
  BY <1>4
<1>6. ASSUME NEW r \in Below(roots), NEW q \in Dependencies[r] \cap Rules
      PROVE  q \in Below(roots)
  <2>1. PICK root \in roots : r \in from(root)
    BY <1>4
  <2>2. q \in from(root)
    BY <1>2, <2>1
  <2> QED
    BY <1>4, <2>2
<1>7. ASSUME NEW S \in SUBSET Rules, roots \subseteq S, \A r \in S : Dependencies[r] \cap Rules \subseteq S
      PROVE  Below(roots) \subseteq S
  <2>1. S \in closed
    BY <1>2, <1>7
  <2> QED
    BY <1>4, <1>7, <2>1
<1> QED
  BY <1>5, <1>6, <1>7

LEMMA RootsAreRules == Roots \subseteq Rules
<1>1. \A p, n : Selected(p, n) \subseteq Rules
  BY DEF Selected
<1> QED
  BY <1>1 DEF Roots

\* If all follows the documentation, each rule asked for is there.
LEMMA RequestedIsThere ==
  ASSUME IInv, Clean, phase = "select", NEW c \in chosen, c[2] # "..."
  PROVE  c \in Rules
<1> USE DEF IInv
<1>1. PICK str \in args.ids : c = <<Parsed[ArgumentId(str)].pkg, Parsed[ArgumentId(str)].name>>
  BY DEF CleanInv, Requested
<1> DEFINE id == Parsed[ArgumentId(str)]
<1>2. id.ok /\ id.pos = "absolute" /\ id.pkg \in Asked /\ id.name \in RuleWord /\ Declared(<<id.pkg, id.name>>)
  BY <1>1, CleanArgumentsAreRead
<1>3. Followed(ArgumentId(str)) /\ Q = {}
  BY DEF Reached, Failed, Loaded
<1> HIDE DEF id
<1>4. id.pkg \in Package /\ id.pkg # None
  BY <1>2, PackageFacts DEF Asked
<1>5. id.pkg \in Whole
  BY <1>2, <1>3, <1>4 DEF Followed, Settled, id
<1>6. Constructible(files[id.pkg]) /\ id.pkg \in DOMAIN packages
      /\ packages[id.pkg] = ConstructRules(files[id.pkg])
  BY <1>5 DEF Whole
<1>7. <<id.pkg, id.name>> \in RuleId
  BY <1>2, <1>4 DEF RuleId
<1>8. id.name \in DOMAIN packages[id.pkg]
  <2> DEFINE r == <<id.pkg, id.name>>
  <2>1. r \in RuleId /\ Declared(r) /\ r[1] = id.pkg /\ r[2] = id.name
    BY <1>2, <1>7
  <2> HIDE DEF r
  <2> QED
    BY <1>6, <2>1, DeclaredFacts
<1>9. <<id.pkg, id.name>> \in Rules
  BY <1>6, <1>7, <1>8 DEF Rules
<1> QED
  BY <1>1, <1>9 DEF id

LEMMA SelectRulesKeeps ==
  ASSUME IInv, SelectRules
  PROVE  IInv'
<1> USE DEF IInv
<1>1. /\ phase = "select" /\ phase' \in {"aborted", "done", "crashed"}
      /\ UNCHANGED <<inputs, chosen, Q, packages, pushed, todo, Dependencies>>
      /\ compiled' = IF phase' = "done" THEN Below(Roots) ELSE compiled
      /\ phase' = "aborted" => \E c \in chosen : c[2] # "..." /\ c \notin Rules
      /\ phase' = "crashed" => \E r \in Below(Roots) : Garbage \in Dependencies[r]
  BY DEF SelectRules, Roots
<1>2. /\ Rules' = Rules /\ Whole' = Whole /\ Settled' = Settled
      /\ \A r \in RuleId : Deps(r)' = Deps(r)
  BY <1>1, PackagesUnchanged
<1>3. /\ Closure' = Closure /\ Clean' = Clean /\ NoHole' = NoHole
      /\ UNCHANGED <<files, args>>
  BY <1>1, InputsUnchanged
<1>4. Below(Roots) \subseteq Rules
  BY RootsAreRules, BelowFacts
<1>5. Typed'
  <2>1. compiled' \subseteq Rules'
    BY <1>1, <1>2, <1>4 DEF Typed
  <2> QED
    BY <1>1, <1>2, <1>3, <2>1 DEF Typed, Phases
<1>6. Loaded'
  BY <1>1, <1>2 DEF Loaded
<1>7. Reached'
  BY <1>1, FilesStay DEF Reached, Failed
<1>8. Tight'
  BY <1>1, <1>3 DEF Tight
<1>9. CleanInv'
  <2> SUFFICES ASSUME Clean
               PROVE  CleanInv'
    BY <1>3 DEF CleanInv
  <2>1. \A r \in RuleId : Meant(r, Deps(r) \ todo[r])' = Meant(r, Deps(r) \ todo[r])
    BY <1>1, MeantStays
  <2>2. Requested' = Requested
    BY <1>3 DEF Requested, Parsed, ArgumentId
  <2>3. phase' # "aborted"
    BY <1>1, RequestedIsThere
  <2>4. phase' # "crashed"
    <3> SUFFICES ASSUME NEW r \in Below(Roots), Garbage \in Dependencies[r]
                 PROVE  FALSE
      BY <1>1
    <3>1. r \in RuleId
      BY <1>4 DEF Rules
    <3>2. Dependencies[r] \subseteq RuleId
      BY <3>1 DEF CleanInv, Meant, Rules
    <3> QED
      BY <3>2, FilesAssumption DEF RuleId
  <2>5. Below(Roots)' = Below(Roots)
    BY <1>1, <1>2 DEF Below, Roots, Selected
  <2>6. phase' = "done" /\ compiled' = Below(Roots)
    BY <1>1, <2>3, <2>4
  <2> QED
    BY <1>1, <1>2, <1>3, <2>1, <2>2, <2>5, <2>6 DEF CleanInv, Failed
<1> QED
  BY <1>5, <1>6, <1>7, <1>8, <1>9

LEMMA StutterKeeps ==
  ASSUME IInv, UNCHANGED vars
  PROVE  IInv'
<1> USE DEF IInv
<1>1. UNCHANGED <<inputs, phase, chosen, Q, packages, pushed, todo, Dependencies, compiled>>
  BY DEF vars
<1>2. /\ Rules' = Rules /\ Whole' = Whole /\ Settled' = Settled
      /\ \A r \in RuleId : Deps(r)' = Deps(r)
  BY <1>1, PackagesUnchanged
<1>3. /\ Closure' = Closure /\ Clean' = Clean /\ NoHole' = NoHole
      /\ UNCHANGED <<files, args>>
  BY <1>1, InputsUnchanged
<1>4. Typed' /\ Loaded' /\ Tight'
  BY <1>1, <1>2, <1>3 DEF Typed, Loaded, Tight
<1>5. Reached'
  BY <1>1, FilesStay DEF Reached, Failed
<1>6. CleanInv'
  <2>1. \A r \in RuleId : Meant(r, Deps(r) \ todo[r])' = Meant(r, Deps(r) \ todo[r])
    BY <1>1, MeantStays
  <2>2. Requested' = Requested
    BY <1>3 DEF Requested, Parsed, ArgumentId
  <2>3. Below(Roots)' = Below(Roots)
    BY <1>1, <1>2 DEF Below, Roots, Selected
  <2> QED
    BY <1>1, <1>2, <1>3, <2>1, <2>2, <2>3 DEF CleanInv, Failed
<1> QED
  BY <1>4, <1>5, <1>6

LEMMA NextKeeps == IInv /\ [Next]_vars => IInv'
<1> SUFFICES ASSUME IInv, [Next]_vars
             PROVE  IInv'
  OBVIOUS
<1>1. CASE ReadArguments
  BY <1>1, ReadArgumentsKeeps
<1>2. CASE Load
  BY <1>2, PhaseKeeps, SkipLoadedKeeps, LoadBuildFileKeeps DEF Load
<1>3. CASE Push
  BY <1>3, PhaseKeeps, PushTaskKeeps DEF Push
<1>4. CASE AllResolved
  BY <1>4, PhaseKeeps
<1>5. CASE SelectRules
  BY <1>5, SelectRulesKeeps
<1>6. ASSUME NEW r \in RuleId, Resolve(r)
      PROVE  IInv'
  BY <1>6, ResolveThisKeeps, ResolveAbsoluteKeeps, CrashOnHoleKeeps, ResolveRelativeKeeps DEF Resolve
<1>7. CASE UNCHANGED vars
  BY <1>7, StutterKeeps
<1> QED
  BY <1>1, <1>2, <1>3, <1>4, <1>5, <1>6, <1>7 DEF Next, Work

LEMMA Invariance == Spec => []IInv
<1> QED
  BY InitHolds, NextKeeps, PTL DEF Spec

-----------------------------------------------------------------------------
(* What follows from the invariant.                                        *)

LEMMA TypeOKHolds == IInv => TypeOK
BY DEF IInv, Typed, Phases, TypeOK

\* What the whole packages open is whole, once nothing is left to load.
LEMMA ClosureIsWhole ==
  ASSUME IInv, ~Failed, phase # "args", Q = {}
  PROVE  Closure \subseteq Whole
<1> USE DEF IInv
<1>1. ASSUME NEW p \in Package, NEW id \in IdString, Opens(p, id), Followed(id)
      PROVE  p \in Whole
  <2>1. Parsed[id].pos = "absolute" /\ Parsed[id].pkg = p /\ p # None
    BY <1>1, ParsedFacts, PackageFacts DEF Followed
  <2> QED
    BY <1>1, <2>1 DEF Followed, Settled
<1>2. Asked \subseteq Whole
  <2> SUFFICES ASSUME NEW p \in Package, NEW str \in args.ids, Opens(p, ArgumentId(str))
               PROVE  p \in Whole
    BY DEF Asked
  <2> QED
    BY <1>1, IdsAreStrings DEF Reached
<1>3. ASSUME NEW p \in Whole
      PROVE  Opened(p) \subseteq Whole
  <2> SUFFICES ASSUME NEW q \in Package, NEW id \in FileDeps(p), Opens(q, id)
               PROVE  q \in Whole
    BY DEF Opened
  <2>1. id \in IdString
    BY IdsAreStrings DEF Whole
  <2> QED
    BY <1>1, <2>1 DEF Reached
<1>4. Whole \in SUBSET Package
  BY DEF Whole
<1> QED
  BY <1>2, <1>3, <1>4, ClosureFacts

LEMMA ClosureLoadedHolds == IInv => ClosureLoaded
<1> SUFFICES ASSUME IInv, phase \in {"push", "wait", "select", "done"}
             PROVE  /\ Closure \subseteq DOMAIN packages
                    /\ \/ \A p \in DOMAIN packages \ Closure : DOMAIN packages[p] = {}
                       \/ \E p \in Package : \E id \in FileDeps(p) : WithoutPackage(id)
                       \/ \E str \in args.ids : WithoutPackage(ArgumentId(str))
  BY DEF ClosureLoaded
<1>1. Q = {} /\ ~Failed /\ phase # "args"
  BY DEF IInv, Loaded, Failed
<1>2. Closure \subseteq DOMAIN packages
  BY <1>1, ClosureIsWhole DEF Whole
<1>3. ASSUME NoHole
      PROVE  \A p \in DOMAIN packages \ Closure : DOMAIN packages[p] = {}
  BY <1>3 DEF IInv, Tight
<1> QED
  BY <1>2, <1>3 DEF NoHole

LEMMA CleanFilesResolveHolds == IInv => CleanFilesResolve
<1> SUFFICES ASSUME IInv, Stopped, Clean
             PROVE  /\ phase = "done"
                    /\ \A r \in Rules :
                         Dependencies[r] = {s \in Rules : \E id \in Deps(r) : Says(r[1], id, s)}
  BY DEF CleanFilesResolve
<1> USE DEF IInv
<1>1. phase = "done"
  BY DEF Stopped, CleanInv, Failed
<1>2. ASSUME NEW r \in Rules
      PROVE  Dependencies[r] = {s \in Rules : \E id \in Deps(r) : Says(r[1], id, s)}
  <2>1. r \in RuleId /\ r \in pushed /\ todo[r] = {}
    BY <1>1 DEF CleanInv, Rules
  <2>2. Deps(r) \ todo[r] = Deps(r)
    BY <2>1
  <2>3. Dependencies[r] = Meant(r, Deps(r))
    BY <2>1, <2>2 DEF CleanInv
  <2> QED
    BY <2>3 DEF Meant
<1> QED
  BY <1>1, <1>2

\* The rules asked for, in the words of the documentation.
Asks(r) ==
  \E str \in args.ids :
    \/ Says(<<>>, ArgumentId(str), r)
    \/ \E opening \in Openings(r[1]) : ArgumentId(str) = opening \o <<"...">>

LEMMA AsksFacts ==
  ASSUME IInv, Clean, phase = "done", NEW r \in Rules
  PROVE  Asks(r) <=> r \in Roots
<1> USE DEF IInv
<1>1. chosen = Requested
  BY DEF CleanInv
<1>2. r \in RuleId /\ r[1] \in Package /\ r[2] \in RuleWord /\ r = <<r[1], r[2]>>
  BY DEF Rules, RuleId
<1>3. r[1] # <<>>
  BY <1>2, PackageFacts DEF None
<1>4. "..." \in RuleWord
  BY FilesAssumption
<1>5. ASSUME NEW str \in args.ids, NEW n \in RuleWord,
             ArgumentId(str) \in {opening \o <<n>> : opening \in Openings(r[1])}
      PROVE  <<r[1], n>> \in chosen
  <2> DEFINE id == ArgumentId(str)
  <2>1. id \in IdString /\ Parsed[id] = ParseIdString(id)
    BY IdsAreStrings
  <2>2. id \in {opening \o <<n>> : opening \in Openings(r[1])}
    BY <1>5
  <2> HIDE DEF id
  <2>3. Parsed[id].pkg = r[1] /\ Parsed[id].name = n
    BY <1>2, <2>1, <2>2, AbsoluteIsRead
  <2> QED
    BY <1>1, <2>3 DEF Requested, id
<1>6. ASSUME Asks(r)
      PROVE  r \in Roots
  <2>1. PICK str \in args.ids : \/ Says(<<>>, ArgumentId(str), r)
                                \/ \E opening \in Openings(r[1]) : ArgumentId(str) = opening \o <<"...">>
    BY <1>6 DEF Asks
  <2>2. CASE Says(<<>>, ArgumentId(str), r)
    <3>1. <<r[1], r[2]>> \in chosen
      BY <1>2, <1>3, <1>5, <2>2 DEF Says
    <3>2. r \in Selected(r[1], r[2])
      BY <1>2 DEF Selected
    <3>3. \A p, n : <<p, n>> \in chosen => Selected(p, n) \subseteq Roots
      BY DEF Roots
    <3> QED
      BY <3>1, <3>2, <3>3
  <2>3. CASE \E opening \in Openings(r[1]) : ArgumentId(str) = opening \o <<"...">>
    <3>1. <<r[1], "...">> \in chosen
      BY <1>4, <1>5, <2>3
    <3>2. r \in Selected(r[1], "...")
      BY <1>2 DEF Selected
    <3>3. \A p, n : <<p, n>> \in chosen => Selected(p, n) \subseteq Roots
      BY DEF Roots
    <3> QED
      BY <3>1, <3>2, <3>3
  <2> QED
    BY <2>1, <2>2, <2>3
<1>7. ASSUME r \in Roots
      PROVE  Asks(r)
  <2>1. PICK c \in chosen : r \in Selected(c[1], c[2])
    BY <1>7 DEF Roots
  <2>2. PICK str \in args.ids : c = <<Parsed[ArgumentId(str)].pkg, Parsed[ArgumentId(str)].name>>
    BY <1>1 DEF Requested
  <2>3. ArgumentId(str) \in {opening \o <<c[2]>> : opening \in Openings(c[1])}
    BY <2>2, CleanArgumentsAreRead
  <2>4. CASE c[2] = "..."
    <3>1. r[1] = c[1]
      BY <2>1, <2>4 DEF Selected
    <3> QED
      BY <2>3, <2>4, <3>1 DEF Asks
  <2>5. CASE c[2] # "..."
    <3>1. r = <<c[1], c[2]>>
      BY <2>1, <2>5 DEF Selected
    <3>2. r[1] = c[1] /\ r[2] = c[2]
      BY <3>1
    <3> QED
      BY <2>3, <3>2 DEF Asks, Says
  <2> QED
    BY <2>4, <2>5
<1> QED
  BY <1>6, <1>7

LEMMA RequestsCompiledHolds == IInv => RequestsCompiled
<1> DEFINE Needs(r) == \E s \in compiled : \E id \in Deps(s) : Says(s[1], id, r)
<1> SUFFICES ASSUME IInv, phase = "done", Clean
             PROVE  /\ \A r \in Rules : Asks(r) \/ Needs(r) => r \in compiled
                    /\ \A r \in compiled : Asks(r) \/ Needs(r)
  BY DEF RequestsCompiled, Asks
<1>1. compiled = Below(Roots) /\ Roots \subseteq Rules
  BY RootsAreRules DEF IInv, CleanInv
<1>2. /\ compiled \subseteq Rules /\ Roots \subseteq compiled
      /\ \A r \in compiled : Dependencies[r] \cap Rules \subseteq compiled
      /\ \A S \in SUBSET Rules :
           Roots \subseteq S /\ (\A r \in S : Dependencies[r] \cap Rules \subseteq S) => compiled \subseteq S
  BY <1>1, BelowFacts
<1>3. \A r \in Rules : Dependencies[r] = {s \in Rules : \E id \in Deps(r) : Says(r[1], id, s)}
  <2>1. CleanFilesResolve /\ Stopped
    BY CleanFilesResolveHolds DEF Stopped
  <2> QED
    BY <2>1 DEF CleanFilesResolve
<1>4. \A r \in Rules : Needs(r) <=> \E s \in compiled : r \in Dependencies[s]
  BY <1>2, <1>3
<1>5. \A r \in Rules : Asks(r) <=> r \in Roots
  BY AsksFacts
<1> HIDE DEF Needs
<1>6. \A r \in Rules : Asks(r) \/ Needs(r) => r \in compiled
  BY <1>2, <1>4, <1>5
<1>7. \A r \in compiled : Asks(r) \/ Needs(r)
  <2> DEFINE S == {r \in compiled : Asks(r) \/ Needs(r)}
  <2>1. S \in SUBSET Rules /\ Roots \subseteq S
    BY <1>1, <1>2, <1>5
  <2>2. \A r \in S : Dependencies[r] \cap Rules \subseteq S
    BY <1>2, <1>4
  <2>3. compiled \subseteq S
    BY <1>2, <2>1, <2>2
  <2> QED
    BY <2>3
<1> QED
  BY <1>6, <1>7

\* A step of a task that changes the map is for a relative id or one without a
\* package.
LEMMA MapStep ==
  ASSUME IInv, [Next]_vars, Running, packages' # packages
  PROVE  \E r \in Rules : \E id \in Deps(r) : Head(id) \notin {"//", ":"} \/ WithoutPackage(id)
<1>1. PICK r \in RuleId : \E d \in todo[r] : ResolveAbsolute(r, d) \/ ResolveRelative(r, d)
  <2>1. ASSUME Load \/ ReadArguments
        PROVE  FALSE
    BY <2>1 DEF Load, AllLoaded, SkipLoaded, LoadBuildFile, ReadArguments, Running
  <2>2. ASSUME Push \/ AllResolved \/ SelectRules \/ UNCHANGED vars
        PROVE  FALSE
    BY <2>2 DEF Push, AllPushed, PushTask, AllResolved, SelectRules, vars
  <2>3. ASSUME NEW r \in RuleId, NEW d \in todo[r], ResolveThis(r, d) \/ CrashOnHole(r, d)
        PROVE  FALSE
    BY <2>3 DEF ResolveThis, CrashOnHole
  <2> QED
    BY <2>1, <2>2, <2>3 DEF Next, Work, Resolve
<1>2. PICK d \in todo[r] : ResolveAbsolute(r, d) \/ ResolveRelative(r, d)
  BY <1>1
<1>3. /\ r \in Rules /\ d \in Deps(r) /\ d \in IdString /\ Parsed[d].ok
      /\ Parsed[d].pos = "absolute" /\ Parsed[d].pkg # None => Parsed[d].pkg \in Settled
  BY <1>2, TaskFacts
<1>4. CASE ResolveRelative(r, d)
  <2>1. Parsed[d].pos = "relative"
    BY <1>4 DEF ResolveRelative, Resolving
  <2>2. Head(d) \notin {"//", ":"}
    BY <1>3, <2>1, ParsedFacts
  <2> QED
    BY <1>3, <2>2
<1>5. CASE ResolveAbsolute(r, d)
  <2>1. Parsed[d].pos = "absolute" /\ UNCHANGED inputs
    BY <1>5 DEF ResolveAbsolute, Resolving
  <2>2. PICK p \in Names(Parsed[d]) : packages' = WithPackage(p, <<>>)
    BY <1>5 DEF ResolveAbsolute
  <2>3. p \notin DOMAIN packages
    BY <2>1, <2>2, GrowFacts DEF IInv
  <2>4. Settled \subseteq DOMAIN packages
    BY DEF Settled, Whole
  <2>5. Parsed[d].pkg = None
    BY <1>3, <2>1, <2>2, <2>3, <2>4 DEF Names
  <2>6. WithoutPackage(d)
    BY <1>3, <2>1, <2>5, ParsedFacts
  <2> QED
    BY <1>3, <2>6
<1> QED
  BY <1>2, <1>4, <1>5

-----------------------------------------------------------------------------
(* The theorems.                                                           *)

\* Every task handles a rule that is there, and what it adds is a rule or
\* garbage, however the tasks interleave and whatever the files say.
THEOREM TypeCorrect == Spec => []TypeOK
<1> QED
  BY Invariance, TypeOKHolds, PTL

\* When the tasks start, the packages that the command line reaches are loaded,
\* in whatever order the queue was emptied; without an id that has no package,
\* no other BUILD file has been evaluated.
THEOREM ClosureIsLoaded == Spec => []ClosureLoaded
<1> QED
  BY Invariance, ClosureLoadedHolds, PTL

\* If all follows the documentation and is declared, nothing crashes or throws,
\* and each rule depends on the rules it names, none lost and none invented.
THEOREM DocumentedFilesResolve == Spec => []CleanFilesResolve
<1> QED
  BY Invariance, CleanFilesResolveHolds, PTL

\* Then gen compiles the rules asked for and what they need, and nothing else.
THEOREM RequestsAreCompiled == Spec => []RequestsCompiled
<1> QED
  BY Invariance, RequestsCompiledHolds, PTL

\* The map of packages, which the tasks read without a lock, changes while they
\* run for relative ids and ids without a package only.
THEOREM MapStaysStable == Spec => MapIsStable
<1>1. IInv /\ [Next]_vars =>
        [Running /\ packages' # packages =>
           \E r \in Rules : \E id \in Deps(r) : Head(id) \notin {"//", ":"} \/ WithoutPackage(id)]_vars
  BY MapStep
<1> QED
  BY <1>1, Invariance, PTL DEF Spec, MapIsStable
=============================================================================
