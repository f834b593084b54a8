--------------------------- MODULE PatternsProofs ---------------------------
(***************************************************************************)
(* Proofs about the patterns of acl.toml, for patterns and texts of any    *)
(* length over any letters.  What was compiled is compared with what the   *)
(* pattern says atom by atom: if each atom takes what the other takes, a   *)
(* cut of the text that fits one fits the other.                           *)
(***************************************************************************)
EXTENDS Patterns, SequenceTheorems, FiniteSetTheorems, TLAPS

-----------------------------------------------------------------------------
(***************************************************************************)
(* Sequences of atoms.                                                     *)
(***************************************************************************)

(* Of two sequences as long as each other, the one whose atoms take more   *)
(* matches more.                                                           *)
LEMMA MatchGrows ==
  ASSUME NEW a, NEW b, NEW t, Len(a) \in Nat, Len(b) = Len(a), Len(t) \in Nat,
         \A i \in 1 .. Len(a) : \A from, to \in 0 .. Len(t) :
           Takes(a[i], t, from, to) => Takes(b[i], t, from, to),
         FullMatch(a, t)
  PROVE  FullMatch(b, t)
<1>1. PICK cuts \in [0 .. Len(a) -> 0 .. Len(t)] :
        /\ cuts[0] = 0 /\ cuts[Len(a)] = Len(t)
        /\ \A i \in 1 .. Len(a) : Takes(a[i], t, cuts[i - 1], cuts[i])
  BY DEF FullMatch
<1>2. ASSUME NEW i \in 1 .. Len(a)
      PROVE  Takes(b[i], t, cuts[i - 1], cuts[i])
  <2>1. i - 1 \in 0 .. Len(a) /\ i \in 0 .. Len(a)
    OBVIOUS
  <2>2. cuts[i - 1] \in 0 .. Len(t) /\ cuts[i] \in 0 .. Len(t)
    BY <2>1
  <2> QED
    BY <1>1, <2>2
<1> QED
  BY <1>1, <1>2 DEF FullMatch

(* A sequence with an anchor before it is that sequence, and the anchor. *)
LEMMA AnchorDropped ==
  ASSUME NEW m \in Nat, NEW s, DOMAIN s = 1 .. m, s = [i \in 1 .. m |-> s[i]], NEW anchor
  PROVE  <<anchor>> \o s # <<>> /\ Tail(<<anchor>> \o s) = s /\ Len(s) = m
<1> DEFINE T == {s[i] : i \in 1 .. m} \cup {anchor}
           whole == <<anchor>> \o s
<1>1. s \in Seq(T)
  <2>1. s \in [1 .. m -> T]
    OBVIOUS
  <2> QED
    BY <2>1
<1>2. Len(s) = m
  BY <1>1, LenProperties
<1>3. <<anchor>> \in Seq(T) /\ Len(<<anchor>>) = 1
  OBVIOUS
<1> HIDE DEF T
<1>4. /\ whole \in Seq(T) /\ Len(whole) = 1 + m
      /\ \A i \in 1 .. 1 + m : whole[i] = IF i <= 1 THEN <<anchor>>[i] ELSE s[i - 1]
  BY <1>1, <1>2, <1>3, ConcatProperties
<1> HIDE DEF whole
<1>5. whole # <<>>
  BY <1>4, EmptySeq
<1>6. /\ Tail(whole) \in Seq(T) /\ Len(Tail(whole)) = m
      /\ \A i \in 1 .. m : Tail(whole)[i] = whole[i + 1]
  <2>1. /\ Tail(whole) \in Seq(T) /\ Len(Tail(whole)) = Len(whole) - 1
        /\ \A i \in 1 .. Len(Tail(whole)) : Tail(whole)[i] = whole[i + 1]
    BY ONLY <1>4, <1>5, HeadTailProperties
  <2>2. Len(whole) - 1 = m
    BY <1>4
  <2> QED
    BY ONLY <2>1, <2>2
<1>7. \A i \in 1 .. m : Tail(whole)[i] = s[i]
  <2> SUFFICES ASSUME NEW i \in 1 .. m
               PROVE  whole[i + 1] = s[i]
    BY <1>6
  <2>1. i + 1 \in 1 .. 1 + m /\ ~ (i + 1 <= 1) /\ (i + 1) - 1 = i
    OBVIOUS
  <2> QED
    BY ONLY <1>4, <2>1
<1>8. Tail(whole) = s
  BY <1>1, <1>2, <1>6, <1>7, SeqEqual
<1> QED
  BY <1>2, <1>5, <1>8 DEF whole

-----------------------------------------------------------------------------
(***************************************************************************)
(* The invariant: the regular expression is made of the pattern that is in *)
(* acl.toml, and the result is that of matching it with the text.          *)
(***************************************************************************)

\* What the pattern is compiled to, without the anchor.
Body ==
  IF kind = "wildcard" THEN [i \in DOMAIN pattern |-> WildcardAtom(i)]
                       ELSE [i \in DOMAIN pattern |-> EndpointAtom(i)]

\* Patterns of a model have no parameter, those of a path no star.
PatternType ==
  /\ kind \in {"wildcard", "endpoint"}
  /\ \E m \in Nat :
       pattern \in [1 .. m -> Chars \cup {IF kind = "wildcard" THEN "*" ELSE "{x}"}]
  /\ \E m \in Nat : text \in [1 .. m -> Chars]

PatternInv ==
  /\ PatternType
  /\ regex # <<>> => Tail(regex) = Body
  /\ result \in {"match", "differs"} => regex # <<>>
  /\ result = "match" => FullMatch(Body, text)
  /\ result = "differs" => ~ FullMatch(Body, text)

(* Patterns and texts are sequences. *)
LEMMA Lengths ==
  ASSUME PatternType
  PROVE  \E m \in Nat :
           /\ pattern \in [1 .. m -> Chars \cup {IF kind = "wildcard" THEN "*" ELSE "{x}"}]
           /\ Len(Body) = m /\ Body = [i \in 1 .. m |-> Body[i]]
           /\ Len(Meaning) = m /\ Meaning = [i \in 1 .. m |-> Meaning[i]]
           /\ Len(text) \in Nat
<1>1. PICK m \in Nat :
        pattern \in [1 .. m -> Chars \cup {IF kind = "wildcard" THEN "*" ELSE "{x}"}]
  BY DEF PatternType
<1>2. DOMAIN pattern = 1 .. m
  BY <1>1
<1>3. DOMAIN Body = 1 .. m /\ Body = [i \in 1 .. m |-> Body[i]]
  BY <1>2 DEF Body
<1>4. DOMAIN Meaning = 1 .. m /\ Meaning = [i \in 1 .. m |-> Meaning[i]]
  BY <1>2 DEF Meaning
<1>5. Len(Body) = m
  BY <1>3, AnchorDropped
<1>6. Len(Meaning) = m
  BY <1>4, AnchorDropped
<1>7. Len(text) \in Nat
  <2>1. PICK n \in Nat : text \in [1 .. n -> Chars]
    BY DEF PatternType
  <2>2. text \in Seq(Chars)
    BY ONLY <2>1
  <2> QED
    BY ONLY <2>2, LenProperties
<1> QED
  BY <1>1, <1>3, <1>4, <1>5, <1>6, <1>7

(* A sequence of at most n elements has a length. *)
LEMMA OfBoundedLength ==
  ASSUME NEW S, NEW n \in Nat, NEW s \in BoundedSeq(S, n)
  PROVE  \E m \in Nat : s \in [1 .. m -> S]
<1>1. s \in UNION {[1 .. m -> S] : m \in 0 .. n}
  BY DEF BoundedSeq, SeqOf
<1>2. PICK m \in 0 .. n : s \in [1 .. m -> S]
  BY <1>1
<1> QED
  BY <1>2

(* At the start nothing is compiled. *)
LEMMA PatternInitially == PatternInit => PatternInv
<1> SUFFICES ASSUME PatternInit
             PROVE  PatternInv
  OBVIOUS
<1>1. kind \in {"wildcard", "endpoint"} /\ regex = <<>> /\ result = "none"
  BY DEF PatternInit
<1>2. \E m \in Nat :
        pattern \in [1 .. m -> Chars \cup {IF kind = "wildcard" THEN "*" ELSE "{x}"}]
  BY OfBoundedLength, BoundsAssumption DEF PatternInit
<1>3. \E m \in Nat : text \in [1 .. m -> Chars]
  BY OfBoundedLength, BoundsAssumption DEF PatternInit
<1> QED
  BY <1>1, <1>2, <1>3 DEF PatternInv, PatternType

(* Compiling and matching keep the invariant. *)
LEMMA PatternStepKeeps == PatternInv /\ [PatternNext]_patternVars => PatternInv'
<1> SUFFICES ASSUME PatternInv, [PatternNext]_patternVars
             PROVE  PatternInv'
  OBVIOUS
<1>1. UNCHANGED <<kind, pattern, text>>
  BY DEF PatternNext, Compile, IsMatch, patternVars
<1>2. PatternType' /\ Body' = Body
  BY <1>1 DEF PatternInv, PatternType, Body, WildcardAtom, EndpointAtom, CharAtom,
              Repeats, Escaped, SpecialsOf
<1>3. CASE UNCHANGED patternVars
  BY <1>1, <1>2, <1>3 DEF PatternInv, patternVars
<1>4. CASE Compile
  <2>1. result = "none"
    BY <1>4 DEF Compile
  <2>2. CASE regex' = <<Atom("^", FALSE, FALSE)>> \o Body /\ result' = result
    <3>1. regex' # <<>> /\ Tail(regex') = Body
      BY <2>2, Lengths, AnchorDropped DEF PatternInv
    <3> QED
      BY <1>2, <2>1, <2>2, <3>1 DEF PatternInv
  <2>3. CASE result' = "error" /\ regex' = <<>>
    BY <1>2, <2>3 DEF PatternInv
  <2>4. kind = "wildcard" \/ kind # "wildcard"
    OBVIOUS
  <2> QED
    BY <1>4, <2>2, <2>3 DEF Compile, Body
<1>5. CASE IsMatch
  <2>1. /\ regex # <<>> /\ regex' = regex
        /\ result' = IF FullMatch(Tail(regex), text) THEN "match" ELSE "differs"
    BY <1>5 DEF IsMatch
  <2>2. Tail(regex) = Body
    BY <2>1 DEF PatternInv
  <2>3. /\ result' = "match" => FullMatch(Body, text)
        /\ result' = "differs" => ~ FullMatch(Body, text)
    BY <2>1, <2>2
  <2>4. FullMatch(Body, text)' <=> FullMatch(Body, text)
    BY <1>1, <1>2 DEF FullMatch
  <2> QED
    BY <1>2, <2>1, <2>2, <2>3, <2>4 DEF PatternInv
<1> QED
  BY <1>3, <1>4, <1>5 DEF PatternNext

(* What was compiled and what was matched stay as the invariant says. *)
LEMMA PatternInvariant == PatternSpec => []PatternInv
BY PatternInitially, PatternStepKeeps, PTL DEF PatternSpec

-----------------------------------------------------------------------------
(***************************************************************************)
(* The compiled atoms and those the pattern means, one by one.             *)
(***************************************************************************)

(* What each atom of a pattern is, unless a "+" of it repeats. *)
LEMMA AtomsOf ==
  ASSUME PatternType, NEW i \in DOMAIN pattern, ~ Repeats(i), ~ Repeats(i + 1)
  PROVE  \/ Body[i] = Meaning[i]
         \/ /\ pattern[i] = "." /\ ~ Escaped(i)
            /\ Meaning[i] = Atom(".", FALSE, FALSE)
            /\ Body[i] = Atom("any", FALSE, FALSE)
<1>1. pattern[i] \in Chars \cup {IF kind = "wildcard" THEN "*" ELSE "{x}"}
  BY DEF PatternType
<1>2. kind \in {"wildcard", "endpoint"} /\ "*" \notin Chars /\ "{x}" \notin Chars
  BY LettersAssumption DEF PatternType, Chars, Specials
<1>3. Meaning[i] = CASE pattern[i] = "*" -> Atom("any", TRUE, TRUE)
                     [] pattern[i] = "{x}" -> Atom("segment", TRUE, FALSE)
                     [] OTHER -> Atom(pattern[i], FALSE, FALSE)
  BY DEF Meaning
<1>4. Body[i] = IF kind = "wildcard" THEN WildcardAtom(i) ELSE EndpointAtom(i)
  BY DEF Body
<1>5. CharAtom(i) = IF pattern[i] = "." /\ ~ Escaped(i) THEN Atom("any", FALSE, FALSE)
                    ELSE Atom(pattern[i], FALSE, FALSE)
  <2>1. Repeats(i + 1) = FALSE
    BY DEF Repeats
  <2>2. CharAtom(i) = CASE pattern[i] = "." /\ ~ Escaped(i) -> Atom("any", FALSE, FALSE)
                        [] OTHER -> Atom(pattern[i], FALSE, FALSE)
    BY ONLY <2>1, ~ Repeats(i) DEF CharAtom
  <2> QED
    BY ONLY <2>2
<1>6. CASE pattern[i] = "*"
  BY <1>1, <1>2, <1>3, <1>4, <1>6 DEF WildcardAtom
<1>7. CASE pattern[i] = "{x}"
  BY <1>1, <1>2, <1>3, <1>4, <1>7 DEF EndpointAtom
<1>8. CASE pattern[i] # "*" /\ pattern[i] # "{x}"
  <2>1. Body[i] = CharAtom(i)
    BY <1>4, <1>8 DEF WildcardAtom, EndpointAtom
  <2>2. Meaning[i] = Atom(pattern[i], FALSE, FALSE)
    BY <1>3, <1>8
  <2> QED
    BY <1>5, <2>1, <2>2
<1> QED
  BY <1>6, <1>7, <1>8

(* With one special character at most, that one is escaped. *)
LEMMA OneSpecialEscaped ==
  ASSUME PatternType, Cardinality(SpecialsOf(pattern)) <= 1
  PROVE  \A i \in SpecialsOf(pattern) : Escaped(i)
<1>1. PICK m \in Nat :
        pattern \in [1 .. m -> Chars \cup {IF kind = "wildcard" THEN "*" ELSE "{x}"}]
  BY DEF PatternType
<1>2. SpecialsOf(pattern) \subseteq 1 .. m
  BY <1>1 DEF SpecialsOf
<1>3. IsFiniteSet(SpecialsOf(pattern))
  <2>1. IsFiniteSet(1 .. m)
    BY FS_Interval
  <2> QED
    BY ONLY <1>2, <2>1, FS_Subset
<1> SUFFICES ASSUME NEW i \in SpecialsOf(pattern), NEW j \in SpecialsOf(pattern), i > j
             PROVE  FALSE
  BY <1>2 DEF Escaped
<1>4. i # j
  BY <1>2
<1>5. {i, j} \subseteq SpecialsOf(pattern) /\ Cardinality({i, j}) = 2
  <2>1. IsFiniteSet({j}) /\ Cardinality({j}) = 1 /\ i \notin {j}
    BY <1>4, FS_Singleton
  <2>2. Cardinality({j} \cup {i}) = 2
    BY <2>1, FS_AddElement
  <2>3. {j} \cup {i} = {i, j}
    OBVIOUS
  <2> QED
    BY <2>2, <2>3
<1>6. Cardinality({i, j}) <= Cardinality(SpecialsOf(pattern))
  BY <1>3, <1>5, FS_Subset
<1>7. Cardinality(SpecialsOf(pattern)) \in Nat
  BY <1>3, FS_CardinalityType
<1> QED
  BY <1>5, <1>6, <1>7

(* A "+" repeats only behind another special character. *)
LEMMA RepeatsIsSpecial ==
  \A i : Repeats(i) => i \in SpecialsOf(pattern) /\ ~ Escaped(i)
BY DEF Repeats, SpecialsOf, Specials

(***************************************************************************)
(* With at most one special character a pattern is compiled to what it     *)
(* means, character by character.                                          *)
(***************************************************************************)
LEMMA SimpleIsMeaning ==
  ASSUME PatternType, Cardinality(SpecialsOf(pattern)) <= 1
  PROVE  Body = Meaning
<1>1. \A i \in SpecialsOf(pattern) : Escaped(i)
  BY OneSpecialEscaped
<1>2. \A i : ~ Repeats(i)
  BY <1>1, RepeatsIsSpecial
<1>3. \A i \in DOMAIN pattern : Body[i] = Meaning[i]
  <2> SUFFICES ASSUME NEW i \in DOMAIN pattern
               PROVE  Body[i] = Meaning[i]
    OBVIOUS
  <2>1. ~ (pattern[i] = "." /\ ~ Escaped(i))
    BY <1>1 DEF SpecialsOf, Specials
  <2> QED
    BY <1>2, <2>1, AtomsOf
<1>4. PICK m \in Nat :
        /\ pattern \in [1 .. m -> Chars \cup {IF kind = "wildcard" THEN "*" ELSE "{x}"}]
        /\ Body = [i \in 1 .. m |-> Body[i]]
        /\ Meaning = [i \in 1 .. m |-> Meaning[i]]
  BY Lengths
<1>5. \A i \in 1 .. m : Body[i] = Meaning[i]
  BY <1>3, <1>4
<1> QED
  BY ONLY <1>4, <1>5

(***************************************************************************)
(* An atom takes all that its character means, and an unescaped "." more,  *)
(* unless a "+" repeats the character before it.                           *)
(***************************************************************************)
LEMMA UnrepeatedTakesMeaning ==
  ASSUME PatternType, \A i \in DOMAIN pattern : ~ Repeats(i), Says
  PROVE  FullMatch(Body, text)
<1>1. \A i : ~ Repeats(i)
  BY RepeatsIsSpecial DEF SpecialsOf
<1>2. ASSUME NEW i \in DOMAIN pattern, NEW from \in 0 .. Len(text), NEW to \in 0 .. Len(text),
             Takes(Meaning[i], text, from, to)
      PROVE  Takes(Body[i], text, from, to)
  <2>1. CASE Body[i] = Meaning[i]
    BY <1>2, <2>1
  <2>2. CASE Meaning[i] = Atom(".", FALSE, FALSE) /\ Body[i] = Atom("any", FALSE, FALSE)
    BY <1>2, <2>2 DEF Takes, Atom, OneMatches
  <2> QED
    BY <1>1, <2>1, <2>2, AtomsOf
<1>3. PICK m \in Nat :
        /\ pattern \in [1 .. m -> Chars \cup {IF kind = "wildcard" THEN "*" ELSE "{x}"}]
        /\ Len(Body) = m /\ Len(Meaning) = m /\ Len(text) \in Nat
  BY Lengths
<1>4. DOMAIN pattern = 1 .. m
  BY <1>3
<1> QED
  BY <1>2, <1>3, <1>4, MatchGrows DEF Says

(***************************************************************************)
(* What acl.toml lists is matched, for patterns and texts of any length,   *)
(* unless a "+" repeats the character before it.                           *)
(***************************************************************************)
THEOREM WhatIsListedMatches == PatternSpec => []ListedMatches
<1>1. PatternInv => ListedMatches
  BY UnrepeatedTakesMeaning DEF PatternInv, ListedMatches
<1> QED
  BY <1>1, PatternInvariant, PTL

(***************************************************************************)
(* A pattern with at most one special character matches nothing but what   *)
(* it says, however long it is.                                            *)
(***************************************************************************)
THEOREM SimplePatternsAreExact == PatternSpec => []SimplePatternsExact
<1>1. PatternInv => SimplePatternsExact
  BY SimpleIsMeaning DEF PatternInv, SimplePatternsExact, Says
<1> QED
  BY <1>1, PatternInvariant, PTL

=============================================================================
