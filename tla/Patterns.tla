------------------------------ MODULE Patterns ------------------------------
(***************************************************************************)
(* How the patterns of acl.toml become regular expressions: the functions  *)
(* wildcards_to_regex (model names) and endpoints_to_regex (paths) of      *)
(* openai-hub-core/src/helpers.rs.  Module Acl takes for granted that a    *)
(* pattern matches what it says; here is how far that is so.               *)
(*                                                                         *)
(* A text is a sequence of characters from a small alphabet with two of    *)
(* the characters that are special in a regular expression: "." and "+".   *)
(* A pattern may also have "*" (in a model name) or a parameter "{x}" (in  *)
(* a path), each of which is one element of the sequence.                  *)
(***************************************************************************)
EXTENDS Naturals, Sequences, SequencesExt, FiniteSets

CONSTANTS
  Letters,    \* the letters of patterns and texts
  MaxPattern, \* bound: length of a pattern
  MaxText     \* bound: length of a text

\* A letter is a character, and none of the names that stand for more.
ASSUME LettersAssumption ==
  Letters \cap {"*", "{x}", "^", "any", "segment", "nothing"} = {}
ASSUME BoundsAssumption == MaxPattern \in Nat /\ MaxText \in Nat

Specials == {".", "+"}
Chars == Letters \cup {"/"} \cup Specials

VARIABLES
  kind,     \* "wildcard" or "endpoint": which function is applied
  pattern,  \* what acl.toml says
  text,     \* the model name or the path of a request
  regex,    \* what the function makes of the pattern: a sequence of atoms
  result    \* "none", "error", "match" or "differs"

patternVars == <<kind, pattern, text, regex, result>>

PatternInit ==
  /\ kind \in {"wildcard", "endpoint"}
  /\ pattern \in BoundedSeq(Chars \cup {IF kind = "wildcard" THEN "*" ELSE "{x}"}, MaxPattern)
  /\ text \in BoundedSeq(Chars, MaxText)
  /\ regex = <<>>
  /\ result = "none"

-----------------------------------------------------------------------------
(* Atoms.  An atom matches characters: one of them, or "many", or "none".  *)

Atom(on, many, none) == [on |-> on, many |-> many, none |-> none]

SpecialsOf(p) == {i \in DOMAIN p : p[i] \in Specials}

(* Wrong on purpose: nothing is escaped. *)
EscapedNever(i) == FALSE

(* SPECIAL_CHARS_..._REGEX.replace(.., "\\$1") escapes the first special   *)
(* character; the others keep their meaning in a regular expression.       *)
Escaped(i) == \A j \in SpecialsOf(pattern) : i <= j

(* An unescaped "+": the atom before it may match many characters. *)
Repeats(i) == i \in DOMAIN pattern /\ pattern[i] = "+" /\ ~ Escaped(i)

CharAtom(i) ==
  CASE Repeats(i) -> Atom("nothing", FALSE, TRUE)
    [] pattern[i] = "." /\ ~ Escaped(i) -> Atom("any", Repeats(i + 1), FALSE)
    [] OTHER -> Atom(pattern[i], Repeats(i + 1), FALSE)

(* Then "*" becomes ".*", every one of them. *)
WildcardAtom(i) == IF pattern[i] = "*" THEN Atom("any", TRUE, TRUE) ELSE CharAtom(i)

(* Wrong on purpose: the repetition of the character class is forgotten. *)
EndpointAtomOnce(i) ==
  IF pattern[i] = "{x}" THEN Atom("segment", FALSE, FALSE) ELSE CharAtom(i)

(* Then PATH_REGEX.replace makes [^/]+ of a parameter. *)
EndpointAtom(i) == IF pattern[i] = "{x}" THEN Atom("segment", TRUE, FALSE) ELSE CharAtom(i)

(* It rewrites the first one only that is a segment from its start.        *)
(* Braces that stay are no valid regular expression. *)
Compiles ==
  \A i \in DOMAIN pattern : pattern[i] = "{x}" =>
    /\ i > 1 /\ pattern[i - 1] = "/"
    /\ \A j \in 1 .. i - 1 : pattern[j] # "{x}"

Compile ==
  /\ result = "none" /\ regex = <<>>
  /\ IF kind = "wildcard"
     THEN /\ regex' = <<Atom("^", FALSE, FALSE)>> \o [i \in DOMAIN pattern |-> WildcardAtom(i)]
          /\ UNCHANGED result
     ELSE IF Compiles
     THEN /\ regex' = <<Atom("^", FALSE, FALSE)>> \o [i \in DOMAIN pattern |-> EndpointAtom(i)]
          /\ UNCHANGED result
     ELSE /\ result' = "error"
          /\ UNCHANGED regex
  /\ UNCHANGED <<kind, pattern, text>>

-----------------------------------------------------------------------------
(* Does a sequence of atoms match a text from end to end?  It does if the  *)
(* text can be cut into pieces, one for each atom, that the atoms match.   *)

OneMatches(on, c) == on = c \/ on = "any" \/ (on = "segment" /\ c # "/")

\* The atom matches what of the text is between two cuts.
Takes(atom, t, from, to) ==
  /\ from <= to
  /\ from = to => atom.none
  /\ from + 1 < to => atom.many
  /\ \A k \in from + 1 .. to : OneMatches(atom.on, t[k])

FullMatch(atoms, t) ==
  \E cuts \in [0 .. Len(atoms) -> 0 .. Len(t)] :
    /\ cuts[0] = 0 /\ cuts[Len(atoms)] = Len(t)
    /\ \A i \in 1 .. Len(atoms) : Takes(atoms[i], t, cuts[i - 1], cuts[i])

(* Regex::is_match of the text, between the anchors. *)
IsMatch ==
  /\ result = "none" /\ regex # <<>>
  /\ result' = IF FullMatch(Tail(regex), text) THEN "match" ELSE "differs"
  /\ UNCHANGED <<kind, pattern, text, regex>>

PatternNext == Compile \/ IsMatch

PatternSpec == PatternInit /\ [][PatternNext]_patternVars

-----------------------------------------------------------------------------
(* What a pattern says: a parameter is one segment, a star is anything,    *)
(* and every other character is itself.                                    *)
Meaning ==
  [i \in DOMAIN pattern |->
     CASE pattern[i] = "*" -> Atom("any", TRUE, TRUE)
       [] pattern[i] = "{x}" -> Atom("segment", TRUE, FALSE)
       [] OTHER -> Atom(pattern[i], FALSE, FALSE)]
Says == FullMatch(Meaning, text)

(***************************************************************************)
(* A listed request is not turned away: the regular expression matches     *)
(* every text that the pattern says, unless a "+" that is not the first    *)
(* special character of the pattern has become a repetition.               *)
(***************************************************************************)
ListedMatches ==
  Says /\ (\A i \in DOMAIN pattern : ~ Repeats(i)) => result # "differs"

(***************************************************************************)
(* With at most one special character, as every pattern of the acl.toml in *)
(* the repository has, the regular expression matches nothing but what the *)
(* pattern says.                                                           *)
(***************************************************************************)
SimplePatternsExact ==
  Cardinality(SpecialsOf(pattern)) <= 1 /\ result = "match" => Says

=============================================================================
