------------------------------- MODULE MCHub --------------------------------
(* Instances of Hub for TLC: audit configurations and symmetry.             *)
EXTENDS Hub, TLC

RequestSymmetry == Permutations(Requests)

AllFilters == [access : BOOLEAN, body : BOOLEAN, response : BOOLEAN, tokens : BOOLEAN]

\* The tokens filter is on only together with the access filter: no audit,
\* empty entries, entries with one thing more, everything on.
SoundFilters ==
  {f \in AllFilters :
     LET extras == Cardinality({e \in {"body", "response", "tokens"} : f[e]})
     IN  IF f.access THEN extras # 2 ELSE extras = 0}

\* Everything on.
FullAudit == {[access |-> TRUE, body |-> TRUE, response |-> TRUE, tokens |-> TRUE]}

\* The tokens filter without the access filter.
TokensOnly == {[access |-> FALSE, body |-> FALSE, response |-> FALSE, tokens |-> TRUE]}

=============================================================================
