------------------------------ MODULE JwtAuth -------------------------------
(***************************************************************************)
(* The tokens of openai-hub: what openai-hub-jwt-token-gen puts into one,  *)
(* and what jwt_auth_layer (handler/jwt.rs) makes of one.  A value that    *)
(* may be missing is a set with at most one member.                        *)
(***************************************************************************)
EXTENDS Naturals

CONSTANTS
  U32,      \* the number of values of a u32
  LastDate  \* the last day chrono can represent

ASSUME WidthAssumption == U32 \in Nat \ {0} /\ LastDate \in Nat

Month == 2  \* the days of a month: few, so that a month can pass in a run

\* How a subject fares as the value of a header.
Plain(sub)   == sub \in {"alice", "anonymous", "mallory"}
InHeader(sub) == Plain(sub) \/ sub = "m" \* "m" stands for a name like Müller

-----------------------------------------------------------------------------
(* openai-hub-jwt-token-gen: -e <length><unit>.                            *)

Units == {"d", "m", "y"}

(* length * 12 is a product of u32, which wraps in a release build. *)
Months(length, unit) == IF unit = "y" THEN (length * 12) % U32 ELSE length

Expiry(now, length, unit) ==
  IF unit = "d" THEN now + length ELSE now + Months(length, unit) * Month

\* The day that was meant.
Asked(now, length, unit) ==
  IF unit = "y" THEN now + length * 12 * Month ELSE Expiry(now, length, unit)

Tokens(key, sub, nbf, exp) == [key |-> key, sub |-> sub, nbf |-> nbf, exp |-> exp]

-----------------------------------------------------------------------------
(* jwt_auth_layer.                                                         *)

(* Wrong on purpose: nbf and exp are mistaken for each other. *)
InForceSwapped(token, now) ==
  /\ \A nbf \in token.nbf : ~ (nbf < now)
  /\ \A exp \in token.exp : ~ (exp > now)

(* Both bounds are part of the period. *)
InForce(token, now) ==
  /\ \A nbf \in token.nbf : ~ (nbf > now)
  /\ \A exp \in token.exp : ~ (exp < now)

(* The token of the request, if it has one, is let through. *)
Authenticates(token, key, now) ==
  /\ token.key = key
  /\ InForce(token, now)
  /\ \A sub \in token.sub : InHeader(sub)

(* Wrong on purpose: the header of the client stays if the token names no one. *)
AuthedSubKept(key, cred, claimed) ==
  IF key = {} THEN claimed
  ELSE LET token == CHOOSE t \in cred : TRUE
       IN  IF token.sub = {} THEN claimed ELSE token.sub

(* X-AUTHED-SUB as the layers behind see it. *)
AuthedSub(key, cred, claimed) ==
  IF key = {} THEN claimed
  ELSE LET token == CHOOSE t \in cred : TRUE
       IN  IF token.sub = {} THEN {"anonymous"} ELSE token.sub

=============================================================================
