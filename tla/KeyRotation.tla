---------------------------- MODULE KeyRotation -----------------------------
(***************************************************************************)
(* Load balancing over the API keys.  The README of openai-hub promises    *)
(* "Utilize multiple API keys efficiently, preventing the overuse of any   *)
(* single key" (README.md:8); what makes it so is that KeyPool takes keys  *)
(* from the front of the deque and returns them at its back.  This module  *)
(* adds a history variable to KeyPool and says what that buys.             *)
(***************************************************************************)
EXTENDS KeyPool

VARIABLE
  since  \* since[k]: the keys handed out since k was last put in the deque

rotationVars == <<vars, since>>

RotationInit == Init /\ since = [k \in Keys |-> {}]

(* What a step of the pool adds to the history. *)
HandedOut == {k \in Keys : \E r \in Requests : key'[r] = k /\ key[r] # k}
PutBack   == {k \in Keys : \E r \in Requests : key[r] = k /\ key'[r] # k}

RotationNext ==
  /\ Next
  /\ since' = [k \in Keys |->
                 IF k \in HandedOut \cup PutBack THEN {} ELSE since[k] \cup HandedOut]

RotationSpec == RotationInit /\ [][RotationNext]_rotationVars

(***************************************************************************)
(* No key is handed out twice while another one lies idle in the pool: an  *)
(* idle key waits for at most one turn of every other key, whatever the    *)
(* interleaving of the handlers and however long some keys are held.       *)
(***************************************************************************)
NoKeyOverused ==
  [][\A k \in HandedOut, j \in ToSet(keys) \ HandedOut : k \notin since[j]]_rotationVars

(***************************************************************************)
(* Why: the keys handed out since an idle key j was returned are not ahead *)
(* of j in the deque (they went to the back behind it, or are in use).     *)
(***************************************************************************)
RotationInv ==
  \A i, j \in 1 .. Len(keys) : i < j => keys[i] \notin since[keys[j]]

=============================================================================
