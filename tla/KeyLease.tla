------------------------------ MODULE KeyLease ------------------------------
(***************************************************************************)
(* What the API key pool of openai-hub promises to the request handlers:   *)
(* a handler that asks for a key gets one that nobody else holds, keeps it *)
(* for as long as it likes, and gives back the very key it took.  Nothing  *)
(* is said here of semaphores, queues or of the order of the keys: that is *)
(* how module KeyPool keeps the promise.                                   *)
(***************************************************************************)

CONSTANTS
  Requests,  \* the request handlers
  Keys,      \* the configured API keys, one per position of api_keys
  NoKey      \* "this request holds no key"

VARIABLES
  free,      \* the keys nobody holds
  lease      \* the key each request holds, or NoKey

leaseVars == <<free, lease>>

LeaseInit ==
  /\ free = Keys
  /\ lease = [r \in Requests |-> NoKey]

(* A request without a key takes any key that is free. *)
Take(r) ==
  /\ lease[r] = NoKey
  /\ \E k \in free :
       /\ free' = free \ {k}
       /\ lease' = [lease EXCEPT ![r] = k]

(* A request gives back the key it holds. *)
GiveBack(r) ==
  /\ lease[r] # NoKey
  /\ free' = free \cup {lease[r]}
  /\ lease' = [lease EXCEPT ![r] = NoKey]

LeaseNext == \E r \in Requests : Take(r) \/ GiveBack(r)

LeaseSpec == LeaseInit /\ [][LeaseNext]_leaseVars

=============================================================================
