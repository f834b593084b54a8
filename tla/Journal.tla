------------------------------ MODULE Journal -------------------------------
(***************************************************************************)
(* What an audit backend promises of the entries it is given: an entry is  *)
(* kept, alone on a line (or in a row) and for ever, unless something      *)
(* fails; and what fails has a price.  A write that fails spoils three     *)
(* entries at most, a crash spoils what the server had in its hands and    *)
(* one entry of the next server.                                           *)
(***************************************************************************)
EXTENDS Naturals

CONSTANT Entries

VARIABLES
  kept,      \* the lines that keep an entry: a function from their numbers
  fate,      \* "pending", "kept" or "spoiled"
  allowance  \* how many more entries may be spoiled

journalVars == <<kept, fate, allowance>>

JournalInit ==
  /\ kept \in [{} -> Entries]
  /\ fate = [e \in Entries |-> "pending"]
  /\ allowance = 0

Pending == {e \in Entries : fate[e] = "pending"}

(* The entry gets a line after all the others. *)
Keep(e) ==
  /\ e \in Pending
  /\ \E line \in DOMAIN kept' :
       /\ \A l \in DOMAIN kept : l < line
       /\ kept' = [l \in DOMAIN kept \cup {line} |-> IF l = line THEN e ELSE kept[l]]
  /\ fate' = [fate EXCEPT ![e] = "kept"]
  /\ UNCHANGED allowance

Spoil(e) ==
  /\ e \in Pending
  /\ allowance > 0
  /\ allowance' = allowance - 1
  /\ fate' = [fate EXCEPT ![e] = "spoiled"]
  /\ UNCHANGED kept

(* A write fails, and may spoil the entry it wrote there and then. *)
Fault ==
  /\ \/ allowance' = allowance + 3 /\ UNCHANGED fate
     \/ \E e \in Pending :
          /\ allowance' = allowance + 2
          /\ fate' = [fate EXCEPT ![e] = "spoiled"]
  /\ UNCHANGED kept

Crash ==
  /\ \E hit \in SUBSET Pending :
       fate' = [e \in Entries |-> IF e \in hit THEN "spoiled" ELSE fate[e]]
  /\ allowance' = allowance + 1
  /\ UNCHANGED kept

JournalNext ==
  \/ \E e \in Entries : Keep(e) \/ Spoil(e)
  \/ Fault
  \/ Crash

JournalSpec == JournalInit /\ [][JournalNext]_journalVars

-----------------------------------------------------------------------------
(***************************************************************************)
(* What this comes to: no entry is on two lines, no entry with a line is   *)
(* spoiled, and what is spoiled has been paid for.                         *)
(***************************************************************************)
Promise ==
  /\ fate \in [Entries -> {"pending", "kept", "spoiled"}]
  /\ \A l, m \in DOMAIN kept : kept[l] = kept[m] => l = m
  /\ \A l \in DOMAIN kept : kept[l] \in Entries /\ fate[kept[l]] = "kept"
  /\ allowance \in Nat

=============================================================================
