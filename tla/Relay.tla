------------------------------- MODULE Relay --------------------------------
(***************************************************************************)
(* What duplicating a body promises: every chunk the source produces       *)
(* reaches each port once, a port sees a clean end only when it has seen   *)
(* everything of a source that did not break, and a port that goes away    *)
(* changes nothing for the other.  In which order a port sees the chunks   *)
(* is not promised here.                                                   *)
(***************************************************************************)
EXTENDS Naturals

CONSTANTS
  Chunks,   \* how many chunks the source may produce
  Dup,      \* the port of the recorder, which is not told of errors
  Body      \* the port of the body that travels on

Ports == {Dup, Body}

VARIABLES
  source,   \* "open", "ended" or "broken"
  made,     \* how many chunks the source has produced
  seen,     \* the chunks each port has seen
  reader    \* each port's reader: "open", "ended", "failed" or "gone"

relayVars == <<source, made, seen, reader>>

RelayInit ==
  /\ source = "open"
  /\ made = 0
  /\ seen = [p \in Ports |-> {}]
  /\ reader = [p \in Ports |-> "open"]

Produce ==
  /\ source = "open"
  /\ made < Chunks
  /\ made' = made + 1
  /\ UNCHANGED <<source, seen, reader>>

Break ==
  /\ source = "open"
  /\ source' = "broken"
  /\ UNCHANGED <<made, seen, reader>>

Finish ==
  /\ source = "open"
  /\ source' = "ended"
  /\ UNCHANGED <<made, seen, reader>>

Deliver(p) ==
  /\ reader[p] = "open"
  /\ \E c \in (1 .. made) \ seen[p] : seen' = [seen EXCEPT ![p] = @ \cup {c}]
  /\ UNCHANGED <<source, made, reader>>

(* A clean end: the whole body was seen; only the recorder takes what a    *)
(* broken source produced for a whole body.                                *)
Close(p) ==
  /\ reader[p] = "open"
  /\ source = "ended" \/ (source = "broken" /\ p = Dup)
  /\ seen[p] = 1 .. made
  /\ reader' = [reader EXCEPT ![p] = "ended"]
  /\ UNCHANGED <<source, made, seen>>

(* The error of a broken source reaches the body. *)
Fail ==
  /\ reader[Body] = "open"
  /\ source = "broken"
  /\ reader' = [reader EXCEPT ![Body] = "failed"]
  /\ UNCHANGED <<source, made, seen>>

Leave ==
  /\ reader[Body] = "open"
  /\ reader' = [reader EXCEPT ![Body] = "gone"]
  /\ UNCHANGED <<source, made, seen>>

RelayNext ==
  \/ Produce \/ Break \/ Finish \/ Fail \/ Leave
  \/ \E p \in Ports : Deliver(p) \/ Close(p)

RelaySpec == RelayInit /\ [][RelayNext]_relayVars

=============================================================================
