---------------------------- MODULE TokenCount ------------------------------
(***************************************************************************)
(* What audit_tokens_layer_inner makes of a recorded response              *)
(* (handler/audit/tokens.rs): the usage that upstream states, or, for a    *)
(* stream, the texts of the choices, whose tokens are then counted.        *)
(*                                                                         *)
(* A streamed response is a sequence of events "data: {...}\n\n", the last *)
(* of which is "data: [DONE]".  Each event here consists of three parts:   *)
(*   1  the beginning of its "data: "                                      *)
(*   2  the rest of that, and the beginning of the payload                 *)
(*   3  the rest of the payload, and the empty line                        *)
(* and a chunk boundary can lie between any two parts.  A record holds the *)
(* parts as the recorder got them: chunks may be swapped (module Tee), and *)
(* the record of a response that broke off ends anywhere.                  *)
(***************************************************************************)
EXTENDS Naturals, SequencesExt

\* A record: what kind of response it is of, the events of that response,
\* and the parts in the order in which they were recorded.  An event has one
\* choice, and delta is what it has of it.
Kinds  == {"events",  \* a stream
           "usage",   \* a JSON body with a member usage
           "other",   \* anything else: an error, JSON cut short
           "bytes"}   \* not UTF-8
Deltas == {"text",    \* a piece of text
           "call",    \* a function call with name and arguments
           "args"}    \* further arguments of a call, without its name
Done(record) == Len(record.events) + 1
Part(ev, n) == [event |-> ev, part |-> n]

IsRecord(record) ==
  /\ record.kind \in Kinds
  /\ record.events \in Seq([choice : Nat, delta : Deltas])
  /\ record.parts \in Seq([event : 1 .. Done(record), part : 1 .. 3])

\* The parts of events 1 .. n in order.
PartsUpTo(n) == [i \in 1 .. 3 * n |-> Part(1 + (i - 1) \div 3, 1 + ((i - 1) % 3))]

-----------------------------------------------------------------------------
(* get_events.                                                             *)

(* split("\n\n"): a part 3 ends a segment, and so does the record.         *)
Ends(record) ==
  {i \in DOMAIN record.parts : record.parts[i].part = 3 \/ i = Len(record.parts)}

\* Where the segment that part i belongs to begins: after part 0, or a part 3.
Start(record, i) ==
  CHOOSE j \in 0 .. i - 1 : /\ j = 0 \/ record.parts[j].part = 3
                           /\ \A k \in j + 1 .. i - 1 : record.parts[k].part # 3

\* The parts of it as far as part i.
Segment(record, i) == SubSeq(record.parts, Start(record, i) + 1, i)

(* strip_prefix("data: "): what is put together from two events will do. *)
HasPrefix(segment) ==
  Len(segment) > 1 /\ segment[1].part = 1 /\ segment[2].part = 2

(* The payload starts in the event of the second part and ends in that of  *)
(* the last part.                                                          *)
First(segment) == segment[2].event
Final(segment) == segment[Len(segment)].event

IsDone(record, segment) ==
  /\ Len(segment) = 3 /\ segment[3].part = 3
  /\ First(segment) = Done(record) /\ Final(segment) = Done(record)

(***************************************************************************)
(* serde_json::from_str.  Arguments without a name lack a field.  If parts *)
(* of two events come together the text may still be JSON (fits).          *)
(***************************************************************************)
Parses(record, segment, fits) ==
  /\ Done(record) \notin {First(segment), Final(segment)}
  /\ record.events[First(segment)].delta # "args"
  /\ segment[Len(segment)].part = 3
  /\ \/ Len(segment) = 3 /\ First(segment) = Final(segment)
     \/ /\ fits
        /\ \A i \in 3 .. Len(segment) - 1 : segment[i].part = 1
        /\ record.events[First(segment)].delta = record.events[Final(segment)].delta

\* The segments that are events, by their ends.
Payloads(record) ==
  {i \in Ends(record) :
     HasPrefix(Segment(record, i)) /\ ~ IsDone(record, Segment(record, i))}

Readable(record, fits) ==
  \A i \in Payloads(record) : Parses(record, Segment(record, i), fits)

-----------------------------------------------------------------------------
(* count_completions_tokens and count_chat_tokens: the loop over events.   *)

NoCall == 0
NoChoice == [content |-> <<>>, call |-> NoCall]

\* choices.resize(index + 1, default), if there are fewer.  Upstream numbers
\* its choices from 0 on: of an index at the end of usize, whose sum wraps, or
\* one for which there is no memory, nothing is said here.
Resized(choices, index) ==
  choices \o [i \in 1 .. (index + 1 - Len(choices)) |-> NoChoice]

(* Wrong on purpose: a chunk is appended to the choice that came last. *)
AddToLast(choices, record, segment) ==
  LET index == record.events[First(segment)].choice
      grown == Resized(choices, index)
  IN  [grown EXCEPT ![Len(grown)].content = Append(@, <<First(segment), Final(segment)>>)]

(* A text is appended to its choice, a function call replaces the last. *)
Add(choices, record, segment) ==
  LET event == record.events[First(segment)]
      grown == Resized(choices, event.choice)
  IN  IF event.delta = "call"
      THEN [grown EXCEPT ![event.choice + 1].call = First(segment)]
      ELSE [grown EXCEPT ![event.choice + 1].content =
                           Append(@, <<First(segment), Final(segment)>>)]

\* The choices after the segments that end in the first n parts.
ChoicesAfter(record) ==
  LET choices[n \in 0 .. Len(record.parts)] ==
        IF n = 0 THEN <<>>
        ELSE IF n \in Payloads(record)
             THEN Add(choices[n - 1], record, Segment(record, n))
             ELSE choices[n - 1]
  IN  choices

Counted(record) == ChoicesAfter(record)[Len(record.parts)]

=============================================================================
