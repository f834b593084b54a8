----------------------------- MODULE MCAuditLog -----------------------------
(* Instances of AuditLog for TLC: requests, responses and their records.    *)
EXTENDS AuditLog

\* The record of the first entry is written in two pieces.
SomePieces == [e \in Entries |-> IF e = "a1" THEN 2 ELSE 1]

\* A stream that can be counted.
Countable == [endpoint |-> "chat", model |-> "known", stream |-> TRUE, prompt |-> TRUE]

Event(choice, delta) == [choice |-> choice, delta |-> delta]

\* Streams: one choice, two choices in both orders (with three events, so that
\* swapped chunks can put two texts together that still parse), a function call
\* made anew, one whose arguments come in fragments.
Streams == {<<Event(0, "text"), Event(0, "text")>>,
            <<Event(0, "text"), Event(1, "text"), Event(0, "text")>>,
            <<Event(1, "text"), Event(0, "text")>>, <<Event(0, "call"), Event(0, "call")>>,
            <<Event(0, "call"), Event(0, "args")>>}

\* What becomes of a sequence of parts when two neighbouring chunks of it, of
\* one part or of three, are swapped.
Shuffled(parts) ==
  LET n == Len(parts)
      Piece(i, j) == SubSeq(parts, i + 1, j)
  IN  {Piece(0, i) \o Piece(i + a, i + a + b) \o Piece(i, i + a) \o Piece(i + a + b, n) :
         <<i, a, b>> \in {s \in (0 .. n) \X {1, 3} \X {1, 3} : s[1] + s[2] + s[3] <= n}}

\* A response that broke off has a record of its first parts.
PartsOf(events) ==
  LET all == PartsUpTo(Len(events) + 1)
  IN  Shuffled(all) \cup {SubSeq(all, 1, n) : n \in 0 .. Len(all)}

EventRecords(streams) ==
  UNION {{[kind |-> "events", events |-> events, parts |-> parts] :
            parts \in PartsOf(events)} : events \in streams}

OtherRecords ==
  [kind : {"usage", "other", "bytes"}, events : {<<>>}, parts : {<<>>}]

SomeRecords(ask) ==
  OtherRecords \cup
    IF ask = Countable THEN EventRecords(Streams)
    ELSE {[kind |-> "events", events |-> <<Event(0, "text")>>, parts |-> PartsUpTo(2)]}

\* The requests differ from a countable one in one respect, and may ask for no
\* stream.
SomeAsks ==
  {ask \in AllAsks :
     \E f \in DOMAIN ask : \A g \in DOMAIN ask \ {f, "stream"} : ask[g] = Countable[g]}

=============================================================================
