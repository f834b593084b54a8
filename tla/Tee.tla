-------------------------------- MODULE Tee ---------------------------------
(***************************************************************************)
(* Duplicating a body while it streams: tee in openai-hub-core/src/        *)
(* helpers.rs and stream_read_body in handler/helpers.rs.  The audit       *)
(* layers put it on the request body and on the response body.             *)
(*                                                                         *)
(* A task reads the source.  For every Ok chunk it spawns two tasks, each  *)
(* of which sends the chunk to one of two tokio mpsc channels of capacity  *)
(* one; an error it sends to the second channel only, and waits until the  *)
(* channel has taken it.  The first channel ends in the recorder, which    *)
(* reads to the end and hands the bytes to an audit log.  The second ends  *)
(* in the body that travels on: to the client, or to the upstream.  Its    *)
(* reader may be slow for ever, and may go away at any time.               *)
(*                                                                         *)
(* The loop goes on after an error and would relay whatever came then.     *)
(* The sources are bodies of HTTP/1 messages, of reqwest or of hyper,      *)
(* which yield nothing but their end once they have failed; the module     *)
(* takes that for granted.                                                 *)
(*                                                                         *)
(* A channel admits senders through a FIFO semaphore, but a sender queues  *)
(* only when its task first runs, and the runtime runs freshly spawned     *)
(* tasks on any thread in any order.                                       *)
(***************************************************************************)
EXTENDS Naturals, Sequences, SequencesExt, FiniteSets

CONSTANT Chunks  \* bound: how many chunks a source produces at most

ASSUME ChunksAssumption == Chunks \in Nat

Err == 0                \* the item Err(e); chunks are 1, 2, ...
Items == 0 .. Chunks
Dup == "dup"            \* rx1: the recorder
Body == "body"          \* rx2: the body that travels on
Ports == {Dup, Body}

VARIABLES
  task,      \* the tee task: "reading", "erring" (in tx2.send(Err).await), "done"
  produced,  \* how many chunks the source has produced
  source,    \* what the source has told the task: "open", "ended" or "broken"
  spawned,   \* per channel: items whose sender exists but has not run yet
  queued,    \* per channel: items whose sender waits for room, in order
  buffer,    \* per channel: the item in it, if any
  got,       \* per channel: the items its reader has taken, in order
  reader     \* per channel: "open", "ended", "failed" (took Err) or "gone"

teeVars == <<task, produced, source, spawned, queued, buffer, got, reader>>

Init ==
  /\ task = "reading"
  /\ produced = 0
  /\ source = "open"
  /\ spawned = [p \in Ports |-> {}]
  /\ queued = [p \in Ports |-> <<>>]
  /\ buffer = [p \in Ports |-> <<>>]
  /\ got = [p \in Ports |-> <<>>]
  /\ reader = [p \in Ports |-> "open"]

-----------------------------------------------------------------------------
(* The tee task.                                                           *)

(* stream.next() yields Ok(t): two senders are spawned and the loop goes   *)
(* on at once, whether or not anybody reads.                               *)
SourceChunk ==
  /\ task = "reading"
  /\ source = "open"
  /\ produced < Chunks
  /\ produced' = produced + 1
  /\ spawned' = [p \in Ports |-> spawned[p] \cup {produced + 1}]
  /\ UNCHANGED <<task, source, queued, buffer, got, reader>>

(* stream.next() yields Err(e): the task itself sends it to tx2.  It was   *)
(* the last item, see above.                                               *)
SourceError ==
  /\ task = "reading"
  /\ source = "open"
  /\ source' = "broken"
  /\ task' = "erring"
  /\ spawned' = [spawned EXCEPT ![Body] = @ \cup {Err}]
  /\ UNCHANGED <<produced, queued, buffer, got, reader>>

(* Wrong on purpose: after an error the task waits for more. *)
SourceEndUnbroken ==
  /\ task = "reading" /\ source = "open"
  /\ source' = "ended"
  /\ task' = "done"
  /\ UNCHANGED <<produced, spawned, queued, buffer, got, reader>>

(* stream.next() yields None, in time or after an error: the task drops    *)
(* its senders and the source, and with the source whatever that owns (for *)
(* a response: the API key).                                               *)
SourceEnd ==
  /\ task = "reading"
  /\ source' = IF source = "open" THEN "ended" ELSE source
  /\ task' = "done"
  /\ UNCHANGED <<produced, spawned, queued, buffer, got, reader>>

-----------------------------------------------------------------------------
(* The senders: tx.send(item).await.ok().                                  *)

\* The tee task gets on when the channel has taken its error.
Resumed(item) == IF item = Err THEN "reading" ELSE task

(* Wrong on purpose: try_send, which gives up when there is no room. *)
SendStartTrying(p, item) ==
  /\ item \in spawned[p]
  /\ spawned' = [spawned EXCEPT ![p] = @ \ {item}]
  /\ task' = Resumed(item)
  /\ buffer' = IF reader[p] = "open" /\ buffer[p] = <<>>
                THEN [buffer EXCEPT ![p] = <<item>>] ELSE buffer
  /\ UNCHANGED <<produced, source, queued, got, reader>>

(* Wrong on purpose: a channel without a bound. *)
SendStartUnbounded(p, item) ==
  /\ item \in spawned[p]
  /\ spawned' = [spawned EXCEPT ![p] = @ \ {item}]
  /\ task' = Resumed(item)
  /\ buffer' = [buffer EXCEPT ![p] = Append(@, item)]
  /\ UNCHANGED <<produced, source, queued, got, reader>>

(* A sender runs for the first time: it fails when the receiver is gone,   *)
(* puts its item when there is room and nobody is ahead of it, and queues  *)
(* otherwise.                                                              *)
SendStart(p, item) ==
  /\ item \in spawned[p]
  /\ spawned' = [spawned EXCEPT ![p] = @ \ {item}]
  /\ \/ /\ reader[p] # "open"
        /\ task' = Resumed(item)
        /\ UNCHANGED <<queued, buffer>>
     \/ /\ reader[p] = "open"
        /\ buffer[p] = <<>> /\ queued[p] = <<>>
        /\ buffer' = [buffer EXCEPT ![p] = <<item>>]
        /\ task' = Resumed(item)
        /\ UNCHANGED queued
     \/ /\ reader[p] = "open"
        /\ buffer[p] # <<>> \/ queued[p] # <<>>
        /\ queued' = [queued EXCEPT ![p] = Append(@, item)]
        /\ UNCHANGED <<task, buffer>>
  /\ UNCHANGED <<produced, source, got, reader>>

(* Wrong on purpose: one sender for both channels, which waits for both. *)
SendQueuedTogether(p) ==
  /\ \A q \in Ports : reader[q] = "open" => buffer[q] = <<>>
  /\ queued[p] # <<>>
  /\ buffer' = [buffer EXCEPT ![p] = <<Head(queued[p])>>]
  /\ queued' = [queued EXCEPT ![p] = Tail(@)]
  /\ task' = Resumed(Head(queued[p]))
  /\ UNCHANGED <<produced, source, spawned, got, reader>>

(* The first sender in the queue was given the room that became free. *)
SendQueued(p) ==
  /\ buffer[p] = <<>> /\ queued[p] # <<>>
  /\ buffer' = [buffer EXCEPT ![p] = <<Head(queued[p])>>]
  /\ queued' = [queued EXCEPT ![p] = Tail(@)]
  /\ task' = Resumed(Head(queued[p]))
  /\ UNCHANGED <<produced, source, spawned, got, reader>>

-----------------------------------------------------------------------------
(* The readers.                                                            *)

Take(p) ==
  /\ reader[p] = "open"
  /\ buffer[p] # <<>>
  /\ got' = [got EXCEPT ![p] = @ \o buffer[p]]
  /\ buffer' = [buffer EXCEPT ![p] = <<>>]
  /\ UNCHANGED <<produced, source, spawned>>

(* A chunk goes to the recorder's buffer or on with the body. *)
ReadChunk(p) ==
  /\ Take(p)
  /\ buffer[p] # <<Err>>
  /\ UNCHANGED <<task, queued, reader>>

(* A reader is dropped: what is in the channel is lost, and queued senders *)
(* fail; if the tee task is among them it gets on.                         *)
DropQueue(p, why) ==
  /\ reader' = [reader EXCEPT ![p] = why]
  /\ queued' = [queued EXCEPT ![p] = <<>>]
  /\ task' = IF Contains(queued[p], Err) THEN "reading" ELSE task

(* The body's reader takes the error, gives up and is dropped.  The        *)
(* recorder would send None to the log, but no error is ever sent to it.   *)
ReadError(p) ==
  /\ Take(p)
  /\ buffer[p] = <<Err>>
  /\ DropQueue(p, "failed")

(* Wrong on purpose: senders that have not run are not waited for. *)
ReadEndEarly(p) ==
  /\ reader[p] = "open"
  /\ task = "done"
  /\ queued[p] = <<>> /\ buffer[p] = <<>>
  /\ reader' = [reader EXCEPT ![p] = "ended"]
  /\ UNCHANGED <<task, produced, source, spawned, queued, buffer, got>>

(* All senders are dropped and the channel is empty: the reader sees the   *)
(* end.  The recorder sends Some(all it has read) to the log.              *)
ReadEnd(p) ==
  /\ reader[p] = "open"
  /\ task = "done"
  /\ spawned[p] = {} /\ queued[p] = <<>> /\ buffer[p] = <<>>
  /\ reader' = [reader EXCEPT ![p] = "ended"]
  /\ UNCHANGED <<task, produced, source, spawned, queued, buffer, got>>

(* Wrong on purpose: the recorder goes away with the client. *)
ReadersLeave ==
  /\ reader[Body] = "open"
  /\ reader' = [p \in Ports |-> IF reader[p] = "open" THEN "gone" ELSE reader[p]]
  /\ queued' = [p \in Ports |-> <<>>]
  /\ buffer' = [p \in Ports |-> <<>>]
  /\ task' = IF task = "erring" THEN "reading" ELSE task
  /\ UNCHANGED <<produced, source, spawned, got>>

(* Whoever reads the body goes away: the client disconnects, or the        *)
(* upstream request is given up.                                           *)
ReaderLeaves ==
  /\ reader[Body] = "open"
  /\ DropQueue(Body, "gone")
  /\ buffer' = [buffer EXCEPT ![Body] = <<>>]
  /\ UNCHANGED <<produced, source, spawned, got>>

-----------------------------------------------------------------------------
Next ==
  \/ SourceChunk
  \/ SourceError
  \/ SourceEnd
  \/ ReaderLeaves
  \/ \E p \in Ports :
       \/ \E item \in Items : SendStart(p, item)
       \/ SendQueued(p)
       \/ ReadChunk(p)
       \/ ReadError(p)
       \/ ReadEnd(p)

Spec == Init /\ [][Next]_teeVars

(***************************************************************************)
(* Fairness of the runtime: a task that can go on is polled.  That covers  *)
(* the senders, the recorder and, after an error, the end of the source    *)
(* (a body stream yields nothing after its error).  Nothing makes the      *)
(* source produce or end, and nothing makes the body's reader read.        *)
(***************************************************************************)
SenderFairness ==
  \A p \in Ports :
    /\ \A item \in Items : WF_teeVars(SendStart(p, item))
    /\ WF_teeVars(SendQueued(p))

RecorderFairness == WF_teeVars(ReadChunk(Dup)) /\ WF_teeVars(ReadEnd(Dup))

BrokenSourceEnds == WF_teeVars(source = "broken" /\ SourceEnd)

RuntimeSpec == Spec /\ SenderFairness /\ RecorderFairness /\ BrokenSourceEnds

\* A reader of the body that does not stall: it reads, fails or leaves.
ReaderFairness ==
  WF_teeVars(ReadChunk(Body) \/ ReadError(Body) \/ ReadEnd(Body) \/ ReaderLeaves)

-----------------------------------------------------------------------------
(* Every variable has the type of what it stands for. *)
TypeOK ==
  /\ task \in {"reading", "erring", "done"}
  /\ produced \in 0 .. Chunks
  /\ source \in {"open", "ended", "broken"}
  /\ spawned \in [Ports -> SUBSET Items]
  /\ queued \in [Ports -> Seq(Items)]
  /\ buffer \in [Ports -> {<<>>} \cup {<<i>> : i \in Items}]
  /\ got \in [Ports -> Seq(Items)]
  /\ reader \in [Ports -> {"open", "ended", "failed", "gone"}]

\* The chunks among the items of a sequence.
ChunksOf(s) == ToSet(s) \ {Err}

(***************************************************************************)
(* While a port's reader is there, every chunk the source has produced is  *)
(* in exactly one place on the way to it: with a sender that has not run,  *)
(* queued, in the channel, or read.  Senders overtake each other and the   *)
(* other port's reader may vanish, but nothing is lost or doubled.         *)
(***************************************************************************)
NothingLost ==
  \A p \in Ports : reader[p] = "open" =>
    LET places == queued[p] \o buffer[p] \o got[p] IN
      /\ IsInjective(places)
      /\ spawned[p] \cap ToSet(places) = {}
      /\ (spawned[p] \ {Err}) \cup ChunksOf(places) = 1 .. produced

(***************************************************************************)
(* A client that sees its body end cleanly has all of it, and the source   *)
(* did not break: a truncated answer never looks complete to the client.   *)
(* What the recorder hands to the log has every chunk that came exactly    *)
(* once, even when the client left in the middle or the source broke.      *)
(***************************************************************************)
CleanEndIsWhole ==
  /\ reader[Body] = "ended" => source = "ended"
  /\ \A p \in {Body, Dup} :
       reader[p] = "ended" => IsInjective(got[p]) /\ ToSet(got[p]) = 1 .. produced

(***************************************************************************)
(* The recorder does not depend on the client: once the task is done the   *)
(* record is completed, though the client may have stalled for ever.  (If  *)
(* the client stalls when an error is to be told, the task is not done: it *)
(* waits in tx2.send, with tx1, and the record is not completed.)          *)
(***************************************************************************)
RecordCompleted == task = "done" ~> reader[Dup] = "ended"

(***************************************************************************)
(* After an upstream error the tee task ends, and gives back the key the   *)
(* source owns, if the client reads on or goes away.  It needs the client: *)
(* one that stalls keeps the task, and the key, in tx2.send(Err).          *)
(***************************************************************************)
ErrorEndsTask == ReaderFairness => (source = "broken" ~> task = "done")

(* The tee is a relay that keeps its promise to both ports. *)
AsRelay == INSTANCE Relay WITH
  made <- produced,
  seen <- [p \in Ports |-> ChunksOf(got[p])]
ImplementsRelay == AsRelay!RelaySpec

(***************************************************************************)
(* config.toml:41, "response = true # log openai response": the record of  *)
(* a response that did not break is the response OpenAI sent.  The senders *)
(* are spawned per chunk, so it need not be.                               *)
(***************************************************************************)
LoggedAsSent ==
  reader[Dup] = "ended" /\ source = "ended" => got[Dup] = [i \in 1 .. produced |-> i]

=============================================================================
