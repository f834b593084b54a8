----------------------------- MODULE TeeProofs ------------------------------
(***************************************************************************)
(* Proofs about the tee, for a source of any number of chunks.             *)
(***************************************************************************)
EXTENDS Tee, QueueLemmas, TLAPS

-----------------------------------------------------------------------------
(***************************************************************************)
(* The inductive invariant: the four places an item can be in on the way   *)
(* to a port are disjoint, and where the error is and when says what a     *)
(* clean end means.                                                        *)
(***************************************************************************)

\* The items on the way to p: with senders, queued, in the channel, read.
OnTheWay(p) == spawned[p] \cup ToSet(queued[p]) \cup ToSet(buffer[p])
Everywhere(p) == OnTheWay(p) \cup ToSet(got[p])

\* No item is in two places, or twice in one.
Apart(p) ==
  /\ IsInjective(queued[p]) /\ IsInjective(got[p])
  /\ spawned[p] \cap ToSet(queued[p]) = {}
  /\ spawned[p] \cap ToSet(buffer[p]) = {}
  /\ spawned[p] \cap ToSet(got[p]) = {}
  /\ ToSet(queued[p]) \cap ToSet(buffer[p]) = {}
  /\ ToSet(queued[p]) \cap ToSet(got[p]) = {}
  /\ ToSet(buffer[p]) \cap ToSet(got[p]) = {}

PortInv(p) ==
  /\ reader[p] = "open" => Apart(p) /\ Everywhere(p) \ {Err} = 1 .. produced
  /\ reader[p] # "open" => queued[p] = <<>>
  /\ reader[p] = "ended" => IsInjective(got[p]) /\ ToSet(got[p]) = 1 .. produced

\* The error goes to the body only, and the task waits until it is taken.
ErrorInv ==
  /\ \A p \in Ports : Err \in Everywhere(p) => p = Body /\ source = "broken"
  /\ Err \in spawned[Body] \cup ToSet(queued[Body]) => task = "erring"
  /\ reader[Body] = "open" => Err \notin ToSet(got[Body])
  /\ reader[Body] = "open" /\ source = "broken" => Err \in OnTheWay(Body)

\* The source ends before the task, and the task before a reader's end.
EndInv ==
  /\ task = "done" => source # "open"
  /\ task = "erring" => source = "broken"
  /\ \A p \in Ports : reader[p] = "ended" => task = "done"
  /\ reader[Body] = "ended" => source = "ended"

TeeInv == TypeOK /\ (\A p \in Ports : PortInv(p)) /\ ErrorInv /\ EndInv

-----------------------------------------------------------------------------
(* What the proof uses of the types: every place holds a sequence of items *)
(* or a set of them, and the channel at most one.                          *)
LEMMA PlacesHoldItems ==
  ASSUME TypeOK, NEW p \in Ports
  PROVE  /\ spawned[p] \subseteq Items
         /\ queued[p] \in Seq(Items) /\ got[p] \in Seq(Items)
         /\ buffer[p] \in Seq(Items) /\ IsInjective(buffer[p])
         /\ buffer[p] # <<>> => \E i \in Items : buffer[p] = <<i>>
         /\ ToSet(queued[p]) \subseteq Items
         /\ ToSet(buffer[p]) \subseteq Items
<1>1. /\ spawned[p] \subseteq Items
      /\ queued[p] \in Seq(Items) /\ got[p] \in Seq(Items)
      /\ buffer[p] \in {<<>>} \cup {<<i>> : i \in Items}
  BY DEF TypeOK
<1>2. buffer[p] \in Seq(Items) /\ IsInjective(buffer[p])
  <2>1. CASE buffer[p] = <<>>
    BY <2>1, EmptyQueue, EmptySeq
  <2>2. CASE \E i \in Items : buffer[p] = <<i>>
    BY <2>2, OneElement
  <2> QED
    BY <1>1, <2>1, <2>2
<1> QED
  BY <1>1, <1>2, ToSetOfSeq

(* An item waits in a queue when it is among the queue's elements. *)
LEMMA ContainsIsMembership ==
  ASSUME NEW s \in Seq(Items)
  PROVE  Contains(s, Err) <=> Err \in ToSet(s)
<1>1. ToSet(s) = {s[i] : i \in 1 .. Len(s)}
  BY ToSetOfSeq
<1> QED
  BY <1>1 DEF Contains

(* At the start nothing was produced and nothing is on the way. *)
LEMMA InitEstablishes == Init => TeeInv
<1> SUFFICES ASSUME Init
             PROVE  TeeInv
  OBVIOUS
<1>1. <<>> \in Seq(Items)
  BY EmptySeq
<1>2. TypeOK
  BY <1>1, ChunksAssumption DEF Init, TypeOK
<1>3. \A p \in Ports : /\ spawned[p] = {} /\ queued[p] = <<>> /\ got[p] = <<>>
                       /\ buffer[p] = <<>> /\ reader[p] = "open"
  BY DEF Init
<1>4. produced = 0 /\ source = "open" /\ task = "reading" /\ Body \in Ports
  BY DEF Init, Ports
<1>5. \A p \in Ports : PortInv(p)
  BY <1>3, <1>4, EmptyQueue DEF PortInv, Apart, Everywhere, OnTheWay
<1>6. ErrorInv
  BY <1>3, <1>4, EmptyQueue DEF ErrorInv, Everywhere, OnTheWay
<1>7. EndInv
  BY <1>3, <1>4 DEF EndInv
<1> QED
  BY <1>2, <1>5, <1>6, <1>7 DEF TeeInv

-----------------------------------------------------------------------------
(***************************************************************************)
(* One lemma per action: the invariant is kept.                            *)
(***************************************************************************)

(* A new chunk has a new number, so it is nowhere yet. *)
LEMMA SourceChunkKeeps == TeeInv /\ SourceChunk => TeeInv'
<1> SUFFICES ASSUME TeeInv, SourceChunk
             PROVE  TeeInv'
  OBVIOUS
<1> USE DEF TeeInv
<1>1. /\ produced \in Nat /\ produced + 1 \in Items /\ produced + 1 # Err
      /\ produced' = produced + 1 /\ produced' \in 0 .. Chunks
  BY ChunksAssumption DEF SourceChunk, TypeOK, Items, Err
<1>2. /\ \A p \in Ports : spawned'[p] = spawned[p] \cup {produced + 1}
      /\ UNCHANGED <<task, source, queued, buffer, got, reader>>
      /\ task = "reading" /\ source = "open" /\ Body \in Ports
  BY DEF SourceChunk, Ports
<1>3. TypeOK'
  BY <1>1, <1>2 DEF SourceChunk, TypeOK
<1>4. ASSUME NEW p \in Ports
      PROVE  PortInv(p)'
  <2>1. reader[p] = "open" => produced + 1 \notin Everywhere(p)
    BY <1>1 DEF PortInv
  <2>2. reader[p] # "ended"
    BY <1>2 DEF EndInv
  <2>3. reader[p] = "open" => Apart(p)'
    <3>1. /\ spawned'[p] = spawned[p] \cup {produced + 1}
          /\ queued' = queued /\ buffer' = buffer /\ got' = got
      BY <1>2
    <3>2. SUFFICES ASSUME Apart(p), produced + 1 \notin Everywhere(p)
                   PROVE  Apart(p)'
      BY <2>1 DEF PortInv
    <3> QED
      BY ONLY <3>1, <3>2 DEF Apart, Everywhere, OnTheWay
  <2>4. reader[p] = "open" => Everywhere(p)' \ {Err} = 1 .. produced'
    <3>1. Everywhere(p)' = Everywhere(p) \cup {produced + 1}
      BY <1>2 DEF Everywhere, OnTheWay
    <3>2. 1 .. produced + 1 = (1 .. produced) \cup {produced + 1}
      BY <1>1
    <3> QED
      BY <1>1, <3>1, <3>2 DEF PortInv
  <2> QED
    BY <1>2, <2>2, <2>3, <2>4 DEF PortInv
<1>5. ErrorInv'
  BY <1>1, <1>2 DEF ErrorInv, Everywhere, OnTheWay
<1>6. EndInv'
  BY <1>2 DEF EndInv
<1> QED
  BY <1>3, <1>4, <1>5, <1>6

(* The error is nowhere before the source breaks. *)
LEMMA SourceErrorKeeps == TeeInv /\ SourceError => TeeInv'
<1> SUFFICES ASSUME TeeInv, SourceError
             PROVE  TeeInv'
  OBVIOUS
<1> USE DEF TeeInv
<1>1. /\ Err \in Items /\ Body \in Ports
      /\ \A p \in Ports :
           spawned'[p] = IF p = Body THEN spawned[p] \cup {Err} ELSE spawned[p]
      /\ UNCHANGED <<produced, queued, buffer, got, reader>>
      /\ task = "reading" /\ task' = "erring"
      /\ source = "open" /\ source' = "broken"
  <2>1. Err \in Items
    BY ChunksAssumption DEF Items, Err
  <2>2. \A p \in Ports :
          spawned'[p] = IF p = Body THEN spawned[p] \cup {Err} ELSE spawned[p]
    BY DEF SourceError, TypeOK
  <2> QED
    BY <2>1, <2>2 DEF SourceError, Ports
<1>2. TypeOK'
  BY <1>1 DEF SourceError, TypeOK
<1>3. \A p \in Ports : Err \notin Everywhere(p)
  BY <1>1 DEF ErrorInv
<1>4. \A p \in Ports : reader[p] # "ended"
  BY <1>1 DEF EndInv
<1>5. ASSUME NEW p \in Ports
      PROVE  PortInv(p)'
  <2>1. /\ reader[p] = "open" => Apart(p) /\ Everywhere(p) \ {Err} = 1 .. produced
        /\ reader[p] # "open" => queued[p] = <<>>
    BY DEF PortInv
  <2>2. /\ spawned'[p] = spawned[p] \/ spawned'[p] = spawned[p] \cup {Err}
        /\ UNCHANGED <<produced, queued, buffer, got, reader>>
        /\ reader[p] # "ended" /\ Err \notin Everywhere(p)
    BY <1>1, <1>3, <1>4
  <2>3. Apart(p) => Apart(p)'
    BY ONLY <2>2 DEF Apart, Everywhere, OnTheWay
  <2>4. Everywhere(p)' \ {Err} = Everywhere(p) \ {Err}
    BY ONLY <2>2 DEF Everywhere, OnTheWay
  <2> QED
    BY ONLY <2>1, <2>2, <2>3, <2>4 DEF PortInv
<1>6. ErrorInv'
  BY <1>1, <1>3 DEF ErrorInv, Everywhere, OnTheWay
<1>7. EndInv'
  BY <1>1, <1>4 DEF EndInv
<1> QED
  BY <1>2, <1>5, <1>6, <1>7

(* The task ends with the source, and nothing moves. *)
LEMMA SourceEndKeeps == TeeInv /\ SourceEnd => TeeInv'
<1> SUFFICES ASSUME TeeInv, SourceEnd
             PROVE  TeeInv'
  OBVIOUS
<1> USE DEF TeeInv
<1>1. /\ UNCHANGED <<produced, spawned, queued, buffer, got, reader>>
      /\ task = "reading" /\ task' = "done"
      /\ source' = IF source = "open" THEN "ended" ELSE source
      /\ source \in {"open", "ended", "broken"} /\ Body \in Ports
  BY DEF SourceEnd, TypeOK, Ports
<1>2. TypeOK'
  BY <1>1 DEF TypeOK
<1>3. \A p \in Ports : PortInv(p)'
  BY <1>1 DEF PortInv, Apart, Everywhere, OnTheWay
<1>4. ErrorInv'
  BY <1>1 DEF ErrorInv, Everywhere, OnTheWay
<1>5. EndInv'
  BY <1>1 DEF EndInv
<1> QED
  BY <1>2, <1>3, <1>4, <1>5

(* What a sender that starts leaves behind, whatever comes of its item; an *)
(* error is the body's, and its sender is the task that waits.             *)
LEMMA SenderStarts ==
  ASSUME TeeInv, NEW p \in Ports, NEW item \in Items, SendStart(p, item)
  PROVE  /\ item \in spawned[p] /\ Body \in Ports
         /\ \A q \in Ports :
              spawned'[q] = IF q = p THEN spawned[q] \ {item} ELSE spawned[q]
         /\ spawned' \in [Ports -> SUBSET Items]
         /\ UNCHANGED <<produced, source, got, reader>>
         /\ item = Err => p = Body /\ source = "broken" /\ task = "erring"
         /\ Resumed(item) \in {"reading", "erring", "done"}
         /\ Resumed(item) = IF item = Err THEN "reading" ELSE task
<1>1. item \in spawned[p]
  BY DEF SendStart
<1>2. item = Err => p = Body /\ source = "broken" /\ task = "erring"
  BY <1>1 DEF TeeInv, ErrorInv, Everywhere, OnTheWay
<1> QED
  BY <1>1, <1>2 DEF SendStart, TeeInv, TypeOK, Resumed, Ports

(* The receiver is gone: the item is nowhere, and nobody counts on it. *)
LEMMA SendStartGoneKeeps ==
  ASSUME TeeInv, NEW p \in Ports, NEW item \in Items, SendStart(p, item),
         reader[p] # "open"
  PROVE  TeeInv'
<1> USE DEF TeeInv
<1>1. task' = Resumed(item) /\ UNCHANGED <<queued, buffer>>
  BY DEF SendStart
<1>2. ToSet(queued[p]) = {}
  BY EmptyQueue DEF PortInv
<1>3. TypeOK'
  BY <1>1, SenderStarts DEF TypeOK
<1>4. ASSUME NEW q \in Ports
      PROVE  PortInv(q)'
  BY <1>1, SenderStarts DEF PortInv, Apart, Everywhere, OnTheWay
<1>5. ErrorInv'
  <2>1. ASSUME NEW q \in Ports
        PROVE  /\ Everywhere(q)' \subseteq Everywhere(q)
               /\ q # p => OnTheWay(q)' = OnTheWay(q)
    <3>1. /\ spawned'[q] = IF q = p THEN spawned[q] \ {item} ELSE spawned[q]
          /\ UNCHANGED <<queued, buffer, got>>
      BY <1>1, SenderStarts
    <3> QED
      BY ONLY <3>1 DEF Everywhere, OnTheWay
  <2>2. Err \in spawned'[Body] \cup ToSet(queued'[Body]) => task' = "erring"
    <3>1. /\ spawned'[Body] = IF Body = p THEN spawned[Body] \ {item} ELSE spawned[Body]
          /\ task' = IF item = Err THEN "reading" ELSE task
          /\ UNCHANGED queued
          /\ item = Err => p = Body
      BY <1>1, SenderStarts
    <3>2. Err \in spawned[Body] \cup ToSet(queued[Body]) => task = "erring"
      BY DEF ErrorInv
    <3> QED
      BY ONLY <3>1, <3>2, <1>2
  <2> QED
    BY <2>1, <2>2, SenderStarts DEF ErrorInv
<1>6. EndInv'
  BY <1>1, SenderStarts DEF EndInv
<1> QED
  BY <1>3, <1>4, <1>5, <1>6

(* There is room: the item moves into the channel. *)
LEMMA SendStartRoomKeeps ==
  ASSUME TeeInv, NEW p \in Ports, NEW item \in Items, SendStart(p, item),
         reader[p] = "open", buffer[p] = <<>>, queued[p] = <<>>
  PROVE  TeeInv'
<1> USE DEF TeeInv
<1>1. /\ task' = Resumed(item) /\ UNCHANGED queued
      /\ buffer' = [buffer EXCEPT ![p] = <<item>>]
  BY DEF SendStart
<1>2. ToSet(queued[p]) = {} /\ ToSet(buffer[p]) = {}
  BY EmptyQueue
<1>3. \A q \in Ports : ToSet(buffer'[q]) = IF q = p THEN {item} ELSE ToSet(buffer[q])
  BY <1>1, OneElement DEF TypeOK
<1>4. TypeOK'
  BY <1>1, SenderStarts DEF TypeOK
<1>5. ASSUME NEW q \in Ports
      PROVE  PortInv(q)'
  <2>1. /\ spawned'[q] = IF q = p THEN spawned[q] \ {item} ELSE spawned[q]
        /\ ToSet(buffer'[q]) = IF q = p THEN {item} ELSE ToSet(buffer[q])
        /\ UNCHANGED <<produced, queued, got, reader>>
        /\ item \in spawned[p]
    BY <1>1, <1>3, SenderStarts
  <2>2. Apart(q) => Apart(q)'
    BY ONLY <1>2, <2>1 DEF Apart
  <2>3. Everywhere(q)' = Everywhere(q)
    BY ONLY <1>2, <2>1 DEF Everywhere, OnTheWay
  <2> QED
    BY <2>1, <2>2, <2>3 DEF PortInv
<1>6. ErrorInv'
  <2>1. ASSUME NEW q \in Ports
        PROVE  Everywhere(q)' = Everywhere(q) /\ OnTheWay(q)' = OnTheWay(q)
    <3>1. /\ spawned'[q] = IF q = p THEN spawned[q] \ {item} ELSE spawned[q]
          /\ ToSet(buffer'[q]) = IF q = p THEN {item} ELSE ToSet(buffer[q])
          /\ UNCHANGED <<queued, got>>
          /\ item \in spawned[p]
      BY <1>1, <1>3, SenderStarts
    <3> QED
      BY ONLY <1>2, <3>1 DEF Everywhere, OnTheWay
  <2>2. Err \in spawned'[Body] \cup ToSet(queued'[Body]) => task' = "erring"
    <3> SUFFICES ASSUME Err \in spawned'[Body] \cup ToSet(queued'[Body])
                 PROVE  task' = "erring"
      OBVIOUS
    <3>1. /\ spawned'[Body] = IF Body = p THEN spawned[Body] \ {item} ELSE spawned[Body]
          /\ item = Err => p = Body
          /\ task' = IF item = Err THEN "reading" ELSE task
          /\ queued' = queued
      BY <1>1, SenderStarts
    <3>2. item # Err /\ Err \in spawned[Body] \cup ToSet(queued[Body])
      BY ONLY <1>2, <3>1, Err \in spawned'[Body] \cup ToSet(queued'[Body])
    <3>3. Err \in spawned[Body] \cup ToSet(queued[Body]) => task = "erring"
      BY DEF ErrorInv
    <3> QED
      BY ONLY <3>1, <3>2, <3>3
  <2> QED
    BY <2>1, <2>2, SenderStarts DEF ErrorInv
<1>7. EndInv'
  BY <1>1, SenderStarts DEF EndInv
<1> QED
  BY <1>4, <1>5, <1>6, <1>7

(* There is none: the item joins the queue. *)
LEMMA SendStartQueueKeeps ==
  ASSUME TeeInv, NEW p \in Ports, NEW item \in Items, SendStart(p, item),
         reader[p] = "open", buffer[p] # <<>> \/ queued[p] # <<>>
  PROVE  TeeInv'
<1> USE DEF TeeInv
<1>1. /\ UNCHANGED <<task, buffer>>
      /\ queued' = [queued EXCEPT ![p] = Append(@, item)]
  BY DEF SendStart
<1>2. item \notin ToSet(queued[p])
  BY SenderStarts DEF PortInv, Apart
<1>3. /\ Append(queued[p], item) \in Seq(Items)
      /\ ToSet(Append(queued[p], item)) = ToSet(queued[p]) \cup {item}
      /\ IsInjective(queued[p]) => IsInjective(Append(queued[p], item))
  BY <1>2, JoinBack, PlacesHoldItems
<1>4. \A q \in Ports :
        queued'[q] = IF q = p THEN Append(queued[q], item) ELSE queued[q]
  BY <1>1 DEF TypeOK
<1>5. \A q \in Ports :
        ToSet(queued'[q]) = IF q = p THEN ToSet(queued[q]) \cup {item}
                                     ELSE ToSet(queued[q])
  BY <1>3, <1>4
<1>6. TypeOK'
  BY <1>1, <1>3, SenderStarts DEF TypeOK
<1>7. ASSUME NEW q \in Ports
      PROVE  PortInv(q)'
  <2>1. /\ spawned'[q] = IF q = p THEN spawned[q] \ {item} ELSE spawned[q]
        /\ ToSet(queued'[q]) = IF q = p THEN ToSet(queued[q]) \cup {item}
                                        ELSE ToSet(queued[q])
        /\ IsInjective(queued[q]) => IsInjective(queued'[q])
        /\ UNCHANGED <<produced, buffer, got, reader>>
        /\ item \in spawned[p]
    <3>1. ToSet(queued'[q]) = IF q = p THEN ToSet(queued[q]) \cup {item}
                                       ELSE ToSet(queued[q])
      BY <1>5
    <3>2. IsInjective(queued[q]) => IsInjective(queued'[q])
      BY <1>3, <1>4
    <3> QED
      BY <1>1, <3>1, <3>2, SenderStarts
  <2>2. Apart(q) => Apart(q)'
    BY ONLY <2>1 DEF Apart
  <2>3. Everywhere(q)' = Everywhere(q)
    BY ONLY <2>1 DEF Everywhere, OnTheWay
  <2>4. reader[q] # "open" => queued'[q] = queued[q]
    BY <1>4
  <2> QED
    BY <2>1, <2>2, <2>3, <2>4 DEF PortInv
<1>8. ErrorInv'
  <2>1. ASSUME NEW q \in Ports
        PROVE  Everywhere(q)' = Everywhere(q) /\ OnTheWay(q)' = OnTheWay(q)
    <3>1. /\ spawned'[q] = IF q = p THEN spawned[q] \ {item} ELSE spawned[q]
          /\ ToSet(queued'[q]) = IF q = p THEN ToSet(queued[q]) \cup {item}
                                          ELSE ToSet(queued[q])
          /\ UNCHANGED <<buffer, got>>
          /\ item \in spawned[p]
      BY <1>1, <1>5, SenderStarts
    <3> QED
      BY ONLY <3>1 DEF Everywhere, OnTheWay
  <2>2. Err \in spawned'[Body] \cup ToSet(queued'[Body]) => task' = "erring"
    <3>1. /\ spawned'[Body] = IF Body = p THEN spawned[Body] \ {item} ELSE spawned[Body]
          /\ ToSet(queued'[Body]) = IF Body = p THEN ToSet(queued[Body]) \cup {item}
                                                ELSE ToSet(queued[Body])
          /\ UNCHANGED task
          /\ item = Err => task = "erring"
      BY <1>1, <1>5, SenderStarts
    <3>2. Err \in spawned[Body] \cup ToSet(queued[Body]) => task = "erring"
      BY DEF ErrorInv
    <3> QED
      BY ONLY <3>1, <3>2
  <2> QED
    BY <1>1, <2>1, <2>2, SenderStarts DEF ErrorInv
<1>9. EndInv'
  BY <1>1, SenderStarts DEF EndInv
<1> QED
  BY <1>6, <1>7, <1>8, <1>9

(* A sender that runs fails, finds room or queues. *)
LEMMA SendStartKeeps ==
  ASSUME TeeInv, NEW p \in Ports, NEW item \in Items, SendStart(p, item)
  PROVE  TeeInv'
<1>1. CASE reader[p] # "open"
  BY <1>1, SendStartGoneKeeps
<1>2. CASE reader[p] = "open" /\ buffer[p] = <<>> /\ queued[p] = <<>>
  BY <1>2, SendStartRoomKeeps
<1>3. CASE reader[p] = "open" /\ (buffer[p] # <<>> \/ queued[p] # <<>>)
  BY <1>3, SendStartQueueKeeps
<1> QED
  BY <1>1, <1>2, <1>3

(* The first in the queue moves into the channel. *)
LEMMA SendQueuedKeeps ==
  ASSUME TeeInv, NEW p \in Ports, SendQueued(p)
  PROVE  TeeInv'
<1> USE DEF TeeInv
<1> DEFINE item == Head(queued[p])
<1>1. /\ buffer[p] = <<>> /\ queued[p] # <<>> /\ Body \in Ports
      /\ buffer' = [buffer EXCEPT ![p] = <<item>>]
      /\ queued' = [queued EXCEPT ![p] = Tail(@)]
      /\ task' = Resumed(item)
      /\ UNCHANGED <<produced, source, spawned, got, reader>>
  BY DEF SendQueued, Ports
<1>2. reader[p] = "open" /\ Apart(p)
  BY <1>1 DEF PortInv
<1>3. /\ item \in ToSet(queued[p])
      /\ Tail(queued[p]) \in Seq(Items)
      /\ ToSet(Tail(queued[p])) = ToSet(queued[p]) \ {item}
      /\ IsInjective(Tail(queued[p]))
  BY <1>1, <1>2, LeaveFront, PlacesHoldItems DEF Apart
<1>4. item \in Items
  BY <1>3, PlacesHoldItems
<1>5. Resumed(item) = IF item = Err THEN "reading" ELSE task
  BY DEF Resumed
<1> HIDE DEF item
<1>6. item = Err => p = Body /\ source = "broken" /\ task = "erring"
  BY <1>3 DEF ErrorInv, Everywhere, OnTheWay
<1>7. \A q \in Ports :
        queued'[q] = IF q = p THEN Tail(queued[q]) ELSE queued[q]
  BY <1>1 DEF TypeOK
<1>8. \A q \in Ports :
        /\ ToSet(queued'[q]) = IF q = p THEN ToSet(queued[q]) \ {item}
                                        ELSE ToSet(queued[q])
        /\ ToSet(buffer'[q]) = IF q = p THEN {item} ELSE ToSet(buffer[q])
  BY <1>1, <1>3, <1>4, <1>7, OneElement DEF TypeOK
<1>9. ToSet(buffer[p]) = {}
  BY <1>1, EmptyQueue
<1>10. TypeOK'
  BY <1>1, <1>3, <1>4, <1>5 DEF TypeOK
<1>11. ASSUME NEW q \in Ports
       PROVE  PortInv(q)'
  <2>1. /\ ToSet(queued'[q]) = IF q = p THEN ToSet(queued[q]) \ {item}
                                        ELSE ToSet(queued[q])
        /\ ToSet(buffer'[q]) = IF q = p THEN {item} ELSE ToSet(buffer[q])
        /\ IsInjective(queued[q]) => IsInjective(queued'[q])
        /\ UNCHANGED <<produced, spawned, got, reader>>
        /\ item \in ToSet(queued[p])
    BY <1>1, <1>3, <1>7, <1>8
  <2>2. Apart(q) => Apart(q)'
    BY ONLY <1>9, <2>1 DEF Apart
  <2>3. Everywhere(q)' = Everywhere(q)
    BY ONLY <1>9, <2>1 DEF Everywhere, OnTheWay
  <2>4. reader[q] # "open" => queued'[q] = queued[q]
    BY <1>2, <1>7
  <2> QED
    BY <2>1, <2>2, <2>3, <2>4 DEF PortInv
<1>12. ErrorInv'
  <2>1. ASSUME NEW q \in Ports
        PROVE  Everywhere(q)' = Everywhere(q) /\ OnTheWay(q)' = OnTheWay(q)
    <3>1. /\ ToSet(queued'[q]) = IF q = p THEN ToSet(queued[q]) \ {item}
                                          ELSE ToSet(queued[q])
          /\ ToSet(buffer'[q]) = IF q = p THEN {item} ELSE ToSet(buffer[q])
          /\ UNCHANGED <<spawned, got>>
          /\ item \in ToSet(queued[p])
      BY <1>1, <1>3, <1>8
    <3> QED
      BY ONLY <1>9, <3>1 DEF Everywhere, OnTheWay
  <2>2. Err \in spawned'[Body] \cup ToSet(queued'[Body]) => task' = "erring"
    <3>0. item \notin spawned[p]
      BY <1>2, <1>3 DEF Apart
    <3>1. /\ spawned'[Body] = spawned[Body]
          /\ ToSet(queued'[Body]) = IF Body = p THEN ToSet(queued[Body]) \ {item}
                                                ELSE ToSet(queued[Body])
          /\ task' = IF item = Err THEN "reading" ELSE task
          /\ item = Err => p = Body
      BY <1>1, <1>5, <1>6, <1>8
    <3>2. Err \in spawned[Body] \cup ToSet(queued[Body]) => task = "erring"
      BY DEF ErrorInv
    <3> QED
      BY ONLY <3>0, <3>1, <3>2
  <2> QED
    BY <1>1, <2>1, <2>2 DEF ErrorInv
<1>13. EndInv'
  BY <1>1, <1>5, <1>6 DEF EndInv
<1> QED
  BY <1>10, <1>11, <1>12, <1>13

(* What Take moves: the item in the channel joins what was read. *)
LEMMA TakeMoves ==
  ASSUME TeeInv, NEW p \in Ports, Take(p)
  PROVE  /\ reader[p] = "open" /\ Apart(p) /\ Body \in Ports
         /\ \E i \in Items : buffer[p] = <<i>> /\ ToSet(buffer[p]) = {i}
         /\ got' \in [Ports -> Seq(Items)]
         /\ buffer' \in [Ports -> {<<>>} \cup {<<i>> : i \in Items}]
         /\ \A q \in Ports : q # p => got'[q] = got[q] /\ buffer'[q] = buffer[q]
         /\ ToSet(got'[p]) = ToSet(got[p]) \cup ToSet(buffer[p])
         /\ IsInjective(got'[p])
         /\ buffer'[p] = <<>> /\ ToSet(buffer'[p]) = {}
         /\ UNCHANGED <<produced, source, spawned>>
<1> USE DEF TeeInv
<1>1. /\ reader[p] = "open" /\ buffer[p] # <<>>
      /\ got' = [got EXCEPT ![p] = @ \o buffer[p]]
      /\ buffer' = [buffer EXCEPT ![p] = <<>>]
      /\ UNCHANGED <<produced, source, spawned>>
  BY DEF Take
<1>2. Apart(p) /\ Body \in Ports
  BY <1>1 DEF PortInv, Ports
<1>3. \E i \in Items : buffer[p] = <<i>> /\ ToSet(buffer[p]) = {i}
  BY <1>1, PlacesHoldItems, OneElement
<1>4. /\ got[p] \o buffer[p] \in Seq(Items)
      /\ ToSet(got[p] \o buffer[p]) = ToSet(got[p]) \cup ToSet(buffer[p])
      /\ IsInjective(got[p] \o buffer[p])
  <2>1. /\ IsInjective(got[p]) /\ IsInjective(buffer[p])
        /\ ToSet(got[p]) \cap ToSet(buffer[p]) = {}
        /\ got[p] \in Seq(Items) /\ buffer[p] \in Seq(Items)
    BY <1>2, PlacesHoldItems DEF Apart
  <2> QED
    BY <2>1, Concatenation
<1>5. got'[p] = got[p] \o buffer[p] /\ buffer'[p] = <<>>
  BY <1>1 DEF TypeOK
<1>6. /\ got' \in [Ports -> Seq(Items)]
      /\ buffer' \in [Ports -> {<<>>} \cup {<<i>> : i \in Items}]
      /\ \A q \in Ports : q # p => got'[q] = got[q] /\ buffer'[q] = buffer[q]
  BY <1>1, <1>4 DEF TypeOK
<1>7. /\ ToSet(got'[p]) = ToSet(got[p]) \cup ToSet(buffer[p])
      /\ IsInjective(got'[p])
      /\ ToSet(buffer'[p]) = {}
  BY <1>4, <1>5, EmptyQueue
<1> QED
  BY <1>1, <1>2, <1>3, <1>5, <1>6, <1>7

(* A chunk moves from the channel to its reader. *)
LEMMA ReadChunkKeeps ==
  ASSUME TeeInv, NEW p \in Ports, ReadChunk(p)
  PROVE  TeeInv'
<1> USE DEF TeeInv
<1>1. Take(p) /\ buffer[p] # <<Err>> /\ UNCHANGED <<task, queued, reader>>
  BY DEF ReadChunk
<1>2. PICK i \in Items : buffer[p] = <<i>> /\ ToSet(buffer[p]) = {i}
  BY <1>1, TakeMoves
<1>3. i # Err
  BY <1>1, <1>2
<1>4. /\ reader[p] = "open" /\ Apart(p) /\ Body \in Ports
      /\ \A q \in Ports : q # p => got'[q] = got[q] /\ buffer'[q] = buffer[q]
      /\ ToSet(got'[p]) = ToSet(got[p]) \cup {i}
      /\ IsInjective(got'[p]) /\ ToSet(buffer'[p]) = {}
      /\ UNCHANGED <<produced, source, spawned>>
  BY <1>1, <1>2, TakeMoves
<1>5. TypeOK'
  BY <1>1, TakeMoves DEF TypeOK
<1>6. ASSUME NEW q \in Ports
      PROVE  PortInv(q)'
  <2>1. CASE q = p
    BY <2>1, <1>1, <1>2, <1>4 DEF PortInv, Apart, Everywhere, OnTheWay
  <2>2. CASE q # p
    BY <2>2, <1>1, <1>4 DEF PortInv, Apart, Everywhere, OnTheWay
  <2> QED
    BY <2>1, <2>2
<1>7. ErrorInv'
  <2>1. \A q \in Ports : Everywhere(q)' = Everywhere(q)
    BY <1>1, <1>2, <1>4 DEF Everywhere, OnTheWay
  <2>2. /\ Err \in ToSet(got'[Body]) => Err \in ToSet(got[Body])
        /\ Err \in OnTheWay(Body) => Err \in OnTheWay(Body)'
    BY <1>1, <1>2, <1>3, <1>4 DEF OnTheWay
  <2> QED
    BY <1>1, <1>4, <2>1, <2>2 DEF ErrorInv
<1>8. EndInv'
  BY <1>1, <1>4 DEF EndInv
<1> QED
  BY <1>5, <1>6, <1>7, <1>8

(* The error reaches the body's reader, which is dropped: it was the       *)
(* task's, and so in no queue.                                             *)
LEMMA ReadErrorKeeps ==
  ASSUME TeeInv, NEW p \in Ports, ReadError(p)
  PROVE  TeeInv'
<1> USE DEF TeeInv
<1>1. /\ Take(p) /\ buffer[p] = <<Err>>
      /\ reader' = [reader EXCEPT ![p] = "failed"]
      /\ queued' = [queued EXCEPT ![p] = <<>>]
      /\ task' = IF Contains(queued[p], Err) THEN "reading" ELSE task
  BY DEF ReadError, DropQueue
<1>2. Err \in Items
  BY ChunksAssumption DEF Err, Items
<1>3. ToSet(buffer[p]) = {Err}
  BY <1>1, <1>2, OneElement
<1>4. /\ reader[p] = "open" /\ Apart(p) /\ Body \in Ports
      /\ \A q \in Ports : q # p => got'[q] = got[q] /\ buffer'[q] = buffer[q]
      /\ ToSet(buffer'[p]) = {}
      /\ UNCHANGED <<produced, source, spawned>>
  BY <1>1, TakeMoves
<1>5. p = Body /\ source = "broken"
  BY <1>3 DEF ErrorInv, Everywhere, OnTheWay
<1>6. Err \notin ToSet(queued[p]) /\ Err \notin spawned[p]
  BY <1>3, <1>4 DEF Apart
<1>7. task' = task
  BY <1>1, <1>6, ContainsIsMembership, PlacesHoldItems
<1>8. \A q \in Ports :
        /\ reader'[q] = IF q = p THEN "failed" ELSE reader[q]
        /\ queued'[q] = IF q = p THEN <<>> ELSE queued[q]
        /\ ToSet(queued'[q]) = IF q = p THEN {} ELSE ToSet(queued[q])
  BY <1>1, EmptyQueue DEF TypeOK
<1>9. TypeOK'
  <2>1. <<>> \in Seq(Items)
    BY EmptySeq
  <2>2. queued' \in [Ports -> Seq(Items)]
    BY <1>1, <2>1 DEF TypeOK
  <2> QED
    BY <1>1, <1>4, <1>7, <2>2, TakeMoves DEF TypeOK
<1>10. ASSUME NEW q \in Ports
       PROVE  PortInv(q)'
  BY <1>4, <1>8 DEF PortInv, Apart, Everywhere, OnTheWay
<1>11. ErrorInv'
  <2>1. \A q \in Ports : q # p => Everywhere(q)' = Everywhere(q)
    BY <1>4, <1>8 DEF Everywhere, OnTheWay
  <2> QED
    BY <1>4, <1>5, <1>6, <1>8, <2>1 DEF ErrorInv
<1>12. EndInv'
  BY <1>4, <1>5, <1>7, <1>8 DEF EndInv
<1> QED
  BY <1>9, <1>10, <1>11, <1>12

(* What a clean end finds: everything produced was read, and a body whose  *)
(* source broke does not end cleanly, for its error is still on the way.   *)
LEMMA EndIsWhole ==
  ASSUME TeeInv, NEW p \in Ports, ReadEnd(p)
  PROVE  /\ IsInjective(got[p]) /\ ToSet(got[p]) = 1 .. produced
         /\ source # "open" /\ (p = Body => source = "ended")
<1> USE DEF TeeInv
<1>1. /\ reader[p] = "open" /\ task = "done" /\ spawned[p] = {}
      /\ ToSet(queued[p]) = {} /\ ToSet(buffer[p]) = {}
  BY EmptyQueue DEF ReadEnd
<1>2. Apart(p) /\ Everywhere(p) \ {Err} = 1 .. produced
  BY <1>1 DEF PortInv
<1>3. Err \notin ToSet(got[p])
  BY <1>1 DEF ErrorInv, Everywhere
<1>4. ToSet(got[p]) = 1 .. produced
  BY <1>1, <1>2, <1>3 DEF Everywhere, OnTheWay
<1>5. p = Body => source # "broken"
  BY <1>1 DEF ErrorInv, OnTheWay
<1>6. source # "open"
  BY <1>1 DEF EndInv
<1> QED
  BY <1>2, <1>4, <1>5, <1>6 DEF Apart, TypeOK

(* A reader that sees the end has everything. *)
LEMMA ReadEndKeeps ==
  ASSUME TeeInv, NEW p \in Ports, ReadEnd(p)
  PROVE  TeeInv'
<1> USE DEF TeeInv
<1>1. /\ reader[p] = "open" /\ task = "done" /\ queued[p] = <<>> /\ Body \in Ports
      /\ reader' = [reader EXCEPT ![p] = "ended"]
      /\ UNCHANGED <<task, produced, source, spawned, queued, buffer, got>>
  BY DEF ReadEnd, Ports
<1>2. \A q \in Ports : reader'[q] = IF q = p THEN "ended" ELSE reader[q]
  BY <1>1 DEF TypeOK
<1>3. TypeOK'
  BY <1>1 DEF TypeOK
<1>4. ASSUME NEW q \in Ports
      PROVE  PortInv(q)'
  <2>1. Apart(q)' <=> Apart(q)
    BY ONLY <1>1 DEF Apart
  <2>2. Everywhere(q)' = Everywhere(q)
    BY ONLY <1>1 DEF Everywhere, OnTheWay
  <2>3. CASE q = p
    <3>1. reader'[q] = "ended" /\ queued'[q] = <<>>
      BY <1>1, <1>2, <2>3
    <3>2. IsInjective(got'[q]) /\ ToSet(got'[q]) = 1 .. produced'
      BY <1>1, <2>3, EndIsWhole
    <3> QED
      BY ONLY <3>1, <3>2 DEF PortInv
  <2>4. CASE q # p
    <3>1. PortInv(q) /\ reader'[q] = reader[q]
      BY <1>2, <1>4, <2>4
    <3> QED
      BY ONLY <1>1, <2>1, <2>2, <3>1 DEF PortInv
  <2> QED
    BY <2>3, <2>4
<1>5. ErrorInv'
  BY <1>1, <1>2 DEF ErrorInv, Everywhere, OnTheWay
<1>6. EndInv'
  BY <1>1, <1>2, EndIsWhole DEF EndInv
<1> QED
  BY <1>3, <1>4, <1>5, <1>6

(* The body's reader goes away: if the error was in its queue the task     *)
(* gets on, and if its sender has not run the task still waits for it.     *)
LEMMA ReaderLeavesKeeps == TeeInv /\ ReaderLeaves => TeeInv'
<1> SUFFICES ASSUME TeeInv, ReaderLeaves
             PROVE  TeeInv'
  OBVIOUS
<1> USE DEF TeeInv
<1>1. /\ reader[Body] = "open" /\ Body \in Ports
      /\ reader' = [reader EXCEPT ![Body] = "gone"]
      /\ queued' = [queued EXCEPT ![Body] = <<>>]
      /\ buffer' = [buffer EXCEPT ![Body] = <<>>]
      /\ task' = IF Contains(queued[Body], Err) THEN "reading" ELSE task
      /\ UNCHANGED <<produced, source, spawned, got>>
  BY DEF ReaderLeaves, DropQueue, Ports
<1>2. Contains(queued[Body], Err) <=> Err \in ToSet(queued[Body])
  BY <1>1, ContainsIsMembership, PlacesHoldItems
<1>3. \A q \in Ports :
        /\ reader'[q] = IF q = Body THEN "gone" ELSE reader[q]
        /\ queued'[q] = IF q = Body THEN <<>> ELSE queued[q]
        /\ buffer'[q] = IF q = Body THEN <<>> ELSE buffer[q]
        /\ ToSet(queued'[q]) = IF q = Body THEN {} ELSE ToSet(queued[q])
        /\ ToSet(buffer'[q]) = IF q = Body THEN {} ELSE ToSet(buffer[q])
  BY <1>1, EmptyQueue DEF TypeOK
<1>4. Err \in ToSet(queued[Body]) => task = "erring" /\ Err \notin spawned[Body]
  BY <1>1 DEF ErrorInv, PortInv, Apart
<1>5. TypeOK'
  <2>1. <<>> \in Seq(Items)
    BY EmptySeq
  <2> QED
    BY <1>1, <2>1 DEF TypeOK
<1>6. ASSUME NEW q \in Ports
      PROVE  PortInv(q)'
  <2>1. CASE q = Body
    BY <2>1, <1>3 DEF PortInv
  <2>2. CASE q # Body
    <3>1. /\ reader'[q] = reader[q] /\ queued'[q] = queued[q]
          /\ buffer'[q] = buffer[q]
          /\ UNCHANGED <<produced, spawned, got>>
      BY <2>2, <1>1, <1>3
    <3> QED
      BY <3>1 DEF PortInv, Apart, Everywhere, OnTheWay
  <2> QED
    BY <2>1, <2>2
<1>7. ErrorInv'
  BY <1>1, <1>2, <1>3, <1>4 DEF ErrorInv, Everywhere, OnTheWay
<1>8. EndInv'
  BY <1>1, <1>2, <1>3, <1>4 DEF EndInv
<1> QED
  BY <1>5, <1>6, <1>7, <1>8

-----------------------------------------------------------------------------
(* Every step of the tee keeps the invariant. *)
LEMMA NextKeeps == TeeInv /\ [Next]_teeVars => TeeInv'
<1> SUFFICES ASSUME TeeInv, [Next]_teeVars
             PROVE  TeeInv'
  OBVIOUS
<1>1. CASE SourceChunk
  BY <1>1, SourceChunkKeeps
<1>2. CASE SourceError
  BY <1>2, SourceErrorKeeps
<1>3. CASE SourceEnd
  BY <1>3, SourceEndKeeps
<1>4. CASE ReaderLeaves
  BY <1>4, ReaderLeavesKeeps
<1>5. ASSUME NEW p \in Ports, NEW item \in Items, SendStart(p, item)
      PROVE  TeeInv'
  BY <1>5, SendStartKeeps
<1>6. ASSUME NEW p \in Ports, SendQueued(p)
      PROVE  TeeInv'
  BY <1>6, SendQueuedKeeps
<1>7. ASSUME NEW p \in Ports, ReadChunk(p)
      PROVE  TeeInv'
  BY <1>7, ReadChunkKeeps
<1>8. ASSUME NEW p \in Ports, ReadError(p)
      PROVE  TeeInv'
  BY <1>8, ReadErrorKeeps
<1>9. ASSUME NEW p \in Ports, ReadEnd(p)
      PROVE  TeeInv'
  BY <1>9, ReadEndKeeps
<1>10. CASE UNCHANGED teeVars
  BY <1>10 DEF teeVars, TeeInv, TypeOK, PortInv, Apart, ErrorInv, EndInv,
               Everywhere, OnTheWay
<1> QED
  BY <1>1, <1>2, <1>3, <1>4, <1>5, <1>6, <1>7, <1>8, <1>9, <1>10 DEF Next

(***************************************************************************)
(* The invariant holds of every behaviour of the tee.                      *)
(***************************************************************************)
THEOREM TeeInvariant == Spec => []TeeInv
<1> QED
  BY InitEstablishes, NextKeeps, PTL DEF Spec

(* Every variable of the tee keeps the type of what it stands for. *)
THEOREM TeeTypeCorrect == Spec => []TypeOK
<1>1. TeeInv => TypeOK
  BY DEF TeeInv
<1> QED
  BY <1>1, TeeInvariant, PTL

(* The invariant says that nothing is lost: the places of an open port, put *)
(* behind each other, repeat nothing.                                       *)
LEMMA InvNothingLost == TeeInv => NothingLost
<1> SUFFICES ASSUME TeeInv, NEW p \in Ports, reader[p] = "open"
             PROVE  LET places == queued[p] \o buffer[p] \o got[p] IN
                      /\ IsInjective(places)
                      /\ spawned[p] \cap ToSet(places) = {}
                      /\ (spawned[p] \ {Err}) \cup ChunksOf(places) = 1 .. produced
  BY DEF NothingLost
<1> DEFINE front == queued[p] \o buffer[p]
           places == front \o got[p]
<1>1. Apart(p) /\ Everywhere(p) \ {Err} = 1 .. produced
  BY DEF TeeInv, PortInv
<1>2. /\ queued[p] \in Seq(Items) /\ buffer[p] \in Seq(Items)
      /\ got[p] \in Seq(Items) /\ IsInjective(buffer[p])
  BY PlacesHoldItems DEF TeeInv
<1>3. /\ front \in Seq(Items) /\ IsInjective(front)
      /\ ToSet(front) = ToSet(queued[p]) \cup ToSet(buffer[p])
  BY <1>1, <1>2, Concatenation DEF Apart
<1> HIDE DEF front
<1>4. /\ IsInjective(places)
      /\ ToSet(places) = ToSet(front) \cup ToSet(got[p])
  <2>1. ToSet(front) \cap ToSet(got[p]) = {} /\ IsInjective(got[p])
    BY <1>1, <1>3 DEF Apart
  <2> QED
    BY <1>2, <1>3, <2>1, Concatenation
<1> HIDE DEF places
<1>5. spawned[p] \cap ToSet(places) = {}
  BY <1>1, <1>3, <1>4 DEF Apart
<1>6. (spawned[p] \ {Err}) \cup ChunksOf(places) = 1 .. produced
  BY <1>1, <1>3, <1>4 DEF Everywhere, OnTheWay, ChunksOf
<1> QED
  BY <1>4, <1>5, <1>6 DEF places, front

(***************************************************************************)
(* However the senders overtake each other, every chunk is on the way to   *)
(* each port that is read, once.                                           *)
(***************************************************************************)
THEOREM TeeLosesNothing == Spec => []NothingLost
<1> QED
  BY InvNothingLost, TeeInvariant, PTL

(***************************************************************************)
(* A body that ends cleanly is whole, and so is every record: for sources  *)
(* of any length, broken or not, and clients that leave at any time.       *)
(***************************************************************************)
THEOREM TeeCleanEndIsWhole == Spec => []CleanEndIsWhole
<1>1. TeeInv => CleanEndIsWhole
  BY DEF TeeInv, PortInv, EndInv, CleanEndIsWhole, Ports
<1> QED
  BY <1>1, TeeInvariant, PTL

-----------------------------------------------------------------------------
(***************************************************************************)
(* The refinement: each step of the tee is a step of the relay or changes  *)
(* nothing the relay knows of.                                             *)
(***************************************************************************)

\* What the relay sees of the ports.
SeenBy == [p \in Ports |-> ChunksOf(got[p])]

(* At the start the relay is at its start. *)
LEMMA RelayStarts == Init => AsRelay!RelayInit
<1> SUFFICES ASSUME Init
             PROVE  AsRelay!RelayInit
  OBVIOUS
<1>1. \A p \in Ports : ChunksOf(got[p]) = {}
  BY EmptyQueue DEF Init, ChunksOf
<1> QED
  BY <1>1 DEF Init, AsRelay!RelayInit, Ports, AsRelay!Ports

(* A chunk that is read is one the relay delivers: it is new to the port. *)
LEMMA ReadChunkDelivers ==
  ASSUME TeeInv, NEW p \in Ports, ReadChunk(p)
  PROVE  AsRelay!Deliver(p)
<1>1. Take(p) /\ buffer[p] # <<Err>> /\ UNCHANGED <<task, queued, reader>>
  BY DEF ReadChunk
<1>2. PICK i \in Items : buffer[p] = <<i>> /\ ToSet(buffer[p]) = {i}
  BY <1>1, TakeMoves
<1>3. i # Err
  BY <1>1, <1>2
<1>4. /\ reader[p] = "open" /\ Apart(p)
      /\ \A q \in Ports : q # p => got'[q] = got[q]
      /\ ToSet(got'[p]) = ToSet(got[p]) \cup {i}
      /\ UNCHANGED <<produced, source>>
  BY <1>1, <1>2, TakeMoves
<1>5. i \in (1 .. produced) \ ChunksOf(got[p])
  <2>1. i \in Everywhere(p) /\ Everywhere(p) \ {Err} = 1 .. produced
    BY <1>2, <1>4 DEF TeeInv, PortInv, Everywhere, OnTheWay
  <2> QED
    BY <1>2, <1>3, <1>4, <2>1 DEF Apart, ChunksOf
<1>6. \A q \in Ports : ChunksOf(got'[q]) =
        IF q = p THEN ChunksOf(got[q]) \cup {i} ELSE ChunksOf(got[q])
  BY <1>3, <1>4 DEF ChunksOf
<1>7. SeenBy' = [SeenBy EXCEPT ![p] = @ \cup {i}]
  BY <1>6 DEF SeenBy
<1>8. i \in (1 .. produced) \ SeenBy[p]
  BY <1>5 DEF SeenBy
<1> QED
  BY <1>1, <1>4, <1>7, <1>8 DEF AsRelay!Deliver, SeenBy

(* The error is no chunk: the relay fails the body and shows it nothing. *)
LEMMA ReadErrorFails ==
  ASSUME TeeInv, NEW p \in Ports, ReadError(p)
  PROVE  AsRelay!Fail
<1>1. /\ Take(p) /\ buffer[p] = <<Err>>
      /\ reader' = [reader EXCEPT ![p] = "failed"]
  BY DEF ReadError, DropQueue
<1>2. ToSet(buffer[p]) = {Err}
  BY <1>1, OneElement, ChunksAssumption DEF Err, Items
<1>3. p = Body /\ source = "broken"
  BY <1>2 DEF TeeInv, ErrorInv, Everywhere, OnTheWay
<1>4. /\ reader[p] = "open"
      /\ \A q \in Ports : q # p => got'[q] = got[q]
      /\ ToSet(got'[p]) = ToSet(got[p]) \cup {Err}
      /\ UNCHANGED <<produced, source>>
  BY <1>1, <1>2, TakeMoves
<1>5. \A q \in Ports : ChunksOf(got'[q]) = ChunksOf(got[q])
  BY <1>4 DEF ChunksOf
<1>6. SeenBy' = SeenBy
  BY <1>5 DEF SeenBy
<1> QED
  BY <1>1, <1>3, <1>4, <1>6 DEF AsRelay!Fail, SeenBy

(* A reader that sees the end closes a port that has seen everything. *)
LEMMA ReadEndCloses ==
  ASSUME TeeInv, NEW p \in Ports, ReadEnd(p)
  PROVE  AsRelay!Close(p)
<1>1. /\ reader[p] = "open"
      /\ reader' = [reader EXCEPT ![p] = "ended"]
      /\ UNCHANGED <<produced, source, got>>
  BY DEF ReadEnd
<1>2. source = "ended" \/ (source = "broken" /\ p = Dup)
  BY EndIsWhole DEF TeeInv, TypeOK, Ports
<1>3. ChunksOf(got[p]) = 1 .. produced
  <2>1. Err \notin 1 .. produced
    BY DEF Err
  <2> QED
    BY <2>1, EndIsWhole DEF ChunksOf
<1>4. SeenBy[p] = 1 .. produced /\ SeenBy' = SeenBy
  BY <1>1, <1>3 DEF SeenBy
<1> QED
  BY <1>1, <1>2, <1>4 DEF AsRelay!Close, SeenBy

(* Every step of the tee is a step of the relay, or none. *)
LEMMA RelayStep ==
  TeeInv /\ [Next]_teeVars => [AsRelay!RelayNext]_(AsRelay!relayVars)
<1> SUFFICES ASSUME TeeInv, [Next]_teeVars
             PROVE  AsRelay!RelayNext \/ UNCHANGED AsRelay!relayVars
  OBVIOUS
<1> USE DEF AsRelay!RelayNext
<1>0. AsRelay!Ports = Ports
  BY DEF AsRelay!Ports, Ports
<1>1. CASE SourceChunk
  BY <1>1 DEF SourceChunk, AsRelay!Produce
<1>2. CASE SourceError
  BY <1>2 DEF SourceError, AsRelay!Break
<1>3. CASE SourceEnd
  <2>1. source = "open" => AsRelay!Finish
    BY <1>3 DEF SourceEnd, AsRelay!Finish
  <2>2. source # "open" => UNCHANGED AsRelay!relayVars
    BY <1>3 DEF SourceEnd, AsRelay!relayVars
  <2> QED
    BY <2>1, <2>2
<1>4. CASE ReaderLeaves
  BY <1>4 DEF ReaderLeaves, DropQueue, AsRelay!Leave
<1>5. ASSUME NEW p \in Ports, NEW item \in Items, SendStart(p, item)
      PROVE  UNCHANGED AsRelay!relayVars
  BY <1>5 DEF SendStart, AsRelay!relayVars
<1>6. ASSUME NEW p \in Ports, SendQueued(p)
      PROVE  UNCHANGED AsRelay!relayVars
  BY <1>6 DEF SendQueued, AsRelay!relayVars
<1>7. ASSUME NEW p \in Ports, ReadChunk(p)
      PROVE  AsRelay!RelayNext
  BY <1>0, <1>7, ReadChunkDelivers
<1>8. ASSUME NEW p \in Ports, ReadError(p)
      PROVE  AsRelay!RelayNext
  BY <1>8, ReadErrorFails
<1>9. ASSUME NEW p \in Ports, ReadEnd(p)
      PROVE  AsRelay!RelayNext
  BY <1>0, <1>9, ReadEndCloses
<1>10. CASE UNCHANGED teeVars
  BY <1>10 DEF teeVars, AsRelay!relayVars
<1> QED
  BY <1>1, <1>2, <1>3, <1>4, <1>5, <1>6, <1>7, <1>8, <1>9, <1>10 DEF Next

(***************************************************************************)
(* The tee keeps the relay's promise for sources of any length.            *)
(***************************************************************************)
THEOREM TeeImplementsRelay == Spec => ImplementsRelay
<1> QED
  BY RelayStarts, RelayStep, TeeInvariant, PTL
     DEF Spec, ImplementsRelay, AsRelay!RelaySpec

=============================================================================
