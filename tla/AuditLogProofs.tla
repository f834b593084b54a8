--------------------------- MODULE AuditLogProofs ---------------------------
(***************************************************************************)
(* Proofs about the log, for any number of entries, pieces, failing writes *)
(* and crashes, and any records: of the backends (AuditBackend), that they *)
(* implement Journal, of the layer that counts tokens on top of them       *)
(* (AuditLog), and of what it counts (TokenCount).                         *)
(***************************************************************************)
EXTENDS AuditLog, QueueLemmas, FiniteSetTheorems, TLAPS

-----------------------------------------------------------------------------
(***************************************************************************)
(* The inductive invariant: where the File's operation stands tells which  *)
(* task has the lock, how much of its record is handed over, and what the  *)
(* open line holds - unless a write that failed or a crash has spoiled it. *)
(***************************************************************************)

\* The first n pieces of the record of e, as they are written.
Prefix(e, n) == [k \in 1 .. n |-> Fragment(e, k, FALSE)]

\* A task in write_all has more to hand over, and what it has handed over
\* last is what the File is about.
TaskInv ==
  \A e \in Entries :
    /\ task[e] = "none" => sent[e] = 0
    /\ task[e] = "writing" => sent[e] < Pieces[e]
    /\ task[e] = "writing" /\ sent[e] > 0 =>
         op.state # "none" /\ op.entry = e /\ op.piece = sent[e]

\* The operation is about the task that has the lock, until the record's
\* last piece; that task has returned.
OpInv ==
  op.state # "none" =>
    /\ kind = "text"
    /\ op.piece \in 1 .. Pieces[op.entry]
    /\ op.piece < Pieces[op.entry] =>
         /\ queue # <<>> /\ Head(queue) = op.entry
         /\ task[op.entry] = "writing" /\ sent[op.entry] = op.piece
    /\ op.piece = Pieces[op.entry] => task[op.entry] = "logged"

\* The rows of a database are never cut.
DatabaseInv == kind = "database" => op.state = "none" /\ tail = <<>>

\* A whole line is that of an entry whose task had returned.
LineInv ==
  kind = "text" =>
    \A i \in DOMAIN lines, e \in Entries :
      lines[i] = Record(e) => task[e] \in {"logged", "lost"}

\* The open line holds the beginning of the record that is being written.
Clean ==
  tail = CASE op.state = "running" -> Prefix(op.entry, op.piece - 1)
           [] op.state = "written" /\ op.piece < Pieces[op.entry] ->
                Prefix(op.entry, op.piece)
           [] OTHER -> <<>>

Broken == {i \in DOMAIN lines : ~ IsWhole(lines[i])}

\* An open line that is spoiled has been paid for, like one that is ended.
CountInv == Cardinality(Broken) + (IF Clean THEN 0 ELSE 1) <= faults + crashes

BackendInv ==
  BackendTypeOK /\ TaskInv /\ OpInv /\ DatabaseInv /\ LineInv /\ CountInv

\* What a line is made of.
Fragments == [entry : Entries, piece : Nat \ {0}, cut : BOOLEAN]

-----------------------------------------------------------------------------
(***************************************************************************)
(* Records, and the lines that are none.                                   *)
(***************************************************************************)

(* Pieces are counted from one. *)
LEMMA PiecesPositive == \A e \in Entries : Pieces[e] \in Nat /\ Pieces[e] > 0
  BY PiecesAssumption

(* The beginning of a record is a line of that many fragments. *)
LEMMA PrefixIsLine ==
  ASSUME NEW e \in Entries, NEW n \in Nat
  PROVE  /\ Prefix(e, n) \in Seq(Fragments) /\ Len(Prefix(e, n)) = n
         /\ \A k \in 1 .. n : Prefix(e, n)[k] = Fragment(e, k, FALSE)
<1> DEFINE p == Prefix(e, n)
<1>1. \A k \in 1 .. n : Fragment(e, k, FALSE) \in Fragments
  BY DEF Fragment, Fragments
<1>2. p \in [1 .. n -> Fragments] /\ \A k \in 1 .. n : p[k] = Fragment(e, k, FALSE)
  BY <1>1 DEF Prefix
<1> HIDE DEF p
<1>3. p \in Seq(Fragments)
  BY <1>2
<1>4. DOMAIN p = 1 .. n /\ Len(p) \in Nat /\ DOMAIN p = 1 .. Len(p)
  BY <1>2, <1>3, LenProperties
<1>5. Len(p) = n
  BY <1>4
<1> QED
  BY <1>2, <1>3, <1>5 DEF p

(* The beginnings of a record grow by a piece at a time. *)
LEMMA PrefixGrows ==
  ASSUME NEW e \in Entries, NEW n \in Nat
  PROVE  /\ Fragment(e, n + 1, FALSE) \in Fragments
         /\ Prefix(e, n + 1) = Append(Prefix(e, n), Fragment(e, n + 1, FALSE))
<1> DEFINE p == Prefix(e, n)
           x == Fragment(e, n + 1, FALSE)
           q == Prefix(e, n + 1)
<1>1. x \in Fragments
  BY DEF Fragment, Fragments
<1>2. p \in Seq(Fragments) /\ Len(p) = n /\ \A k \in 1 .. n : p[k] = Fragment(e, k, FALSE)
  BY PrefixIsLine
<1>3. /\ q \in Seq(Fragments) /\ Len(q) = n + 1
      /\ \A k \in 1 .. n : q[k] = Fragment(e, k, FALSE)
      /\ q[n + 1] = x
  <2>1. n + 1 \in Nat /\ n + 1 \in 1 .. n + 1 /\ 1 .. n \subseteq 1 .. n + 1
    OBVIOUS
  <2>2. /\ q \in Seq(Fragments) /\ Len(q) = n + 1
        /\ \A k \in 1 .. n + 1 : q[k] = Fragment(e, k, FALSE)
    BY <2>1, PrefixIsLine
  <2> QED
    BY <2>1, <2>2
<1> HIDE DEF p, q, x
<1>4. /\ Append(p, x) \in Seq(Fragments) /\ Len(Append(p, x)) = n + 1
      /\ \A k \in 1 .. n : Append(p, x)[k] = p[k]
      /\ Append(p, x)[n + 1] = x
  BY <1>1, <1>2, AppendProperties
<1>5. \A k \in 1 .. n + 1 : Append(p, x)[k] = q[k]
  <2> SUFFICES ASSUME NEW k \in 1 .. n + 1
               PROVE  Append(p, x)[k] = q[k]
    OBVIOUS
  <2>1. CASE k = n + 1
    BY <2>1, <1>3, <1>4
  <2>2. CASE k # n + 1
    <3>1. k \in 1 .. n
      BY <2>2
    <3> QED
      BY <3>1, <1>2, <1>3, <1>4
  <2> QED
    BY <2>1, <2>2
<1>6. Append(p, x) = q
  BY <1>3, <1>4, <1>5, SeqEqual
<1> QED
  BY <1>1, <1>6 DEF p, q, x

(* The beginning without a piece is empty, and that with all is the record, *)
(* which is whole.                                                         *)
LEMMA RecordIsWhole ==
  ASSUME NEW e \in Entries
  PROVE  /\ Prefix(e, 0) = <<>>
         /\ Prefix(e, Pieces[e]) = Record(e)
         /\ Record(e) \in Seq(Fragments)
         /\ IsWhole(Record(e))
<1>1. Prefix(e, 0) = <<>>
  <2>1. Prefix(e, 0) \in Seq(Fragments) /\ Len(Prefix(e, 0)) = 0
    BY PrefixIsLine
  <2> QED
    BY <2>1, EmptySeq
<1>2. Prefix(e, Pieces[e]) = Record(e)
  BY DEF Prefix, Record
<1>3. Record(e) \in Seq(Fragments)
  BY <1>2, PiecesPositive, PrefixIsLine
<1>4. Record(e)[1].entry = e
  BY PiecesPositive DEF Record, Fragment
<1> QED
  BY <1>1, <1>2, <1>3, <1>4 DEF IsWhole

(* A line that is a record ends with a piece of that record's entry. *)
LEMMA LastPieceOfRecord ==
  ASSUME NEW line \in Seq(Fragments), NEW e \in Entries, NEW f \in Entries,
         NEW n \in Nat \ {0}, Append(line, Fragment(e, n, FALSE)) = Record(f)
  PROVE  e = f
<1> DEFINE x == Fragment(e, n, FALSE)
<1>1. x \in Fragments /\ x.entry = e
  BY DEF Fragment, Fragments
<1>2. Len(Append(line, x)) = Len(line) + 1 /\ Append(line, x)[Len(line) + 1] = x
  BY <1>1, AppendProperties
<1>3. Record(f) \in Seq(Fragments) /\ Len(Record(f)) = Pieces[f]
  BY RecordIsWhole, PiecesPositive, PrefixIsLine
<1>4. Pieces[f] \in Nat /\ Pieces[f] > 0
  BY PiecesPositive
<1>5. Record(f)[Pieces[f]].entry = f
  BY <1>4 DEF Record, Fragment
<1> QED
  BY <1>1, <1>2, <1>3, <1>5

(* A new line makes one more that is broken at most, and none if it is     *)
(* whole.                                                                  *)
LEMMA NewLine ==
  ASSUME lines \in Seq(Seq(Fragments)), NEW line \in Seq(Fragments),
         lines' = Append(lines, line)
  PROVE  /\ lines' \in Seq(Seq(Fragments))
         /\ Cardinality(Broken) \in Nat /\ Cardinality(Broken') \in Nat
         /\ Cardinality(Broken') <= Cardinality(Broken) + 1
         /\ IsWhole(line) => Broken' = Broken
         /\ \A i \in DOMAIN lines' :
              (i \in DOMAIN lines /\ lines'[i] = lines[i]) \/ lines'[i] = line
<1> DEFINE n == Len(lines)
<1>1. /\ lines' \in Seq(Seq(Fragments)) /\ Len(lines') = n + 1
      /\ \A i \in 1 .. n : lines'[i] = lines[i]
      /\ lines'[n + 1] = line
  BY AppendProperties
<1>2. DOMAIN lines = 1 .. n /\ n \in Nat
  BY LenProperties
<1>3. DOMAIN lines' = 1 .. n + 1
  BY <1>1, LenProperties
<1> HIDE DEF n
<1>4. IsFiniteSet(Broken) /\ Cardinality(Broken) \in Nat
  <2>1. IsFiniteSet(1 .. n) /\ Broken \subseteq 1 .. n
    BY <1>2, FS_Interval DEF Broken
  <2> QED
    BY <2>1, FS_Subset, FS_CardinalityType
<1>5. Broken' \subseteq Broken \cup {n + 1}
  BY <1>1, <1>2, <1>3 DEF Broken
<1>6. IsWhole(line) => Broken' = Broken
  BY <1>1, <1>2, <1>3 DEF Broken
<1>7. /\ IsFiniteSet(Broken \cup {n + 1})
      /\ Cardinality(Broken \cup {n + 1}) <= Cardinality(Broken) + 1
      /\ Cardinality(Broken \cup {n + 1}) \in Nat
  <2>1. /\ IsFiniteSet(Broken \cup {n + 1})
        /\ Cardinality(Broken \cup {n + 1}) =
             IF n + 1 \in Broken THEN Cardinality(Broken) ELSE Cardinality(Broken) + 1
    BY <1>4, FS_AddElement
  <2> QED
    BY <1>4, <2>1
<1>8. IsFiniteSet(Broken') /\ Cardinality(Broken') <= Cardinality(Broken \cup {n + 1})
  BY <1>5, <1>7, FS_Subset
<1>9. Cardinality(Broken') \in Nat
  BY <1>8, FS_CardinalityType
<1>10. \A i \in DOMAIN lines' :
         (i \in DOMAIN lines /\ lines'[i] = lines[i]) \/ lines'[i] = line
  BY <1>1, <1>2, <1>3
<1> QED
  BY <1>1, <1>4, <1>6, <1>7, <1>8, <1>9, <1>10

(* The count is a number. *)
LEMMA BrokenCounted ==
  ASSUME BackendTypeOK
  PROVE  Cardinality(Broken) \in Nat /\ faults \in Nat /\ crashes \in Nat
<1>1. lines \in Seq(Seq(Fragments)) /\ faults \in Nat /\ crashes \in Nat
  BY BoundsAssumption DEF BackendTypeOK, Fragments
<1>2. DOMAIN lines = 1 .. Len(lines) /\ Len(lines) \in Nat
  BY <1>1, LenProperties
<1>3. IsFiniteSet(1 .. Len(lines)) /\ Broken \subseteq 1 .. Len(lines)
  BY <1>2, FS_Interval DEF Broken
<1> QED
  BY <1>1, <1>3, FS_Subset, FS_CardinalityType

(* The File's operation has an entry and a piece, or there is none. *)
LEMMA OpIsTyped ==
  ASSUME BackendInv
  PROVE  /\ op.state \in {"none", "running", "written", "failed"}
         /\ op.state = "none" <=> op = NoOp
         /\ op.state # "none" =>
              /\ op \in [state : {"running", "written", "failed"},
                         entry : Entries, piece : Nat \ {0}]
              /\ op.entry \in Entries /\ op.piece \in Nat \ {0}
              /\ op.piece <= Pieces[op.entry] /\ Pieces[op.entry] \in Nat
  BY PiecesPositive DEF BackendInv, BackendTypeOK, NoOp, OpInv

(* The task that has the lock writes to a file, and leaves the queue.      *)
LEMMA HolderLeaves ==
  ASSUME BackendInv, NEW e \in Entries, Holds(e)
  PROVE  /\ kind = "text" /\ task[e] = "writing" /\ queue # <<>> /\ Head(queue) = e
         /\ Tail(queue) \in Seq(Entries) /\ IsInjective(Tail(queue))
         /\ ToSet(Tail(queue)) = ToSet(queue) \ {e}
<1>1. queue \in Seq(Entries) /\ IsInjective(queue) /\ queue # <<>> /\ Head(queue) = e
  BY DEF BackendInv, BackendTypeOK, Holds
<1>2. /\ e \in ToSet(queue)
      /\ Tail(queue) \in Seq(Entries) /\ IsInjective(Tail(queue))
      /\ ToSet(Tail(queue)) = ToSet(queue) \ {e}
  BY <1>1, LeaveFront
<1> QED
  BY <1>1, <1>2 DEF BackendInv, BackendTypeOK, Holds

-----------------------------------------------------------------------------
(***************************************************************************)
(* One lemma per action: the invariant is kept.                            *)
(***************************************************************************)

(* At the start there is nothing in the file, and nothing was paid. *)
LEMMA InitEstablishes == BackendInit => BackendInv
<1> SUFFICES ASSUME BackendInit
             PROVE  BackendInv
  OBVIOUS
<1>1. /\ op = NoOp /\ op.state = "none" /\ tail = <<>> /\ lines = <<>> /\ queue = <<>>
      /\ faults = 0 /\ crashes = 0
      /\ \A e \in Entries : task[e] = "none" /\ sent[e] = 0
  BY DEF BackendInit, NoOp
<1>2. BackendTypeOK
  BY <1>1, EmptyQueue, EmptySeq, BoundsAssumption, PiecesPositive
     DEF BackendInit, BackendTypeOK, Tasks
<1>3. Broken = {}
  BY <1>1 DEF Broken
<1>4. CountInv
  BY <1>1, <1>3, FS_EmptySet DEF CountInv, Clean
<1> QED
  BY <1>1, <1>2, <1>4
     DEF BackendInv, TaskInv, OpInv, DatabaseInv, LineInv

(* A new task joins the queue, and has handed over nothing. *)
LEMMA LogKeeps ==
  ASSUME BackendInv, NEW e \in Entries, Log(e)
  PROVE  BackendInv'
<1>1. /\ task[e] = "none" /\ task' = [task EXCEPT ![e] = "writing"]
      /\ queue' = IF kind = "text" THEN Append(queue, e) ELSE queue
      /\ UNCHANGED <<kind, sent, op, lines, tail, faults, crashes>>
  BY DEF Log, SetTask, dataVars
<1>2. /\ BackendTypeOK /\ TaskInv /\ OpInv /\ DatabaseInv /\ LineInv /\ CountInv
      /\ queue \in Seq(Entries) /\ IsInjective(queue)
      /\ task \in [Entries -> Tasks]
      /\ ToSet(queue) = {f \in Entries : kind = "text" /\ task[f] = "writing"}
  BY DEF BackendInv, BackendTypeOK
<1>3. \A f \in Entries : task'[f] = IF f = e THEN "writing" ELSE task[f]
  BY <1>1, <1>2
<1>4. e \notin ToSet(queue)
  BY <1>1, <1>2
<1>5. /\ Append(queue, e) \in Seq(Entries) /\ IsInjective(Append(queue, e))
      /\ ToSet(Append(queue, e)) = ToSet(queue) \cup {e}
  BY <1>2, <1>4, JoinBack
<1>6. BackendTypeOK'
  <2>1. queue' \in Seq(Entries) /\ IsInjective(queue')
    BY <1>1, <1>2, <1>5
  <2>2. ToSet(queue') = {f \in Entries : kind = "text" /\ task'[f] = "writing"}
    BY <1>1, <1>2, <1>3, <1>5
  <2>3. task' \in [Entries -> Tasks]
    BY <1>1, <1>2 DEF Tasks
  <2> QED
    BY <1>1, <1>2, <2>1, <2>2, <2>3 DEF BackendTypeOK
<1>7. TaskInv'
  BY <1>1, <1>2, <1>3, PiecesPositive DEF TaskInv
<1>8. OpInv'
  <2>1. queue # <<>> => queue' # <<>> /\ Head(queue') = Head(queue)
    BY <1>1, <1>2, <1>5, AppendProperties, HeadTailProperties, EmptySeq
  <2> QED
    BY <1>1, <1>2, <1>3, <2>1, OpIsTyped DEF OpInv
<1>9. LineInv'
  BY <1>1, <1>2, <1>3 DEF LineInv
<1>10. DatabaseInv' /\ CountInv'
  BY <1>1, <1>2 DEF DatabaseInv, CountInv, Clean, Broken
<1> QED
  BY <1>6, <1>7, <1>8, <1>9, <1>10 DEF BackendInv

(* The File takes the holder's next piece: its first, or the one after     *)
(* that the File has written.  The open line is as clean as it was.        *)
LEMMA HandOverIsClean ==
  ASSUME BackendInv, NEW e \in Entries, HandOver(e)
  PROVE  Clean' = Clean
<1>1. /\ Holds(e) /\ op.state \in {"none", "written"}
      /\ op' = [state |-> "running", entry |-> e, piece |-> sent[e] + 1]
      /\ sent' = [sent EXCEPT ![e] = @ + 1]
      /\ IF sent[e] + 1 = Pieces[e]
         THEN task' = [task EXCEPT ![e] = "logged"] /\ queue' = Tail(queue)
         ELSE UNCHANGED <<task, queue>>
      /\ UNCHANGED <<kind, lines, tail, faults, crashes>>
  BY DEF HandOver, Take, SetTask, dataVars
<1>2. /\ TaskInv /\ OpInv /\ LineInv /\ CountInv
      /\ BackendTypeOK /\ task \in [Entries -> Tasks]
      /\ \A f \in Entries : sent[f] \in Nat /\ sent[f] <= Pieces[f] /\ Pieces[f] \in Nat
  BY PiecesPositive DEF BackendInv, BackendTypeOK
<1>3. /\ kind = "text" /\ task[e] = "writing" /\ queue # <<>> /\ Head(queue) = e
      /\ Tail(queue) \in Seq(Entries) /\ IsInjective(Tail(queue))
      /\ ToSet(Tail(queue)) = ToSet(queue) \ {e}
  BY <1>1, HolderLeaves
<1>4. sent[e] < Pieces[e]
  BY <1>2, <1>3 DEF TaskInv
<1>5. op.state = "none" => sent[e] = 0
  BY <1>2, <1>3 DEF TaskInv
<1>6. op.state = "written" =>
        /\ op.piece < Pieces[op.entry] => op.entry = e /\ sent[e] = op.piece
        /\ ~ (op.piece < Pieces[op.entry]) => sent[e] = 0
  <2> SUFFICES ASSUME op.state = "written"
               PROVE  /\ op.piece < Pieces[op.entry] => op.entry = e /\ sent[e] = op.piece
                      /\ ~ (op.piece < Pieces[op.entry]) => sent[e] = 0
    OBVIOUS
  <2>1. op.piece < Pieces[op.entry] => op.entry = e /\ sent[e] = op.piece
    BY <1>2, <1>3 DEF OpInv
  <2>2. ASSUME ~ (op.piece < Pieces[op.entry]), sent[e] > 0
        PROVE  FALSE
    <3>1. op.entry = e /\ op.piece = sent[e]
      BY <1>2, <1>3, <2>2 DEF TaskInv
    <3> QED
      BY <1>4, <2>2, <3>1
  <2> QED
    BY <1>2, <2>1, <2>2
<1>7. /\ op'.state = "running" /\ op'.entry = e /\ op'.piece = sent[e] + 1
      /\ op' \in [state : {"running", "written", "failed"},
                  entry : Entries, piece : Nat \ {0}]
  BY <1>1, <1>2
<1> QED
  <2>1. Clean' = (tail = Prefix(e, sent[e]))
    <3>1. (sent[e] + 1) - 1 = sent[e]
      BY <1>2
    <3> QED
      BY <3>1, <1>1, <1>7 DEF Clean
  <2>2. CASE op.state = "none"
    <3>1. Clean = (tail = <<>>)
      BY <2>2 DEF Clean
    <3> QED
      BY <2>1, <2>2, <3>1, <1>5, RecordIsWhole
  <2>3. CASE op.state = "written" /\ op.piece < Pieces[op.entry]
    <3>1. Clean = (tail = Prefix(op.entry, op.piece))
      BY <2>3 DEF Clean
    <3> QED
      BY <2>1, <2>3, <3>1, <1>6
  <2>4. CASE op.state = "written" /\ ~ (op.piece < Pieces[op.entry])
    <3>1. Clean = (tail = <<>>)
      BY <2>4 DEF Clean
    <3> QED
      BY <2>1, <2>4, <3>1, <1>6, RecordIsWhole
  <2> QED
    BY <1>1, <2>2, <2>3, <2>4

(* The task that hands over a piece has the lock until its last. *)
LEMMA HandOverKeeps ==
  ASSUME BackendInv, NEW e \in Entries, HandOver(e)
  PROVE  BackendInv'
<1>1. /\ Holds(e) /\ op.state \in {"none", "written"}
      /\ op' = [state |-> "running", entry |-> e, piece |-> sent[e] + 1]
      /\ sent' = [sent EXCEPT ![e] = @ + 1]
      /\ IF sent[e] + 1 = Pieces[e]
         THEN task' = [task EXCEPT ![e] = "logged"] /\ queue' = Tail(queue)
         ELSE UNCHANGED <<task, queue>>
      /\ UNCHANGED <<kind, lines, tail, faults, crashes>>
  BY DEF HandOver, Take, SetTask, dataVars
<1>2. /\ TaskInv /\ OpInv /\ LineInv /\ CountInv
      /\ BackendTypeOK /\ task \in [Entries -> Tasks]
      /\ \A f \in Entries : sent[f] \in Nat /\ sent[f] <= Pieces[f] /\ Pieces[f] \in Nat
  BY PiecesPositive DEF BackendInv, BackendTypeOK
<1>3. /\ kind = "text" /\ task[e] = "writing" /\ queue # <<>> /\ Head(queue) = e
      /\ Tail(queue) \in Seq(Entries) /\ IsInjective(Tail(queue))
      /\ ToSet(Tail(queue)) = ToSet(queue) \ {e}
  BY <1>1, HolderLeaves
<1>4. sent[e] < Pieces[e]
  BY <1>2, <1>3 DEF TaskInv
<1>5. \A f \in Entries : f # e /\ task[f] = "writing" => sent[f] = 0
  <2> SUFFICES ASSUME NEW f \in Entries, f # e, task[f] = "writing", sent[f] > 0
               PROVE  FALSE
    BY <1>2
  <2>1. op.state # "none" /\ op.entry = f /\ op.piece = sent[f] /\ sent[f] < Pieces[f]
    BY <1>2 DEF TaskInv
  <2> QED
    BY <1>2, <1>3, <2>1 DEF OpInv
<1>6. \A f \in Entries :
        /\ sent'[f] = IF f = e THEN sent[e] + 1 ELSE sent[f]
        /\ task'[f] = IF f = e /\ sent[e] + 1 = Pieces[e] THEN "logged" ELSE task[f]
  <2>1. task' \in [Entries -> Tasks] /\ \A f \in Entries :
          task'[f] = IF f = e /\ sent[e] + 1 = Pieces[e] THEN "logged" ELSE task[f]
    BY <1>1, <1>2 DEF Tasks
  <2>2. \A f \in Entries : sent'[f] = IF f = e THEN sent[e] + 1 ELSE sent[f]
    BY <1>1, <1>2 DEF BackendTypeOK
  <2> QED
    BY <2>1, <2>2
<1>7. /\ op'.state = "running" /\ op'.entry = e /\ op'.piece = sent[e] + 1
      /\ op' \in [state : {"running", "written", "failed"},
                  entry : Entries, piece : Nat \ {0}]
  BY <1>1, <1>2
<1>8. BackendTypeOK'
  <2>1. /\ queue' \in Seq(Entries) /\ IsInjective(queue')
        /\ ToSet(queue') = {f \in Entries : kind = "text" /\ task'[f] = "writing"}
    <3>1. CASE sent[e] + 1 = Pieces[e]
      <4>1. queue' = Tail(queue)
        BY <1>1, <3>1
      <4>2. {f \in Entries : kind = "text" /\ task'[f] = "writing"} =
              {f \in Entries : kind = "text" /\ task[f] = "writing"} \ {e}
        BY <1>6, <3>1
      <4> QED
        BY <1>2, <1>3, <4>1, <4>2 DEF BackendTypeOK
    <3>2. CASE sent[e] + 1 # Pieces[e]
      BY <1>1, <1>2, <3>2 DEF BackendTypeOK
    <3> QED
      BY <3>1, <3>2
  <2>2. task' \in [Entries -> Tasks]
    BY <1>1, <1>2 DEF Tasks
  <2>3. sent' \in [Entries -> Nat] /\ \A f \in Entries : sent'[f] <= Pieces[f]
    BY <1>1, <1>2, <1>4, <1>6 DEF BackendTypeOK
  <2> QED
    BY <1>1, <1>2, <1>7, <2>1, <2>2, <2>3 DEF BackendTypeOK
<1>9. TaskInv'
  <2> SUFFICES ASSUME NEW f \in Entries
               PROVE  /\ task'[f] = "none" => sent'[f] = 0
                      /\ task'[f] = "writing" => sent'[f] < Pieces[f]
                      /\ task'[f] = "writing" /\ sent'[f] > 0 =>
                           op'.state # "none" /\ op'.entry = f /\ op'.piece = sent'[f]
    BY DEF TaskInv
  <2>1. CASE f = e
    BY <2>1, <1>2, <1>3, <1>4, <1>6, <1>7
  <2>2. CASE f # e
    BY <2>2, <1>2, <1>5, <1>6 DEF TaskInv
  <2> QED
    BY <2>1, <2>2
<1>10. OpInv'
  <2>1. sent[e] + 1 \in 1 .. Pieces[e]
    BY <1>2, <1>4
  <2>2. CASE sent[e] + 1 = Pieces[e]
    BY <2>1, <2>2, <1>1, <1>2, <1>3, <1>6, <1>7 DEF OpInv
  <2>3. CASE sent[e] + 1 < Pieces[e]
    BY <2>1, <2>3, <1>1, <1>2, <1>3, <1>6, <1>7 DEF OpInv
  <2> QED
    BY <2>1, <2>2, <2>3, <1>2
<1>11. LineInv'
  BY <1>1, <1>2, <1>6 DEF LineInv
<1>12. DatabaseInv'
  BY <1>1, <1>3 DEF DatabaseInv
<1>13. Clean' = Clean
  BY HandOverIsClean
<1>14. CountInv'
  <2>1. Broken' = Broken /\ UNCHANGED <<faults, crashes>>
    BY <1>1 DEF Broken
  <2> QED
    BY <1>2, <1>13, <2>1 DEF CountInv
<1> QED
  BY <1>8, <1>9, <1>10, <1>11, <1>12, <1>14 DEF BackendInv

(* The holder is told of the failure, its own or another's: it had not     *)
(* handed over its last piece, so that no line is its record.              *)
LEMMA ReportKeeps ==
  ASSUME BackendInv, NEW e \in Entries, Report(e)
  PROVE  BackendInv'
<1>1. /\ Holds(e) /\ op.state = "failed" /\ op' = NoOp /\ op'.state = "none"
      /\ task' = [task EXCEPT ![e] = "reported"]
      /\ queue' = Tail(queue)
      /\ UNCHANGED <<kind, sent, lines, tail, faults, crashes>>
  BY DEF Report, SetTask, dataVars, NoOp
<1>2. /\ TaskInv /\ OpInv /\ LineInv /\ CountInv
      /\ BackendTypeOK /\ task \in [Entries -> Tasks]
      /\ \A f \in Entries : sent[f] \in Nat /\ sent[f] <= Pieces[f] /\ Pieces[f] \in Nat
  BY PiecesPositive DEF BackendInv, BackendTypeOK
<1>3. /\ kind = "text" /\ task[e] = "writing" /\ queue # <<>> /\ Head(queue) = e
      /\ Tail(queue) \in Seq(Entries) /\ IsInjective(Tail(queue))
      /\ ToSet(Tail(queue)) = ToSet(queue) \ {e}
  BY <1>1, HolderLeaves
<1>4. \A f \in Entries : task'[f] = IF f = e THEN "reported" ELSE task[f]
  BY <1>1, <1>2
<1>5. \A f \in Entries : f # e /\ task[f] = "writing" => sent[f] = 0
  <2> SUFFICES ASSUME NEW f \in Entries, f # e, task[f] = "writing", sent[f] > 0
               PROVE  FALSE
    BY <1>2
  <2>1. op.state # "none" /\ op.entry = f /\ op.piece = sent[f] /\ sent[f] < Pieces[f]
    BY <1>2 DEF TaskInv
  <2> QED
    BY <1>2, <1>3, <2>1 DEF OpInv
<1>6. BackendTypeOK'
  <2>1. ToSet(queue') = {f \in Entries : kind = "text" /\ task'[f] = "writing"}
    BY <1>1, <1>2, <1>3, <1>4 DEF BackendTypeOK
  <2>2. task' \in [Entries -> Tasks]
    BY <1>1, <1>2 DEF Tasks
  <2> QED
    BY <1>1, <1>2, <1>3, <2>1, <2>2 DEF BackendTypeOK
<1>7. TaskInv'
  BY <1>1, <1>2, <1>4, <1>5 DEF TaskInv
<1>8. OpInv' /\ DatabaseInv'
  BY <1>1, <1>3 DEF OpInv, DatabaseInv
<1>9. LineInv'
  BY <1>1, <1>2, <1>3, <1>4 DEF LineInv
<1>10. CountInv'
  <2>1. Broken' = Broken /\ Clean' = Clean
    BY <1>1 DEF Broken, Clean
  <2> QED
    BY <1>1, <1>2, <2>1 DEF CountInv
<1> QED
  BY <1>6, <1>7, <1>8, <1>9, <1>10 DEF BackendInv

(* On a clean line, a piece is the next of its record. *)
LEMMA CleanLineGrows ==
  ASSUME BackendInv, op.state = "running", Clean
  PROVE  Append(tail, Fragment(op.entry, op.piece, FALSE)) = Prefix(op.entry, op.piece)
<1> DEFINE e == op.entry
           n == op.piece
<1>1. e \in Entries /\ n \in Nat \ {0}
  BY OpIsTyped
<1>2. tail = Prefix(e, n - 1)
  BY DEF Clean
<1>3. n - 1 \in Nat /\ (n - 1) + 1 = n
  BY <1>1
<1>4. Prefix(e, (n - 1) + 1) = Append(Prefix(e, n - 1), Fragment(e, (n - 1) + 1, FALSE))
  BY <1>1, <1>3, PrefixGrows
<1> QED
  BY <1>2, <1>3, <1>4

(***************************************************************************)
(* A piece is written.  On a clean line it is the next of its record, and  *)
(* the last makes the line whole; a line that was spoiled ends broken.     *)
(***************************************************************************)
LEMMA PieceWrittenKeeps == BackendInv /\ PieceWritten => BackendInv'
<1> SUFFICES ASSUME BackendInv, PieceWritten
             PROVE  BackendInv'
  OBVIOUS
<1> DEFINE e == op.entry
           n == op.piece
           x == Fragment(e, n, FALSE)
           line == Append(tail, x)
<1>1. /\ op.state = "running" /\ op' = [op EXCEPT !.state = "written"]
      /\ IF n = Pieces[e]
         THEN lines' = Append(lines, line) /\ tail' = <<>>
         ELSE tail' = line /\ UNCHANGED lines
      /\ UNCHANGED <<kind, task, queue, sent, faults, crashes>>
  BY DEF PieceWritten
<1>2. /\ TaskInv /\ OpInv /\ LineInv /\ CountInv /\ BackendTypeOK
      /\ tail \in Seq(Fragments) /\ lines \in Seq(Seq(Fragments))
  BY DEF BackendInv, BackendTypeOK, Fragments
<1>3. /\ e \in Entries /\ n \in Nat \ {0} /\ n <= Pieces[e] /\ Pieces[e] \in Nat
      /\ op \in [state : {"running", "written", "failed"},
                 entry : Entries, piece : Nat \ {0}]
  BY <1>1, OpIsTyped
<1>4. /\ op'.state = "written" /\ op'.entry = e /\ op'.piece = n
      /\ op' \in [state : {"running", "written", "failed"},
                  entry : Entries, piece : Nat \ {0}]
  BY <1>1, <1>3
<1>5. kind = "text" /\ (n = Pieces[e] => task[e] = "logged")
  BY <1>1, <1>2 DEF OpInv
<1>6. x \in Fragments /\ line \in Seq(Fragments)
  <2>1. x \in Fragments
    BY <1>3 DEF Fragment, Fragments
  <2> HIDE DEF x
  <2> QED
    BY <1>2, <2>1, AppendProperties
<1>7. Clean => line = Prefix(e, n)
  BY <1>1, CleanLineGrows
<1>8. n = Pieces[e] /\ Clean => IsWhole(line)
  BY <1>3, <1>7, RecordIsWhole
<1>9. \A f \in Entries : line = Record(f) => f = e
  BY <1>2, <1>3, LastPieceOfRecord
<1> HIDE DEF e, n, x, line
<1>10. TaskInv' /\ OpInv' /\ DatabaseInv'
  BY <1>1, <1>2, <1>4, <1>5 DEF TaskInv, OpInv, DatabaseInv, e, n
<1>11. CASE n = Pieces[e]
  <2>1. lines' = Append(lines, line) /\ tail' = <<>>
    BY <1>1, <1>11
  <2>2. /\ lines' \in Seq(Seq(Fragments))
        /\ Cardinality(Broken) \in Nat /\ Cardinality(Broken') \in Nat
        /\ Cardinality(Broken') <= Cardinality(Broken) + 1
        /\ IsWhole(line) => Broken' = Broken
        /\ \A i \in DOMAIN lines' :
             (i \in DOMAIN lines /\ lines'[i] = lines[i]) \/ lines'[i] = line
    BY <1>2, <1>6, <2>1, NewLine
  <2>3. BackendTypeOK'
    <3>1. tail' \in Seq(Fragments)
      BY <2>1, EmptySeq
    <3> QED
      BY <1>1, <1>2, <1>4, <2>2, <3>1 DEF BackendTypeOK, Fragments
  <2>4. Clean'
    BY <1>4, <1>11, <2>1, <1>3 DEF Clean
  <2>5. LineInv'
    BY <1>1, <1>2, <1>5, <1>9, <1>11, <2>2 DEF LineInv
  <2>6. CountInv'
    BY <1>1, <1>2, <1>8, <1>11, <2>2, <2>4, BrokenCounted DEF CountInv
  <2> QED
    BY <1>10, <2>3, <2>5, <2>6 DEF BackendInv
<1>12. CASE n # Pieces[e]
  <2>1. tail' = line /\ lines' = lines
    BY <1>1, <1>12
  <2>2. BackendTypeOK'
    BY <1>1, <1>2, <1>4, <1>6, <2>1 DEF BackendTypeOK, Fragments
  <2>3. Clean => Clean'
    <3>1. n < Pieces[e]
      BY <1>3, <1>12
    <3> QED
      BY <1>4, <1>7, <2>1, <3>1 DEF Clean
  <2>4. LineInv'
    BY <1>1, <1>2, <2>1 DEF LineInv
  <2>5. CountInv'
    <3>1. Broken' = Broken
      BY <2>1 DEF Broken
    <3> QED
      BY <1>1, <1>2, <2>3, <3>1, BrokenCounted DEF CountInv
  <2> QED
    BY <1>10, <2>2, <2>4, <2>5 DEF BackendInv
<1> QED
  BY <1>11, <1>12

(* What is left of a piece that was cut short is a line, or part of one. *)
LEMMA CutShortIsTyped ==
  ASSUME BackendInv, op.state = "running", CutShort
  PROVE  tail' \in Seq(Fragments) /\ lines' = lines
<1>1. tail \in Seq(Fragments)
  BY DEF BackendInv, BackendTypeOK, Fragments
<1>2. Fragment(op.entry, op.piece, TRUE) \in Fragments
  BY OpIsTyped DEF Fragment, Fragments
<1> DEFINE f == Fragment(op.entry, op.piece, TRUE)
<1> HIDE DEF f
<1>3. Append(tail, f) \in Seq(Fragments)
  BY ONLY <1>1, <1>2, AppendProperties DEF f
<1>4. (tail' = Append(tail, f) \/ tail' = tail) /\ lines' = lines
  BY ONLY CutShort DEF CutShort, f
<1> QED
  BY ONLY <1>1, <1>3, <1>4

(* A write that fails may spoil the open line, and pays for it. *)
LEMMA PieceFailsKeeps == BackendInv /\ PieceFails => BackendInv'
<1> SUFFICES ASSUME BackendInv, PieceFails
             PROVE  BackendInv'
  OBVIOUS
<1>1. /\ op.state = "running" /\ op' = [op EXCEPT !.state = "failed"]
      /\ faults < MaxFaults /\ faults' = faults + 1
      /\ CutShort
      /\ UNCHANGED <<kind, task, queue, sent, crashes>>
  BY DEF PieceFails
<1>2. /\ TaskInv /\ OpInv /\ LineInv /\ CountInv /\ BackendTypeOK
  BY DEF BackendInv
<1>3. tail' \in Seq(Fragments) /\ lines' = lines
  BY <1>1, CutShortIsTyped
<1>4. /\ op'.state = "failed" /\ op'.entry = op.entry /\ op'.piece = op.piece
      /\ op' \in [state : {"running", "written", "failed"},
                  entry : Entries, piece : Nat \ {0}]
  BY <1>1, OpIsTyped
<1>5. BackendTypeOK'
  BY <1>1, <1>2, <1>3, <1>4, BoundsAssumption DEF BackendTypeOK, Fragments
<1>6. TaskInv' /\ OpInv'
  BY <1>1, <1>2, <1>4 DEF TaskInv, OpInv
<1>7. DatabaseInv' /\ LineInv'
  BY <1>1, <1>2, <1>3 DEF DatabaseInv, LineInv, OpInv
<1>8. CountInv'
  <2>1. Broken' = Broken
    BY <1>3 DEF Broken
  <2> QED
    BY <1>1, <1>2, <2>1, BrokenCounted DEF CountInv
<1> QED
  BY <1>5, <1>6, <1>7, <1>8 DEF BackendInv

(* A task that is no writer of a file goes on to a state in which it is    *)
(* none: the Mutex, the File and its operation do not notice.              *)
LEMMA OtherTaskKeeps ==
  ASSUME BackendInv, NEW e \in Entries, NEW where \in {"stored", "logged", "reported"},
         task' = [task EXCEPT ![e] = where],
         task[e] = "stored" \/ (kind = "database" /\ task[e] = "writing"),
         UNCHANGED <<kind, queue, sent, op>>
  PROVE  /\ task' \in [Entries -> Tasks]
         /\ ToSet(queue') = {f \in Entries : kind' = "text" /\ task'[f] = "writing"}
         /\ TaskInv' /\ OpInv'
         /\ kind = "text" => task[e] = "stored"
         /\ \A f \in Entries : task'[f] = IF f = e THEN where ELSE task[f]
<1>1. /\ task \in [Entries -> Tasks] /\ TaskInv /\ OpInv
      /\ ToSet(queue) = {f \in Entries : kind = "text" /\ task[f] = "writing"}
  BY DEF BackendInv, BackendTypeOK
<1>2. \A f \in Entries : task'[f] = IF f = e THEN where ELSE task[f]
  BY <1>1
<1>3. task' \in [Entries -> Tasks]
  BY <1>1 DEF Tasks
<1>4. TaskInv'
  BY <1>1, <1>2 DEF TaskInv
<1>5. OpInv'
  BY <1>1, <1>2, OpIsTyped DEF OpInv
<1>6. ToSet(queue') = {f \in Entries : kind' = "text" /\ task'[f] = "writing"}
  BY <1>1, <1>2
<1> QED
  BY <1>2, <1>3, <1>4, <1>5, <1>6

(* A row is inserted whole. *)
LEMMA InsertKeeps ==
  ASSUME BackendInv, NEW e \in Entries, Insert(e)
  PROVE  BackendInv'
<1>1. /\ kind = "database" /\ task[e] = "writing"
      /\ task' = [task EXCEPT ![e] = "stored"]
      /\ lines' = Append(lines, Record(e))
      /\ UNCHANGED <<kind, queue, sent, op, tail, faults, crashes>>
  BY DEF Insert, SetTask, fileVars
<1>2. /\ CountInv /\ BackendTypeOK /\ DatabaseInv
      /\ lines \in Seq(Seq(Fragments)) /\ Record(e) \in Seq(Fragments)
      /\ IsWhole(Record(e))
  BY RecordIsWhole DEF BackendInv, BackendTypeOK, Fragments
<1>3. /\ task' \in [Entries -> Tasks]
      /\ ToSet(queue') = {f \in Entries : kind' = "text" /\ task'[f] = "writing"}
      /\ TaskInv' /\ OpInv'
  BY <1>1, OtherTaskKeeps
<1>4. lines' \in Seq(Seq(Fragments)) /\ Broken' = Broken
  BY <1>1, <1>2, NewLine
<1>5. BackendTypeOK'
  BY <1>1, <1>2, <1>3, <1>4 DEF BackendTypeOK, Fragments
<1>6. DatabaseInv' /\ LineInv'
  BY <1>1, <1>2 DEF DatabaseInv, LineInv
<1>7. CountInv'
  BY <1>1, <1>2, <1>4 DEF CountInv, Clean
<1> QED
  BY <1>3, <1>5, <1>6, <1>7 DEF BackendInv

(* The answer to an INSERT arrives. *)
LEMMA InsertedKeeps ==
  ASSUME BackendInv, NEW e \in Entries, Inserted(e)
  PROVE  BackendInv'
<1>1. /\ task[e] = "stored" /\ task' = [task EXCEPT ![e] = "logged"]
      /\ UNCHANGED <<kind, queue, sent, op, lines, tail, faults, crashes>>
  BY DEF Inserted, SetTask, fileVars, dataVars
<1>2. /\ CountInv /\ BackendTypeOK /\ DatabaseInv /\ LineInv
  BY DEF BackendInv
<1>3. /\ task' \in [Entries -> Tasks]
      /\ ToSet(queue') = {f \in Entries : kind' = "text" /\ task'[f] = "writing"}
      /\ TaskInv' /\ OpInv'
      /\ \A f \in Entries : task'[f] = IF f = e THEN "logged" ELSE task[f]
  BY <1>1, OtherTaskKeeps
<1>4. BackendTypeOK'
  BY <1>1, <1>2, <1>3 DEF BackendTypeOK
<1>5. DatabaseInv' /\ LineInv' /\ CountInv'
  BY <1>1, <1>2, <1>3 DEF DatabaseInv, LineInv, CountInv, Clean, Broken
<1> QED
  BY <1>3, <1>4, <1>5 DEF BackendInv

(* An INSERT is refused, or its answer is lost. *)
LEMMA InsertFailsKeeps ==
  ASSUME BackendInv, NEW e \in Entries, InsertFails(e)
  PROVE  BackendInv'
<1>1. /\ kind = "database" /\ task[e] \in {"writing", "stored"}
      /\ task' = [task EXCEPT ![e] = "reported"]
      /\ faults < MaxFaults /\ faults' = faults + 1
      /\ UNCHANGED <<kind, queue, sent, op, lines, tail, crashes>>
  BY DEF InsertFails, SetTask, fileVars, dataVars
<1>2. /\ CountInv /\ BackendTypeOK /\ DatabaseInv
  BY DEF BackendInv
<1>3. /\ task' \in [Entries -> Tasks]
      /\ ToSet(queue') = {f \in Entries : kind' = "text" /\ task'[f] = "writing"}
      /\ TaskInv' /\ OpInv'
  BY <1>1, OtherTaskKeeps
<1>4. BackendTypeOK'
  BY <1>1, <1>2, <1>3, BoundsAssumption DEF BackendTypeOK
<1>5. DatabaseInv' /\ LineInv'
  BY <1>1, <1>2 DEF DatabaseInv, LineInv
<1>6. CountInv'
  <2>1. Broken' = Broken /\ Clean' = Clean
    BY <1>1 DEF Broken, Clean
  <2> QED
    BY <1>1, <1>2, <2>1, BrokenCounted DEF CountInv
<1> QED
  BY <1>3, <1>4, <1>5, <1>6 DEF BackendInv

(* A crash ends every task that has not returned, and may leave a line     *)
(* open for the next server.                                               *)
LEMMA CrashKeeps == BackendInv /\ Crash => BackendInv'
<1> SUFFICES ASSUME BackendInv, Crash
             PROVE  BackendInv'
  OBVIOUS
<1>1. /\ crashes < MaxCrashes /\ crashes' = crashes + 1
      /\ task' = [f \in Entries |->
           IF task[f] \in {"writing", "stored"} \/ (op.state = "running" /\ op.entry = f)
           THEN "lost" ELSE task[f]]
      /\ IF op.state = "running" THEN CutShort ELSE UNCHANGED <<lines, tail>>
      /\ queue' = <<>> /\ op' = NoOp /\ op'.state = "none"
      /\ UNCHANGED <<kind, sent, faults>>
  BY DEF Crash, dataVars, NoOp
<1>2. /\ TaskInv /\ LineInv /\ CountInv /\ BackendTypeOK /\ DatabaseInv
      /\ task \in [Entries -> Tasks] /\ tail \in Seq(Fragments)
  BY DEF BackendInv, BackendTypeOK, Fragments
<1>3. tail' \in Seq(Fragments) /\ lines' = lines
  BY <1>1, <1>2, CutShortIsTyped
<1>4. \A f \in Entries :
        /\ task'[f] \in Tasks /\ task'[f] # "writing"
        /\ task'[f] = task[f] \/ task'[f] = "lost"
  BY <1>1, <1>2 DEF Tasks
<1>5. BackendTypeOK'
  <2>1. queue' \in Seq(Entries) /\ IsInjective(queue') /\ ToSet(queue') = {}
    BY <1>1, EmptyQueue, EmptySeq
  <2>2. task' \in [Entries -> Tasks]
    BY <1>1, <1>4
  <2> QED
    BY <1>1, <1>2, <1>3, <1>4, <2>1, <2>2, BoundsAssumption DEF BackendTypeOK, Fragments
<1>6. TaskInv' /\ OpInv'
  BY <1>1, <1>2, <1>4 DEF TaskInv, OpInv
<1>7. DatabaseInv'
  BY <1>1, <1>2 DEF DatabaseInv
<1>8. LineInv'
  BY <1>1, <1>2, <1>3, <1>4 DEF LineInv
<1>9. CountInv'
  <2>1. Broken' = Broken
    BY <1>3 DEF Broken
  <2> QED
    BY <1>1, <1>2, <2>1, BrokenCounted DEF CountInv
<1> QED
  BY <1>5, <1>6, <1>7, <1>8, <1>9 DEF BackendInv

-----------------------------------------------------------------------------
(* Every step of a backend keeps the invariant. *)
LEMMA StepKeeps == BackendInv /\ [BackendNext]_backendVars => BackendInv'
<1> SUFFICES ASSUME BackendInv, [BackendNext]_backendVars
             PROVE  BackendInv'
  OBVIOUS
<1>1. CASE UNCHANGED backendVars
  BY <1>1 DEF backendVars, fileVars, dataVars, BackendInv, BackendTypeOK, TaskInv,
              OpInv, DatabaseInv, LineInv, CountInv, Clean, Broken
<1>2. CASE \E e \in Entries : Log(e) \/ HandOver(e) \/ Report(e)
  BY <1>2, LogKeeps, HandOverKeeps, ReportKeeps
<1>3. CASE \E e \in Entries : Insert(e) \/ Inserted(e) \/ InsertFails(e)
  BY <1>3, InsertKeeps, InsertedKeeps, InsertFailsKeeps
<1>4. CASE PieceWritten \/ PieceFails \/ Crash
  BY <1>4, PieceWrittenKeeps, PieceFailsKeeps, CrashKeeps
<1> QED
  BY <1>1, <1>2, <1>3, <1>4 DEF BackendNext

(***************************************************************************)
(* The invariant holds of every behaviour of a backend.                    *)
(***************************************************************************)
THEOREM BackendInvariant == BackendSpec => []BackendInv
BY InitEstablishes, StepKeeps, PTL DEF BackendSpec

(***************************************************************************)
(* The file holds no more broken lines than writes failed and servers were *)
(* killed, and nothing that was reported is in it, for any number of tasks *)
(* and records of any size.                                                *)
(***************************************************************************)
THEOREM DamageStaysBounded == BackendSpec => []DamageIsBounded
<1>1. BackendInv => DamageIsBounded
  <2> SUFFICES ASSUME BackendInv
               PROVE  DamageIsBounded
    OBVIOUS
  <2>1. CountInv /\ LineInv /\ BackendTypeOK
    BY DEF BackendInv
  <2>2. Cardinality(Broken) <= faults + crashes
    BY <2>1, BrokenCounted DEF CountInv
  <2>3. kind = "text" => \A e \in Entries, i \in DOMAIN lines :
          task[e] = "reported" => lines[i] # Record(e)
    BY <2>1 DEF LineInv
  <2> QED
    BY <2>2, <2>3 DEF DamageIsBounded, Broken
<1> QED
  BY <1>1, BackendInvariant, PTL

-----------------------------------------------------------------------------
(***************************************************************************)
(* The backend implements module Journal.  The invariant above is not      *)
(* enough for it: what is being written is in the file at most once, and   *)
(* the faults and crashes there were pay for the entries that are spoiled, *)
(* for the open line that is, and for the error that is not told yet.      *)
(***************************************************************************)

\* Some line, or row, is the record of e.
InFile(e) == \E i \in DOMAIN lines : lines[i] = Record(e)

\* Nothing more is written of the record of e.
GivenUp(e) ==
  \/ task[e] \in {"reported", "lost"}
  \/ task[e] = "logged" /\ ~ (op.state = "running" /\ op.entry = e)

\* The entries there are so far.
Started == {e \in Entries : task[e] # "none"}

\* What is not written yet is not in the file, and a row that is answered is.
WrittenInv ==
  /\ op.state = "running" => ~ InFile(op.entry)
  /\ \A e \in Entries :
       /\ InFile(e) => task[e] \notin {"none", "writing"}
       /\ task[e] = "stored" => InFile(e)

\* The entries that were spoiled, an open line that is, and an error that
\* waits for the next task have been paid for.
VictimInv ==
  Cardinality(Victims) + (IF Clean THEN 0 ELSE 1) + (IF op.state = "failed" THEN 1 ELSE 0)
    <= 3 * faults + crashes

JournalInv == IsFiniteSet(Started) /\ WrittenInv /\ VictimInv

(* The records that are written and the tasks decide the fate of an entry,  *)
(* before a step and after it.                                             *)
LEMMA FateIs ==
  /\ Fate = [e \in Entries |-> IF InFile(e) THEN "kept"
                               ELSE IF GivenUp(e) THEN "spoiled" ELSE "pending"]
  /\ Fate' = [e \in Entries |-> IF InFile(e)' THEN "kept"
                                ELSE IF GivenUp(e)' THEN "spoiled" ELSE "pending"]
BY DEF Fate, InFile, GivenUp

(* The victims among the entries, before a step and after it. *)
LEMMA VictimsAre ==
  /\ Victims = {e \in Entries : ~ InFile(e) /\ GivenUp(e) /\ task[e] # "lost"}
  /\ Victims' = {e \in Entries : ~ InFile(e)' /\ GivenUp(e)' /\ task'[e] # "lost"}
BY FateIs DEF Victims

(* The victims are counted. *)
LEMMA VictimsCounted ==
  ASSUME IsFiniteSet(Started)
  PROVE  IsFiniteSet(Victims) /\ Cardinality(Victims) \in Nat
<1>1. Victims \subseteq Started
  BY VictimsAre DEF Started, GivenUp
<1> QED
  BY <1>1, FS_Subset, FS_CardinalityType

(* An entry that there was already goes on. *)
LEMMA StartedStays ==
  ASSUME IsFiniteSet(Started),
         \A e \in Entries : task'[e] # "none" => task[e] # "none"
  PROVE  IsFiniteSet(Started')
<1>1. Started' \subseteq Started
  BY DEF Started
<1> QED
  BY <1>1, FS_Subset

(* A step that ends no entry is none of the journal's. *)
LEMMA NothingBecomes ==
  ASSUME UNCHANGED lines,
         \A e \in Entries : GivenUp(e)' <=> GivenUp(e),
         \A e \in Entries : GivenUp(e) => (task'[e] = "lost" <=> task[e] = "lost")
  PROVE  Fate' = Fate /\ Victims' = Victims
<1>1. \A e \in Entries : InFile(e)' <=> InFile(e)
  BY DEF InFile
<1>2. Fate' = Fate
  BY <1>1, FateIs
<1> QED
  BY <1>1, <1>2, VictimsAre

(* An entry is spoiled by a step that leaves the others as they are. *)
LEMMA OneIsSpoiled ==
  ASSUME IsFiniteSet(Started), NEW e \in Entries, Fate[e] = "pending",
         ~ InFile(e)', GivenUp(e)', task'[e] # "lost",
         \A f \in Entries \ {e} :
           /\ InFile(f)' <=> InFile(f)
           /\ GivenUp(f)' <=> GivenUp(f)
           /\ task'[f] = "lost" <=> task[f] = "lost"
  PROVE  /\ Fate' = [Fate EXCEPT ![e] = "spoiled"]
         /\ Cardinality(Victims') = Cardinality(Victims) + 1
<1>1. ~ InFile(e) /\ ~ GivenUp(e)
  BY FateIs
<1>2. Fate' = [Fate EXCEPT ![e] = "spoiled"]
  BY FateIs
<1>3. Victims' = Victims \cup {e} /\ e \notin Victims
  BY <1>1, VictimsAre
<1> QED
  BY <1>2, <1>3, VictimsCounted, FS_AddElement

(* An entry is kept by a step that leaves the others as they are. *)
LEMMA OneIsKept ==
  ASSUME NEW e \in Entries, Fate[e] = "pending", InFile(e)',
         \A f \in Entries \ {e} :
           /\ InFile(f)' <=> InFile(f)
           /\ GivenUp(f)' <=> GivenUp(f)
           /\ task'[f] = "lost" <=> task[f] = "lost"
  PROVE  Fate' = [Fate EXCEPT ![e] = "kept"] /\ Victims' = Victims
<1>1. ~ InFile(e) /\ ~ GivenUp(e)
  BY FateIs
<1>2. Fate' = [Fate EXCEPT ![e] = "kept"]
  BY FateIs
<1> QED
  BY <1>1, <1>2, VictimsAre

(* No two entries have the same record. *)
LEMMA RecordsDiffer ==
  ASSUME NEW e \in Entries, NEW f \in Entries, Record(e) = Record(f)
  PROVE  e = f
<1>1. Record(e)[1].entry = e /\ Record(f)[1].entry = f
  BY PiecesPositive DEF Record, Fragment
<1> QED
  BY <1>1

(* A line more is the record of one entry more, or of none. *)
LEMMA LineAdded ==
  ASSUME lines \in Seq(Seq(Fragments)), NEW line \in Seq(Fragments),
         lines' = Append(lines, line)
  PROVE  /\ \A f \in Entries : InFile(f)' <=> InFile(f) \/ line = Record(f)
         /\ Len(lines) \in Nat
         /\ DOMAIN lines = 1 .. Len(lines) /\ DOMAIN lines' = 1 .. Len(lines) + 1
         /\ \A i \in DOMAIN lines : lines'[i] = lines[i]
         /\ lines'[Len(lines) + 1] = line
<1>1. /\ lines' \in Seq(Seq(Fragments)) /\ Len(lines') = Len(lines) + 1
      /\ \A i \in 1 .. Len(lines) : lines'[i] = lines[i]
      /\ lines'[Len(lines) + 1] = line
  BY AppendProperties
<1>2. /\ DOMAIN lines = 1 .. Len(lines) /\ Len(lines) \in Nat
      /\ DOMAIN lines' = 1 .. Len(lines) + 1
  BY <1>1, LenProperties
<1>3. \A f \in Entries : InFile(f)' <=> InFile(f) \/ line = Record(f)
  BY <1>1, <1>2 DEF InFile
<1> QED
  BY <1>1, <1>2, <1>3

(* The record of an entry is kept on a line after all the others. *)
LEMMA KeptGrows ==
  ASSUME lines \in Seq(Seq(Fragments)), NEW e \in Entries,
         lines' = Append(lines, Record(e))
  PROVE  \E line \in DOMAIN Kept' :
           /\ \A l \in DOMAIN Kept : l < line
           /\ Kept' = [l \in DOMAIN Kept \cup {line} |-> IF l = line THEN e ELSE Kept[l]]
<1> DEFINE n == Len(lines)
<1>1. /\ n \in Nat /\ DOMAIN lines = 1 .. n /\ DOMAIN lines' = 1 .. n + 1
      /\ \A i \in 1 .. n : lines'[i] = lines[i]
      /\ lines'[n + 1] = Record(e)
  BY LineAdded, RecordIsWhole
<1>2. IsWhole(Record(e)) /\ Record(e)[1].entry = e
  BY RecordIsWhole, PiecesPositive DEF Record, Fragment
<1> HIDE DEF n
<1>3. /\ WholeLines \subseteq 1 .. n
      /\ WholeLines' = WholeLines \cup {n + 1} /\ n + 1 \notin WholeLines
  BY <1>1, <1>2 DEF WholeLines
<1>4. DOMAIN Kept = WholeLines /\ \A l \in WholeLines : Kept[l] = lines[l][1].entry
  BY DEF Kept
<1>5. Kept' = [l \in WholeLines' |-> lines'[l][1].entry]
  BY DEF Kept
<1>6. \A l \in WholeLines' : lines'[l][1].entry = IF l = n + 1 THEN e ELSE Kept[l]
  BY <1>1, <1>2, <1>3, <1>4
<1>7. Kept' = [l \in DOMAIN Kept \cup {n + 1} |-> IF l = n + 1 THEN e ELSE Kept[l]]
  BY <1>3, <1>4, <1>5, <1>6
<1>8. n + 1 \in DOMAIN Kept'
  <2>1. DOMAIN Kept' = WholeLines'
    BY DEF Kept
  <2> QED
    BY <1>3, <2>1
<1>9. \A l \in DOMAIN Kept : l < n + 1
  <2>1. n \in Nat /\ DOMAIN Kept \subseteq 1 .. n
    BY <1>1, <1>3, <1>4
  <2> QED
    BY ONLY <2>1
<1> QED
  BY <1>7, <1>8, <1>9

(* A line that is whole, with anything in it, is the record of an entry. *)
LEMMA WholeIsRecord ==
  ASSUME NEW line \in Seq(Fragments), NEW x \in Fragments, IsWhole(Append(line, x))
  PROVE  \E e \in Entries : Append(line, x) = Record(e)
<1> DEFINE whole == Append(line, x)
<1>1. whole \in Seq(Fragments) /\ Len(whole) = Len(line) + 1 /\ Len(line) \in Nat
  BY AppendProperties, LenProperties
<1> HIDE DEF whole
<1>2. 1 \in 1 .. Len(whole)
  BY <1>1
<1>3. whole[1] \in Fragments
  BY <1>1, <1>2, ElementOfSeq
<1>4. whole[1].entry \in Entries
  BY <1>3 DEF Fragments
<1> QED
  BY <1>4 DEF IsWhole, whole

(* A line that is no record keeps nothing. *)
LEMMA KeptStays ==
  ASSUME lines \in Seq(Seq(Fragments)), NEW line \in Seq(Fragments),
         lines' = Append(lines, line), ~ IsWhole(line)
  PROVE  Kept' = Kept
<1>1. /\ Len(lines) \in Nat
      /\ DOMAIN lines = 1 .. Len(lines) /\ DOMAIN lines' = 1 .. Len(lines) + 1
      /\ \A i \in DOMAIN lines : lines'[i] = lines[i]
      /\ lines'[Len(lines) + 1] = line
  BY LineAdded
<1>2. WholeLines' = WholeLines /\ WholeLines \subseteq DOMAIN lines
  BY <1>1 DEF WholeLines
<1> QED
  BY <1>1, <1>2 DEF Kept

-----------------------------------------------------------------------------
(***************************************************************************)
(* What each action is to the journal, and that it keeps the invariant.    *)
(***************************************************************************)
Implemented == [AsJournal!JournalNext]_(AsJournal!journalVars)

\* Before a step.
Before == BackendInv /\ JournalInv

(* What is known before a step that does not depend on the action. *)
LEMMA BeforeStep ==
  ASSUME Before
  PROVE  /\ BackendTypeOK /\ TaskInv /\ OpInv /\ DatabaseInv /\ LineInv
         /\ IsFiniteSet(Started) /\ WrittenInv /\ VictimInv
         /\ task \in [Entries -> Tasks]
         /\ lines \in Seq(Seq(Fragments)) /\ tail \in Seq(Fragments)
         /\ faults \in Nat /\ crashes \in Nat
         /\ IsFiniteSet(Victims) /\ Cardinality(Victims) \in Nat
         /\ op.state # "none" => op.entry \in Entries
BY VictimsCounted, BrokenCounted, OpIsTyped
   DEF Before, BackendInv, JournalInv, BackendTypeOK, Fragments

(* A step that ends no entry is a stutter of the journal. *)
LEMMA JournalStutters ==
  ASSUME Before, UNCHANGED <<lines, faults, crashes>>,
         \A e \in Entries : GivenUp(e)' <=> GivenUp(e),
         \A e \in Entries : GivenUp(e) => (task'[e] = "lost" <=> task[e] = "lost")
  PROVE  /\ Implemented
         /\ Victims' = Victims
         /\ \A e \in Entries : InFile(e)' <=> InFile(e)
<1>1. Fate' = Fate /\ Victims' = Victims
  BY NothingBecomes
<1>2. Kept' = Kept /\ Allowance' = Allowance
  BY <1>1 DEF Kept, WholeLines, Allowance
<1>3. \A e \in Entries : InFile(e)' <=> InFile(e)
  BY DEF InFile
<1> QED
  BY <1>1, <1>2, <1>3 DEF Implemented, AsJournal!journalVars

(* There is an entry. *)
LEMMA LogImplements ==
  ASSUME Before, NEW e \in Entries, Log(e), BackendInv'
  PROVE  Implemented /\ JournalInv'
<1>1. /\ task[e] = "none" /\ task' = [task EXCEPT ![e] = "writing"]
      /\ UNCHANGED <<kind, sent, op, lines, tail, faults, crashes>>
  BY DEF Log, SetTask, dataVars
<1>2. /\ IsFiniteSet(Started) /\ WrittenInv /\ VictimInv /\ task \in [Entries -> Tasks]
      /\ op.state = "running" => op.entry \in Entries
  BY BeforeStep
<1>3. \A f \in Entries : task'[f] = IF f = e THEN "writing" ELSE task[f]
  BY <1>1, <1>2
<1>4. \A f \in Entries : GivenUp(f)' <=> GivenUp(f)
  BY <1>1, <1>3 DEF GivenUp
<1>5. /\ Implemented
      /\ Victims' = Victims
      /\ \A f \in Entries : InFile(f)' <=> InFile(f)
  BY <1>1, <1>3, <1>4, JournalStutters
<1>6. IsFiniteSet(Started')
  <2>1. Started' = Started \cup {e}
    BY <1>1, <1>3 DEF Started
  <2> QED
    BY <1>2, <2>1, FS_AddElement
<1>7. WrittenInv'
  BY <1>1, <1>2, <1>3, <1>5 DEF WrittenInv
<1>8. VictimInv'
  BY <1>1, <1>2, <1>5 DEF VictimInv, Clean
<1> QED
  BY <1>5, <1>6, <1>7, <1>8 DEF JournalInv

(***************************************************************************)
(* The holder hands over a piece: with the last one its task is over, but  *)
(* the entry is still to be kept or spoiled.                               *)
(***************************************************************************)
LEMMA HandOverImplements ==
  ASSUME Before, NEW e \in Entries, HandOver(e), BackendInv'
  PROVE  Implemented /\ JournalInv'
<1>1. /\ Holds(e) /\ op.state \in {"none", "written"} /\ task[e] = "writing"
      /\ op' = [state |-> "running", entry |-> e, piece |-> sent[e] + 1]
      /\ op'.state = "running" /\ op'.entry = e
      /\ task' = [task EXCEPT ![e] = "logged"] \/ UNCHANGED task
      /\ UNCHANGED <<kind, lines, tail, faults, crashes>>
  BY DEF HandOver, Take, SetTask, dataVars, Holds
<1>2. /\ IsFiniteSet(Started) /\ WrittenInv /\ VictimInv /\ task \in [Entries -> Tasks]
  BY BeforeStep
<1>3. \A f \in Entries :
        /\ f # e => task'[f] = task[f]
        /\ task'[e] \in {"writing", "logged"}
  BY <1>1, <1>2
<1>4. \A f \in Entries : GivenUp(f)' <=> GivenUp(f)
  BY <1>1, <1>3 DEF GivenUp
<1>5. /\ Implemented
      /\ Victims' = Victims
      /\ \A f \in Entries : InFile(f)' <=> InFile(f)
  BY <1>1, <1>3, <1>4, JournalStutters
<1>6. IsFiniteSet(Started')
  BY <1>1, <1>2, <1>3, StartedStays
<1>7. WrittenInv'
  BY <1>1, <1>2, <1>3, <1>5 DEF WrittenInv
<1>8. Clean' = Clean
  BY HandOverIsClean DEF Before
<1>9. VictimInv'
  BY <1>1, <1>2, <1>5, <1>8 DEF VictimInv
<1> QED
  BY <1>5, <1>6, <1>7, <1>9 DEF JournalInv

(* The error is told to the holder, which had not handed over its last     *)
(* piece: its entry is spoiled, and was paid for when the write failed.    *)
LEMMA ReportImplements ==
  ASSUME Before, NEW e \in Entries, Report(e), BackendInv'
  PROVE  Implemented /\ JournalInv'
<1>1. /\ task[e] = "writing" /\ op.state = "failed" /\ op' = NoOp /\ op'.state = "none"
      /\ task' = [task EXCEPT ![e] = "reported"]
      /\ UNCHANGED <<kind, sent, lines, tail, faults, crashes>>
  BY DEF Report, SetTask, dataVars, NoOp, Holds
<1>2. /\ IsFiniteSet(Started) /\ WrittenInv /\ VictimInv /\ task \in [Entries -> Tasks]
      /\ faults \in Nat /\ crashes \in Nat /\ Cardinality(Victims) \in Nat
  BY BeforeStep
<1>3. \A f \in Entries : task'[f] = IF f = e THEN "reported" ELSE task[f]
  BY <1>1, <1>2
<1>4. \A f \in Entries : InFile(f)' <=> InFile(f)
  BY <1>1 DEF InFile
<1>5. ~ InFile(e) /\ Fate[e] = "pending"
  BY <1>1, <1>2, FateIs DEF WrittenInv, GivenUp
<1>6. /\ Fate' = [Fate EXCEPT ![e] = "spoiled"]
      /\ Cardinality(Victims') = Cardinality(Victims) + 1
  <2>1. GivenUp(e)' /\ task'[e] # "lost"
    BY <1>3 DEF GivenUp
  <2>2. \A f \in Entries \ {e} : GivenUp(f)' <=> GivenUp(f)
    BY <1>1, <1>3 DEF GivenUp
  <2> QED
    BY <1>2, <1>3, <1>4, <1>5, <2>1, <2>2, OneIsSpoiled
<1>7. Clean' = Clean
  BY <1>1 DEF Clean
<1>8. VictimInv' /\ Cardinality(Victims) + 1 <= 3 * faults + crashes
  BY <1>1, <1>2, <1>6, <1>7 DEF VictimInv
<1>9. Implemented
  <2>1. Kept' = Kept
    BY <1>1 DEF Kept, WholeLines
  <2>2. Allowance > 0 /\ Allowance' = Allowance - 1
    BY <1>1, <1>2, <1>6, <1>8 DEF Allowance
  <2>3. AsJournal!Spoil(e)
    BY <1>5, <1>6, <2>1, <2>2 DEF AsJournal!Spoil, AsJournal!Pending
  <2> QED
    BY <2>3 DEF Implemented, AsJournal!JournalNext
<1>10. IsFiniteSet(Started')
  BY <1>1, <1>2, <1>3, StartedStays
<1>11. WrittenInv'
  BY <1>1, <1>2, <1>3, <1>4 DEF WrittenInv
<1> QED
  BY <1>8, <1>9, <1>10, <1>11 DEF JournalInv

(***************************************************************************)
(* A piece is written.  The last keeps the entry if it makes its line a    *)
(* record; otherwise the line was spoiled before and paid for, and now it  *)
(* is the entry that is spoiled.                                           *)
(***************************************************************************)
LEMMA PieceWrittenImplements ==
  ASSUME Before, PieceWritten, BackendInv'
  PROVE  Implemented /\ JournalInv'
<1>0. op.state = "running" /\ op.entry \in Entries /\ op.piece \in Nat \ {0}
  BY OpIsTyped DEF PieceWritten, Before
<1> PICK e \in Entries : e = op.entry
  BY <1>0
<1> PICK n \in Nat \ {0} : n = op.piece
  BY <1>0
<1> DEFINE x == Fragment(e, n, FALSE)
           line == Append(tail, x)
<1>1. /\ op.state = "running" /\ op' = [op EXCEPT !.state = "written"]
      /\ IF n = Pieces[e]
         THEN lines' = Append(lines, line) /\ tail' = <<>>
         ELSE tail' = line /\ UNCHANGED lines
      /\ UNCHANGED <<kind, task, queue, sent, faults, crashes>>
  BY DEF PieceWritten
<1>2. /\ IsFiniteSet(Started) /\ WrittenInv /\ VictimInv /\ OpInv
      /\ faults \in Nat /\ crashes \in Nat /\ Cardinality(Victims) \in Nat
      /\ lines \in Seq(Seq(Fragments)) /\ tail \in Seq(Fragments)
  BY BeforeStep
<1>3. /\ e \in Entries /\ n \in Nat \ {0} /\ n <= Pieces[e] /\ Pieces[e] \in Nat
      /\ op'.state = "written" /\ op'.entry = e /\ op'.piece = n
  BY <1>1, OpIsTyped DEF Before
<1>4. x \in Fragments /\ line \in Seq(Fragments)
  <2>1. x \in Fragments
    BY <1>3 DEF Fragment, Fragments
  <2> HIDE DEF x
  <2> QED
    BY <1>2, <2>1, AppendProperties
<1>5. Clean => line = Prefix(e, n)
  BY <1>1, CleanLineGrows DEF Before
<1>6. IsFiniteSet(Started')
  BY <1>1, <1>2, StartedStays
<1>7. ~ InFile(e)
  BY <1>1, <1>2 DEF WrittenInv
<1> HIDE DEF x, line
<1>8. \A f \in Entries \ {e} :
        /\ GivenUp(f)' <=> GivenUp(f)
        /\ task'[f] = "lost" <=> task[f] = "lost"
  BY <1>1, <1>3 DEF GivenUp
<1>9. CASE n # Pieces[e]
  <2>1. lines' = lines /\ tail' = line /\ n < Pieces[e]
    BY <1>1, <1>3, <1>9
  <2>2. task[e] = "writing"
    BY <1>1, <1>2, <2>1 DEF OpInv
  <2>3. \A f \in Entries : GivenUp(f)' <=> GivenUp(f)
    BY <1>1, <1>8, <2>2 DEF GivenUp
  <2>4. /\ Implemented
        /\ Victims' = Victims
        /\ \A f \in Entries : InFile(f)' <=> InFile(f)
    BY <1>1, <2>1, <2>3, JournalStutters
  <2>5. WrittenInv'
    BY <1>1, <1>2, <1>3, <2>4 DEF WrittenInv
  <2>6. Clean => Clean'
    BY <1>3, <1>5, <2>1 DEF Clean
  <2>7. VictimInv'
    BY <1>1, <1>2, <1>3, <2>4, <2>6 DEF VictimInv
  <2> QED
    BY <1>6, <2>4, <2>5, <2>7 DEF JournalInv
<1>10. CASE n = Pieces[e]
  <2>1. lines' = Append(lines, line) /\ tail' = <<>>
    BY <1>1, <1>10
  <2>2. task[e] = "logged" /\ Fate[e] = "pending"
    BY <1>1, <1>2, <1>3, <1>7, <1>10, FateIs DEF OpInv, GivenUp
  <2>3. \A f \in Entries : InFile(f)' <=> InFile(f) \/ line = Record(f)
    BY <1>2, <1>4, <2>1, LineAdded
  <2>4. \A f \in Entries : line = Record(f) => f = e
    BY <1>2, <1>3, LastPieceOfRecord DEF line, x
  <2>5. \A f \in Entries \ {e} : InFile(f)' <=> InFile(f)
    BY <2>3, <2>4
  <2>6. Clean'
    BY <1>3, <1>10, <2>1 DEF Clean
  <2>7. WrittenInv'
    BY <1>1, <1>2, <1>3, <2>2, <2>5 DEF WrittenInv
  <2>8. CASE line = Record(e)
    <3>1. InFile(e)'
      BY <1>3, <2>3, <2>8
    <3>2. Fate' = [Fate EXCEPT ![e] = "kept"] /\ Victims' = Victims
      BY <1>3, <1>8, <2>2, <2>5, <3>1, OneIsKept
    <3>3. VictimInv'
      BY <1>1, <1>2, <1>3, <2>6, <3>2 DEF VictimInv
    <3>4. AsJournal!Keep(e)
      <4>1. \E l \in DOMAIN Kept' :
              /\ \A k \in DOMAIN Kept : k < l
              /\ Kept' = [k \in DOMAIN Kept \cup {l} |-> IF k = l THEN e ELSE Kept[k]]
        BY <1>2, <1>3, <2>1, <2>8, KeptGrows
      <4>2. Allowance' = Allowance
        BY <1>1, <3>2 DEF Allowance
      <4> QED
        BY <1>3, <2>2, <3>2, <4>1, <4>2 DEF AsJournal!Keep, AsJournal!Pending
    <3> QED
      BY <1>3, <1>6, <2>7, <3>3, <3>4 DEF JournalInv, Implemented, AsJournal!JournalNext
  <2>9. CASE line # Record(e)
    <3>1. ~ InFile(e)'
      BY <1>3, <1>7, <2>3, <2>9
    <3>2. /\ Fate' = [Fate EXCEPT ![e] = "spoiled"]
          /\ Cardinality(Victims') = Cardinality(Victims) + 1
      <4>1. GivenUp(e)' /\ task'[e] # "lost"
        BY <1>1, <1>3, <2>2 DEF GivenUp
      <4> QED
        BY <1>2, <1>3, <1>8, <2>2, <2>5, <3>1, <4>1, OneIsSpoiled
    <3>3. ~ Clean
      BY <1>3, <1>5, <1>10, <2>9, RecordIsWhole
    <3>4. VictimInv' /\ Cardinality(Victims) + 1 <= 3 * faults + crashes
      BY <1>1, <1>2, <1>3, <2>6, <3>2, <3>3 DEF VictimInv
    <3>5. AsJournal!Spoil(e)
      <4>1. ~ IsWhole(line)
        BY <1>2, <1>4, <2>4, <2>9, WholeIsRecord DEF line
      <4>2. Kept' = Kept
        BY <1>2, <1>4, <2>1, <4>1, KeptStays
      <4>3. Allowance > 0 /\ Allowance' = Allowance - 1
        BY <1>1, <1>2, <3>2, <3>4 DEF Allowance
      <4> QED
        BY <1>3, <2>2, <3>2, <4>2, <4>3 DEF AsJournal!Spoil, AsJournal!Pending
    <3> QED
      BY <1>3, <1>6, <2>7, <3>4, <3>5 DEF JournalInv, Implemented, AsJournal!JournalNext
  <2> QED
    BY <2>8, <2>9
<1> QED
  BY <1>9, <1>10

(***************************************************************************)
(* A write fails.  That pays for three: the entry, if it was the last      *)
(* piece, as its task has returned; the open line; and the error.          *)
(***************************************************************************)
LEMMA PieceFailsImplements ==
  ASSUME Before, PieceFails, BackendInv'
  PROVE  Implemented /\ JournalInv'
<1>0. op.state = "running" /\ op.entry \in Entries
  BY OpIsTyped DEF PieceFails, Before
<1> PICK e \in Entries : e = op.entry
  BY <1>0
<1>1. /\ op' = [op EXCEPT !.state = "failed"]
      /\ faults' = faults + 1 /\ CutShort
      /\ UNCHANGED <<kind, task, queue, sent, crashes>>
  BY DEF PieceFails
<1>2. /\ IsFiniteSet(Started) /\ WrittenInv /\ VictimInv /\ OpInv
      /\ faults \in Nat /\ crashes \in Nat /\ Cardinality(Victims) \in Nat
  BY BeforeStep
<1>3. op'.state = "failed" /\ op'.entry = e
  BY <1>0, <1>1, OpIsTyped DEF Before
<1>4. lines' = lines /\ Kept' = Kept /\ \A f \in Entries : InFile(f)' <=> InFile(f)
  BY <1>1 DEF CutShort, Kept, WholeLines, InFile
<1>5. ~ InFile(e)
  BY <1>0, <1>2 DEF WrittenInv
<1>6. \A f \in Entries \ {e} :
        /\ GivenUp(f)' <=> GivenUp(f)
        /\ task'[f] = "lost" <=> task[f] = "lost"
  BY <1>1, <1>3 DEF GivenUp
<1>7. IsFiniteSet(Started')
  BY <1>1, <1>2, StartedStays
<1>8. WrittenInv'
  BY <1>1, <1>2, <1>3, <1>4 DEF WrittenInv
<1>9. task[e] \in {"writing", "logged"}
  BY <1>0, <1>2, PiecesPositive, OpIsTyped DEF OpInv, Before
<1>10. CASE task[e] = "writing"
  <2>1. \A f \in Entries : GivenUp(f)' <=> GivenUp(f)
    BY <1>1, <1>6, <1>10 DEF GivenUp
  <2>2. Fate' = Fate /\ Victims' = Victims
    BY <1>1, <1>4, <2>1, NothingBecomes
  <2>3. VictimInv'
    BY <1>0, <1>1, <1>2, <2>2 DEF VictimInv
  <2>4. AsJournal!Fault
    <3>1. Allowance' = Allowance + 3
      BY <1>1, <1>2, <2>2 DEF Allowance
    <3> QED
      BY <1>4, <2>2, <3>1 DEF AsJournal!Fault
  <2> QED
    BY <1>7, <1>8, <2>3, <2>4 DEF JournalInv, Implemented, AsJournal!JournalNext
<1>11. CASE task[e] = "logged"
  <2>1. Fate[e] = "pending"
    BY <1>0, <1>5, <1>11, FateIs DEF GivenUp
  <2>2. GivenUp(e)' /\ task'[e] # "lost"
    BY <1>1, <1>3, <1>11 DEF GivenUp
  <2>3. /\ Fate' = [Fate EXCEPT ![e] = "spoiled"]
        /\ Cardinality(Victims') = Cardinality(Victims) + 1
    BY <1>2, <1>4, <1>5, <1>6, <2>1, <2>2, OneIsSpoiled
  <2>4. VictimInv'
    BY <1>0, <1>1, <1>2, <2>3 DEF VictimInv
  <2>5. AsJournal!Fault
    <3>1. Allowance' = Allowance + 2
      BY <1>1, <1>2, <2>3 DEF Allowance
    <3>2. e \in AsJournal!Pending
      BY <2>1 DEF AsJournal!Pending
    <3> QED
      BY <1>4, <2>3, <3>1, <3>2 DEF AsJournal!Fault
  <2> QED
    BY <1>7, <1>8, <2>4, <2>5 DEF JournalInv, Implemented, AsJournal!JournalNext
<1> QED
  BY <1>9, <1>10, <1>11

(* A row is inserted, and kept. *)
LEMMA InsertImplements ==
  ASSUME Before, NEW e \in Entries, Insert(e), BackendInv'
  PROVE  Implemented /\ JournalInv'
<1>1. /\ kind = "database" /\ task[e] = "writing"
      /\ task' = [task EXCEPT ![e] = "stored"]
      /\ lines' = Append(lines, Record(e))
      /\ UNCHANGED <<kind, queue, sent, op, tail, faults, crashes>>
  BY DEF Insert, SetTask, fileVars
<1>2. /\ IsFiniteSet(Started) /\ WrittenInv /\ VictimInv /\ DatabaseInv
      /\ task \in [Entries -> Tasks] /\ lines \in Seq(Seq(Fragments))
  BY BeforeStep
<1>3. \A f \in Entries : task'[f] = IF f = e THEN "stored" ELSE task[f]
  BY <1>1, <1>2
<1>4. op.state = "none" /\ op'.state = "none"
  BY <1>1, <1>2 DEF DatabaseInv
<1>5. \A f \in Entries : InFile(f)' <=> InFile(f) \/ f = e
  BY <1>1, <1>2, LineAdded, RecordIsWhole, RecordsDiffer
<1>6. Fate[e] = "pending"
  BY <1>1, <1>2, FateIs DEF WrittenInv, GivenUp
<1>7. Fate' = [Fate EXCEPT ![e] = "kept"] /\ Victims' = Victims
  <2>1. \A f \in Entries \ {e} : GivenUp(f)' <=> GivenUp(f)
    BY <1>1, <1>3 DEF GivenUp
  <2> QED
    BY <1>3, <1>5, <1>6, <2>1, OneIsKept
<1>8. AsJournal!Keep(e)
  <2>1. Allowance' = Allowance
    BY <1>1, <1>7 DEF Allowance
  <2>2. \E l \in DOMAIN Kept' :
          /\ \A k \in DOMAIN Kept : k < l
          /\ Kept' = [k \in DOMAIN Kept \cup {l} |-> IF k = l THEN e ELSE Kept[k]]
    BY <1>1, <1>2, KeptGrows
  <2> QED
    BY <1>6, <1>7, <2>1, <2>2 DEF AsJournal!Keep, AsJournal!Pending
<1>9. IsFiniteSet(Started')
  BY <1>1, <1>2, <1>3, StartedStays
<1>10. WrittenInv'
  BY <1>2, <1>3, <1>4, <1>5 DEF WrittenInv
<1>11. VictimInv'
  BY <1>1, <1>2, <1>7 DEF VictimInv, Clean
<1> QED
  BY <1>8, <1>9, <1>10, <1>11 DEF JournalInv, Implemented, AsJournal!JournalNext

(* The answer to an INSERT arrives: the row is there. *)
LEMMA InsertedImplements ==
  ASSUME Before, NEW e \in Entries, Inserted(e), BackendInv'
  PROVE  Implemented /\ JournalInv'
<1>1. /\ task[e] = "stored" /\ task' = [task EXCEPT ![e] = "logged"]
      /\ UNCHANGED <<kind, queue, sent, op, lines, tail, faults, crashes>>
  BY DEF Inserted, SetTask, fileVars, dataVars
<1>2. /\ IsFiniteSet(Started) /\ WrittenInv /\ VictimInv /\ task \in [Entries -> Tasks]
      /\ op.state = "running" => op.entry \in Entries
  BY BeforeStep
<1>3. \A f \in Entries : task'[f] = IF f = e THEN "logged" ELSE task[f]
  BY <1>1, <1>2
<1>4. \A f \in Entries : InFile(f)' <=> InFile(f)
  BY <1>1 DEF InFile
<1>5. InFile(e)
  BY <1>1, <1>2 DEF WrittenInv
<1>6. Fate' = Fate /\ Victims' = Victims
  <2>1. \A f \in Entries \ {e} : GivenUp(f)' <=> GivenUp(f)
    BY <1>1, <1>3 DEF GivenUp
  <2>2. Fate' = Fate
    BY <1>4, <1>5, <2>1, FateIs
  <2> QED
    BY <1>3, <1>4, <1>5, <2>1, <2>2, VictimsAre
<1>7. Kept' = Kept /\ Allowance' = Allowance
  BY <1>1, <1>6 DEF Kept, WholeLines, Allowance
<1>8. IsFiniteSet(Started')
  BY <1>1, <1>2, <1>3, StartedStays
<1>9. WrittenInv'
  BY <1>1, <1>2, <1>3, <1>4 DEF WrittenInv
<1>10. VictimInv'
  BY <1>1, <1>2, <1>6 DEF VictimInv, Clean
<1> QED
  BY <1>6, <1>7, <1>8, <1>9, <1>10 DEF JournalInv, Implemented, AsJournal!journalVars

(* An INSERT is refused, which spoils its entry; or its answer is lost,    *)
(* and the row is there although the error is reported.                    *)
LEMMA InsertFailsImplements ==
  ASSUME Before, NEW e \in Entries, InsertFails(e), BackendInv'
  PROVE  Implemented /\ JournalInv'
<1>1. /\ kind = "database" /\ task[e] \in {"writing", "stored"}
      /\ task' = [task EXCEPT ![e] = "reported"]
      /\ faults' = faults + 1
      /\ UNCHANGED <<kind, queue, sent, op, lines, tail, crashes>>
  BY DEF InsertFails, SetTask, fileVars, dataVars
<1>2. /\ IsFiniteSet(Started) /\ WrittenInv /\ VictimInv /\ task \in [Entries -> Tasks]
      /\ faults \in Nat /\ crashes \in Nat /\ Cardinality(Victims) \in Nat
      /\ DatabaseInv
  BY BeforeStep
<1>3. \A f \in Entries : task'[f] = IF f = e THEN "reported" ELSE task[f]
  BY <1>1, <1>2
<1>4. Kept' = Kept /\ \A f \in Entries : InFile(f)' <=> InFile(f)
  BY <1>1 DEF InFile, Kept, WholeLines
<1>5. IsFiniteSet(Started')
  BY <1>1, <1>2, <1>3, StartedStays
<1>6. op.state = "none" /\ op'.state = "none"
  BY <1>1, <1>2 DEF DatabaseInv
<1>7. WrittenInv'
  BY <1>2, <1>3, <1>4, <1>6, <1>1 DEF WrittenInv
<1>8. \A f \in Entries \ {e} :
        /\ GivenUp(f)' <=> GivenUp(f)
        /\ task'[f] = "lost" <=> task[f] = "lost"
  BY <1>1, <1>3 DEF GivenUp
<1>9. Clean' = Clean
  BY <1>1 DEF Clean
<1>10. CASE InFile(e)
  <2>1. Fate' = Fate
    BY <1>4, <1>8, <1>10, FateIs
  <2>2. Victims' = Victims
    BY <1>4, <1>8, <1>10, VictimsAre
  <2>3. VictimInv'
    BY <1>1, <1>2, <1>9, <2>2 DEF VictimInv
  <2>4. AsJournal!Fault
    <3>1. Allowance' = Allowance + 3
      BY <1>1, <1>2, <2>2 DEF Allowance
    <3> QED
      BY <1>4, <2>1, <3>1 DEF AsJournal!Fault
  <2> QED
    BY <1>5, <1>7, <2>3, <2>4 DEF JournalInv, Implemented, AsJournal!JournalNext
<1>11. CASE ~ InFile(e)
  <2>1. task[e] = "writing" /\ Fate[e] = "pending"
    BY <1>1, <1>2, <1>11, FateIs DEF WrittenInv, GivenUp
  <2>2. GivenUp(e)' /\ task'[e] # "lost"
    BY <1>3 DEF GivenUp
  <2>3. /\ Fate' = [Fate EXCEPT ![e] = "spoiled"]
        /\ Cardinality(Victims') = Cardinality(Victims) + 1
    BY <1>2, <1>4, <1>8, <1>11, <2>1, <2>2, OneIsSpoiled
  <2>4. VictimInv'
    BY <1>1, <1>2, <1>9, <2>3 DEF VictimInv
  <2>5. AsJournal!Fault
    <3>1. Allowance' = Allowance + 2
      BY <1>1, <1>2, <2>3 DEF Allowance
    <3>2. e \in AsJournal!Pending
      BY <2>1 DEF AsJournal!Pending
    <3> QED
      BY <1>4, <2>3, <3>1, <3>2 DEF AsJournal!Fault
  <2> QED
    BY <1>5, <1>7, <2>4, <2>5 DEF JournalInv, Implemented, AsJournal!JournalNext
<1> QED
  BY <1>10, <1>11

(***************************************************************************)
(* A crash spoils the entries in the server's hands, which are lost with   *)
(* it, and pays for the line that it may leave open.                       *)
(***************************************************************************)
LEMMA CrashImplements ==
  ASSUME Before, Crash, BackendInv'
  PROVE  Implemented /\ JournalInv'
<1>1. /\ crashes' = crashes + 1
      /\ task' = [f \in Entries |->
           IF task[f] \in {"writing", "stored"} \/ (op.state = "running" /\ op.entry = f)
           THEN "lost" ELSE task[f]]
      /\ IF op.state = "running" THEN CutShort ELSE UNCHANGED <<lines, tail>>
      /\ op' = NoOp /\ op'.state = "none"
      /\ UNCHANGED <<kind, sent, faults>>
  BY DEF Crash, dataVars, NoOp
<1>2. /\ IsFiniteSet(Started) /\ WrittenInv /\ VictimInv /\ OpInv
      /\ task \in [Entries -> Tasks]
      /\ faults \in Nat /\ crashes \in Nat /\ Cardinality(Victims) \in Nat
  BY BeforeStep
<1>3. /\ lines' = lines /\ Kept' = Kept
      /\ \A f \in Entries : InFile(f)' <=> InFile(f)
  BY <1>1 DEF CutShort, InFile, Kept, WholeLines
<1>4. \A f \in Entries :
        \/ task'[f] = task[f] /\ task[f] \notin {"writing", "stored"}
             /\ ~ (op.state = "running" /\ op.entry = f)
        \/ task'[f] = "lost" /\ (task[f] \in {"writing", "stored"}
                                   \/ (op.state = "running" /\ op.entry = f))
  BY <1>1
<1>5. \A f \in Entries : op.state = "running" /\ op.entry = f => task[f] \in {"writing", "logged"}
  BY <1>2, PiecesPositive, OpIsTyped DEF OpInv, Before
<1>6. \A f \in Entries : GivenUp(f) => GivenUp(f)' /\ task'[f] = task[f]
  BY <1>1, <1>4, <1>5 DEF GivenUp
<1>7. \A f \in Entries : GivenUp(f)' /\ ~ GivenUp(f) => task'[f] = "lost"
  BY <1>1, <1>4 DEF GivenUp
<1>8. Victims' = Victims
  BY <1>3, <1>6, <1>7, VictimsAre
<1>9. AsJournal!Crash
  <2> DEFINE hit == {f \in Entries : ~ InFile(f) /\ ~ GivenUp(f) /\ GivenUp(f)'}
  <2>1. hit \in SUBSET AsJournal!Pending
    BY FateIs DEF AsJournal!Pending
  <2>2. Fate' = [f \in Entries |-> IF f \in hit THEN "spoiled" ELSE Fate[f]]
    BY <1>3, <1>6, FateIs
  <2>3. Allowance' = Allowance + 1
    BY <1>1, <1>2, <1>8 DEF Allowance
  <2> HIDE DEF hit
  <2>4. \E h \in SUBSET AsJournal!Pending :
          Fate' = [f \in Entries |-> IF f \in h THEN "spoiled" ELSE Fate[f]]
    BY ONLY <2>1, <2>2
  <2> QED
    BY ONLY <1>3, <2>3, <2>4 DEF AsJournal!Crash
<1>10. IsFiniteSet(Started')
  <2>1. \A f \in Entries : task'[f] # "none" => task[f] # "none"
    BY <1>4, <1>5
  <2> QED
    BY <1>2, <2>1, StartedStays
<1>11. WrittenInv'
  BY <1>1, <1>2, <1>3, <1>4 DEF WrittenInv
<1>12. VictimInv'
  BY <1>1, <1>2, <1>8 DEF VictimInv
<1> QED
  BY <1>9, <1>10, <1>11, <1>12 DEF JournalInv, Implemented, AsJournal!JournalNext

(* At the start nothing is kept, and nothing is owed. *)
LEMMA JournalInitially ==
  ASSUME BackendInit
  PROVE  JournalInv /\ AsJournal!JournalInit
<1>1. /\ op = NoOp /\ op.state = "none" /\ tail = <<>> /\ lines = <<>>
      /\ faults = 0 /\ crashes = 0 /\ \A e \in Entries : task[e] = "none"
  BY DEF BackendInit, NoOp
<1>2. \A e \in Entries : ~ InFile(e) /\ ~ GivenUp(e)
  BY <1>1 DEF InFile, GivenUp
<1>3. Started = {} /\ Victims = {} /\ Clean
  BY <1>1, <1>2, VictimsAre DEF Started, Clean
<1>4. IsFiniteSet(Started) /\ Cardinality(Victims) = 0
  BY <1>3, FS_EmptySet
<1>5. JournalInv
  BY <1>1, <1>2, <1>3, <1>4 DEF JournalInv, WrittenInv, VictimInv
<1>6. Kept \in [{} -> Entries]
  BY <1>1 DEF Kept, WholeLines
<1>7. Fate = [e \in Entries |-> "pending"] /\ Allowance = 0
  BY <1>1, <1>2, <1>4, FateIs DEF Allowance
<1> QED
  BY <1>5, <1>6, <1>7 DEF AsJournal!JournalInit

(* Every step keeps the invariant, and is one of the journal or a stutter. *)
LEMMA JournalStep ==
  ASSUME Before, [BackendNext]_backendVars, BackendInv'
  PROVE  Implemented /\ JournalInv'
<1>1. CASE UNCHANGED backendVars
  <2>1. UNCHANGED <<kind, task, queue, sent, op, lines, tail, faults, crashes>>
    BY <1>1 DEF backendVars, fileVars, dataVars
  <2>2. \A e \in Entries : (GivenUp(e)' <=> GivenUp(e)) /\ task'[e] = task[e]
    BY <2>1 DEF GivenUp
  <2>3. Implemented
    BY <2>1, <2>2, JournalStutters
  <2>4. JournalInv'
    BY <2>1 DEF Before, JournalInv, Started, WrittenInv, VictimInv, InFile, Victims, Fate,
                Clean
  <2> QED
    BY <2>3, <2>4
<1>2. CASE \E e \in Entries : Log(e) \/ HandOver(e) \/ Report(e)
  BY <1>2, LogImplements, HandOverImplements, ReportImplements
<1>3. CASE \E e \in Entries : Insert(e) \/ Inserted(e) \/ InsertFails(e)
  BY <1>3, InsertImplements, InsertedImplements, InsertFailsImplements
<1>4. CASE PieceWritten \/ PieceFails \/ Crash
  BY <1>4, PieceWrittenImplements, PieceFailsImplements, CrashImplements
<1> QED
  BY <1>1, <1>2, <1>3, <1>4 DEF BackendNext

(* The stronger invariant always holds. *)
LEMMA BackendStaysBefore == BackendSpec => []Before
<1>1. BackendInit => Before
  BY InitEstablishes, JournalInitially DEF Before
<1>2. BackendInv /\ [BackendNext]_backendVars => BackendInv'
  BY StepKeeps
<1>3. Before /\ BackendInv' /\ [BackendNext]_backendVars => Before'
  BY JournalStep DEF Before
<1>4. Before => BackendInv
  BY DEF Before
<1> QED
  BY <1>1, <1>2, <1>3, <1>4, PTL DEF BackendSpec

(***************************************************************************)
(* The backend implements the journal, for any entries, pieces, faults and *)
(* crashes: an entry is kept, once, alone on its line and for ever, unless *)
(* one of the writes that failed or of the crashes spoils it; a failed     *)
(* write spoils three entries at most.                                     *)
(***************************************************************************)
THEOREM BackendIsJournal == BackendSpec => ImplementsJournal
<1>1. BackendInit => AsJournal!JournalInit
  BY JournalInitially
<1>2. Before /\ Before' /\ [BackendNext]_backendVars => Implemented
  BY JournalStep DEF Before
<1> QED
  BY <1>1, <1>2, BackendStaysBefore, PTL
     DEF BackendSpec, ImplementsJournal, AsJournal!JournalSpec, Implemented

(***************************************************************************)
(* What follows from the journal alone, and so for the backend: no entry   *)
(* is on two lines, none that has a line is spoiled, and those that are    *)
(* spoiled are no more than the faults and crashes allow.                  *)
(***************************************************************************)
LEMMA JournalKeepsPromise == ImplementsJournal => []AsJournal!Promise
<1> USE DEF AsJournal!Promise
<1>1. AsJournal!JournalInit => AsJournal!Promise
  BY DEF AsJournal!JournalInit
<1>2. AsJournal!Promise /\ Implemented => AsJournal!Promise'
  <2> SUFFICES ASSUME AsJournal!Promise, Implemented
               PROVE  AsJournal!Promise'
    OBVIOUS
  <2>1. CASE UNCHANGED AsJournal!journalVars
    BY <2>1 DEF AsJournal!journalVars
  <2>2. ASSUME NEW e \in Entries, AsJournal!Keep(e)
        PROVE  AsJournal!Promise'
    <3>1. /\ Fate[e] = "pending"
          /\ Fate' = [Fate EXCEPT ![e] = "kept"] /\ Allowance' = Allowance
      BY <2>2 DEF AsJournal!Keep, AsJournal!Pending
    <3>2. PICK line : Kept' = [l \in DOMAIN Kept \cup {line} |->
                                 IF l = line THEN e ELSE Kept[l]]
      BY <2>2 DEF AsJournal!Keep
    <3>3. \A l \in DOMAIN Kept : Kept[l] # e
      BY <3>1
    <3>4. /\ DOMAIN Kept' = DOMAIN Kept \cup {line}
          /\ \A l \in DOMAIN Kept' : Kept'[l] = IF l = line THEN e ELSE Kept[l]
      BY <3>2
    <3>5. \A l, m \in DOMAIN Kept' : Kept'[l] = Kept'[m] => l = m
      BY <3>3, <3>4
    <3>6. \A l \in DOMAIN Kept' : Kept'[l] \in Entries /\ Fate'[Kept'[l]] = "kept"
      BY <3>1, <3>4
    <3> QED
      BY <3>1, <3>5, <3>6
  <2>3. ASSUME NEW e \in Entries, AsJournal!Spoil(e)
        PROVE  AsJournal!Promise'
    BY <2>3 DEF AsJournal!Spoil, AsJournal!Pending
  <2>4. CASE AsJournal!Fault
    BY <2>4 DEF AsJournal!Fault, AsJournal!Pending
  <2>5. CASE AsJournal!Crash
    BY <2>5 DEF AsJournal!Crash, AsJournal!Pending
  <2> QED
    BY <2>1, <2>2, <2>3, <2>4, <2>5 DEF Implemented, AsJournal!JournalNext
<1> QED
  BY <1>1, <1>2, PTL DEF ImplementsJournal, AsJournal!JournalSpec, Implemented

-----------------------------------------------------------------------------
(***************************************************************************)
(* The layer that counts tokens uses the backends as their specification   *)
(* allows, so that what holds of a backend holds of the whole log.  The    *)
(* rest of the invariant is about the tasks that count.                    *)
(***************************************************************************)

\* What is kept for each token entry; and a request that is passed on is no
\* stream that is to be rejected, and has a record that results from it.
LayerInv ==
  /\ policy \in {"skip", "reject", "estimate"}
  /\ count \in [TokenEntries -> {"idle", "refused", "counting", "skipped",
                                 "counted", "panicked", "lost"}]
  /\ job = [t \in TokenEntries |-> job[t]]
  /\ usage = [t \in TokenEntries |-> usage[t]]
  /\ \A t \in TokenEntries :
       /\ count[t] \in {"counting", "panicked"} <=> job[t] # NoJob
       /\ count[t] = "counted" <=> usage[t] # NoUsage
       /\ task[t] # "none" <=> count[t] = "counted"
       /\ count[t] = "counting" =>
            /\ job[t].ask \in Asks /\ job[t].record \in RecordsOf(job[t].ask)
            /\ ~ (job[t].ask.stream /\ policy = "reject")
       /\ count[t] = "panicked" => job[t].ask.model = "odd"

LogInv == BackendInv /\ LayerInv

(* Whatever the layer does is a step of the backends, or none of theirs. *)
LEMMA LayerStepIsBackendStep == [Next]_vars => [BackendNext]_backendVars
<1> SUFFICES ASSUME [Next]_vars
             PROVE  [BackendNext]_backendVars
  OBVIOUS
<1>1. CASE UNCHANGED vars
  BY <1>1 DEF vars
<1>2. ASSUME NEW t \in TokenEntries, Refuse(t) \/ Pass(t) \/ Panic(t) \/ Skip(t)
      PROVE  UNCHANGED backendVars
  BY <1>2 DEF Refuse, Pass, Panic, Skip
<1>3. ASSUME NEW t \in TokenEntries, TakeUsage(t) \/ Estimate(t)
      PROVE  t \in Entries /\ Log(t)
  BY <1>3, TokenEntriesAssumption DEF TakeUsage, Estimate, LogUsage
<1>4. CASE CrashAll
  BY <1>4 DEF CrashAll, BackendNext
<1>5. CASE \E e \in Entries \ TokenEntries : Log(e)
  BY <1>5 DEF BackendNext
<1>6. CASE \/ \E e \in Entries : \/ HandOver(e) \/ Report(e)
                                 \/ Insert(e) \/ Inserted(e) \/ InsertFails(e)
           \/ PieceWritten \/ PieceFails
  BY <1>6 DEF BackendNext
<1> QED
  BY <1>1, <1>2, <1>3, <1>4, <1>5, <1>6 DEF Next, BackendNext

(* The log is a log of its backend: the layer adds nothing to what may     *)
(* happen to an entry.                                                     *)
LEMMA LogIsBackend == Spec => BackendSpec
<1>1. Init => BackendInit
  BY DEF Init
<1> QED
  BY <1>1, LayerStepIsBackendStep, PTL DEF Spec, BackendSpec

(* The promise of the journal holds of the log. *)
THEOREM LogIsJournal == Spec => ImplementsJournal
BY LogIsBackend, BackendIsJournal

(***************************************************************************)
(* So no entry of the log is written twice, and those that are spoiled     *)
(* without having been lost with a server are at most three for each write *)
(* that failed, and one for each crash.                                    *)
(***************************************************************************)
THEOREM LogKeepsPromise ==
  Spec => [](/\ \A i, j \in WholeLines : lines[i] = lines[j] => i = j
             /\ Cardinality(Victims) <= 3 * faults + crashes)
<1>1. Before /\ AsJournal!Promise =>
        /\ \A i, j \in WholeLines : lines[i] = lines[j] => i = j
        /\ Cardinality(Victims) <= 3 * faults + crashes
  <2> SUFFICES ASSUME Before, AsJournal!Promise
               PROVE  /\ \A i, j \in WholeLines : lines[i] = lines[j] => i = j
                      /\ Cardinality(Victims) <= 3 * faults + crashes
    OBVIOUS
  <2>1. ASSUME NEW i \in WholeLines, NEW j \in WholeLines, lines[i] = lines[j]
        PROVE  i = j
    BY <2>1 DEF AsJournal!Promise, Kept
  <2>2. /\ Cardinality(Victims) \in Nat /\ faults \in Nat /\ crashes \in Nat
        /\ VictimInv
    BY BeforeStep
  <2>3. Cardinality(Victims) <= 3 * faults + crashes
    BY <2>2 DEF VictimInv
  <2> QED
    BY <2>1, <2>3
<1> QED
  BY <1>1, LogIsBackend, LogIsJournal, BackendStaysBefore, JournalKeepsPromise, PTL

(* The damage to the file is bounded in the log. *)
THEOREM LogDamageStaysBounded == Spec => []DamageIsBounded
BY LogIsBackend, DamageStaysBounded

-----------------------------------------------------------------------------
(* What a step of the layer is for the tasks that count.                   *)

(* Only log_access and log_tokens start the task of an entry. *)
LEMMA OnlyLogStarts ==
  ASSUME BackendInv,
         \/ \E e \in Entries : \/ HandOver(e) \/ Report(e)
                               \/ Insert(e) \/ Inserted(e) \/ InsertFails(e)
         \/ PieceWritten \/ PieceFails \/ Crash
  PROVE  \A e \in Entries : task'[e] = "none" <=> task[e] = "none"
<1>1. task \in [Entries -> Tasks]
  BY DEF BackendInv, BackendTypeOK
<1>2. ASSUME NEW e \in Entries, HandOver(e) \/ Report(e)
      PROVE  \A f \in Entries : task'[f] = "none" <=> task[f] = "none"
  <2>1. /\ task[e] = "writing"
        /\ UNCHANGED task \/ \E where \in {"logged", "reported"} :
             task' = [task EXCEPT ![e] = where]
    BY <1>2 DEF HandOver, Report, Take, Holds, SetTask
  <2> QED
    BY <1>1, <2>1
<1>3. ASSUME NEW e \in Entries, Insert(e) \/ Inserted(e) \/ InsertFails(e)
      PROVE  \A f \in Entries : task'[f] = "none" <=> task[f] = "none"
  <2>1. /\ task[e] \in {"writing", "stored"}
        /\ \E where \in {"stored", "logged", "reported"} :
             task' = [task EXCEPT ![e] = where]
    BY <1>3 DEF Insert, Inserted, InsertFails, SetTask
  <2> QED
    BY <1>1, <2>1
<1>4. CASE PieceWritten \/ PieceFails
  BY <1>4 DEF PieceWritten, PieceFails
<1>5. CASE Crash
  <2>1. task' = [f \in Entries |->
          IF task[f] \in {"writing", "stored"} \/ (op.state = "running" /\ op.entry = f)
          THEN "lost" ELSE task[f]]
    BY <1>5 DEF Crash
  <2>2. \A f \in Entries : op.state = "running" /\ op.entry = f => task[f] # "none"
    BY PiecesPositive, OpIsTyped DEF OpInv, BackendInv
  <2> QED
    BY <2>1, <2>2
<1> QED
  BY <1>2, <1>3, <1>4, <1>5

(* A request is refused, or passed on. *)
LEMMA RequestKeepsLayer ==
  ASSUME LayerInv, NEW t \in TokenEntries, Refuse(t) \/ Pass(t)
  PROVE  LayerInv'
<1>1. /\ count[t] = "idle" /\ job[t] = NoJob /\ usage[t] = NoUsage
      /\ UNCHANGED <<policy, task, usage>>
  BY DEF LayerInv, Refuse, Pass, backendVars
<1>2. CASE Refuse(t)
  <2>1. count' = [count EXCEPT ![t] = "refused"] /\ job' = job
    BY <1>2 DEF Refuse, Goto
  <2> QED
    BY <1>1, <2>1 DEF LayerInv
<1>3. CASE Pass(t)
  <2>1. PICK ask \in Asks : \E record \in RecordsOf(ask) :
          /\ ~ (ask.stream /\ policy = "reject")
          /\ job' = [job EXCEPT ![t] = [ask |-> ask, record |-> record]]
    BY <1>3 DEF Pass
  <2>2. PICK record \in RecordsOf(ask) :
          job' = [job EXCEPT ![t] = [ask |-> ask, record |-> record]]
    BY <2>1
  <2>3. count' = [count EXCEPT ![t] = "counting"]
    BY <1>3 DEF Pass, Goto
  <2> DEFINE new == [ask |-> ask, record |-> record]
  <2>4. new # NoJob /\ new.ask = ask /\ new.record = record
    BY DEF NoJob
  <2> HIDE DEF new
  <2>5. /\ job' = [s \in TokenEntries |-> job'[s]]
        /\ \A s \in TokenEntries : job'[s] = IF s = t THEN new ELSE job[s]
    BY <2>2 DEF LayerInv, new
  <2>6. \A s \in TokenEntries : count'[s] = IF s = t THEN "counting" ELSE count[s]
    BY <2>3 DEF LayerInv
  <2>7. /\ new.ask \in Asks /\ new.record \in RecordsOf(new.ask)
        /\ ~ (new.ask.stream /\ policy = "reject")
    BY <2>1, <2>4
  <2>8. /\ policy' \in {"skip", "reject", "estimate"}
        /\ count' \in [TokenEntries -> {"idle", "refused", "counting", "skipped",
                                        "counted", "panicked", "lost"}]
        /\ usage' = [s \in TokenEntries |-> usage'[s]]
    BY <1>1, <2>3 DEF LayerInv
  <2>9. ASSUME NEW s \in TokenEntries
        PROVE  /\ count'[s] \in {"counting", "panicked"} <=> job'[s] # NoJob
               /\ count'[s] = "counted" <=> usage'[s] # NoUsage
               /\ task'[s] # "none" <=> count'[s] = "counted"
               /\ count'[s] = "counting" =>
                    /\ job'[s].ask \in Asks /\ job'[s].record \in RecordsOf(job'[s].ask)
                    /\ ~ (job'[s].ask.stream /\ policy' = "reject")
               /\ count'[s] = "panicked" => job'[s].ask.model = "odd"
    <3>1. CASE s = t
      BY <1>1, <2>4, <2>5, <2>6, <2>7, <3>1 DEF LayerInv
    <3>2. CASE s # t
      BY <1>1, <2>5, <2>6, <3>2 DEF LayerInv
    <3> QED
      BY <3>1, <3>2
  <2> QED
    BY <2>5, <2>8, <2>9 DEF LayerInv
<1> QED
  BY <1>2, <1>3

(* The task that counts panics, for its model only, or ends without entry. *)
LEMMA TaskKeepsLayer ==
  ASSUME LayerInv, NEW t \in TokenEntries, Panic(t) \/ Skip(t)
  PROVE  LayerInv'
<1>1. count[t] = "counting" /\ UNCHANGED <<policy, task, usage>>
  BY DEF Panic, Skip, Counting, backendVars
<1>2. CASE Panic(t)
  <2>1. count' = [count EXCEPT ![t] = "panicked"] /\ job' = job
    BY <1>2 DEF Panic, Goto
  <2>2. job[t].ask.model = "odd"
    BY <1>1, <1>2 DEF LayerInv, Panic, Ask
  <2> QED
    BY <1>1, <2>1, <2>2 DEF LayerInv
<1>3. CASE Skip(t)
  <2>1. count' = [count EXCEPT ![t] = "skipped"] /\ job' = [job EXCEPT ![t] = NoJob]
    BY <1>3 DEF Skip, Goto
  <2> QED
    BY <1>1, <2>1 DEF LayerInv
<1> QED
  BY <1>2, <1>3

(* The task has a usage, and its entry starts. *)
LEMMA UsageKeepsLayer ==
  ASSUME LayerInv, BackendTypeOK, NEW t \in TokenEntries, TakeUsage(t) \/ Estimate(t)
  PROVE  LayerInv'
<1>1. PICK content : content # NoUsage /\ LogUsage(t, content)
  <2>1. [of |-> "upstream"] # NoUsage
    BY DEF NoUsage
  <2>2. [of |-> "estimate", choices |-> Counted(Recorded(t))] # NoUsage
    BY DEF NoUsage
  <2> QED
    BY <2>1, <2>2 DEF TakeUsage, Estimate
<1>2. count[t] = "counting"
  BY DEF TakeUsage, Estimate, Counting
<1>3. /\ usage' = [usage EXCEPT ![t] = content]
      /\ count' = [count EXCEPT ![t] = "counted"]
      /\ job' = [job EXCEPT ![t] = NoJob]
      /\ task' = [task EXCEPT ![t] = "writing"]
      /\ UNCHANGED policy
  BY <1>1 DEF LogUsage, Goto, Log, SetTask
<1>4. t \in Entries /\ TokenEntries \subseteq Entries /\ task \in [Entries -> Tasks]
  BY TokenEntriesAssumption DEF BackendTypeOK
<1>5. \A s \in TokenEntries :
        /\ usage'[s] = IF s = t THEN content ELSE usage[s]
        /\ count'[s] = IF s = t THEN "counted" ELSE count[s]
        /\ job'[s] = IF s = t THEN NoJob ELSE job[s]
        /\ task'[s] = IF s = t THEN "writing" ELSE task[s]
  BY <1>3, <1>4 DEF LayerInv
<1>6. /\ usage' = [s \in TokenEntries |-> usage'[s]]
      /\ job' = [s \in TokenEntries |-> job'[s]]
      /\ count' \in [TokenEntries -> {"idle", "refused", "counting", "skipped",
                                      "counted", "panicked", "lost"}]
  BY <1>3 DEF LayerInv
<1> QED
  BY <1>1, <1>2, <1>3, <1>5, <1>6 DEF LayerInv

(* A step of the backend alone leaves the tasks that count alone. *)
LEMMA BackendKeepsLayer ==
  ASSUME LayerInv, UNCHANGED layerVars,
         \A t \in TokenEntries : task'[t] = "none" <=> task[t] = "none"
  PROVE  LayerInv'
BY DEF LayerInv, layerVars

(* The tasks that count are lost with the server. *)
LEMMA CrashKeepsLayer ==
  ASSUME LayerInv, BackendInv, CrashAll
  PROVE  LayerInv'
<1>1. \A t \in TokenEntries : task'[t] = "none" <=> task[t] = "none"
  BY OnlyLogStarts, TokenEntriesAssumption DEF CrashAll
<1>2. /\ count' = [t \in TokenEntries |->
                     IF count[t] = "counting" THEN "lost" ELSE count[t]]
      /\ job' = [t \in TokenEntries |-> IF count[t] = "counting" THEN NoJob ELSE job[t]]
      /\ UNCHANGED <<policy, usage>>
  BY DEF CrashAll
<1> QED
  BY <1>1, <1>2 DEF LayerInv

(* Every step keeps the invariant. *)
LEMMA LogStepKeeps == LogInv /\ [Next]_vars => LogInv'
<1> SUFFICES ASSUME LogInv, [Next]_vars
             PROVE  LogInv'
  OBVIOUS
<1>1. BackendInv /\ LayerInv /\ BackendTypeOK
  BY DEF LogInv, BackendInv
<1>2. BackendInv'
  BY <1>1, LayerStepIsBackendStep, StepKeeps
<1>3. CASE UNCHANGED vars
  <2>1. UNCHANGED layerVars /\ UNCHANGED task
    BY <1>3 DEF vars, backendVars
  <2> QED
    BY <1>1, <1>2, <2>1, BackendKeepsLayer DEF LogInv
<1>4. ASSUME NEW t \in TokenEntries,
             Refuse(t) \/ Pass(t) \/ Panic(t) \/ Skip(t) \/ TakeUsage(t) \/ Estimate(t)
      PROVE  LayerInv'
  BY <1>1, <1>4, RequestKeepsLayer, TaskKeepsLayer, UsageKeepsLayer
<1>5. ASSUME NEW e \in Entries \ TokenEntries, Log(e), UNCHANGED layerVars
      PROVE  LayerInv'
  <2>1. \A t \in TokenEntries : task'[t] = task[t]
    <3>1. task' = [task EXCEPT ![e] = "writing"] /\ task \in [Entries -> Tasks]
      BY <1>1, <1>5 DEF Log, SetTask, BackendTypeOK
    <3> QED
      BY <3>1, TokenEntriesAssumption
  <2> QED
    BY <1>1, <1>5, <2>1, BackendKeepsLayer
<1>6. ASSUME \/ \E e \in Entries : \/ HandOver(e) \/ Report(e)
                                   \/ Insert(e) \/ Inserted(e) \/ InsertFails(e)
             \/ PieceWritten \/ PieceFails,
             UNCHANGED layerVars
      PROVE  LayerInv'
  <2>1. \A t \in TokenEntries : task'[t] = "none" <=> task[t] = "none"
    BY <1>1, <1>6, OnlyLogStarts, TokenEntriesAssumption
  <2> QED
    BY <1>1, <1>6, <2>1, BackendKeepsLayer
<1>7. CASE CrashAll
  BY <1>1, <1>2, <1>7, CrashKeepsLayer DEF LogInv
<1> QED
  BY <1>2, <1>3, <1>4, <1>5, <1>6, <1>7 DEF Next, LogInv

(***************************************************************************)
(* The invariant of the backend and that of the layer hold of every        *)
(* behaviour of the log, whatever the requests and their records are.      *)
(***************************************************************************)
THEOREM LogInvariant == Spec => []LogInv
<1>1. Init => LogInv
  <2> SUFFICES ASSUME Init
               PROVE  LogInv
    OBVIOUS
  <2>1. BackendInv
    BY InitEstablishes DEF Init
  <2>2. LayerInv
    BY TokenEntriesAssumption DEF Init, BackendInit, LayerInv
  <2> QED
    BY <2>1, <2>2 DEF LogInv
<1> QED
  BY <1>1, LogStepKeeps, PTL DEF Spec

(* Every variable of the log keeps its type. *)
THEOREM LogTypeCorrect == Spec => []TypeOK
<1>1. LogInv => TypeOK
  BY DEF LogInv, BackendInv, LayerInv, TypeOK
<1> QED
  BY <1>1, LogInvariant, PTL

(***************************************************************************)
(* The task that counts panics for a model that is no string, and for      *)
(* nothing else: the unreachable!() of a rejected stream is unreachable.   *)
(***************************************************************************)
THEOREM PanicsOnlyOnOddModel == Spec => []PanicsOnOddModel
<1>1. LogInv => PanicsOnOddModel
  BY DEF LogInv, LayerInv, PanicsOnOddModel
<1> QED
  BY <1>1, LogInvariant, PTL

-----------------------------------------------------------------------------
(***************************************************************************)
(* What an estimate is made of (module TokenCount).  Of a record in order, *)
(* the segments are the events, so that after each three parts the choices *)
(* hold what the events so far have for them.  Of a record in disorder     *)
(* whose every "data: " is whole, each pair of parts 1 and 2 is followed   *)
(* by one part 3, or the segment would not parse; so the ends are taken    *)
(* by the beginnings one for one.                                          *)
(***************************************************************************)

\* What records are made of.
PartsOfRecord(record) == [event : 1 .. Done(record), part : 1 .. 3]
EventSet == [choice : Nat, delta : Deltas]

(* The parts and the events of a record. *)
LEMMA RecordTyped ==
  ASSUME NEW record, IsRecord(record)
  PROVE  /\ Len(record.parts) \in Nat /\ DOMAIN record.parts = 1 .. Len(record.parts)
         /\ Len(record.events) \in Nat /\ DOMAIN record.events = 1 .. Len(record.events)
         /\ Done(record) = Len(record.events) + 1
         /\ \A i \in DOMAIN record.parts :
              /\ record.parts[i] \in PartsOfRecord(record)
              /\ record.parts[i].event \in 1 .. Done(record)
              /\ record.parts[i].part \in 1 .. 3
              /\ record.parts[i] = Part(record.parts[i].event, record.parts[i].part)
         /\ \A ev \in DOMAIN record.events :
              record.events[ev].choice \in Nat /\ record.events[ev].delta \in Deltas
<1>1. record.parts \in Seq(PartsOfRecord(record))
  BY DEF IsRecord, PartsOfRecord
<1>2. record.events \in Seq(EventSet)
  BY DEF IsRecord, EventSet
<1>3. \A i \in 1 .. Len(record.parts) : record.parts[i] \in PartsOfRecord(record)
  BY <1>1
<1>4. \A p \in PartsOfRecord(record) :
        p.event \in 1 .. Done(record) /\ p.part \in 1 .. 3 /\ p = Part(p.event, p.part)
  BY DEF PartsOfRecord, Part
<1>5. \A ev \in 1 .. Len(record.events) : record.events[ev] \in EventSet
  BY <1>2
<1>6. \A e \in EventSet : e.choice \in Nat /\ e.delta \in Deltas
  BY DEF EventSet
<1>7. /\ Len(record.parts) \in Nat /\ DOMAIN record.parts = 1 .. Len(record.parts)
      /\ Len(record.events) \in Nat /\ DOMAIN record.events = 1 .. Len(record.events)
  BY <1>1, <1>2
<1> QED
  BY <1>3, <1>4, <1>5, <1>6, <1>7 DEF Done

(* Where a segment begins is well defined. *)
LEMMA StartIs ==
  ASSUME NEW record, IsRecord(record), NEW i \in DOMAIN record.parts
  PROVE  /\ Start(record, i) \in 0 .. i - 1
         /\ Start(record, i) = 0 \/ record.parts[Start(record, i)].part = 3
         /\ \A k \in Start(record, i) + 1 .. i - 1 : record.parts[k].part # 3
<1>1. i \in Nat \ {0}
  BY RecordTyped
<1> DEFINE Begins(j) == j = 0 \/ record.parts[j].part = 3
           M == {n \in 1 .. i : Begins(i - n)}
<1>2. M \in SUBSET Nat /\ i \in M
  BY <1>1
<1>3. PICK n \in M : \A m \in M : n <= m
  BY <1>2, LeastNumber
<1>4. i - n \in 0 .. i - 1 /\ Begins(i - n)
  BY <1>1, <1>3
<1>5. ASSUME NEW k \in i - n + 1 .. i - 1
      PROVE  record.parts[k].part # 3
  <2>1. i - k \in 1 .. i /\ i - k < n /\ i - (i - k) = k
    BY <1>1, <1>3
  <2> QED
    BY <2>1, <1>3
<1> DEFINE Is(j) == Begins(j) /\ \A k \in j + 1 .. i - 1 : record.parts[k].part # 3
<1>6. \E j \in 0 .. i - 1 : Is(j)
  BY <1>4, <1>5
<1>7. Start(record, i) = CHOOSE j \in 0 .. i - 1 : Is(j)
  BY DEF Start
<1> HIDE DEF Is
<1>8. Start(record, i) \in 0 .. i - 1 /\ Is(Start(record, i))
  BY <1>6, <1>7
<1> QED
  BY <1>8 DEF Is

(* And it is the only place like this. *)
LEMMA StartUnique ==
  ASSUME NEW record, IsRecord(record), NEW i \in DOMAIN record.parts,
         NEW j \in 0 .. i - 1, j = 0 \/ record.parts[j].part = 3,
         \A k \in j + 1 .. i - 1 : record.parts[k].part # 3
  PROVE  Start(record, i) = j
<1>1. i \in Nat \ {0}
  BY RecordTyped
<1> DEFINE s == Start(record, i)
<1>2. /\ s \in 0 .. i - 1
      /\ s = 0 \/ record.parts[s].part = 3
      /\ \A k \in s + 1 .. i - 1 : record.parts[k].part # 3
  BY StartIs
<1> HIDE DEF s
<1>3. ASSUME s < j
      PROVE  FALSE
  <2>1. j \in s + 1 .. i - 1 /\ j # 0
    BY <1>1, <1>2, <1>3
  <2> QED
    BY <1>2, <2>1
<1>4. ASSUME j < s
      PROVE  FALSE
  <2>1. s \in j + 1 .. i - 1 /\ s # 0
    BY <1>1, <1>2, <1>4
  <2> QED
    BY <1>2, <2>1
<1> QED
  BY <1>1, <1>2, <1>3, <1>4 DEF s

(* A segment consists of the parts from its start on. *)
LEMMA SegmentIs ==
  ASSUME NEW record, IsRecord(record), NEW i \in DOMAIN record.parts
  PROVE  /\ Len(Segment(record, i)) = i - Start(record, i)
         /\ Len(Segment(record, i)) \in Nat \ {0}
         /\ \A k \in 1 .. i - Start(record, i) :
              Segment(record, i)[k] = record.parts[Start(record, i) + k]
<1>1. Start(record, i) \in 0 .. i - 1 /\ i \in 1 .. Len(record.parts) /\ Len(record.parts) \in Nat
  BY StartIs, RecordTyped
<1>2. record.parts \in Seq(PartsOfRecord(record))
  BY DEF IsRecord, PartsOfRecord
<1> DEFINE s == Start(record, i)
           parts == record.parts
<1>3. Segment(record, i) = SubSeq(parts, s + 1, i)
  BY DEF Segment
<1> HIDE DEF s, parts
<1>4. /\ s \in Nat /\ i \in Nat /\ s < i /\ i <= Len(parts) /\ Len(parts) \in Nat
      /\ parts \in Seq(PartsOfRecord(record))
  BY <1>1, <1>2 DEF s, parts
<1>5. /\ Len(SubSeq(parts, s + 1, i)) = i - s /\ i - s \in Nat \ {0}
      /\ \A k \in 1 .. i - s : SubSeq(parts, s + 1, i)[k] = parts[s + k]
  BY <1>4
<1>6. /\ Len(Segment(record, i)) = i - s /\ Len(Segment(record, i)) \in Nat \ {0}
      /\ \A k \in 1 .. i - s : Segment(record, i)[k] = parts[s + k]
  BY <1>3, <1>5
<1> QED
  BY <1>6 DEF s, parts

-----------------------------------------------------------------------------
\* Texts, by where they begin and where they end, and choices.
Texts == Nat \X Nat
ChoiceSet == [content : Seq(Texts), call : Nat]

\* What there is of a choice.
Have(choices, i) == IF i \in DOMAIN choices THEN choices[i] ELSE NoChoice

(* What growing does. *)
LEMMA ResizedIs ==
  ASSUME NEW choices \in Seq(ChoiceSet), NEW index \in Nat
  PROVE  /\ Resized(choices, index) \in Seq(ChoiceSet)
         /\ index + 1 \in DOMAIN Resized(choices, index)
         /\ DOMAIN choices \subseteq DOMAIN Resized(choices, index)
         /\ \A i \in DOMAIN Resized(choices, index) :
              Resized(choices, index)[i] = Have(choices, i)
<1> DEFINE m == IF Len(choices) < index + 1 THEN index + 1 - Len(choices) ELSE 0
           more == [i \in 1 .. m |-> NoChoice]
<1>1. m \in Nat /\ Len(choices) \in Nat /\ DOMAIN choices = 1 .. Len(choices)
  OBVIOUS
<1>2. 1 .. m = 1 .. (index + 1 - Len(choices))
  BY <1>1
<1>3. Resized(choices, index) = choices \o more
  BY <1>2 DEF Resized
<1>4. index + 1 <= Len(choices) + m
  BY <1>1
<1> HIDE DEF m
<1>5. NoChoice \in ChoiceSet
  BY DEF NoChoice, NoCall, ChoiceSet
<1>6. more \in Seq(ChoiceSet) /\ Len(more) = m /\ \A i \in 1 .. m : more[i] = NoChoice
  BY <1>1, <1>5
<1> HIDE DEF more
<1>7. /\ choices \o more \in Seq(ChoiceSet)
      /\ Len(choices \o more) = Len(choices) + m
      /\ DOMAIN (choices \o more) = 1 .. Len(choices) + m
  BY <1>1, <1>6
<1>8. \A i \in 1 .. Len(choices) + m :
        (choices \o more)[i] = IF i <= Len(choices) THEN choices[i] ELSE more[i - Len(choices)]
  BY <1>1, <1>6
<1>9. \A i \in 1 .. Len(choices) + m : (choices \o more)[i] = Have(choices, i)
  BY <1>1, <1>6, <1>8 DEF Have
<1> QED
  BY <1>1, <1>3, <1>4, <1>7, <1>9

(* A choice with another call, or one more text. *)
LEMMA ChoiceChanged ==
  ASSUME NEW old \in ChoiceSet, NEW ev \in Nat, NEW text \in Texts
  PROVE  /\ [old EXCEPT !.call = ev] = [content |-> old.content, call |-> ev]
         /\ [old EXCEPT !.call = ev] \in ChoiceSet
         /\ [old EXCEPT !.content = Append(@, text)] =
              [content |-> Append(old.content, text), call |-> old.call]
         /\ [old EXCEPT !.content = Append(@, text)] \in ChoiceSet
<1>1. /\ old.content \in Seq(Texts) /\ old.call \in Nat
      /\ old = [content |-> old.content, call |-> old.call]
  BY DEF ChoiceSet
<1>2. Append(old.content, text) \in Seq(Texts)
  BY <1>1
<1>3. [old EXCEPT !.call = ev] = [content |-> old.content, call |-> ev]
  BY <1>1
<1>4. [old EXCEPT !.content = Append(@, text)] =
        [content |-> Append(old.content, text), call |-> old.call]
  <2> DEFINE longer == Append(old.content, text)
  <2>1. [old EXCEPT !.content = Append(@, text)] = [old EXCEPT !.content = longer]
    BY <1>1
  <2> HIDE DEF longer
  <2>2. [old EXCEPT !.content = longer] = [content |-> longer, call |-> old.call]
    BY <1>1
  <2> QED
    BY <2>1, <2>2 DEF longer
<1>5. /\ [content |-> old.content, call |-> ev] \in ChoiceSet
      /\ [content |-> Append(old.content, text), call |-> old.call] \in ChoiceSet
  BY <1>1, <1>2 DEF ChoiceSet
<1> QED
  BY <1>3, <1>4, <1>5

\* The choices after a segment has been added to them: one has changed.
AddedTo(record, segment, choices, new) ==
  LET c == record.events[First(segment)].choice + 1
  IN  /\ c \in DOMAIN new /\ DOMAIN choices \subseteq DOMAIN new
      /\ \A i \in DOMAIN new : i # c => new[i] = Have(choices, i)
      /\ new[c] = IF record.events[First(segment)].delta = "call"
                  THEN [content |-> Have(choices, c).content, call |-> First(segment)]
                  ELSE [content |-> Append(Have(choices, c).content,
                                           <<First(segment), Final(segment)>>),
                        call |-> Have(choices, c).call]

(* What a turn of the loop over the choices does. *)
LEMMA AddIs ==
  ASSUME NEW record, IsRecord(record), NEW segment, NEW choices \in Seq(ChoiceSet),
         First(segment) \in DOMAIN record.events, Final(segment) \in Nat
  PROVE  /\ Add(choices, record, segment) \in Seq(ChoiceSet)
         /\ AddedTo(record, segment, choices, Add(choices, record, segment))
<1> DEFINE index == record.events[First(segment)].choice
           c == index + 1
           new == Add(choices, record, segment)
           grown == Resized(choices, index)
<1>1. index \in Nat /\ c = index + 1 /\ First(segment) \in Nat
  BY RecordTyped
<1>2. /\ grown \in Seq(ChoiceSet) /\ c \in DOMAIN grown
      /\ DOMAIN choices \subseteq DOMAIN grown
      /\ \A i \in DOMAIN grown : grown[i] = Have(choices, i)
  BY <1>1, ResizedIs
<1> DEFINE mine == IF record.events[First(segment)].delta = "call"
                   THEN [grown[c] EXCEPT !.call = First(segment)]
                   ELSE [grown[c] EXCEPT !.content =
                           Append(@, <<First(segment), Final(segment)>>)]
<1>3. new = [grown EXCEPT ![c] = mine]
  BY <1>1 DEF Add
<1>4. grown[c] \in ChoiceSet
  BY <1>2
<1> DEFINE text == <<First(segment), Final(segment)>>
<1>5. text \in Texts
  BY <1>1 DEF Texts
<1> HIDE DEF text, grown, new
<1>6. /\ mine = IF record.events[First(segment)].delta = "call"
                THEN [content |-> grown[c].content, call |-> First(segment)]
                ELSE [content |-> Append(grown[c].content, text), call |-> grown[c].call]
      /\ mine \in ChoiceSet
  BY <1>1, <1>4, <1>5, ChoiceChanged DEF text
<1> HIDE DEF mine
<1>7. /\ [grown EXCEPT ![c] = mine] \in Seq(ChoiceSet)
      /\ DOMAIN [grown EXCEPT ![c] = mine] = DOMAIN grown
      /\ [grown EXCEPT ![c] = mine][c] = mine
      /\ \A i \in DOMAIN grown : i # c => [grown EXCEPT ![c] = mine][i] = grown[i]
  BY <1>2, <1>6
<1> QED
  BY <1>1, <1>2, <1>3, <1>6, <1>7 DEF text, new, AddedTo

(* A payload that parses is of two events, and ends with a part 3. *)
LEMMA PayloadIs ==
  ASSUME NEW record, IsRecord(record), Readable(record, TRUE), NEW n \in Payloads(record)
  PROVE  LET segment == Segment(record, n)
             s == Start(record, n)
         IN  /\ n \in DOMAIN record.parts /\ s \in 0 .. n - 2
             /\ record.parts[s + 1].part = 1 /\ record.parts[s + 2].part = 2
             /\ First(segment) = record.parts[s + 2].event
             /\ Final(segment) = record.parts[n].event
             /\ First(segment) \in DOMAIN record.events
             /\ Final(segment) \in DOMAIN record.events
             /\ record.events[First(segment)].delta \in {"text", "call"}
             /\ record.events[First(segment)].delta = record.events[Final(segment)].delta
             /\ record.parts[n].part = 3 /\ s + 3 <= n
             /\ \A k \in s + 3 .. n - 1 : record.parts[k].part = 1
<1> DEFINE segment == Segment(record, n)
           s == Start(record, n)
<1>1. n \in DOMAIN record.parts /\ n \in Nat \ {0} /\ n \in 1 .. Len(record.parts)
  BY RecordTyped DEF Payloads, Ends
<1>2. HasPrefix(segment) /\ Parses(record, segment, TRUE)
  BY DEF Payloads, Readable
<1>3. /\ s \in 0 .. n - 1 /\ Len(segment) = n - s
      /\ \A k \in 1 .. n - s : segment[k] = record.parts[s + k]
  BY <1>1, StartIs, SegmentIs
<1> HIDE DEF segment, s
<1>4. s + 2 <= n /\ segment[1].part = 1 /\ segment[2].part = 2
  BY <1>1, <1>2, <1>3 DEF HasPrefix
<1>5. /\ segment[1] = record.parts[s + 1] /\ segment[2] = record.parts[s + 2]
      /\ segment[Len(segment)] = record.parts[n]
  BY <1>1, <1>3, <1>4
<1>6. s + 1 \in DOMAIN record.parts /\ s + 2 \in DOMAIN record.parts
  BY <1>1, <1>3, <1>4, RecordTyped
<1>7. /\ First(segment) = record.parts[s + 2].event
      /\ Final(segment) = record.parts[n].event
  BY <1>5 DEF First, Final
<1>8. /\ First(segment) \in DOMAIN record.events
      /\ Final(segment) \in DOMAIN record.events
  <2>1. /\ First(segment) \in 1 .. Done(record) /\ First(segment) # Done(record)
        /\ Final(segment) \in 1 .. Done(record) /\ Final(segment) # Done(record)
    BY <1>1, <1>2, <1>6, <1>7, RecordTyped DEF Parses
  <2>2. /\ Done(record) = Len(record.events) + 1 /\ Len(record.events) \in Nat
        /\ DOMAIN record.events = 1 .. Len(record.events)
    BY RecordTyped
  <2> QED
    BY <2>1, <2>2
<1>9. /\ record.events[First(segment)].delta \in {"text", "call"}
      /\ record.parts[n].part = 3
      /\ record.events[First(segment)].delta = record.events[Final(segment)].delta
  BY <1>2, <1>5, <1>8, RecordTyped DEF Parses, Deltas
<1>10. s + 3 <= n
  BY <1>1, <1>3, <1>4, <1>5, <1>9
<1>11. ASSUME NEW k \in s + 3 .. n - 1
       PROVE  record.parts[k].part = 1
  <2>1. k - s \in 3 .. Len(segment) - 1 /\ k - s \in 1 .. n - s /\ s + (k - s) = k
    BY <1>1, <1>3
  <2>2. segment[k - s] = record.parts[k]
    BY <1>3, <2>1
  <2>3. Len(segment) # 3
    BY <1>1, <1>3, <2>1
  <2> QED
    BY <1>2, <2>1, <2>2, <2>3 DEF Parses
<1> QED
  BY <1>1, <1>3, <1>4, <1>5, <1>7, <1>8, <1>9, <1>10, <1>11 DEF segment, s

(* The loop does what it says, for a record whose payloads parse. *)
LEMMA ChoicesAre ==
  ASSUME NEW record, IsRecord(record), Readable(record, TRUE)
  PROVE  LET choices == ChoicesAfter(record)
         IN  /\ choices[0] = <<>>
             /\ \A n \in DOMAIN record.parts :
                  choices[n] = IF n \in Payloads(record)
                               THEN Add(choices[n - 1], record, Segment(record, n))
                               ELSE choices[n - 1]
             /\ \A n \in 0 .. Len(record.parts) : choices[n] \in Seq(ChoiceSet)
<1> DEFINE N == Len(record.parts)
           V == Seq(ChoiceSet)
           Turn(n, choices) == IF n \in Payloads(record)
                               THEN Add(choices, record, Segment(record, n)) ELSE choices
           turn == [n \in 1 .. N |-> [choices \in V |-> Turn(n, choices)]]
<1>1. N \in Nat /\ DOMAIN record.parts = 1 .. N
  BY RecordTyped
<1>2. ASSUME NEW n \in 1 .. N, NEW choices \in V
      PROVE  Turn(n, choices) \in V
  <2>1. CASE n \in Payloads(record)
    <3>1. /\ First(Segment(record, n)) \in DOMAIN record.events
          /\ Final(Segment(record, n)) \in Nat
      <4>1. /\ First(Segment(record, n)) \in DOMAIN record.events
            /\ Final(Segment(record, n)) \in DOMAIN record.events
        BY <2>1, PayloadIs
      <4> QED
        BY <4>1, RecordTyped
    <3> QED
      BY <2>1, <3>1, AddIs
  <2>2. CASE n \notin Payloads(record)
    BY <2>2
  <2> QED
    BY <2>1, <2>2
<1>3. <<>> \in V
  OBVIOUS
<1> HIDE DEF V, Turn
<1>4. turn \in [1 .. N -> [V -> V]]
  BY <1>2
<1>5. PICK f \in [0 .. N -> V] : IsLoop(f, N, <<>>, turn)
  BY <1>1, <1>3, <1>4, LoopExists
<1>6. f = [n \in 0 .. N |-> IF n = 0 THEN <<>> ELSE Turn(n, f[n - 1])]
  <2>1. \A n \in 1 .. N : f[n - 1] \in V
    BY <1>1, <1>5
  <2>2. \A n \in 1 .. N : f[n] = Turn(n, f[n - 1])
    BY <1>1, <1>5, <2>1 DEF IsLoop
  <2> QED
    BY <1>1, <1>5, <2>2 DEF IsLoop
<1> DEFINE Is(g) == g = [n \in 0 .. N |-> IF n = 0 THEN <<>> ELSE Turn(n, g[n - 1])]
           choices == ChoicesAfter(record)
<1>7. choices = CHOOSE g : Is(g)
  BY DEF ChoicesAfter, Turn
<1> HIDE DEF Is, choices
<1>8. Is(choices)
  <2>1. Is(f)
    BY <1>6 DEF Is
  <2> QED
    BY <1>7, <2>1
<1>9. choices[0] = <<>> /\ \A n \in 1 .. N : choices[n] = Turn(n, choices[n - 1])
  <2> HIDE DEF N
  <2>1. \A n \in 0 .. N : choices[n] = IF n = 0 THEN <<>> ELSE Turn(n, choices[n - 1])
    BY <1>8 DEF Is
  <2> QED
    BY <1>1, <2>1
<1> DEFINE M == {n \in 0 .. N : choices[n] \in V}
<1>10. 0 \in M
  BY <1>1, <1>3, <1>9
<1>11. \A n \in 1 .. N : n - 1 \in M => n \in M
  BY <1>1, <1>2, <1>9
<1> HIDE DEF M
<1>12. 0 .. N \subseteq M
  BY <1>1, <1>10, <1>11, UpTo
<1> QED
  BY <1>1, <1>9, <1>12 DEF M, Turn, V, choices

-----------------------------------------------------------------------------
(* Where the parts of a record in order are. *)
LEMMA InOrderIs ==
  ASSUME NEW record, IsRecord(record), InOrder(record)
  PROVE  /\ \A i \in DOMAIN record.parts :
              \E ev \in 1 .. Done(record), p \in 1 .. 3 :
                i = 3 * (ev - 1) + p /\ record.parts[i] = Part(ev, p)
         /\ \A ev \in 1 .. Done(record), p \in 1 .. 3 :
              3 * (ev - 1) + p <= Len(record.parts) =>
                record.parts[3 * (ev - 1) + p] = Part(ev, p)
<1> DEFINE N == 3 * Done(record)
           L == Len(record.parts)
           all == PartsUpTo(Done(record))
<1>1. /\ Done(record) \in Nat \ {0} /\ N \in Nat /\ L \in Nat
      /\ DOMAIN record.parts = 1 .. L
  BY RecordTyped
<1>2. /\ all = [i \in 1 .. N |-> Part(1 + (i - 1) \div 3, 1 + ((i - 1) % 3))]
      /\ Len(all) = N
  BY <1>1 DEF PartsUpTo
<1>3. \A i \in 1 .. N :
        LET ev == 1 + (i - 1) \div 3
            p == 1 + ((i - 1) % 3)
        IN  i = 3 * (ev - 1) + p /\ p \in 1 .. 3 /\ ev \in Nat \ {0}
  BY <1>1
<1>4. ASSUME NEW i \in 1 .. L
      PROVE  i \in 1 .. N /\ record.parts[i] = all[i]
  <2>1. L <= N /\ SubSeq(record.parts, 1, L) = SubSeq(all, 1, L)
    BY <1>1, <1>2 DEF InOrder, IsPrefix
  <2>2. SubSeq(record.parts, 1, L)[i] = record.parts[i]
    <3>1. record.parts \in Seq(PartsOfRecord(record))
      BY DEF IsRecord, PartsOfRecord
    <3> QED
      BY <1>1, <3>1
  <2>3. SubSeq(all, 1, L)[i] = all[i]
    <3> DEFINE S == [event : Nat, part : Nat]
    <3>1. \A k \in 1 .. N : all[k] \in S
      BY <1>2, <1>3 DEF Part
    <3> HIDE DEF S
    <3>2. all \in Seq(S)
      BY <1>1, <1>2, <3>1
    <3> HIDE DEF all, N
    <3> QED
      BY <1>1, <1>2, <2>1, <3>2
  <2> QED
    BY <1>1, <2>1, <2>2, <2>3
<1>5. ASSUME NEW i \in 1 .. L
      PROVE  \E ev \in 1 .. Done(record), p \in 1 .. 3 :
               i = 3 * (ev - 1) + p /\ record.parts[i] = Part(ev, p)
  <2> DEFINE ev == 1 + (i - 1) \div 3
             p == 1 + ((i - 1) % 3)
  <2>1. i = 3 * (ev - 1) + p /\ p \in 1 .. 3 /\ ev \in Nat \ {0} /\ i \in 1 .. N
    BY <1>3, <1>4
  <2>2. record.parts[i] = Part(ev, p)
    BY <1>2, <1>4
  <2> HIDE DEF ev, p
  <2>3. ev \in 1 .. Done(record)
    BY <1>1, <2>1
  <2> QED
    BY <2>1, <2>2, <2>3
<1>6. ASSUME NEW ev \in 1 .. Done(record), NEW p \in 1 .. 3, 3 * (ev - 1) + p <= L
      PROVE  record.parts[3 * (ev - 1) + p] = Part(ev, p)
  <2>1. 3 * (ev - 1) + p \in 1 .. L
    BY <1>1, <1>6
  <2>2. PICK f \in 1 .. Done(record), q \in 1 .. 3 :
          /\ 3 * (ev - 1) + p = 3 * (f - 1) + q
          /\ record.parts[3 * (ev - 1) + p] = Part(f, q)
    BY <1>5, <2>1
  <2>3. f = ev /\ q = p
    BY <1>1, <2>2
  <2> QED
    BY <2>2, <2>3
<1> QED
  BY <1>1, <1>5, <1>6

(* The payloads of a record in order, if they parse, are its events.       *)
LEMMA InOrderPayloads ==
  ASSUME NEW record, IsRecord(record), InOrder(record), Readable(record, TRUE),
         NEW n \in DOMAIN record.parts
  PROVE  /\ n \in Payloads(record) <=> \E ev \in DOMAIN record.events : n = 3 * ev
         /\ \A ev \in DOMAIN record.events : n = 3 * ev =>
              First(Segment(record, n)) = ev /\ Final(Segment(record, n)) = ev
<1> DEFINE segment == Segment(record, n)
<1>1. PICK ev \in 1 .. Done(record), p \in 1 .. 3 :
        n = 3 * (ev - 1) + p /\ record.parts[n] = Part(ev, p)
  BY InOrderIs
<1>2. /\ n \in 1 .. Len(record.parts) /\ Len(record.parts) \in Nat
      /\ Done(record) = Len(record.events) + 1 /\ Len(record.events) \in Nat
      /\ DOMAIN record.events = 1 .. Len(record.events)
      /\ DOMAIN record.parts = 1 .. Len(record.parts)
  BY RecordTyped
<1>3. ASSUME NEW q \in 1 .. p
      PROVE  /\ record.parts[3 * (ev - 1) + q] = Part(ev, q)
             /\ record.parts[3 * (ev - 1) + q].part = q
  <2>1. q \in 1 .. 3 /\ 3 * (ev - 1) + q <= Len(record.parts)
    BY <1>1, <1>2
  <2>2. record.parts[3 * (ev - 1) + q] = Part(ev, q)
    BY <2>1, InOrderIs
  <2> QED
    BY <2>2 DEF Part
<1>4. Start(record, n) = 3 * (ev - 1)
  <2> DEFINE j == 3 * (ev - 1)
  <2>1. j \in 0 .. n - 1
    BY <1>1, <1>2
  <2>2. j = 0 \/ record.parts[j].part = 3
    <3>1. CASE ev = 1
      BY <3>1
    <3>2. CASE ev # 1
      <4>1. ev - 1 \in 1 .. Done(record) /\ 3 * ((ev - 1) - 1) + 3 = j /\ j <= Len(record.parts)
        BY <1>1, <1>2, <3>2
      <4>2. record.parts[j] = Part(ev - 1, 3)
        BY <4>1, InOrderIs
      <4> QED
        BY <4>2 DEF Part
    <3> QED
      BY <3>1, <3>2
  <2>3. ASSUME NEW k \in j + 1 .. n - 1
        PROVE  record.parts[k].part # 3
    <3>1. k - j \in 1 .. p /\ k - j # 3 /\ 3 * (ev - 1) + (k - j) = k
      BY <1>1, <1>2
    <3> QED
      BY <1>3, <3>1
  <2> HIDE DEF j
  <2>4. Start(record, n) = j
    BY <2>1, <2>2, <2>3, StartUnique
  <2> QED
    BY <2>4 DEF j
<1>5. Len(segment) = p /\ \A k \in 1 .. p : segment[k] = Part(ev, k)
  <2>1. n - Start(record, n) = p
    BY <1>1, <1>2, <1>4
  <2>2. /\ Len(segment) = n - Start(record, n)
        /\ \A k \in 1 .. n - Start(record, n) :
             segment[k] = record.parts[Start(record, n) + k]
    BY SegmentIs
  <2>3. /\ Len(segment) = p
        /\ \A k \in 1 .. p : segment[k] = record.parts[3 * (ev - 1) + k]
    BY <1>4, <2>1, <2>2
  <2> HIDE DEF segment
  <2> QED
    BY <1>3, <2>3
<1>6. CASE p = 1
  <2>1. n \notin Payloads(record)
    <3>1. ~ HasPrefix(segment)
      BY <1>5, <1>6 DEF HasPrefix
    <3> QED
      BY <3>1 DEF Payloads
  <2>2. \A e \in DOMAIN record.events : n # 3 * e
    BY <1>1, <1>2, <1>6
  <2> QED
    BY <2>1, <2>2
<1>7. CASE p = 2
  <2>1. n \notin Payloads(record)
    <3>1. record.parts[n].part # 3
      BY <1>1, <1>7 DEF Part
    <3> QED
      BY <3>1, PayloadIs
  <2>2. \A e \in DOMAIN record.events : n # 3 * e
    BY <1>1, <1>2, <1>7
  <2> QED
    BY <2>1, <2>2
<1>8. CASE p = 3
  <2>1. n = 3 * ev
    BY <1>1, <1>2, <1>8
  <2>2. /\ segment[1] = Part(ev, 1) /\ segment[2] = Part(ev, 2) /\ segment[3] = Part(ev, 3)
        /\ Len(segment) = 3
    BY <1>5, <1>8
  <2>3. n \in Ends(record) /\ HasPrefix(segment)
    BY <1>1, <1>8, <2>2 DEF Ends, HasPrefix, Part
  <2>4. First(segment) = ev /\ Final(segment) = ev
    BY <2>2 DEF First, Final, Part
  <2>5. IsDone(record, segment) <=> ev = Done(record)
    BY <2>2, <2>4 DEF IsDone, Part
  <2>6. n \in Payloads(record) <=> ev # Done(record)
    BY <2>3, <2>5 DEF Payloads
  <2>7. ev # Done(record) <=> ev \in DOMAIN record.events
    BY <1>2
  <2>8. \A e \in DOMAIN record.events : n = 3 * e => e = ev
    BY <1>2, <2>1
  <2> QED
    BY <2>1, <2>4, <2>6, <2>7, <2>8
<1> QED
  BY <1>6, <1>7, <1>8

\* The events whose last part is among the first n parts of a record in order.
Got(record, n, choice, delta) ==
  {ev \in DOMAIN record.events :
     /\ 3 * ev <= n
     /\ record.events[ev].choice = choice /\ record.events[ev].delta = delta}

\* Choice i is made of these.
ChoiceIs(record, n, i, choice) ==
  LET content == choice.content
      calls == Got(record, n, i - 1, "call")
  IN  /\ ToSet(content) = {<<ev, ev>> : ev \in Got(record, n, i - 1, "text")}
      /\ \A k, m \in DOMAIN content : k < m => content[k][1] < content[m][1]
      /\ IF calls = {} THEN choice.call = NoCall
         ELSE choice.call \in calls /\ \A c \in calls : c <= choice.call

ChoicesInOrder(record, n) ==
  /\ \A i \in DOMAIN ChoicesAfter(record)[n] :
       ChoiceIs(record, n, i, ChoicesAfter(record)[n][i])
  /\ \A ev \in DOMAIN record.events :
       3 * ev <= n => record.events[ev].choice + 1 \in DOMAIN ChoicesAfter(record)[n]

(* A choice that has nothing is as good as none. *)
LEMMA HaveIs ==
  ASSUME NEW record, IsRecord(record), NEW n \in Nat, ChoicesInOrder(record, n),
         NEW i \in Nat \ {0}
  PROVE  ChoiceIs(record, n, i, Have(ChoicesAfter(record)[n], i))
<1> DEFINE choices == ChoicesAfter(record)[n]
<1>1. CASE i \in DOMAIN choices
  BY <1>1 DEF Have, ChoicesInOrder
<1>2. CASE i \notin DOMAIN choices
  <2>1. \A ev \in DOMAIN record.events : 3 * ev <= n => record.events[ev].choice # i - 1
    <3> SUFFICES ASSUME NEW ev \in DOMAIN record.events, 3 * ev <= n,
                        record.events[ev].choice = i - 1
                 PROVE  FALSE
      OBVIOUS
    <3>1. record.events[ev].choice + 1 = i
      BY RecordTyped
    <3> QED
      BY <1>2, <3>1 DEF ChoicesInOrder
  <2>2. Got(record, n, i - 1, "text") = {} /\ Got(record, n, i - 1, "call") = {}
    BY <2>1 DEF Got
  <2>3. Have(choices, i) = NoChoice
    BY <1>2 DEF Have
  <2>4. ToSet(<<>>) = {} /\ DOMAIN <<>> = {}
    BY EmptyQueue
  <2> QED
    BY <2>2, <2>3, <2>4 DEF ChoiceIs, NoChoice
<1> QED
  BY <1>1, <1>2

(* The loop keeps the texts apart and in order. *)
LEMMA InOrderTurn ==
  ASSUME NEW record, IsRecord(record), InOrder(record), Readable(record, TRUE),
         NEW n \in DOMAIN record.parts, ChoicesInOrder(record, n - 1)
  PROVE  ChoicesInOrder(record, n)
<1> DEFINE old == ChoicesAfter(record)[n - 1]
           new == ChoicesAfter(record)[n]
           segment == Segment(record, n)
<1>1. /\ n \in Nat \ {0} /\ n - 1 \in 0 .. Len(record.parts) /\ n - 1 \in Nat
      /\ DOMAIN record.events \subseteq Nat \ {0}
      /\ n \in 0 .. Len(record.parts)
  BY RecordTyped
<1>2. /\ old \in Seq(ChoiceSet) /\ new \in Seq(ChoiceSet)
      /\ new = IF n \in Payloads(record) THEN Add(old, record, segment) ELSE old
  BY <1>1, ChoicesAre
<1>3. CASE n \notin Payloads(record)
  <2>1. \A ev \in DOMAIN record.events : 3 * ev <= n <=> 3 * ev <= n - 1
    <3>1. \A ev \in DOMAIN record.events : n # 3 * ev
      BY <1>3, InOrderPayloads
    <3> QED
      BY <1>1, <3>1
  <2>2. \A choice, delta : Got(record, n, choice, delta) = Got(record, n - 1, choice, delta)
    BY <2>1 DEF Got
  <2>3. new = old
    BY <1>2, <1>3
  <2> HIDE DEF new, old
  <2>4. \A i \in DOMAIN new : ChoiceIs(record, n, i, new[i])
    BY <2>2, <2>3 DEF ChoicesInOrder, ChoiceIs, old
  <2> QED
    BY <2>1, <2>3, <2>4 DEF ChoicesInOrder, old, new
<1>4. CASE n \in Payloads(record)
  <2>1. PICK e \in DOMAIN record.events : n = 3 * e
    BY <1>4, InOrderPayloads
  <2>2. First(segment) = e /\ Final(segment) = e
    BY <2>1, InOrderPayloads
  <2> DEFINE delta == record.events[e].delta
             c == record.events[e].choice + 1
  <2>3. e \in Nat \ {0} /\ delta \in {"text", "call"} /\ c - 1 = record.events[e].choice
        /\ c \in Nat \ {0}
    <3>1. record.events[First(segment)].delta \in {"text", "call"}
      BY <1>4, PayloadIs
    <3>2. record.events[e].choice \in Nat
      BY RecordTyped
    <3> QED
      BY <1>1, <2>2, <3>1, <3>2
  <2>4. /\ c \in DOMAIN new /\ DOMAIN old \subseteq DOMAIN new
        /\ \A i \in DOMAIN new : i # c => new[i] = Have(old, i)
        /\ new[c] = IF delta = "call"
                    THEN [content |-> Have(old, c).content, call |-> e]
                    ELSE [content |-> Append(Have(old, c).content, <<e, e>>),
                          call |-> Have(old, c).call]
    <3>1. new = Add(old, record, segment)
      BY <1>2, <1>4
    <3>2. First(segment) \in DOMAIN record.events /\ Final(segment) \in Nat
      BY <2>2, <2>3
    <3> HIDE DEF new, old, segment
    <3>3. old \in Seq(ChoiceSet)
      BY <1>2
    <3>4. AddedTo(record, segment, old, new)
      BY <3>1, <3>2, <3>3, AddIs
    <3> QED
      BY <2>2, <3>4 DEF AddedTo
  <2>5. \A ev \in DOMAIN record.events :
          /\ 3 * ev <= n <=> 3 * ev <= n - 1 \/ ev = e
          /\ 3 * ev <= n - 1 => ev < e
    BY <1>1, <2>1, <2>3
  <2>6. ASSUME NEW choice, NEW d, choice # c - 1 \/ d # delta
        PROVE  Got(record, n, choice, d) = Got(record, n - 1, choice, d)
    BY <2>3, <2>5, <2>6 DEF Got
  <2>7. /\ Got(record, n, c - 1, delta) = Got(record, n - 1, c - 1, delta) \cup {e}
        /\ \A ev \in Got(record, n - 1, c - 1, delta) : ev < e
    BY <2>3, <2>5 DEF Got
  <2>8. DOMAIN new \subseteq Nat \ {0}
    BY <1>2
  <2>9. ASSUME NEW i \in DOMAIN new, i # c
        PROVE  ChoiceIs(record, n, i, new[i])
    <3>1. i - 1 # c - 1 /\ i \in Nat \ {0}
      BY <2>3, <2>8, <2>9
    <3>2. ChoiceIs(record, n - 1, i, new[i])
      BY <1>1, <2>4, <2>9, <3>1, HaveIs
    <3>3. \A d : Got(record, n, i - 1, d) = Got(record, n - 1, i - 1, d)
      BY <2>6, <3>1
    <3> HIDE DEF new
    <3> QED
      BY <3>2, <3>3 DEF ChoiceIs
  <2> DEFINE mine == Have(old, c)
  <2>10. ChoiceIs(record, n - 1, c, mine)
    BY <1>1, <2>3, HaveIs
  <2>11. mine.content \in Seq(Texts)
    <3> HIDE DEF old, c
    <3>1. CASE c \in DOMAIN old
      <4>1. mine \in ChoiceSet
        BY <1>2, <3>1 DEF Have
      <4> HIDE DEF mine
      <4> QED
        BY <4>1 DEF ChoiceSet
    <3>2. CASE c \notin DOMAIN old
      BY <3>2 DEF Have, NoChoice
    <3> QED
      BY <3>1, <3>2
  <2>12. ChoiceIs(record, n, c, new[c])
    <3> HIDE DEF mine, new, old, c
    <3>1. CASE delta = "call"
      <4>1. new[c].content = mine.content /\ new[c].call = e
        BY <2>4, <3>1 DEF mine
      <4>2. /\ Got(record, n, c - 1, "text") = Got(record, n - 1, c - 1, "text")
            /\ Got(record, n, c - 1, "call") = Got(record, n - 1, c - 1, "call") \cup {e}
            /\ \A ev \in Got(record, n - 1, c - 1, "call") : ev < e
        BY <2>6, <2>7, <3>1
      <4>3. \A ev \in Got(record, n, c - 1, "call") : ev <= e
        BY <1>1, <2>3, <4>2 DEF Got
      <4> QED
        BY <2>10, <4>1, <4>2, <4>3 DEF ChoiceIs
    <3>2. CASE delta = "text"
      <4> DEFINE content == mine.content
                 more == Append(content, <<e, e>>)
      <4>1. new[c].content = more /\ new[c].call = mine.call
        BY <2>4, <3>2 DEF mine
      <4>2. /\ Got(record, n, c - 1, "call") = Got(record, n - 1, c - 1, "call")
            /\ Got(record, n, c - 1, "text") = Got(record, n - 1, c - 1, "text") \cup {e}
            /\ \A ev \in Got(record, n - 1, c - 1, "text") : ev < e
        BY <2>6, <2>7, <3>2
      <4>3. <<e, e>> \in Texts
        BY <2>3 DEF Texts
      <4>4. ToSet(more) = ToSet(content) \cup {<<e, e>>}
        BY <2>11, <4>3, JoinBack
      <4>5. ToSet(more) = {<<ev, ev>> : ev \in Got(record, n, c - 1, "text")}
        BY <2>10, <4>2, <4>4 DEF ChoiceIs
      <4>6. /\ DOMAIN content = 1 .. Len(content) /\ Len(content) \in Nat
            /\ DOMAIN more = 1 .. Len(content) + 1
            /\ \A k \in 1 .. Len(content) : more[k] = content[k]
            /\ more[Len(content) + 1] = <<e, e>>
        BY <2>11, <4>3
      <4>7. \A k \in 1 .. Len(content) : content[k][1] < e
        <5> TAKE k \in 1 .. Len(content)
        <5>1. content[k] \in ToSet(content)
          BY <4>6 DEF ToSet
        <5>2. PICK ev \in Got(record, n - 1, c - 1, "text") : content[k] = <<ev, ev>>
          BY <2>10, <5>1 DEF ChoiceIs
        <5> QED
          BY <4>2, <5>2
      <4>8. \A k, m \in DOMAIN more : k < m => more[k][1] < more[m][1]
        <5> SUFFICES ASSUME NEW k \in DOMAIN more, NEW m \in DOMAIN more, k < m
                     PROVE  more[k][1] < more[m][1]
          OBVIOUS
        <5>1. k \in 1 .. Len(content) /\ more[k] = content[k]
          BY <4>6
        <5>2. CASE m = Len(content) + 1
          BY <4>6, <4>7, <5>1, <5>2
        <5>3. CASE m # Len(content) + 1
          <6>1. m \in 1 .. Len(content) /\ more[m] = content[m]
            BY <4>6, <5>3
          <6> QED
            BY <2>10, <4>6, <5>1, <6>1 DEF ChoiceIs
        <5> QED
          BY <5>2, <5>3
      <4> HIDE DEF more, content
      <4> QED
        BY <2>10, <4>1, <4>2, <4>5, <4>8 DEF ChoiceIs
    <3> QED
      BY <2>3, <3>1, <3>2
  <2>13. \A ev \in DOMAIN record.events :
           3 * ev <= n => record.events[ev].choice + 1 \in DOMAIN new
    BY <2>4, <2>5 DEF ChoicesInOrder
  <2> QED
    BY <2>9, <2>12, <2>13 DEF ChoicesInOrder
<1> QED
  BY <1>3, <1>4

(* Of a record in order each choice has its own texts, in order. *)
LEMMA InOrderCounted ==
  ASSUME NEW record, IsRecord(record), InOrder(record), Readable(record, TRUE)
  PROVE  OwnTextsInOrder(record, Counted(record))
<1> DEFINE L == Len(record.parts)
<1>1. L \in Nat /\ DOMAIN record.parts = 1 .. L /\ DOMAIN record.events \subseteq Nat \ {0}
  BY RecordTyped
<1> DEFINE M == {n \in 0 .. L : ChoicesInOrder(record, n)}
<1>2. 0 \in M
  <2>1. ChoicesAfter(record)[0] = <<>>
    BY ChoicesAre
  <2>2. \A ev \in DOMAIN record.events : ~ (3 * ev <= 0)
    BY <1>1
  <2> QED
    BY <1>1, <2>1, <2>2 DEF ChoicesInOrder
<1>3. ASSUME NEW n \in 1 .. L, n - 1 \in M
      PROVE  n \in M
  <2>1. n \in DOMAIN record.parts /\ ChoicesInOrder(record, n - 1)
    BY <1>1, <1>3
  <2>2. ChoicesInOrder(record, n)
    BY <2>1, InOrderTurn
  <2> QED
    BY <1>1, <2>2
<1> HIDE DEF M
<1>4. 0 .. L \subseteq M
  BY <1>1, <1>2, <1>3, UpTo
<1>5. ChoicesInOrder(record, L)
  BY <1>1, <1>4 DEF M
<1>6. \A ev \in DOMAIN record.events : Part(ev, 3) \in ToSet(record.parts) <=> 3 * ev <= L
  <2> TAKE ev \in DOMAIN record.events
  <2>1. ev \in 1 .. Done(record) /\ 3 * (ev - 1) + 3 = 3 * ev /\ 3 * ev \in Nat \ {0}
    BY RecordTyped
  <2>2. ASSUME 3 * ev <= L
        PROVE  Part(ev, 3) \in ToSet(record.parts)
    <3>1. record.parts[3 * ev] = Part(ev, 3) /\ 3 * ev \in DOMAIN record.parts
      BY <1>1, <2>1, <2>2, InOrderIs
    <3> QED
      BY <3>1 DEF ToSet
  <2>3. ASSUME Part(ev, 3) \in ToSet(record.parts)
        PROVE  3 * ev <= L
    <3>1. PICK i \in DOMAIN record.parts : record.parts[i] = Part(ev, 3)
      BY <2>3 DEF ToSet
    <3>2. PICK f \in 1 .. Done(record), p \in 1 .. 3 :
            i = 3 * (f - 1) + p /\ record.parts[i] = Part(f, p)
      BY InOrderIs
    <3>3. f = ev /\ p = 3
      BY <3>1, <3>2 DEF Part
    <3> QED
      BY <1>1, <2>1, <3>2, <3>3
  <2> QED
    BY <2>2, <2>3
<1>7. \A choice, delta : EventsOf(record, choice, delta) = Got(record, L, choice, delta)
  BY <1>6 DEF EventsOf, Got
<1>8. Counted(record) = ChoicesAfter(record)[L]
  BY DEF Counted
<1> HIDE DEF L
<1> QED
  BY <1>5, <1>6, <1>7, <1>8 DEF ChoicesInOrder, ChoiceIs, OwnTextsInOrder

-----------------------------------------------------------------------------
\* A record that has its chunks swapped, but none that starts in a "data: ".
Swapped(record) ==
  IsRecord(record) /\ Complete(record) /\ PrefixesWhole(record) /\ Readable(record, TRUE)

(* Each part is at one place, and the beginnings of an event are together. *)
LEMMA SwappedIs ==
  ASSUME NEW record, Swapped(record)
  PROVE  /\ \A ev \in 1 .. Done(record), p \in 1 .. 3 :
              \E i \in DOMAIN record.parts : record.parts[i] = Part(ev, p)
         /\ \A i, j \in DOMAIN record.parts : record.parts[i] = record.parts[j] => i = j
         /\ \A i \in DOMAIN record.parts : record.parts[i].part = 1 =>
              /\ i + 1 \in DOMAIN record.parts
              /\ record.parts[i + 1] = Part(record.parts[i].event, 2)
         /\ \A i \in DOMAIN record.parts : record.parts[i].part = 2 =>
              /\ i - 1 \in DOMAIN record.parts
              /\ record.parts[i - 1] = Part(record.parts[i].event, 1)
<1> DEFINE N == Done(record)
           parts == record.parts
<1>0. IsRecord(record)
  BY DEF Swapped
<1>1. /\ N \in Nat \ {0} /\ DOMAIN parts = 1 .. Len(parts) /\ Len(parts) \in Nat
      /\ \A i \in DOMAIN parts :
           /\ parts[i].event \in 1 .. N /\ parts[i].part \in 1 .. 3
           /\ parts[i] = Part(parts[i].event, parts[i].part)
  BY <1>0, RecordTyped
<1>2. ASSUME NEW ev \in 1 .. N, NEW p \in 1 .. 3
      PROVE  \E i \in DOMAIN parts : parts[i] = Part(ev, p)
  <2> DEFINE k == 3 * (ev - 1) + p
  <2>1. k \in 1 .. 3 * N /\ (k - 1) \div 3 = ev - 1 /\ (k - 1) % 3 = p - 1
    <3>1. p = 1 \/ p = 2 \/ p = 3
      OBVIOUS
    <3>2. N \in Nat /\ ev \in 1 .. N
      BY <1>1
    <3> HIDE DEF N
    <3>3. k \in 1 .. 3 * N
      BY <3>1, <3>2
    <3>4. (3 * (ev - 1) + p - 1) \div 3 = ev - 1 /\ (3 * (ev - 1) + p - 1) % 3 = p - 1
      BY ONLY <3>1, <3>2
    <3> QED
      BY <3>3, <3>4
  <2>2. PartsUpTo(N) = [i \in 1 .. 3 * N |-> Part(1 + (i - 1) \div 3, 1 + ((i - 1) % 3))]
    BY DEF PartsUpTo
  <2> HIDE DEF k
  <2>3. PartsUpTo(N)[k] = Part(ev, p) /\ k \in DOMAIN PartsUpTo(N)
    BY <2>1, <2>2
  <2>4. Part(ev, p) \in ToSet(PartsUpTo(N))
    BY <2>3 DEF ToSet
  <2>5. Part(ev, p) \in ToSet(parts)
    BY <2>4 DEF Swapped, Complete
  <2> QED
    BY <2>5 DEF ToSet
<1>3. \A i, j \in DOMAIN parts : parts[i] = parts[j] => i = j
  BY DEF Swapped, Complete, IsInjective
<1>4. ASSUME NEW i \in DOMAIN parts, parts[i].part = 1
      PROVE  i + 1 \in DOMAIN parts /\ parts[i + 1] = Part(parts[i].event, 2)
  <2>1. i < Len(parts) /\ parts[i + 1] = Part(parts[i].event, 2)
    BY <1>4 DEF Swapped, PrefixesWhole
  <2> QED
    BY <1>1, <2>1
<1>5. ASSUME NEW i \in DOMAIN parts, parts[i].part = 2
      PROVE  i - 1 \in DOMAIN parts /\ parts[i - 1] = Part(parts[i].event, 1)
  <2>1. PICK j \in DOMAIN parts : parts[j] = Part(parts[i].event, 1)
    <3>1. parts[i].event \in 1 .. N /\ 1 \in 1 .. 3
      BY <1>1
    <3> HIDE DEF parts, N
    <3>2. \E j \in DOMAIN parts : parts[j] = Part(parts[i].event, 1)
      BY <1>2, <3>1
    <3> QED
      BY <3>2
  <2>2. parts[j].part = 1 /\ parts[j].event = parts[i].event
    BY <2>1 DEF Part
  <2>3. j + 1 \in DOMAIN parts /\ parts[j + 1] = parts[i]
    BY <1>1, <1>4, <1>5, <2>2
  <2>4. i = j + 1
    BY <1>3, <2>3
  <2> QED
    BY <1>1, <2>1, <2>4
<1> QED
  BY <1>2, <1>3, <1>4, <1>5

(* Every payload has three parts. *)
LEMMA SwappedPayloadIs ==
  ASSUME NEW record, Swapped(record), NEW n \in Payloads(record)
  PROVE  Start(record, n) = n - 3
<1> DEFINE s == Start(record, n)
<1>1. /\ n \in DOMAIN record.parts /\ s \in 0 .. n - 2 /\ s + 3 <= n
      /\ record.parts[n].part = 3
      /\ \A k \in s + 3 .. n - 1 : record.parts[k].part = 1
  BY PayloadIs DEF Swapped
<1>2. n \in 1 .. Len(record.parts) /\ Len(record.parts) \in Nat
      /\ DOMAIN record.parts = 1 .. Len(record.parts)
  BY <1>1, RecordTyped DEF Swapped
<1>3. ASSUME s + 3 < n
      PROVE  FALSE
  <2>1. n - 1 \in s + 3 .. n - 1 /\ n - 1 \in DOMAIN record.parts /\ (n - 1) + 1 = n
    BY <1>1, <1>2, <1>3
  <2>2. record.parts[n] = Part(record.parts[n - 1].event, 2)
    BY <1>1, <2>1, SwappedIs
  <2> QED
    BY <1>1, <2>2 DEF Part
<1> QED
  BY <1>1, <1>2, <1>3

(* The first two parts of an event begin a segment of three. *)
LEMMA SwappedSegment ==
  ASSUME NEW record, Swapped(record), NEW ev \in 1 .. Done(record),
         NEW i \in DOMAIN record.parts, record.parts[i] = Part(ev, 1)
  PROVE  /\ i + 2 \in DOMAIN record.parts /\ record.parts[i + 2].part = 3
         /\ ev = Done(record) => record.parts[i + 2].event = ev
         /\ ev # Done(record) =>
              /\ i + 2 \in Payloads(record)
              /\ First(Segment(record, i + 2)) = ev
              /\ Final(Segment(record, i + 2)) = record.parts[i + 2].event
<1> DEFINE parts == record.parts
           L == Len(parts)
<1>0. IsRecord(record) /\ Readable(record, TRUE)
  BY DEF Swapped
<1>1. /\ L \in Nat /\ DOMAIN parts = 1 .. L /\ i \in 1 .. L
      /\ Done(record) = Len(record.events) + 1 /\ Len(record.events) \in Nat
      /\ DOMAIN record.events = 1 .. Len(record.events)
      /\ \A j \in DOMAIN parts : parts[j].part \in 1 .. 3
  BY <1>0, RecordTyped
<1>2. parts[i].part = 1 /\ parts[i].event = ev
  BY DEF Part
<1>3. i + 1 \in 1 .. L
  BY <1>1, <1>2, SwappedIs
<1> DEFINE M == {n \in i .. L : n \in Ends(record)}
<1>4. M \in SUBSET Nat /\ L \in M
  BY <1>1 DEF Ends
<1>5. PICK n \in M : \A m \in M : n <= m
  <2> HIDE DEF M
  <2> QED
    BY <1>4, LeastNumber
<1>6. n \in i .. L /\ n \in Ends(record) /\ n \in DOMAIN parts
  BY <1>1, <1>5
<1>7. n >= i + 1
  BY <1>1, <1>2, <1>3, <1>6 DEF Ends
<1> DEFINE s == Start(record, n)
           segment == Segment(record, n)
<1>8. /\ s \in 0 .. n - 1
      /\ s = 0 \/ parts[s].part = 3
      /\ \A k \in s + 1 .. n - 1 : parts[k].part # 3
      /\ Len(segment) = n - s
      /\ \A k \in 1 .. n - s : segment[k] = parts[s + k]
  BY <1>0, <1>6, StartIs, SegmentIs
<1> HIDE DEF s, segment
<1>9. s + 1 <= i
  <2> SUFFICES ASSUME i <= s
               PROVE  FALSE
    BY <1>1, <1>8
  <2>1. s \in i .. n - 1 /\ s # 0 /\ s \in DOMAIN parts
    BY <1>1, <1>6, <1>8
  <2>2. s \in M
    BY <1>1, <1>8, <2>1 DEF Ends
  <2> QED
    BY <1>1, <1>5, <1>6, <2>1, <2>2
<1>10. s + 1 \in DOMAIN parts /\ parts[s + 1].part = 1
  <2>1. s + 1 \in DOMAIN parts /\ s + 1 \in s + 1 .. n - 1
    BY <1>1, <1>6, <1>7, <1>8, <1>9
  <2>2. parts[s + 1].part # 3
    BY <1>8, <2>1
  <2>3. ASSUME parts[s + 1].part = 2
        PROVE  FALSE
    <3>1. s \in DOMAIN parts /\ parts[s].part = 1
      <4>1. (s + 1) - 1 \in DOMAIN parts /\ parts[(s + 1) - 1] = Part(parts[s + 1].event, 1)
        BY <2>1, <2>3, SwappedIs
      <4>2. (s + 1) - 1 = s
        BY <1>8
      <4> QED
        BY <4>1, <4>2 DEF Part
    <3> QED
      BY <1>1, <1>8, <3>1
  <2> QED
    BY <1>1, <2>1, <2>2, <2>3
<1>11. parts[s + 2].part = 2 /\ s + 2 <= n /\ s + 2 \in DOMAIN parts
  <2>1. (s + 1) + 1 = s + 2
    BY <1>8
  <2>2. s + 2 \in DOMAIN parts /\ parts[s + 2] = Part(parts[s + 1].event, 2)
    BY <1>10, <2>1, SwappedIs
  <2> QED
    BY <1>1, <1>6, <1>7, <1>8, <1>9, <2>2 DEF Part
<1>12. segment[1] = parts[s + 1] /\ segment[2] = parts[s + 2] /\ Len(segment) >= 2
  <2>1. 1 \in 1 .. n - s /\ 2 \in 1 .. n - s /\ n - s >= 2
    BY <1>1, <1>6, <1>8, <1>11
  <2> QED
    BY <1>8, <2>1
<1>13. HasPrefix(segment)
  BY <1>1, <1>6, <1>8, <1>10, <1>11, <1>12 DEF HasPrefix
<1>14. n = s + 3 /\ parts[n].part = 3
  <2>1. CASE IsDone(record, segment)
    <3>1. Len(segment) = 3 /\ segment[3].part = 3
      BY <2>1 DEF IsDone
    <3>2. n = s + 3
      <4>1. n \in Nat /\ s \in Nat
        BY <1>1, <1>6, <1>8
      <4>2. n - s = 3
        BY <1>8, <3>1
      <4> QED
        BY ONLY <4>1, <4>2
    <3>3. 3 \in 1 .. n - s /\ segment[3] = parts[s + 3]
      BY <1>1, <1>8, <3>2
    <3> QED
      BY <3>1, <3>2, <3>3
  <2>2. CASE ~ IsDone(record, segment)
    <3>1. n \in Payloads(record)
      BY <1>6, <1>13, <2>2 DEF Payloads, segment
    <3>2. s = n - 3
      BY <3>1, SwappedPayloadIs DEF s
    <3>3. parts[n].part = 3
      BY <1>0, <3>1, PayloadIs
    <3> QED
      BY <1>1, <1>6, <3>2, <3>3
  <2> QED
    BY <2>1, <2>2
<1>15. i = s + 1
  <2>1. i \in {s + 1, s + 2, s + 3}
    BY <1>1, <1>6, <1>8, <1>9, <1>14
  <2> QED
    BY <1>2, <1>11, <1>14, <2>1
<1>16. n = i + 2 /\ segment[2].event = ev
  <2>1. parts[i + 1] = Part(ev, 2) /\ i + 1 = s + 2
    BY <1>2, <1>8, <1>15, SwappedIs
  <2>2. segment[2] = Part(ev, 2) /\ Part(ev, 2).event = ev
    BY <1>12, <2>1 DEF Part
  <2> QED
    BY <1>8, <1>14, <1>15, <2>2
<1>17. First(segment) = ev /\ Final(segment) = parts[n].event
  <2>1. segment[Len(segment)] = parts[n]
    <3>1. Len(segment) = 3 /\ 3 \in 1 .. n - s /\ s + 3 = n
      BY <1>1, <1>6, <1>8, <1>14
    <3> QED
      BY <1>8, <3>1
  <2> QED
    BY <1>16, <2>1 DEF First, Final
<1>18. CASE IsDone(record, segment)
  BY <1>6, <1>14, <1>16, <1>17, <1>18 DEF IsDone
<1>19. CASE ~ IsDone(record, segment)
  <2>1. n \in Payloads(record)
    BY <1>6, <1>13, <1>19 DEF Payloads, segment
  <2>2. ev # Done(record)
    <3>1. First(segment) \in DOMAIN record.events
      BY <1>0, <2>1, PayloadIs DEF segment
    <3> QED
      BY <1>1, <1>17, <3>1
  <2> QED
    BY <1>6, <1>14, <1>16, <1>17, <2>1, <2>2 DEF segment
<1> QED
  BY <1>18, <1>19

\* What a payload contributes, if it is a text.
TextOf(record, m) == <<First(Segment(record, m)), Final(Segment(record, m))>>
TextsUpTo(record, n) ==
  {m \in Payloads(record) :
     m <= n /\ record.events[First(Segment(record, m))].delta = "text"}

\* After n parts every text is in its choice, and no text is in two places.
EachOnce(record, choices, n) ==
  /\ \A m \in TextsUpTo(record, n) :
       LET c == record.events[First(Segment(record, m))].choice + 1
       IN  c \in DOMAIN choices /\ TextOf(record, m) \in ToSet(choices[c].content)
  /\ \A i \in DOMAIN choices : \A k \in DOMAIN choices[i].content :
       \E m \in TextsUpTo(record, n) : choices[i].content[k] = TextOf(record, m)
  /\ \A i, j \in DOMAIN choices :
       \A k \in DOMAIN choices[i].content, l \in DOMAIN choices[j].content :
         choices[i].content[k] = choices[j].content[l] => i = j /\ k = l

(* Different payloads have different texts, in both of their halves.       *)
LEMMA TextsDiffer ==
  ASSUME NEW record, Swapped(record), NEW m \in Payloads(record), NEW n \in Payloads(record),
         \/ First(Segment(record, m)) = First(Segment(record, n))
         \/ Final(Segment(record, m)) = Final(Segment(record, n))
  PROVE  m = n
<1>0. IsRecord(record) /\ Readable(record, TRUE)
  BY DEF Swapped
<1>1. /\ DOMAIN record.parts = 1 .. Len(record.parts) /\ Len(record.parts) \in Nat
      /\ \A i \in DOMAIN record.parts :
           record.parts[i] = Part(record.parts[i].event, record.parts[i].part)
  BY <1>0, RecordTyped
<1>2. \A k \in Payloads(record) :
        /\ k \in DOMAIN record.parts /\ k - 1 \in DOMAIN record.parts
        /\ First(Segment(record, k)) = record.parts[k - 1].event
        /\ Final(Segment(record, k)) = record.parts[k].event
        /\ record.parts[k - 1].part = 2 /\ record.parts[k].part = 3
  <2> TAKE k \in Payloads(record)
  <2> DEFINE s == Start(record, k)
  <2>1. /\ k \in DOMAIN record.parts /\ s \in 0 .. k - 2
        /\ First(Segment(record, k)) = record.parts[s + 2].event
        /\ Final(Segment(record, k)) = record.parts[k].event
        /\ record.parts[s + 2].part = 2 /\ record.parts[k].part = 3
    BY <1>0, PayloadIs
  <2>2. s = k - 3
    BY SwappedPayloadIs
  <2> HIDE DEF s
  <2>3. s + 2 = k - 1 /\ k - 1 \in DOMAIN record.parts
    BY <1>1, <2>1, <2>2
  <2> QED
    BY <2>1, <2>3
<1>3. record.parts[m - 1] = record.parts[n - 1] \/ record.parts[m] = record.parts[n]
  BY <1>1, <1>2
<1>4. m - 1 = n - 1 \/ m = n
  BY <1>2, <1>3, SwappedIs
<1> QED
  BY <1>1, <1>2, <1>4

(* The loop puts the text of a payload into its choice. *)
LEMMA SwappedTurn ==
  ASSUME NEW record, Swapped(record), NEW n \in DOMAIN record.parts,
         EachOnce(record, ChoicesAfter(record)[n - 1], n - 1)
  PROVE  EachOnce(record, ChoicesAfter(record)[n], n)
<1> DEFINE old == ChoicesAfter(record)[n - 1]
           new == ChoicesAfter(record)[n]
           segment == Segment(record, n)
           first == First(segment)
           final == Final(segment)
           delta == record.events[first].delta
           c == record.events[first].choice + 1
<1>0. IsRecord(record) /\ Readable(record, TRUE)
  BY DEF Swapped
<1>1. /\ n \in Nat \ {0} /\ n - 1 \in 0 .. Len(record.parts) /\ n - 1 \in Nat
      /\ n \in 0 .. Len(record.parts)
  BY <1>0, RecordTyped
<1>2. /\ old \in Seq(ChoiceSet) /\ new \in Seq(ChoiceSet)
      /\ new = IF n \in Payloads(record) THEN Add(old, record, Segment(record, n)) ELSE old
  BY <1>0, <1>1, ChoicesAre
<1>3. \A m \in Payloads(record) : m \in Nat /\ (m <= n <=> m <= n - 1 \/ m = n)
  <2>1. \A m \in Payloads(record) : m \in Nat
    BY <1>0, RecordTyped DEF Payloads, Ends
  <2> QED
    BY <1>1, <2>1
<1>4. CASE n \notin Payloads(record)
  <2>1. TextsUpTo(record, n) = TextsUpTo(record, n - 1)
    BY <1>3, <1>4 DEF TextsUpTo
  <2>2. new = old
    BY <1>2, <1>4
  <2> QED
    BY <2>1, <2>2 DEF EachOnce
<1>5. CASE n \in Payloads(record)
  <2>1. /\ first \in DOMAIN record.events /\ first \in Nat /\ final \in Nat
        /\ delta \in {"text", "call"}
        /\ c \in Nat \ {0}
    <3>1. /\ first \in DOMAIN record.events /\ final \in DOMAIN record.events
          /\ delta \in {"text", "call"}
      BY <1>0, <1>5, PayloadIs
    <3> HIDE DEF first, final
    <3> QED
      BY <1>0, <3>1, RecordTyped
  <2>2. /\ c \in DOMAIN new /\ DOMAIN old \subseteq DOMAIN new
        /\ \A i \in DOMAIN new : i # c => new[i] = Have(old, i)
        /\ new[c] = IF delta = "call"
                    THEN [content |-> Have(old, c).content, call |-> first]
                    ELSE [content |-> Append(Have(old, c).content, <<first, final>>),
                          call |-> Have(old, c).call]
    <3>1. old \in Seq(ChoiceSet) /\ new = Add(old, record, segment)
      BY <1>2, <1>5
    <3>2. First(segment) \in DOMAIN record.events /\ Final(segment) \in Nat
      BY <2>1
    <3> HIDE DEF new, old, segment
    <3>3. AddedTo(record, segment, old, new)
      BY <1>0, <3>1, <3>2, AddIs
    <3> QED
      BY <3>3 DEF AddedTo
  <2> DEFINE text == TextOf(record, n)
             Content(i) == Have(old, i).content
  <2>3. \A i \in DOMAIN new :
          new[i].content = IF i = c /\ delta = "text" THEN Append(Content(i), text)
                           ELSE Content(i)
    <3>1. text = <<first, final>>
      BY DEF TextOf
    <3> HIDE DEF new, old, c, first, final, text, delta
    <3>2. new[c].content = IF delta = "text" THEN Append(Content(c), text) ELSE Content(c)
      BY <2>1, <2>2, <3>1
    <3>3. \A i \in DOMAIN new : i # c => new[i].content = Content(i)
      BY <2>2
    <3> QED
      BY <3>2, <3>3
  <2>4. \A i \in DOMAIN new :
          /\ Content(i) \in Seq(Texts)
          /\ DOMAIN Content(i) = 1 .. Len(Content(i)) /\ Len(Content(i)) \in Nat
          /\ i \notin DOMAIN old => Content(i) = <<>> /\ DOMAIN Content(i) = {}
          /\ i \in DOMAIN old => Content(i) = old[i].content
    <3> TAKE i \in DOMAIN new
    <3> HIDE DEF new, old
    <3>1. CASE i \in DOMAIN old
      <4>1. old[i] \in ChoiceSet /\ Content(i) = old[i].content
        BY <1>2, <3>1 DEF Have
      <4>2. old[i].content \in Seq(Texts)
        BY <4>1 DEF ChoiceSet
      <4> QED
        BY <3>1, <4>1, <4>2
    <3>2. CASE i \notin DOMAIN old
      <4>1. Content(i) = <<>>
        BY <3>2 DEF Have, NoChoice
      <4> HIDE DEF Content
      <4> QED
        BY <3>2, <4>1
    <3> QED
      BY <3>1, <3>2
  <2>5. text \in Texts
    BY <2>1 DEF TextOf, Texts
  <2>6. TextsUpTo(record, n) = TextsUpTo(record, n - 1) \cup (IF delta = "text" THEN {n} ELSE {})
    BY <1>3, <1>5 DEF TextsUpTo
  <2>7. \A m \in TextsUpTo(record, n - 1) : TextOf(record, m) # text
    <3> SUFFICES ASSUME NEW m \in TextsUpTo(record, n - 1), TextOf(record, m) = text
                 PROVE  FALSE
      OBVIOUS
    <3>1. m \in Payloads(record) /\ m <= n - 1
      BY DEF TextsUpTo
    <3>2. First(Segment(record, m)) = First(Segment(record, n))
      BY DEF TextOf
    <3>3. m = n
      BY <1>5, <3>1, <3>2, TextsDiffer
    <3> QED
      BY <1>1, <3>1, <3>3
  <2> HIDE DEF text, Content, new, delta, c, first, final, segment
  \* What the contents are: those there were, and the new text at the end.
  <2>8. ASSUME NEW i \in DOMAIN new
        PROVE  /\ DOMAIN Content(i) \subseteq DOMAIN new[i].content
               /\ \A k \in DOMAIN Content(i) : new[i].content[k] = Content(i)[k]
               /\ \A k \in DOMAIN new[i].content \ DOMAIN Content(i) :
                    /\ i = c /\ delta = "text" /\ k = Len(Content(i)) + 1
                    /\ new[i].content[k] = text
               /\ i = c /\ delta = "text" => text \in ToSet(new[i].content)
    <3>1. CASE i = c /\ delta = "text"
      <4>1. new[i].content = Append(Content(i), text)
        BY <2>3, <3>1
      <4>2. /\ DOMAIN new[i].content = 1 .. Len(Content(i)) + 1
            /\ \A k \in 1 .. Len(Content(i)) : new[i].content[k] = Content(i)[k]
            /\ new[i].content[Len(Content(i)) + 1] = text
        BY <2>4, <2>5, <4>1
      <4>3. text \in ToSet(new[i].content)
        BY <2>4, <4>2 DEF ToSet
      <4> QED
        BY <2>4, <3>1, <4>2, <4>3
    <3>2. CASE ~ (i = c /\ delta = "text")
      BY <2>3, <3>2
    <3> QED
      BY <3>1, <3>2
  <2>9. ASSUME NEW m \in TextsUpTo(record, n)
        PROVE  LET d == record.events[First(Segment(record, m))].choice + 1
               IN  d \in DOMAIN new /\ TextOf(record, m) \in ToSet(new[d].content)
    <3>1. CASE m \in TextsUpTo(record, n - 1)
      <4> DEFINE d == record.events[First(Segment(record, m))].choice + 1
      <4>1. d \in DOMAIN old /\ TextOf(record, m) \in ToSet(old[d].content)
        BY <3>1 DEF EachOnce
      <4> HIDE DEF d
      <4>2. PICK k \in DOMAIN old[d].content : old[d].content[k] = TextOf(record, m)
        BY <4>1 DEF ToSet
      <4>3. d \in DOMAIN new /\ Content(d) = old[d].content
        BY <2>2, <2>4, <4>1
      <4>4. k \in DOMAIN new[d].content /\ new[d].content[k] = TextOf(record, m)
        BY <2>8, <4>2, <4>3
      <4>5. TextOf(record, m) \in ToSet(new[d].content)
        BY <4>4 DEF ToSet
      <4> QED
        BY <4>3, <4>5 DEF d
    <3>2. CASE m \notin TextsUpTo(record, n - 1)
      <4>1. m = n /\ delta = "text"
        BY <2>6, <3>2
      <4>2. text \in ToSet(new[c].content)
        BY <2>2, <2>8, <4>1
      <4> QED
        BY <2>2, <4>1, <4>2 DEF text, c, first, segment
    <3> QED
      BY <3>1, <3>2
  <2>10. ASSUME NEW i \in DOMAIN new, NEW k \in DOMAIN Content(i)
         PROVE  /\ i \in DOMAIN old /\ k \in DOMAIN old[i].content
                /\ new[i].content[k] = old[i].content[k]
                /\ \E m \in TextsUpTo(record, n - 1) : new[i].content[k] = TextOf(record, m)
    <3>1. i \in DOMAIN old /\ Content(i) = old[i].content
      BY <2>4
    <3>2. new[i].content[k] = old[i].content[k]
      BY <2>8, <3>1
    <3>3. \E m \in TextsUpTo(record, n - 1) : old[i].content[k] = TextOf(record, m)
      BY <3>1 DEF EachOnce
    <3> QED
      BY <3>1, <3>2, <3>3
  <2>11. ASSUME NEW i \in DOMAIN new, NEW k \in DOMAIN new[i].content
         PROVE  \E m \in TextsUpTo(record, n) : new[i].content[k] = TextOf(record, m)
    <3>1. CASE k \in DOMAIN Content(i)
      BY <2>6, <2>10, <3>1
    <3>2. CASE k \notin DOMAIN Content(i)
      BY <2>6, <2>8, <3>2 DEF text
    <3> QED
      BY <3>1, <3>2
  <2>12. ASSUME NEW i \in DOMAIN new, NEW j \in DOMAIN new,
                NEW k \in DOMAIN new[i].content, NEW l \in DOMAIN new[j].content,
                new[i].content[k] = new[j].content[l]
         PROVE  i = j /\ k = l
    <3>1. CASE k \in DOMAIN Content(i) /\ l \in DOMAIN Content(j)
      <4>1. /\ i \in DOMAIN old /\ k \in DOMAIN old[i].content
            /\ j \in DOMAIN old /\ l \in DOMAIN old[j].content
            /\ old[i].content[k] = old[j].content[l]
        BY <2>10, <2>12, <3>1
      <4> QED
        BY <4>1 DEF EachOnce
    <3>2. CASE k \in DOMAIN Content(i) /\ l \notin DOMAIN Content(j)
      <4>1. new[i].content[k] # text
        BY <2>7, <2>10, <3>2
      <4>2. new[j].content[l] = text
        BY <2>8, <3>2
      <4> QED
        BY <2>12, <4>1, <4>2
    <3>3. CASE k \notin DOMAIN Content(i) /\ l \in DOMAIN Content(j)
      <4>1. new[j].content[l] # text
        BY <2>7, <2>10, <3>3
      <4>2. new[i].content[k] = text
        BY <2>8, <3>3
      <4> QED
        BY <2>12, <4>1, <4>2
    <3>4. CASE k \notin DOMAIN Content(i) /\ l \notin DOMAIN Content(j)
      BY <2>8, <3>4
    <3> QED
      BY <3>1, <3>2, <3>3, <3>4
  <2> QED
    BY <2>9, <2>11, <2>12 DEF EachOnce, new
<1> QED
  BY <1>4, <1>5

(* What the beginnings of a record in disorder are put together with: each *)
(* text's end is that of one event, the end of the stream that of its own. *)
LEMMA EndsAreTaken ==
  ASSUME NEW record, Swapped(record), NEW ev \in DOMAIN record.events
  PROVE  \E n \in Payloads(record) : Final(Segment(record, n)) = ev
<1> DEFINE D == Done(record)
           parts == record.parts
<1>1. /\ D = Len(record.events) + 1 /\ Len(record.events) \in Nat /\ D \in Nat \ {0}
      /\ ev \in 1 .. D /\ ev # D
      /\ \A i \in DOMAIN parts :
           /\ parts[i].event \in 1 .. D
           /\ parts[i] = Part(parts[i].event, parts[i].part)
      /\ DOMAIN parts = 1 .. Len(parts) /\ Len(parts) \in Nat
  BY RecordTyped DEF Swapped
<1>2. /\ \A e \in 1 .. D : \E i \in DOMAIN parts : parts[i] = Part(e, 1)
      /\ \A i, j \in DOMAIN parts : parts[i] = parts[j] => i = j
  BY SwappedIs
<1> DEFINE at == [e \in 1 .. D |-> CHOOSE i \in DOMAIN parts : parts[i] = Part(e, 1)]
           end == [e \in 1 .. D |-> parts[at[e] + 2].event]
<1>3. \A e \in 1 .. D : at[e] \in DOMAIN parts /\ parts[at[e]] = Part(e, 1)
  BY <1>2
<1> HIDE DEF at
<1>4. \A e \in 1 .. D :
        /\ at[e] + 2 \in DOMAIN parts /\ parts[at[e] + 2].part = 3
        /\ e = D => parts[at[e] + 2].event = e
        /\ e # D => /\ at[e] + 2 \in Payloads(record)
                    /\ Final(Segment(record, at[e] + 2)) = parts[at[e] + 2].event
  BY <1>3, SwappedSegment
<1>5. end \in [1 .. D -> 1 .. D]
  BY <1>1, <1>4
<1>6. \A e, f \in 1 .. D : end[e] = end[f] => e = f
  <2> SUFFICES ASSUME NEW e \in 1 .. D, NEW f \in 1 .. D, end[e] = end[f]
               PROVE  e = f
    OBVIOUS
  <2>1. parts[at[e] + 2] = parts[at[f] + 2]
    <3>1. parts[at[e] + 2].event = parts[at[f] + 2].event
      OBVIOUS
    <3>2. \A g \in 1 .. D : parts[at[g] + 2] = Part(parts[at[g] + 2].event, 3)
      <4> TAKE g \in 1 .. D
      <4> DEFINE i == at[g] + 2
      <4>1. i \in DOMAIN parts /\ parts[i].part = 3
        BY <1>4
      <4> HIDE DEF i
      <4>2. parts[i] = Part(parts[i].event, parts[i].part)
        BY <1>1, <4>1
      <4> QED
        BY <4>1, <4>2 DEF i
    <3> QED
      BY <3>1, <3>2
  <2>2. at[e] + 2 = at[f] + 2
    BY <1>2, <1>4, <2>1
  <2>3. at[e] = at[f]
    BY <1>1, <1>3, <2>2
  <2>4. Part(e, 1) = Part(f, 1)
    BY <1>3, <2>3
  <2> QED
    BY <2>4 DEF Part
<1>7. end[D] = D
  <2>1. D \in 1 .. D
    BY <1>1
  <2>2. parts[at[D] + 2].event = D
    BY <1>4, <2>1
  <2> QED
    BY <2>1, <2>2
<1>8. \E e \in 1 .. D : end[e] = ev
  <2> SUFFICES ASSUME \A e \in 1 .. D : end[e] # ev
               PROVE  FALSE
    OBVIOUS
  <2> DEFINE S == 1 .. D
             T == S \ {ev}
  <2>1. /\ IsFiniteSet(S) /\ IsFiniteSet(T)
        /\ Cardinality(T) < Cardinality(S)
    <3>1. IsFiniteSet(S) /\ Cardinality(S) = D
      <4>1. D \in Int /\ 1 \in Int /\ ~ (1 > D) /\ D - 1 + 1 = D
        BY <1>1
      <4> HIDE DEF D
      <4> QED
        BY <4>1, FS_Interval
    <3>2. IsFiniteSet(T) /\ Cardinality(T) = D - 1
      <4>1. ev \in S
        BY <1>1
      <4> HIDE DEF S
      <4> QED
        BY <3>1, <4>1, FS_RemoveElement
    <3> QED
      BY <1>1, <3>1, <3>2
  <2>2. end \in [S -> T]
    BY <1>5
  <2> HIDE DEF S, T, end
  <2>3. \E x, y \in S : x # y /\ end[x] = end[y]
    BY <2>1, <2>2, FS_PigeonHole
  <2> QED
    BY <1>6, <2>3 DEF S
<1>9. PICK e \in 1 .. D : end[e] = ev
  BY <1>8
<1>10. e # D
  BY <1>1, <1>7, <1>9
<1> QED
  BY <1>4, <1>9, <1>10

(* Of a complete record no text is left out or doubled. *)
LEMMA SwappedCounted ==
  ASSUME NEW record, Swapped(record)
  PROVE  EveryTextOnce(record, Counted(record))
<1> DEFINE L == Len(record.parts)
           choices == ChoicesAfter(record)[L]
<1>0. IsRecord(record) /\ Readable(record, TRUE)
  BY DEF Swapped
<1>1. /\ L \in Nat /\ DOMAIN record.parts = 1 .. L
      /\ Done(record) = Len(record.events) + 1 /\ Len(record.events) \in Nat
      /\ DOMAIN record.events = 1 .. Len(record.events)
  BY <1>0, RecordTyped
<1> DEFINE M == {n \in 0 .. L : EachOnce(record, ChoicesAfter(record)[n], n)}
<1>2. 0 \in M
  <2>1. ChoicesAfter(record)[0] = <<>>
    BY <1>0, ChoicesAre
  <2>2. TextsUpTo(record, 0) = {}
    BY <1>1 DEF TextsUpTo, Payloads, Ends
  <2> QED
    BY <1>1, <2>1, <2>2 DEF EachOnce
<1>3. ASSUME NEW n \in 1 .. L, n - 1 \in M
      PROVE  n \in M
  <2>1. n \in DOMAIN record.parts /\ EachOnce(record, ChoicesAfter(record)[n - 1], n - 1)
    BY <1>1, <1>3
  <2>2. EachOnce(record, ChoicesAfter(record)[n], n)
    BY <2>1, SwappedTurn
  <2> QED
    BY <1>1, <2>2
<1> HIDE DEF M
<1>4. 0 .. L \subseteq M
  BY <1>1, <1>2, <1>3, UpTo
<1>5. EachOnce(record, choices, L)
  BY <1>1, <1>4 DEF M
<1>6. Counted(record) = choices
  BY DEF Counted
<1>7. \A n \in Payloads(record) :
        n \in TextsUpTo(record, L) <=> record.events[First(Segment(record, n))].delta = "text"
  BY <1>1 DEF TextsUpTo, Payloads, Ends
<1> HIDE DEF choices, L
<1> DEFINE places == UNION {{i} \X DOMAIN choices[i].content : i \in DOMAIN choices}
           At(p) == choices[p[1]].content[p[2]]
<1>8. \A p \in places : /\ p = <<p[1], p[2]>>
                        /\ p[1] \in DOMAIN choices /\ p[2] \in DOMAIN choices[p[1]].content
  OBVIOUS
<1>9. \A i \in DOMAIN choices : \A k \in DOMAIN choices[i].content : <<i, k>> \in places
  OBVIOUS
\* A payload that is a text has its place.
<1>10. ASSUME NEW n \in Payloads(record),
              record.events[First(Segment(record, n))].delta = "text"
       PROVE  \E p \in places :
                /\ p[1] = record.events[First(Segment(record, n))].choice + 1
                /\ At(p) = TextOf(record, n)
  <2> DEFINE c == record.events[First(Segment(record, n))].choice + 1
  <2>1. c \in DOMAIN choices /\ TextOf(record, n) \in ToSet(choices[c].content)
    BY <1>5, <1>7, <1>10 DEF EachOnce
  <2> HIDE DEF c
  <2>2. PICK k \in DOMAIN choices[c].content : choices[c].content[k] = TextOf(record, n)
    BY <2>1 DEF ToSet
  <2>3. <<c, k>> \in places /\ At(<<c, k>>) = TextOf(record, n)
    BY <1>9, <2>1, <2>2
  <2> HIDE DEF places, At
  <2> QED
    BY <2>3 DEF c
<1>11. ASSUME NEW ev \in DOMAIN record.events, record.events[ev].delta = "text"
       PROVE  \E p \in places : p[1] = record.events[ev].choice + 1 /\ At(p)[1] = ev
  <2>1. ev \in 1 .. Done(record) /\ ev # Done(record) /\ 1 \in 1 .. 3
    BY <1>1
  <2>2. PICK i \in DOMAIN record.parts : record.parts[i] = Part(ev, 1)
    BY <2>1, SwappedIs
  <2>3. i + 2 \in Payloads(record) /\ First(Segment(record, i + 2)) = ev
    BY <2>1, <2>2, SwappedSegment
  <2> HIDE DEF places, At
  <2>4. PICK p \in places : /\ p[1] = record.events[ev].choice + 1
                            /\ At(p) = TextOf(record, i + 2)
    BY <1>10, <1>11, <2>3
  <2> QED
    BY <2>3, <2>4 DEF TextOf
<1>12. ASSUME NEW ev \in DOMAIN record.events, record.events[ev].delta = "text"
       PROVE  \E p \in places : At(p)[2] = ev
  <2>1. PICK n \in Payloads(record) : Final(Segment(record, n)) = ev
    BY EndsAreTaken
  <2>2. record.events[First(Segment(record, n))].delta = "text"
    BY <1>0, <1>12, <2>1, PayloadIs
  <2> HIDE DEF places, At
  <2>3. PICK p \in places : At(p) = TextOf(record, n)
    BY <1>10, <2>2
  <2> QED
    BY <2>1, <2>3 DEF TextOf
<1>13. ASSUME NEW p \in places, NEW q \in places, At(p)[1] = At(q)[1] \/ At(p)[2] = At(q)[2]
       PROVE  p = q
  <2>1. PICK m \in TextsUpTo(record, L) : At(p) = TextOf(record, m)
    BY <1>5, <1>8 DEF EachOnce
  <2>2. PICK n \in TextsUpTo(record, L) : At(q) = TextOf(record, n)
    BY <1>5, <1>8 DEF EachOnce
  <2>3. m \in Payloads(record) /\ n \in Payloads(record)
    BY DEF TextsUpTo
  <2> HIDE DEF places, At
  <2>4. \/ First(Segment(record, m)) = First(Segment(record, n))
        \/ Final(Segment(record, m)) = Final(Segment(record, n))
    BY <1>13, <2>1, <2>2 DEF TextOf
  <2>5. At(p) = At(q)
    BY <2>1, <2>2, <2>3, <2>4, TextsDiffer
  <2>6. p[1] = q[1] /\ p[2] = q[2]
    BY <1>5, <1>8, <2>5 DEF EachOnce, At
  <2> QED
    BY <1>8, <2>6
<1> HIDE DEF places, At
<1>14. /\ \A ev \in DOMAIN record.events : record.events[ev].delta = "text" =>
            /\ \E p \in places : p[1] = record.events[ev].choice + 1 /\ At(p)[1] = ev
            /\ \E p \in places : At(p)[2] = ev
       /\ \A p, q \in places : At(p)[1] = At(q)[1] \/ At(p)[2] = At(q)[2] => p = q
  BY <1>11, <1>12, <1>13
<1> QED
  BY <1>6, <1>14 DEF EveryTextOnce, places, At

(***************************************************************************)
(* Whatever the requests and the records are: a usage that is estimated    *)
(* has each choice's own texts in order if the record is in order, and     *)
(* every text once if the record has its chunks swapped but every "data: " *)
(* whole.                                                                  *)
(***************************************************************************)
THEOREM CountsExactly == Spec => CountIsExact
<1> DEFINE Exact(record, choices) ==
             /\ InOrder(record) => OwnTextsInOrder(record, choices)
             /\ Complete(record) /\ PrefixesWhole(record) => EveryTextOnce(record, choices)
           Step == \A t \in TokenEntries :
             count[t] = "counting" /\ usage'[t] # NoUsage /\ usage'[t].of = "estimate" =>
               Exact(job[t].record, usage'[t].choices)
<1>1. ASSUME LogInv, [Next]_vars, NEW t \in TokenEntries,
             count[t] = "counting", usage'[t] # NoUsage, usage'[t].of = "estimate"
      PROVE  Exact(job[t].record, usage'[t].choices)
  <2>1. /\ usage[t] = NoUsage /\ usage \in [TokenEntries -> {usage[s] : s \in TokenEntries}]
        /\ job[t].ask \in Asks /\ job[t].record \in RecordsOf(job[t].ask)
    BY <1>1 DEF LogInv, LayerInv
  <2>2. ASSUME UNCHANGED usage
        PROVE  FALSE
    BY <1>1, <2>1, <2>2
  <2>3. PICK s \in TokenEntries : TakeUsage(s) \/ Estimate(s)
    BY <1>1, <2>2 DEF Next, vars, layerVars, Refuse, Pass, Panic, Skip, CrashAll
  <2>4. s = t
    <3>1. \E content : usage' = [usage EXCEPT ![s] = content]
      BY <2>3 DEF TakeUsage, Estimate, LogUsage
    <3> QED
      BY <1>1, <2>1, <3>1
  <2>5. ASSUME TakeUsage(t)
        PROVE  FALSE
    <3>1. usage'[t] = [of |-> "upstream"]
      BY <2>1, <2>5 DEF TakeUsage, LogUsage
    <3> QED
      BY <1>1, <3>1
  <2>6. Estimate(t)
    BY <2>3, <2>4, <2>5
  <2> DEFINE record == job[t].record
  <2>7. usage'[t].choices = Counted(record) /\ Readable(record, TRUE)
    <3>1. usage' = [usage EXCEPT ![t] = [of |-> "estimate", choices |-> Counted(record)]]
      BY <2>6 DEF Estimate, LogUsage, Recorded
    <3>2. usage'[t] = [of |-> "estimate", choices |-> Counted(record)]
      BY <2>1, <3>1
    <3>3. Readable(record, TRUE)
      BY <2>6 DEF Estimate, Recorded
    <3>4. \A choices : [of |-> "estimate", choices |-> choices].choices = choices
      OBVIOUS
    <3>5. usage'[t].choices = Counted(record)
      BY <3>2, <3>4
    <3> QED
      BY <3>3, <3>5
  <2>8. IsRecord(record)
    BY <2>1, RecordsAssumption
  <2> HIDE DEF record
  <2>9. InOrder(record) => OwnTextsInOrder(record, Counted(record))
    BY <2>7, <2>8, InOrderCounted
  <2>10. Complete(record) /\ PrefixesWhole(record) => EveryTextOnce(record, Counted(record))
    BY <2>7, <2>8, SwappedCounted DEF Swapped
  <2> QED
    BY <2>7, <2>9, <2>10 DEF record
<1>2. LogInv /\ [Next]_vars => Step
  BY <1>1
<1> HIDE DEF Step
<1>3. Spec => [][Step]_vars
  BY <1>2, LogInvariant, PTL DEF Spec
<1> QED
  BY <1>3 DEF CountIsExact, Step, Exact

=============================================================================
