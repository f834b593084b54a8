--------------------------- MODULE AuditBackend -----------------------------
(***************************************************************************)
(* The audit backends, openai-hub-core/src/audit.rs: log_access and        *)
(* log_tokens of TextBackend and of the three SQL pools.  An entry is      *)
(* written by a task of its own; the only trace of an error is an event in *)
(* the server's own log.                                                   *)
(*                                                                         *)
(* TextBackend: a tokio Mutex, which is FIFO, around a tokio File (1.32).  *)
(* write_all hands a record over in pieces, of up to 2 MiB.  Taking a      *)
(* piece, the File waits for the piece before it and, if that failed,      *)
(* returns its error to the one who brings the new piece; otherwise a      *)
(* blocking thread starts to write and the call returns at once.  Nobody   *)
(* flushes: a record's last piece is never waited for.  A write that fails *)
(* may have written a beginning of its piece.  A record ends with a        *)
(* newline, so that a piece that is cut short leaves a line open for the   *)
(* record that follows.                                                    *)
(*                                                                         *)
(* SQL pools: one INSERT per entry, on any of several connections.         *)
(*                                                                         *)
(* The server may be killed, and is started again: the file is opened for  *)
(* appending, and the tables are created if they do not exist.             *)
(***************************************************************************)
EXTENDS Naturals, SequencesExt, FiniteSets

CONSTANTS
  Entries,    \* the log entries, each with its task
  Pieces,     \* in how many pieces each entry's record is written
  MaxFaults,  \* bound: how many writes fail
  MaxCrashes  \* bound: how often the server is killed

ASSUME PiecesAssumption == Pieces \in [Entries -> Nat \ {0}]
ASSUME BoundsAssumption == MaxFaults \in Nat /\ MaxCrashes \in Nat

VARIABLES
  kind,    \* "text" or "database"
  task,    \* where the task of each entry stands
  queue,   \* the Mutex: the task that has it, then those that wait for it
  sent,    \* how many pieces each task has handed over
  op,      \* the File's last operation: its piece, and how far it is
  lines,   \* the lines of the file, or the rows: sequences of fragments
  tail,    \* the line that is not ended yet
  faults, crashes

fileVars == <<queue, sent, op>>
dataVars == <<lines, tail>>
backendVars == <<kind, task, fileVars, dataVars, faults, crashes>>

Tasks == {"none",      \* there is no entry yet
          "writing",   \* in log_access or log_tokens
          "stored",    \* SQL: the row is in, the answer has not arrived
          "logged",    \* returned without an error
          "reported",  \* returned with an error event
          "lost"}      \* killed with the server

Fragment(e, n, cut) == [entry |-> e, piece |-> n, cut |-> cut]
Record(e) == [n \in 1 .. Pieces[e] |-> Fragment(e, n, FALSE)]
NoOp == [state |-> "none"]

BackendInit ==
  /\ kind \in {"text", "database"}
  /\ task = [e \in Entries |-> "none"]
  /\ queue = <<>> /\ sent = [e \in Entries |-> 0] /\ op = NoOp
  /\ lines = <<>> /\ tail = <<>>
  /\ faults = 0 /\ crashes = 0

SetTask(e, where) == task' = [task EXCEPT ![e] = where]

(* The task calls log_access or log_tokens. *)
Log(e) ==
  /\ task[e] = "none"
  /\ SetTask(e, "writing")
  /\ queue' = IF kind = "text" THEN Append(queue, e) ELSE queue
  /\ UNCHANGED <<kind, sent, op, dataVars, faults, crashes>>

-----------------------------------------------------------------------------
(* TextBackend.                                                            *)

\* The task has the lock, and is in write_all.
Holds(e) == task[e] = "writing" /\ queue # <<>> /\ Head(queue) = e

\* A piece of e is taken by the File.
Take(e) ==
  /\ Holds(e)
  /\ op.state \in {"none", "written"}
  /\ op' = [state |-> "running", entry |-> e, piece |-> sent[e] + 1]
  /\ sent' = [sent EXCEPT ![e] = @ + 1]
  /\ UNCHANGED <<kind, dataVars, faults, crashes>>

(* Wrong on purpose: the lock is taken for each piece. *)
HandOverUnlocking(e) ==
  /\ Take(e)
  /\ IF sent[e] + 1 = Pieces[e]
     THEN SetTask(e, "logged") /\ queue' = Tail(queue)
     ELSE queue' = Append(Tail(queue), e) /\ UNCHANGED task

(* Wrong on purpose: the lock is kept. *)
HandOverLocked(e) ==
  /\ Take(e)
  /\ IF sent[e] + 1 = Pieces[e] THEN SetTask(e, "logged") ELSE UNCHANGED task
  /\ UNCHANGED queue

(* write_all hands over a piece; with the last one it returns Ok and the   *)
(* lock is released, while that piece is still to be written.              *)
HandOver(e) ==
  /\ Take(e)
  /\ IF sent[e] + 1 = Pieces[e]
     THEN SetTask(e, "logged") /\ queue' = Tail(queue)
     ELSE UNCHANGED <<task, queue>>

(* Wrong on purpose: the error is returned with the lock held. *)
ReportLocked(e) ==
  /\ Holds(e)
  /\ op.state = "failed"
  /\ op' = NoOp
  /\ SetTask(e, "reported")
  /\ UNCHANGED <<kind, queue, sent, dataVars, faults, crashes>>

(* The piece before failed: write_all returns its error, and what is left  *)
(* of this task's record is not written.                                   *)
Report(e) ==
  /\ Holds(e)
  /\ op.state = "failed"
  /\ op' = NoOp
  /\ SetTask(e, "reported")
  /\ queue' = Tail(queue)
  /\ UNCHANGED <<kind, sent, dataVars, faults, crashes>>

(* Wrong on purpose: no newline is pushed to the record. *)
PieceWrittenUnended ==
  /\ op.state = "running"
  /\ op' = [op EXCEPT !.state = "written"]
  /\ tail' = Append(tail, Fragment(op.entry, op.piece, FALSE))
  /\ UNCHANGED <<kind, task, queue, sent, lines, faults, crashes>>

PieceWritten ==
  /\ op.state = "running"
  /\ op' = [op EXCEPT !.state = "written"]
  /\ LET line == Append(tail, Fragment(op.entry, op.piece, FALSE))
     IN  IF op.piece = Pieces[op.entry]
         THEN lines' = Append(lines, line) /\ tail' = <<>>
         ELSE tail' = line /\ UNCHANGED lines
  /\ UNCHANGED <<kind, task, queue, sent, faults, crashes>>

\* Something of the piece is in the file, or nothing.
CutShort ==
  /\ \/ tail' = Append(tail, Fragment(op.entry, op.piece, TRUE))
     \/ UNCHANGED tail
  /\ UNCHANGED lines

PieceFails ==
  /\ op.state = "running"
  /\ faults < MaxFaults
  /\ faults' = faults + 1
  /\ op' = [op EXCEPT !.state = "failed"]
  /\ CutShort
  /\ UNCHANGED <<kind, task, queue, sent, crashes>>

-----------------------------------------------------------------------------
(* The SQL pools.                                                          *)

Insert(e) ==
  /\ kind = "database" /\ task[e] = "writing"
  /\ SetTask(e, "stored")
  /\ lines' = Append(lines, Record(e))
  /\ UNCHANGED <<kind, fileVars, tail, faults, crashes>>

Inserted(e) ==
  /\ task[e] = "stored"
  /\ SetTask(e, "logged")
  /\ UNCHANGED <<kind, fileVars, dataVars, faults, crashes>>

(* The INSERT is refused, or its answer is lost. *)
InsertFails(e) ==
  /\ kind = "database" /\ task[e] \in {"writing", "stored"}
  /\ faults < MaxFaults
  /\ faults' = faults + 1
  /\ SetTask(e, "reported")
  /\ UNCHANGED <<kind, fileVars, dataVars, crashes>>

-----------------------------------------------------------------------------
(* The server is killed with all its tasks, and with the write its File is *)
(* about; and it is started again.                                         *)
Crash ==
  /\ crashes < MaxCrashes
  /\ crashes' = crashes + 1
  /\ task' = [e \in Entries |->
       IF task[e] \in {"writing", "stored"} \/ (op.state = "running" /\ op.entry = e)
       THEN "lost" ELSE task[e]]
  /\ IF op.state = "running" THEN CutShort ELSE UNCHANGED dataVars
  /\ queue' = <<>> /\ op' = NoOp
  /\ UNCHANGED <<kind, sent, faults>>

BackendNext ==
  \/ \E e \in Entries :
       \/ Log(e) \/ HandOver(e) \/ Report(e)
       \/ Insert(e) \/ Inserted(e) \/ InsertFails(e)
  \/ PieceWritten \/ PieceFails
  \/ Crash

BackendSpec == BackendInit /\ [][BackendNext]_backendVars

-----------------------------------------------------------------------------
(* Every variable has the type of what it stands for. *)
BackendTypeOK ==
  /\ kind \in {"text", "database"}
  /\ task \in [Entries -> Tasks]
  /\ queue \in Seq(Entries) /\ IsInjective(queue)
  /\ ToSet(queue) = {e \in Entries : kind = "text" /\ task[e] = "writing"}
  /\ sent \in [Entries -> Nat] /\ \A e \in Entries : sent[e] <= Pieces[e]
  /\ op = NoOp \/ op \in [state : {"running", "written", "failed"},
                          entry : Entries, piece : Nat \ {0}]
  /\ lines \in Seq(Seq([entry : Entries, piece : Nat \ {0}, cut : BOOLEAN]))
  /\ tail \in Seq([entry : Entries, piece : Nat \ {0}, cut : BOOLEAN])
  /\ faults \in 0 .. MaxFaults
  /\ crashes \in 0 .. MaxCrashes

\* The lines, or rows, that are one whole record.
IsWhole(line) == line = Record(line[1].entry)

(***************************************************************************)
(* What a reader of the file finds: the lines that are no whole record are *)
(* no more than the writes that failed and the crashes, though an error is *)
(* told to another task than the one it is about, and though records of    *)
(* many tasks, of any size, go to one file.  An entry whose error is       *)
(* reported is not in the file.                                            *)
(***************************************************************************)
DamageIsBounded ==
  /\ Cardinality({i \in DOMAIN lines : ~ IsWhole(lines[i])}) <= faults + crashes
  /\ kind = "text" =>
       \A e \in Entries, i \in DOMAIN lines :
         task[e] = "reported" => lines[i] # Record(e)

(***************************************************************************)
(* The backend keeps the promise of module Journal.                        *)
(***************************************************************************)
WholeLines == {i \in DOMAIN lines : IsWhole(lines[i])}
Kept == [i \in WholeLines |-> lines[i][1].entry]

Fate == [e \in Entries |->
  IF \E i \in DOMAIN lines : lines[i] = Record(e) THEN "kept"
  ELSE IF \/ task[e] \in {"reported", "lost"}
          \/ task[e] = "logged" /\ ~ (op.state = "running" /\ op.entry = e)
       THEN "spoiled" ELSE "pending"]

\* The entries that are spoiled and were not lost with a server.
Victims == {e \in Entries : Fate[e] = "spoiled" /\ task[e] # "lost"}
Allowance == 3 * faults + crashes - Cardinality(Victims)

AsJournal == INSTANCE Journal WITH
  kept <- Kept, fate <- Fate, allowance <- Allowance
ImplementsJournal == AsJournal!JournalSpec

(* A task that can go on is polled, and the blocking threads get on. *)
BackendFairness ==
  /\ \A e \in Entries :
       /\ WF_backendVars(HandOver(e)) /\ WF_backendVars(Report(e))
       /\ WF_backendVars(Insert(e) \/ InsertFails(e)) /\ WF_backendVars(Inserted(e))
  /\ WF_backendVars(PieceWritten)

(* Every entry's task ends: no error keeps the file from the others. *)
EntriesConcluded ==
  \A e \in Entries : task[e] = "writing" ~> task[e] \in {"logged", "reported", "lost"}

=============================================================================
