------------------------------ MODULE AuditLog ------------------------------
(***************************************************************************)
(* From the responses to the log: audit_tokens_layer and the task it       *)
(* leaves behind (handler/audit/tokens.rs), which decides whether there is *)
(* a token usage to log (module TokenCount), together with the entries of  *)
(* the access layer, all on their way into one backend (AuditBackend).     *)
(***************************************************************************)
EXTENDS AuditBackend, TokenCount

CONSTANTS
  TokenEntries,  \* the entries of token usage; the others are access entries
  Asks,          \* the requests the tokens layer may see
  RecordsOf(_)   \* the records that may result from each of them

ASSUME TokenEntriesAssumption == TokenEntries \subseteq Entries
ASSUME RecordsAssumption == \A ask \in Asks : \A record \in RecordsOf(ask) : IsRecord(record)

VARIABLES
  policy,  \* filters.tokens.stream_tokens
  count,   \* how far the request of a token entry has come
  job,     \* what its task has: the request and the record
  usage    \* what its entry says

layerVars == <<policy, count, job, usage>>
vars == <<backendVars, layerVars>>

\* What a request has to do with the count: its endpoint, its member model
\* (absent, no string, a model without a known tokenizer, or known), whether
\* it asks for a stream, and whether the prompt of a chat can be read.
AllAsks == [endpoint : {"completions", "chat", "other"},
            model : {"none", "odd", "unknown", "known"},
            stream : BOOLEAN, prompt : BOOLEAN]

NoJob == [ask |-> "none"]
NoUsage == [of |-> "none"]

Init ==
  /\ BackendInit
  /\ policy \in {"skip", "reject", "estimate"}
  /\ count = [t \in TokenEntries |-> "idle"]
  /\ job = [t \in TokenEntries |-> NoJob]
  /\ usage = [t \in TokenEntries |-> NoUsage]

Goto(t, where) == count' = [count EXCEPT ![t] = where]

-----------------------------------------------------------------------------
(* audit_tokens_layer.                                                     *)

(* The layer answers itself: no model, or a stream where they are rejected. *)
Refuse(t) ==
  /\ count[t] = "idle"
  /\ \E ask \in Asks :
       ask.model = "none" \/ (ask.stream /\ policy = "reject")
  /\ Goto(t, "refused")
  /\ UNCHANGED <<backendVars, policy, job, usage>>

(* Wrong on purpose: streams are not rejected here. *)
PassUnchecked(t) ==
  /\ count[t] = "idle"
  /\ \E ask \in Asks :
       /\ ask.model # "none"
       /\ \E record \in RecordsOf(ask) :
            job' = [job EXCEPT ![t] = [ask |-> ask, record |-> record]]
  /\ Goto(t, "counting")
  /\ UNCHANGED <<backendVars, policy, usage>>

(* The request is passed on, and its response is recorded to the end. *)
Pass(t) ==
  /\ count[t] = "idle"
  /\ \E ask \in Asks :
       /\ ask.model # "none" /\ ~ (ask.stream /\ policy = "reject")
       /\ \E record \in RecordsOf(ask) :
            job' = [job EXCEPT ![t] = [ask |-> ask, record |-> record]]
  /\ Goto(t, "counting")
  /\ UNCHANGED <<backendVars, policy, usage>>

-----------------------------------------------------------------------------
(* audit_tokens_layer_inner.                                               *)

Ask(t) == job[t].ask
Recorded(t) == job[t].record

\* from_utf8 succeeded, and so did as_str().unwrap() of the model.
Counting(t) ==
  /\ count[t] = "counting"
  /\ Recorded(t).kind # "bytes"
  /\ Ask(t).model # "odd"

Estimable(ask) ==
  /\ ask.endpoint \in {"completions", "chat"}
  /\ ask.model = "known"
  /\ ask.endpoint = "chat" => ask.prompt

(* The unwrap of a model that is no string, or the unreachable!() of a     *)
(* stream that should have been rejected.                                  *)
Panic(t) ==
  /\ count[t] = "counting"
  /\ Recorded(t).kind # "bytes"
  /\ Ask(t).model = "odd" \/ (Ask(t).stream /\ policy = "reject")
  /\ Goto(t, "panicked")
  /\ UNCHANGED <<backendVars, policy, job, usage>>

(* The task returns without an entry. *)
Skip(t) ==
  /\ \/ count[t] = "counting" /\ Recorded(t).kind = "bytes"
     \/ Counting(t) /\ ~ Ask(t).stream /\ Recorded(t).kind # "usage"
     \/ Counting(t) /\ Ask(t).stream /\ policy = "skip"
     \/ /\ Counting(t) /\ Ask(t).stream /\ policy = "estimate"
        /\ ~ Estimable(Ask(t)) \/ ~ Readable(Recorded(t), FALSE)
  /\ Goto(t, "skipped")
  /\ job' = [job EXCEPT ![t] = NoJob]
  /\ UNCHANGED <<backendVars, policy, usage>>

\* The task has a usage, and calls log_tokens.
LogUsage(t, content) ==
  /\ usage' = [usage EXCEPT ![t] = content]
  /\ Goto(t, "counted")
  /\ job' = [job EXCEPT ![t] = NoJob]
  /\ Log(t)
  /\ UNCHANGED policy

TakeUsage(t) ==
  /\ Counting(t) /\ ~ Ask(t).stream
  /\ Recorded(t).kind = "usage"
  /\ LogUsage(t, [of |-> "upstream"])

Estimate(t) ==
  /\ Counting(t) /\ Ask(t).stream /\ policy = "estimate"
  /\ Estimable(Ask(t)) /\ Readable(Recorded(t), TRUE)
  /\ LogUsage(t, [of |-> "estimate", choices |-> Counted(Recorded(t))])

-----------------------------------------------------------------------------
(* The server is killed, with the tasks that count. *)
CrashAll ==
  /\ Crash
  /\ count' = [t \in TokenEntries |->
                 IF count[t] = "counting" THEN "lost" ELSE count[t]]
  /\ job' = [t \in TokenEntries |-> IF count[t] = "counting" THEN NoJob ELSE job[t]]
  /\ UNCHANGED <<policy, usage>>

Next ==
  \/ \E t \in TokenEntries :
       \/ Refuse(t) \/ Pass(t)
       \/ Panic(t) \/ Skip(t) \/ TakeUsage(t) \/ Estimate(t)
  \/ /\ \/ \E e \in Entries \ TokenEntries : Log(e)
        \/ \E e \in Entries :
             \/ HandOver(e) \/ Report(e)
             \/ Insert(e) \/ Inserted(e) \/ InsertFails(e)
        \/ PieceWritten
        \/ PieceFails
     /\ UNCHANGED layerVars
  \/ CrashAll

Spec == Init /\ [][Next]_vars

FairSpec == Spec /\ BackendFairness

-----------------------------------------------------------------------------
(* Every variable has the type of what it stands for. *)
TypeOK ==
  /\ BackendTypeOK
  /\ policy \in {"skip", "reject", "estimate"}
  /\ count \in [TokenEntries -> {"idle", "refused", "counting", "skipped",
                                 "counted", "panicked", "lost"}]
  /\ \A t \in TokenEntries :
       /\ count[t] \in {"counting", "panicked"} <=> job[t] # NoJob
       /\ count[t] = "counted" <=> usage[t] # NoUsage
       /\ task[t] # "none" <=> count[t] = "counted"

(***************************************************************************)
(* As long as upstream numbers its choices from 0 on (see Resized), the    *)
(* task that counts panics for one reason only, a model that is JSON but   *)
(* no string (tokens.rs:124); the usage of that request is lost.  The      *)
(* unreachable!() of tokens.rs:132 is unreachable.                         *)
(***************************************************************************)
PanicsOnOddModel ==
  \A t \in TokenEntries : count[t] = "panicked" => job[t].ask.model = "odd"

\* The parts of the record are the beginning of the response, in order.
InOrder(record) == IsPrefix(record.parts, PartsUpTo(Done(record)))

\* Every part of the response is there once.
Complete(record) ==
  /\ IsInjective(record.parts)
  /\ ToSet(record.parts) = ToSet(PartsUpTo(Done(record)))

\* No chunk starts within a "data: ".
PrefixesWhole(record) ==
  \A i \in DOMAIN record.parts : record.parts[i].part = 1 =>
    i < Len(record.parts) /\ record.parts[i + 1] = Part(record.parts[i].event, 2)

\* The events of a choice that have a delta, of those recorded to their end.
EventsOf(record, choice, delta) ==
  {ev \in DOMAIN record.events :
     /\ Part(ev, 3) \in ToSet(record.parts)
     /\ record.events[ev].choice = choice /\ record.events[ev].delta = delta}

\* Each choice has its own texts, in their order, and its last call; and an
\* event that arrived has its choice.
OwnTextsInOrder(record, choices) ==
  /\ \A i \in DOMAIN choices :
       LET content == choices[i].content
           calls == EventsOf(record, i - 1, "call")
       IN  /\ ToSet(content) = {<<ev, ev>> : ev \in EventsOf(record, i - 1, "text")}
           /\ \A m, n \in DOMAIN content : m < n => content[m][1] < content[n][1]
           /\ IF calls = {} THEN choices[i].call = NoCall
              ELSE choices[i].call \in calls /\ \A c \in calls : c <= choices[i].call
  /\ \A ev \in DOMAIN record.events :
       Part(ev, 3) \in ToSet(record.parts) => record.events[ev].choice + 1 \in DOMAIN choices

\* The beginning of every text is in its choice, and its end in some choice;
\* and none is there twice.
EveryTextOnce(record, choices) ==
  LET places == UNION {{i} \X DOMAIN choices[i].content : i \in DOMAIN choices}
      At(p) == choices[p[1]].content[p[2]]
  IN  /\ \A ev \in DOMAIN record.events : record.events[ev].delta = "text" =>
           /\ \E p \in places : p[1] = record.events[ev].choice + 1 /\ At(p)[1] = ev
           /\ \E p \in places : At(p)[2] = ev
      /\ \A p, q \in places : At(p)[1] = At(q)[1] \/ At(p)[2] = At(q)[2] => p = q

(***************************************************************************)
(* What an estimate is made of.  Of a record that is in order, each choice *)
(* has its own texts in their order, and its last function call, of every  *)
(* event that arrived, also when the response broke off.  Of a record that *)
(* is complete but has its chunks swapped, which the tee may do, no text   *)
(* is left out or doubled: either it no longer parses and nothing is       *)
(* logged, or every text is there.  Not so if a chunk starts within a      *)
(* "data: ", as the line is then skipped without an error.                 *)
(***************************************************************************)
CountIsExact ==
  [][\A t \in TokenEntries :
       count[t] = "counting" /\ usage'[t] # NoUsage /\ usage'[t].of = "estimate" =>
         LET record == job[t].record
             choices == usage'[t].choices
         IN  /\ InOrder(record) => OwnTextsInOrder(record, choices)
             /\ Complete(record) /\ PrefixesWhole(record) => EveryTextOnce(record, choices)
     ]_vars

=============================================================================
