----------------------------- MODULE HubProofs ------------------------------
(***************************************************************************)
(* Proofs about the request pipeline, for every number of keys and every   *)
(* finite set of requests, on top of the proofs about its pool.            *)
(***************************************************************************)
EXTENDS Hub, Sequences, TLAPS

\* The pipeline keeps no history of the keys, and the facts taken from there
\* say nothing of it.
PoolProofs == INSTANCE KeyPoolProofs WITH since <- <<>>

-----------------------------------------------------------------------------
(* The pipeline uses the pool as the pool's specification allows.          *)

(* Every step of the pipeline is a step of the pool, or leaves it alone. *)
LEMMA StepIsPoolStep == [Next]_vars => [Pool!Next]_(Pool!vars)
<1> SUFFICES ASSUME [Next]_vars PROVE [Pool!Next]_(Pool!vars)
  OBVIOUS
<1> USE DEF Pool!vars, poolVars
<1>1. CASE UNCHANGED vars
  BY <1>1 DEF vars
<1>2. ASSUME NEW r \in Requests,
             CheckBody(r) \/ Reject(r) \/ Admit(r) \/ UploadEnds(r) \/ BodyRead(r)
               \/ BodyRefused(r) \/ SendOk(r) \/ AnswerFailure(r) \/ Answer(r)
               \/ TeeEnds(r) \/ LogAccess(r) \/ LogTokens(r)
      PROVE  UNCHANGED Pool!vars
  BY <1>2 DEF CheckBody, Reject, Admit, UploadEnds, BodyRead, BodyRefused, SendOk,
              AnswerFailure, Answer, TeeEnds, LogAccess, LogTokens
<1>3. ASSUME NEW r \in Requests, AskForKey(r) \/ GetKey(r) \/ ReleasePermit(r)
      PROVE  Pool!Next
  BY <1>3 DEF AskForKey, GetKey, ReleasePermit, Pool!Next
<1>4. ASSUME NEW r \in Requests, CloseCall(r)
      PROVE  Pool!Next
  BY <1>4 DEF CloseCall, Pool!Next
<1>5. ASSUME NEW r \in Requests,
             SendFails(r) \/ UpstreamEnds(r) \/ UpstreamBreaks(r) \/ RelayError(r)
               \/ ErrorTaken(r) \/ Leave(r)
      PROVE  Pool!Next \/ UNCHANGED Pool!vars
  BY <1>4, <1>5 DEF SendFails, UpstreamEnds, UpstreamBreaks, RelayError, ErrorTaken,
                    Leave, Pool!Next
<1>6. ASSUME NEW r \in Requests, Cancel(r)
      PROVE  Pool!Next \/ UNCHANGED Pool!vars
  BY <1>4, <1>6 DEF Cancel, DropHandler, Pool!Next
<1> QED
  BY <1>1, <1>2, <1>3, <1>5, <1>6 DEF Next

(* So the pool inside the pipeline behaves as KeyPool says, and its         *)
(* invariant holds there.                                                  *)
LEMMA PoolInvariant == Spec => []PoolProofs!PoolInv
<1>1. Pool!Init => PoolProofs!Init
  BY DEF Pool!Init, PoolProofs!Init, Pool!Keys, PoolProofs!Keys
<1>2. [Pool!Next]_(Pool!vars) => [PoolProofs!Next]_(PoolProofs!vars)
  <2>1. ASSUME NEW r \in Requests PROVE Pool!ReleaseOf(r) <=> PoolProofs!ReleaseOf(r)
    BY DEF Pool!ReleaseOf, PoolProofs!ReleaseOf
  <2> QED
    BY <2>1 DEF Pool!Next, PoolProofs!Next, Pool!vars, PoolProofs!vars,
         Pool!AcquireNow, PoolProofs!AcquireNow, Pool!Enqueue, PoolProofs!Enqueue,
         Pool!PopKey, PoolProofs!PopKey, Pool!CancelWaiting, PoolProofs!CancelWaiting,
         Pool!CancelGranted, PoolProofs!CancelGranted, Pool!ReturnKey,
         PoolProofs!ReturnKey, Pool!ReleasePermit, PoolProofs!ReleasePermit,
         Pool!RemoveAt, PoolProofs!RemoveAt
<1>0. /\ NumKeys \in Nat /\ NoKey \notin PoolProofs!Keys
      /\ PoolProofs!IsFiniteSet(Requests)
  BY KeysAssumption, RequestsAssumption
     DEF PoolProofs!Keys, IsFiniteSet, PoolProofs!IsFiniteSet
<1>3. PoolProofs!Init => PoolProofs!PoolInv
  BY PoolProofs!PoolInvInit, <1>0
<1>4. PoolProofs!PoolInv /\ [PoolProofs!Next]_(PoolProofs!vars) => PoolProofs!PoolInv'
  BY PoolProofs!PoolInvNext, <1>0
<1>5. Init => Pool!Init
  BY DEF Init
<1> QED
  BY <1>1, <1>2, <1>3, <1>4, <1>5, StepIsPoolStep, PTL DEF Spec

-----------------------------------------------------------------------------
(***************************************************************************)
(* The inductive invariant.  What makes it inductive is where each request *)
(* stands while its call, its tees and its entry are in which state: which *)
(* the actions rely on without checking it.                                *)
(***************************************************************************)

\* Before the call there is none, and no tee of its answer.
BeforeCall(r) ==
  /\ pc[r] \in {"idle", "checking", "reading", "keying", "rejected", "panicked"} => call[r] = "none"
  /\ pc[r] \in {"idle", "checking", "reading", "keying", "rejected", "panicked", "sending",
                "failing"} =>
       tees[r] = 0 /\ tail[r] = "none"
  /\ call[r] = "sending" <=> pc[r] = "sending"

\* The tees stand between the call and the client, and end after the call.
TeesFollowCall(r) ==
  /\ pc[r] = "returning" => tees[r] <= 1
  /\ call[r] = "broken" => tees[r] > 0
  /\ tail[r] = "erring" => call[r] \in {"broken", "over"}
  /\ tail[r] = "ended" => call[r] \in {"none", "over"}

\* A client goes away from a request that is answered, or drops it.
GoneClient(r) ==
  client[r] = "gone" =>
    /\ pc[r] \in {"answered", "dropped"}
    /\ tees[r] = 0 => ~ Calling(r)

\* An entry is written after the answer, and after both bodies' ends.
EntryFollows(r) ==
  /\ access[r] \in {"recording", "written", "failed"} =>
       pc[r] = "answered" /\ (filters.body => upload[r] # "open")
  /\ access[r] \in {"written", "failed"} =>
       (filters.response => call[r] \in {"none", "over"})

RequestInv(r) ==
  /\ stage[r] = "leased" <=> Calling(r)
  /\ BeforeCall(r)
  /\ TeesFollowCall(r)
  /\ GoneClient(r)
  /\ EntryFollows(r)

HubInv == TypeOK /\ \A r \in Requests : RequestInv(r)

-----------------------------------------------------------------------------
(* What a step does to the requests it is not about.                       *)

\* A step leaves request s alone, except that it may give it a permit.
Untouched(s) ==
  /\ filters' = filters
  /\ pc'[s] = pc[s] /\ upload'[s] = upload[s] /\ client'[s] = client[s]
  /\ call'[s] = call[s] /\ tees'[s] = tees[s] /\ tail'[s] = tail[s]
  /\ access'[s] = access[s]
  /\ stage'[s] = "leased" <=> stage[s] = "leased"

(* A request that is left alone keeps its invariant. *)
LEMMA UntouchedKeeps ==
  ASSUME NEW s \in Requests, RequestInv(s), Untouched(s)
  PROVE  RequestInv(s)'
BY DEF Untouched, RequestInv, BeforeCall, TeesFollowCall, GoneClient, EntryFollows, Calling

(* The pool's invariant includes that its variables have their types. *)
LEMMA PoolTyped ==
  /\ PoolProofs!PoolInv => Pool!TypeOK
  /\ PoolProofs!PoolInv' => Pool!TypeOK'
BY DEF PoolProofs!PoolInv, PoolProofs!TypeOK, Pool!TypeOK, Pool!Keys, PoolProofs!Keys,
       Pool!Stages, PoolProofs!Stages

(* A permit that is released goes to a handler that waits for it: nobody   *)
(* loses or gets a key by it.                                              *)
LEMMA ReleaseMovesNoKey ==
  ASSUME PoolProofs!PoolInv, NEW r \in Requests, stage[r] \in {"granted", "unwinding"},
         Pool!ReleaseOf(r), NEW s \in Requests
  PROVE  stage'[s] = "leased" <=> stage[s] = "leased"
<1>1. /\ waiters \in Seq(Requests) /\ stage \in [Requests -> Pool!Stages]
      /\ PoolProofs!ToSet(waiters) = {t \in Requests : stage[t] = "waiting"}
  BY PoolTyped DEF PoolProofs!PoolInv, PoolProofs!QueueExact, Pool!TypeOK
<1>2. CASE waiters = <<>>
  BY <1>1, <1>2 DEF Pool!ReleaseOf
<1>3. CASE waiters # <<>>
  <2>0. 1 \in DOMAIN waiters /\ Head(waiters) = waiters[1]
    BY <1>1, <1>3
  <2>1. Head(waiters) \in PoolProofs!ToSet(waiters)
    BY ONLY <2>0 DEF PoolProofs!ToSet
  <2>2. Head(waiters) \in Requests /\ stage[Head(waiters)] = "waiting"
    BY <1>1, <2>1
  <2>3. stage' = [stage EXCEPT ![r] = "idle", ![Head(waiters)] = "granted"]
    BY <1>3 DEF Pool!ReleaseOf
  <2> QED
    BY <1>1, <2>2, <2>3
<1> QED
  BY <1>2, <1>3

(* A step about one request keeps the invariant if it keeps the types, and *)
(* that request's part of it.                                              *)
LEMMA OneRequestStep ==
  ASSUME HubInv, NEW r \in Requests, TypeOK', RequestInv(r)',
         \A s \in Requests \ {r} : Untouched(s)
  PROVE  HubInv'
<1>1. ASSUME NEW s \in Requests PROVE RequestInv(s)'
  <2>1. CASE s = r
    BY <2>1
  <2>2. CASE s # r
    BY <2>2, UntouchedKeeps DEF HubInv
  <2> QED
    BY <2>1, <2>2
<1> QED
  BY <1>1 DEF HubInv

-----------------------------------------------------------------------------
(* One lemma per phase of a request: its actions preserve the invariant.   *)

(* Before it asks for a key, a request touches neither pool nor call.      *)
LEMMA ReceivingPreserves ==
  ASSUME HubInv, PoolProofs!PoolInv, PoolProofs!PoolInv', NEW r \in Requests,
         CheckBody(r) \/ Reject(r) \/ Admit(r) \/ UploadEnds(r) \/ BodyRead(r)
           \/ BodyRefused(r)
  PROVE  HubInv'
<1> USE DEF poolVars, askVars, bodyVars, logVars, Goto
<1>0. TypeOK /\ RequestInv(r) /\ Pool!TypeOK'
  BY PoolTyped DEF HubInv
<1>1. CASE Reject(r)
  <2>1. TypeOK'
    BY <1>0, <1>1 DEF TypeOK, Positions, Pool!TypeOK, Reject
  <2>2. \A s \in Requests \ {r} : Untouched(s)
    BY <1>0, <1>1 DEF TypeOK, Pool!TypeOK, Untouched, Reject
  <2>3. RequestInv(r)'
    BY <1>0, <1>1 DEF TypeOK, Pool!TypeOK, Pool!Stages, Reject,
       RequestInv, BeforeCall, TeesFollowCall, GoneClient, EntryFollows, Calling
  <2> QED
    BY <2>1, <2>2, <2>3, OneRequestStep
<1>2. CASE Admit(r)
  <2>1. TypeOK'
    <3>1. PICK c \in BOOLEAN :
            /\ counted' = [counted EXCEPT ![r] = c]
            /\ \E where \in Positions : pc' = [pc EXCEPT ![r] = where]
      BY <1>2 DEF Admit, Positions
    <3>2. \E a \in {"held", "none"} : access' = [access EXCEPT ![r] = a]
      BY <1>2 DEF Admit
    <3> QED
      BY <1>0, <1>2, <3>1, <3>2 DEF TypeOK, Admit
  <2>2. \A s \in Requests \ {r} : Untouched(s)
    BY <1>0, <1>2 DEF TypeOK, Pool!TypeOK, Untouched, Admit
  <2>3. RequestInv(r)'
    BY <1>0, <1>2 DEF TypeOK, Pool!TypeOK, Pool!Stages, Admit,
       RequestInv, BeforeCall, TeesFollowCall, GoneClient, EntryFollows, Calling
  <2> QED
    BY <2>1, <2>2, <2>3, OneRequestStep
<1>3. CASE UploadEnds(r)
  <2>1. TypeOK'
    BY <1>0, <1>3 DEF TypeOK, Positions, Pool!TypeOK, UploadEnds
  <2>2. \A s \in Requests \ {r} : Untouched(s)
    BY <1>0, <1>3 DEF TypeOK, Pool!TypeOK, Untouched, UploadEnds
  <2>3. RequestInv(r)'
    BY <1>0, <1>3 DEF TypeOK, Pool!TypeOK, Pool!Stages, UploadEnds,
       RequestInv, BeforeCall, TeesFollowCall, GoneClient, EntryFollows, Calling
  <2> QED
    BY <2>1, <2>2, <2>3, OneRequestStep
<1>4. CASE BodyRead(r)
  <2>1. TypeOK'
    BY <1>0, <1>4 DEF TypeOK, Positions, Pool!TypeOK, BodyRead
  <2>2. \A s \in Requests \ {r} : Untouched(s)
    BY <1>0, <1>4 DEF TypeOK, Pool!TypeOK, Untouched, BodyRead
  <2>3. RequestInv(r)'
    BY <1>0, <1>4 DEF TypeOK, Pool!TypeOK, Pool!Stages, BodyRead,
       RequestInv, BeforeCall, TeesFollowCall, GoneClient, EntryFollows, Calling
  <2> QED
    BY <2>1, <2>2, <2>3, OneRequestStep
<1>5. CASE BodyRefused(r)
  <2>1. TypeOK'
    BY <1>0, <1>5 DEF TypeOK, Positions, Pool!TypeOK, BodyRefused
  <2>2. \A s \in Requests \ {r} : Untouched(s)
    BY <1>0, <1>5 DEF TypeOK, Pool!TypeOK, Untouched, BodyRefused
  <2>3. RequestInv(r)'
    BY <1>0, <1>5 DEF TypeOK, Pool!TypeOK, Pool!Stages, BodyRefused,
       RequestInv, BeforeCall, TeesFollowCall, GoneClient, EntryFollows, Calling
  <2> QED
    BY <2>1, <2>2, <2>3, OneRequestStep
<1>6. CASE CheckBody(r)
  <2>1. TypeOK'
    BY <1>0, <1>6 DEF TypeOK, Positions, Pool!TypeOK, CheckBody
  <2>2. \A s \in Requests \ {r} : Untouched(s)
    BY <1>0, <1>6 DEF TypeOK, Pool!TypeOK, Untouched, CheckBody
  <2>3. RequestInv(r)'
    BY <1>0, <1>6 DEF TypeOK, Pool!TypeOK, Pool!Stages, CheckBody,
       RequestInv, BeforeCall, TeesFollowCall, GoneClient, EntryFollows, Calling
  <2> QED
    BY <2>1, <2>2, <2>3, OneRequestStep
<1> QED
  BY <1>1, <1>2, <1>3, <1>4, <1>5, <1>6

(* Getting a key opens the call, and releasing a permit ends nothing.      *)
LEMMA GettingKeyPreserves ==
  ASSUME HubInv, PoolProofs!PoolInv, PoolProofs!PoolInv', NEW r \in Requests,
         AskForKey(r) \/ GetKey(r) \/ ReleasePermit(r)
  PROVE  HubInv'
<1> USE DEF poolVars, askVars, bodyVars, logVars, Goto
<1>0. TypeOK /\ RequestInv(r) /\ Pool!TypeOK'
  BY PoolTyped DEF HubInv
<1>1. CASE AskForKey(r)
  <2>1. TypeOK'
    BY <1>0, <1>1 DEF TypeOK, Positions, Pool!TypeOK, AskForKey, Pool!AcquireNow, Pool!Enqueue
  <2>2. \A s \in Requests \ {r} : Untouched(s)
    BY <1>0, <1>1 DEF TypeOK, Pool!TypeOK, Untouched, AskForKey, Pool!AcquireNow, Pool!Enqueue
  <2>3. RequestInv(r)'
    BY <1>0, <1>1 DEF TypeOK, Pool!TypeOK, Pool!Stages, AskForKey, Pool!AcquireNow, Pool!Enqueue,
       RequestInv, BeforeCall, TeesFollowCall, GoneClient, EntryFollows, Calling
  <2> QED
    BY <2>1, <2>2, <2>3, OneRequestStep
<1>2. CASE GetKey(r)
  <2>1. TypeOK'
    <3>1. \E where \in Positions : pc' = [pc EXCEPT ![r] = where]
      BY <1>2 DEF GetKey, Positions
    <3>2. call' = [call EXCEPT ![r] = "sending"] \/ call' = call
      BY <1>2 DEF GetKey
    <3> QED
      BY <1>0, <1>2, <3>1, <3>2 DEF TypeOK, GetKey
  <2>2. \A s \in Requests \ {r} : Untouched(s)
    BY <1>0, <1>2 DEF TypeOK, Pool!TypeOK, Untouched, GetKey, Pool!PopKey
  <2>3. RequestInv(r)'
    BY <1>0, <1>2 DEF TypeOK, Pool!TypeOK, Pool!Stages, GetKey, Pool!PopKey,
       RequestInv, BeforeCall, TeesFollowCall, GoneClient, EntryFollows, Calling
  <2> QED
    BY <2>1, <2>2, <2>3, OneRequestStep
<1>3. CASE ReleasePermit(r)
  <2>0. \A s \in Requests : stage'[s] = "leased" <=> stage[s] = "leased"
    BY <1>3, ReleaseMovesNoKey DEF ReleasePermit, Pool!ReleasePermit
  <2>1. TypeOK'
    BY <1>0, <1>3 DEF TypeOK, Positions, Pool!TypeOK, ReleasePermit, Pool!ReleasePermit
  <2>2. \A s \in Requests \ {r} : Untouched(s)
    BY <2>0, <1>0, <1>3 DEF TypeOK, Pool!TypeOK, Untouched, ReleasePermit, Pool!ReleasePermit
  <2>3. RequestInv(r)'
    BY <2>0, <1>0, <1>3 DEF TypeOK, Pool!TypeOK, Pool!Stages, ReleasePermit, Pool!ReleasePermit,
       RequestInv, BeforeCall, TeesFollowCall, GoneClient, EntryFollows, Calling
  <2> QED
    BY <2>1, <2>2, <2>3, OneRequestStep
<1> QED
  BY <1>1, <1>2, <1>3

(* The answer arrives or fails to, and passes the audit layers.            *)
LEMMA AnsweringPreserves ==
  ASSUME HubInv, PoolProofs!PoolInv, PoolProofs!PoolInv', NEW r \in Requests,
         SendOk(r) \/ SendFails(r) \/ AnswerFailure(r) \/ Answer(r)
  PROVE  HubInv'
<1> USE DEF poolVars, askVars, bodyVars, logVars, Goto
<1>0. TypeOK /\ RequestInv(r) /\ Pool!TypeOK'
  BY PoolTyped DEF HubInv
<1>1. CASE SendOk(r)
  <2>1. TypeOK'
    BY <1>0, <1>1 DEF TypeOK, Positions, SendOk, PassTokensLayer
  <2>2. \A s \in Requests \ {r} : Untouched(s)
    BY <1>0, <1>1 DEF TypeOK, Pool!TypeOK, Untouched, SendOk, PassTokensLayer
  <2>3. RequestInv(r)'
    BY <1>0, <1>1 DEF TypeOK, Pool!TypeOK, Pool!Stages, SendOk, PassTokensLayer,
       RequestInv, BeforeCall, TeesFollowCall, GoneClient, EntryFollows, Calling
  <2> QED
    BY <2>1, <2>2, <2>3, OneRequestStep
<1>2. CASE SendFails(r)
  <2>1. TypeOK'
    BY <1>0, <1>2 DEF TypeOK, Positions, SendFails
  <2>2. \A s \in Requests \ {r} : Untouched(s)
    BY <1>0, <1>2 DEF TypeOK, Pool!TypeOK, Untouched, SendFails, Pool!ReturnKey
  <2>3. RequestInv(r)'
    BY <1>0, <1>2 DEF TypeOK, Pool!TypeOK, Pool!Stages, SendFails, Pool!ReturnKey,
       RequestInv, BeforeCall, TeesFollowCall, GoneClient, EntryFollows, Calling
  <2> QED
    BY <2>1, <2>2, <2>3, OneRequestStep
<1>3. CASE Answer(r)
  <2>0. \/ /\ tees' = [tees EXCEPT ![r] = @ + 1]
           /\ \E how \in {"open", "erring"} :
                /\ tail' = [tail EXCEPT ![r] = how]
                /\ how = "erring" => call[r] = "over"
        \/ tees' = tees /\ tail' = tail
    BY <1>3 DEF Answer
  <2>1. TypeOK'
    <3>1. tees[r] + 1 \in 0 .. 2
      BY <1>0, <1>3 DEF TypeOK, Answer, RequestInv, TeesFollowCall
    <3>2. tees' \in [Requests -> 0 .. 2] /\ tail' \in [Requests -> {"none", "open", "erring", "ended"}]
      BY <1>0, <2>0, <3>1 DEF TypeOK
    <3>3. access' \in [Requests -> {"none", "held", "lost", "recording", "written", "failed"}]
      BY <1>0, <1>3 DEF TypeOK, Answer
    <3> QED
      BY <1>0, <1>3, <3>2, <3>3 DEF TypeOK, Positions, Answer
  <2>2. \A s \in Requests \ {r} : Untouched(s)
    BY <1>0, <1>3 DEF TypeOK, Pool!TypeOK, Untouched, Answer, AwaitsUpload
  <2>3. RequestInv(r)'
    <3>1. /\ pc[r] = "returning" /\ pc'[r] = "answered" /\ filters' = filters
          /\ stage' = stage /\ call' = call /\ upload' = upload /\ client' = client
      BY <1>0, <1>3 DEF TypeOK, Answer
    <3>2. /\ tees'[r] \in Nat /\ tees[r] \in Nat /\ tees'[r] >= tees[r]
          /\ tail'[r] \in {"open", tail[r]} \/ (tail'[r] = "erring" /\ call[r] = "over")
      BY <1>0, <2>0 DEF TypeOK
    <3>3. BeforeCall(r)' /\ TeesFollowCall(r)' /\ GoneClient(r)'
      BY <1>0, <3>1, <3>2 DEF RequestInv, BeforeCall, TeesFollowCall, GoneClient, Calling
    <3>4. EntryFollows(r)'
      <4>1. access[r] \notin {"recording", "written", "failed"}
        BY <1>0, <3>1 DEF RequestInv, EntryFollows
      <4>2. CASE filters.access
        <5>1. access'[r] = "recording" /\ (filters.body => upload[r] # "open")
          BY <1>0, <1>3, <4>2 DEF TypeOK, Answer, AwaitsUpload
        <5> QED
          BY <3>1, <5>1 DEF EntryFollows
      <4>3. CASE ~ filters.access
        <5>1. access' = access
          BY <1>3, <4>3 DEF Answer
        <5> QED
          BY <4>1, <5>1 DEF EntryFollows
      <4> QED
        BY <4>2, <4>3
    <3> QED
      BY <1>0, <3>1, <3>3, <3>4 DEF RequestInv, Calling
  <2> QED
    BY <2>1, <2>2, <2>3, OneRequestStep
<1>4. CASE AnswerFailure(r)
  <2>1. TypeOK'
    BY <1>0, <1>4 DEF TypeOK, Positions, AnswerFailure, PassTokensLayer
  <2>2. \A s \in Requests \ {r} : Untouched(s)
    BY <1>0, <1>4 DEF TypeOK, Pool!TypeOK, Untouched, AnswerFailure, PassTokensLayer
  <2>3. RequestInv(r)'
    BY <1>0, <1>4 DEF TypeOK, Pool!TypeOK, Pool!Stages, AnswerFailure, PassTokensLayer,
       RequestInv, BeforeCall, TeesFollowCall, GoneClient, EntryFollows, Calling
  <2> QED
    BY <2>1, <2>2, <2>3, OneRequestStep
<1> QED
  BY <1>1, <1>2, <1>3, <1>4

(* The body ends or breaks, and the tees follow the call.                  *)
LEMMA StreamingPreserves ==
  ASSUME HubInv, PoolProofs!PoolInv, PoolProofs!PoolInv', NEW r \in Requests,
         UpstreamEnds(r) \/ UpstreamBreaks(r) \/ RelayError(r) \/ ErrorTaken(r) \/ TeeEnds(r)
  PROVE  HubInv'
<1> USE DEF poolVars, askVars, bodyVars, logVars, Goto
<1>0. TypeOK /\ RequestInv(r) /\ Pool!TypeOK'
  BY PoolTyped DEF HubInv
<1>1. CASE UpstreamEnds(r)
  <2>1. TypeOK'
    BY <1>0, <1>1 DEF TypeOK, Positions, Pool!TypeOK, UpstreamEnds, CloseCall, Pool!ReturnKey
  <2>2. \A s \in Requests \ {r} : Untouched(s)
    BY <1>0, <1>1 DEF TypeOK, Pool!TypeOK, Untouched, UpstreamEnds, CloseCall, Pool!ReturnKey
  <2>3. RequestInv(r)'
    BY <1>0, <1>1 DEF TypeOK, Pool!TypeOK, Pool!Stages, UpstreamEnds, CloseCall, Pool!ReturnKey,
       RequestInv, BeforeCall, TeesFollowCall, GoneClient, EntryFollows, Calling
  <2> QED
    BY <2>1, <2>2, <2>3, OneRequestStep
<1>2. CASE UpstreamBreaks(r)
  <2>1. TypeOK'
    <3>1. call' \in [Requests -> {"none", "sending", "streaming", "broken", "over"}]
      BY <1>0, <1>2 DEF TypeOK, UpstreamBreaks, CloseCall
    <3>2. tail' \in [Requests -> {"none", "open", "erring", "ended"}]
      BY <1>0, <1>2 DEF TypeOK, UpstreamBreaks
    <3>3. UNCHANGED <<filters, pc, upload, client, counted, tees, access, tokens>>
      BY <1>2 DEF UpstreamBreaks
    <3> QED
      BY ONLY <1>0, <3>1, <3>2, <3>3 DEF TypeOK, Positions
  <2>2. \A s \in Requests \ {r} : Untouched(s)
    BY <1>0, <1>2 DEF TypeOK, Pool!TypeOK, Untouched, UpstreamBreaks, CloseCall, Pool!ReturnKey
  <2>3. RequestInv(r)'
    BY <1>0, <1>2 DEF TypeOK, Pool!TypeOK, Pool!Stages, UpstreamBreaks, CloseCall, Pool!ReturnKey,
       RequestInv, BeforeCall, TeesFollowCall, GoneClient, EntryFollows, Calling
  <2> QED
    BY <2>1, <2>2, <2>3, OneRequestStep
<1>3. CASE RelayError(r)
  <2>1. TypeOK'
    BY <1>0, <1>3 DEF TypeOK, Positions, Pool!TypeOK, RelayError, CloseCall, Pool!ReturnKey
  <2>2. \A s \in Requests \ {r} : Untouched(s)
    BY <1>0, <1>3 DEF TypeOK, Pool!TypeOK, Untouched, RelayError, CloseCall, Pool!ReturnKey
  <2>3. RequestInv(r)'
    BY <1>0, <1>3 DEF TypeOK, Pool!TypeOK, Pool!Stages, RelayError, CloseCall, Pool!ReturnKey,
       RequestInv, BeforeCall, TeesFollowCall, GoneClient, EntryFollows, Calling
  <2> QED
    BY <2>1, <2>2, <2>3, OneRequestStep
<1>4. CASE ErrorTaken(r)
  <2>1. TypeOK'
    <3>1. CASE call[r] = "broken"
      <4>1. /\ UNCHANGED <<askVars, pc, tees, logVars, permits, waiters>>
            /\ tail' = [tail EXCEPT ![r] = "ended"]
            /\ call' = [call EXCEPT ![r] = "over"]
        BY <1>4, <3>1 DEF ErrorTaken, CloseCall, Pool!ReturnKey
      <4> QED
        BY <1>0, <4>1 DEF TypeOK, askVars, logVars
    <3>2. CASE call[r] # "broken"
      BY <1>0, <1>4, <3>2 DEF TypeOK, Positions, Pool!TypeOK, ErrorTaken
    <3> QED
      BY <3>1, <3>2
  <2>2. \A s \in Requests \ {r} : Untouched(s)
    BY <1>0, <1>4 DEF TypeOK, Pool!TypeOK, Untouched, ErrorTaken, CloseCall, Pool!ReturnKey
  <2>3. RequestInv(r)'
    BY <1>0, <1>4 DEF TypeOK, Pool!TypeOK, Pool!Stages, ErrorTaken, CloseCall, Pool!ReturnKey,
       RequestInv, BeforeCall, TeesFollowCall, GoneClient, EntryFollows, Calling
  <2> QED
    BY <2>1, <2>2, <2>3, OneRequestStep
<1>5. CASE TeeEnds(r)
  <2>1. TypeOK'
    BY <1>0, <1>5 DEF TypeOK, Positions, Pool!TypeOK, TeeEnds
  <2>2. \A s \in Requests \ {r} : Untouched(s)
    BY <1>0, <1>5 DEF TypeOK, Pool!TypeOK, Untouched, TeeEnds
  <2>3. RequestInv(r)'
    BY <1>0, <1>5 DEF TypeOK, Pool!TypeOK, Pool!Stages, TeeEnds,
       RequestInv, BeforeCall, TeesFollowCall, GoneClient, EntryFollows, Calling
  <2> QED
    BY <2>1, <2>2, <2>3, OneRequestStep
<1> QED
  BY <1>1, <1>2, <1>3, <1>4, <1>5

(* The client goes away, before the answer or after it.                    *)
LEMMA LeavingPreserves ==
  ASSUME HubInv, PoolProofs!PoolInv, PoolProofs!PoolInv', NEW r \in Requests,
         Cancel(r) \/ Leave(r)
  PROVE  HubInv'
<1> USE DEF poolVars, askVars, bodyVars, logVars, Goto
<1>0. TypeOK /\ RequestInv(r) /\ Pool!TypeOK'
  BY PoolTyped DEF HubInv
<1>1. CASE Cancel(r)
  <2>0. ASSUME NEW s \in Requests, Pool!CancelGranted(r)
        PROVE  stage'[s] = "leased" <=> stage[s] = "leased"
    BY <2>0, ReleaseMovesNoKey DEF Pool!CancelGranted
  <2>1. TypeOK'
    BY <1>0, <1>1 DEF TypeOK, Positions, Pool!TypeOK, Cancel, DropHandler, CloseCall, Pool!ReturnKey, Pool!CancelWaiting, Pool!CancelGranted
  <2>2. \A s \in Requests \ {r} : Untouched(s)
    BY <2>0, <1>0, <1>1 DEF TypeOK, Pool!TypeOK, Untouched, Cancel, DropHandler, CloseCall, Pool!ReturnKey, Pool!CancelWaiting, Pool!CancelGranted
  <2>3. RequestInv(r)'
    BY <2>0, <1>0, <1>1 DEF TypeOK, Pool!TypeOK, Pool!Stages, Cancel, DropHandler, CloseCall, Pool!ReturnKey, Pool!CancelWaiting, Pool!CancelGranted,
       RequestInv, BeforeCall, TeesFollowCall, GoneClient, EntryFollows, Calling
  <2> QED
    BY <2>1, <2>2, <2>3, OneRequestStep
<1>2. CASE Leave(r)
  <2>1. TypeOK'
    BY <1>0, <1>2 DEF TypeOK, Positions, Pool!TypeOK, Leave, CloseCall, Pool!ReturnKey
  <2>2. \A s \in Requests \ {r} : Untouched(s)
    BY <1>0, <1>2 DEF TypeOK, Pool!TypeOK, Untouched, Leave, CloseCall, Pool!ReturnKey
  <2>3. RequestInv(r)'
    BY <1>0, <1>2 DEF TypeOK, Pool!TypeOK, Pool!Stages, Leave, CloseCall, Pool!ReturnKey,
       RequestInv, BeforeCall, TeesFollowCall, GoneClient, EntryFollows, Calling
  <2> QED
    BY <2>1, <2>2, <2>3, OneRequestStep
<1> QED
  BY <1>1, <1>2

(* An entry is written after what it waits for.                            *)
LEMMA LoggingPreserves ==
  ASSUME HubInv, PoolProofs!PoolInv, PoolProofs!PoolInv', NEW r \in Requests,
         LogAccess(r) \/ LogTokens(r)
  PROVE  HubInv'
<1> USE DEF poolVars, askVars, bodyVars, logVars, Goto
<1>0. TypeOK /\ RequestInv(r) /\ Pool!TypeOK'
  BY PoolTyped DEF HubInv
<1>1. CASE LogAccess(r)
  <2>1. TypeOK'
    BY <1>0, <1>1 DEF TypeOK, Positions, Pool!TypeOK, LogAccess
  <2>2. \A s \in Requests \ {r} : Untouched(s)
    BY <1>0, <1>1 DEF TypeOK, Pool!TypeOK, Untouched, LogAccess
  <2>3. RequestInv(r)'
    BY <1>0, <1>1 DEF TypeOK, Pool!TypeOK, Pool!Stages, LogAccess,
       RequestInv, BeforeCall, TeesFollowCall, GoneClient, EntryFollows, Calling
  <2> QED
    BY <2>1, <2>2, <2>3, OneRequestStep
<1>2. CASE LogTokens(r)
  <2>1. TypeOK'
    BY <1>0, <1>2 DEF TypeOK, Positions, Pool!TypeOK, LogTokens
  <2>2. \A s \in Requests \ {r} : Untouched(s)
    BY <1>0, <1>2 DEF TypeOK, Pool!TypeOK, Untouched, LogTokens
  <2>3. RequestInv(r)'
    BY <1>0, <1>2 DEF TypeOK, Pool!TypeOK, Pool!Stages, LogTokens,
       RequestInv, BeforeCall, TeesFollowCall, GoneClient, EntryFollows, Calling
  <2> QED
    BY <2>1, <2>2, <2>3, OneRequestStep
<1> QED
  BY <1>1, <1>2

-----------------------------------------------------------------------------
(* The invariant and what follows from it.                                 *)

(* The pipeline starts in the invariant. *)
LEMMA HubInvInit == Init /\ PoolProofs!PoolInv => HubInv
<1> SUFFICES ASSUME Init, PoolProofs!PoolInv PROVE HubInv
  OBVIOUS
<1>1. TypeOK
  BY PoolTyped DEF Init, TypeOK, Positions
<1>2. ASSUME NEW r \in Requests PROVE RequestInv(r)
  BY DEF Init, Pool!Init, RequestInv, BeforeCall, TeesFollowCall, GoneClient, EntryFollows,
         Calling
<1> QED
  BY <1>1, <1>2 DEF HubInv

(* Every step preserves it, in every state the pool can be in. *)
LEMMA HubInvNext ==
  HubInv /\ PoolProofs!PoolInv /\ PoolProofs!PoolInv' /\ [Next]_vars => HubInv'
<1> SUFFICES ASSUME HubInv, PoolProofs!PoolInv, PoolProofs!PoolInv', [Next]_vars
             PROVE  HubInv'
  OBVIOUS
<1>1. CASE UNCHANGED vars
  <2>1. TypeOK'
    BY <1>1, PoolTyped DEF HubInv, TypeOK, vars, poolVars, askVars, bodyVars, logVars
  <2>2. \A r \in Requests : Untouched(r)
    BY <1>1 DEF Untouched, vars, poolVars, askVars, bodyVars, logVars
  <2> QED
    BY <2>1, <2>2, UntouchedKeeps DEF HubInv
<1>2. ASSUME NEW r \in Requests,
             CheckBody(r) \/ Reject(r) \/ Admit(r) \/ UploadEnds(r) \/ BodyRead(r)
               \/ BodyRefused(r)
      PROVE  HubInv'
  BY <1>2, ReceivingPreserves
<1>3. ASSUME NEW r \in Requests, AskForKey(r) \/ GetKey(r) \/ ReleasePermit(r)
      PROVE  HubInv'
  BY <1>3, GettingKeyPreserves
<1>4. ASSUME NEW r \in Requests, SendOk(r) \/ SendFails(r) \/ AnswerFailure(r) \/ Answer(r)
      PROVE  HubInv'
  BY <1>4, AnsweringPreserves
<1>5. ASSUME NEW r \in Requests,
             UpstreamEnds(r) \/ UpstreamBreaks(r) \/ RelayError(r) \/ ErrorTaken(r)
               \/ TeeEnds(r)
      PROVE  HubInv'
  BY <1>5, StreamingPreserves
<1>6. ASSUME NEW r \in Requests, Cancel(r) \/ Leave(r)
      PROVE  HubInv'
  BY <1>6, LeavingPreserves
<1>7. ASSUME NEW r \in Requests, LogAccess(r) \/ LogTokens(r)
      PROVE  HubInv'
  BY <1>7, LoggingPreserves
<1> QED
  BY <1>1, <1>2, <1>3, <1>4, <1>5, <1>6, <1>7 DEF Next

(***************************************************************************)
(* Every reachable state of the pipeline satisfies its invariant, and the  *)
(* invariant of the pool inside it.                                        *)
(***************************************************************************)
THEOREM HubInvariant == Spec => [](HubInv /\ PoolProofs!PoolInv)
<1>1. Init /\ PoolProofs!PoolInv => HubInv
  BY HubInvInit
<1>2. HubInv /\ PoolProofs!PoolInv /\ PoolProofs!PoolInv' /\ [Next]_vars => HubInv'
  BY HubInvNext
<1> QED
  BY <1>1, <1>2, PoolInvariant, PTL DEF Spec

(* Every variable of the pipeline keeps its type. *)
THEOREM HubTypeCorrect == Spec => []TypeOK
<1>1. HubInv => TypeOK
  BY DEF HubInv
<1> QED
  BY <1>1, HubInvariant, PTL

(***************************************************************************)
(* The key a request holds is held from send() to the end of the response  *)
(* body, wherever the guard has been moved to, and no longer.              *)
(***************************************************************************)
THEOREM KeyHeldExactly == Spec => []KeyHeldWhileCalling
<1>1. HubInv => KeyHeldWhileCalling
  BY DEF HubInv, RequestInv, KeyHeldWhileCalling
<1> QED
  BY <1>1, HubInvariant, PTL

(* No two upstream calls use one API key at the same time. *)
THEOREM KeysNotShared == Spec => []OneCallPerKey
<1>1. HubInv /\ PoolProofs!PoolInv => OneCallPerKey
  <2> SUFFICES ASSUME HubInv, PoolProofs!PoolInv, NEW r \in Requests, NEW s \in Requests,
                      Calling(r), Calling(s), key[r] = key[s]
               PROVE  r = s
    BY DEF OneCallPerKey
  <2>1. stage[r] = "leased" /\ stage[s] = "leased"
    BY DEF HubInv, RequestInv
  <2> QED
    BY <2>1 DEF PoolProofs!PoolInv, PoolProofs!KeysConserved, PoolProofs!Guards
<1> QED
  BY <1>1, HubInvariant, PTL

(***************************************************************************)
(* While a request waits for a key, all keys are in use.  That somebody    *)
(* waits means that no permit is free, so all of them are held; and who    *)
(* holds one has an open call, or is getting its key or giving it back.    *)
(***************************************************************************)
THEOREM NoKeyIsIdle == Spec => []KeysInUseWhileWaiting
<1>1. HubInv /\ PoolProofs!PoolInv => KeysInUseWhileWaiting
  <2> SUFFICES ASSUME HubInv, PoolProofs!PoolInv, NEW r \in Requests, stage[r] = "waiting"
               PROVE  Cardinality({s \in Requests : InUse(s)}) = NumKeys
    BY DEF KeysInUseWhileWaiting
  <2>1. waiters # <<>>
    <3>1. r \in PoolProofs!ToSet(waiters)
      BY DEF PoolProofs!PoolInv, PoolProofs!QueueExact
    <3>2. PICK i \in DOMAIN waiters : waiters[i] = r
      BY <3>1 DEF PoolProofs!ToSet
    <3> QED
      BY <3>2
  <2>2. permits = 0
    BY <2>1 DEF PoolProofs!PoolInv, PoolProofs!NoIdlePermit
  <2>3. {s \in Requests : InUse(s)} = PoolProofs!Holders
    BY DEF HubInv, RequestInv, InUse, PoolProofs!Holders
  <2>4. PoolProofs!Cardinality(PoolProofs!Holders) = NumKeys
    <3>1. PoolProofs!Cardinality(PoolProofs!Holders) \in Nat
      <4>1. /\ NumKeys \in Nat /\ NoKey \notin PoolProofs!Keys
            /\ PoolProofs!IsFiniteSet(Requests)
        BY KeysAssumption, RequestsAssumption
           DEF PoolProofs!Keys, IsFiniteSet, PoolProofs!IsFiniteSet
      <4> QED
        BY <4>1, PoolProofs!HandlersFinite
    <3> QED
      BY <2>2, <3>1, KeysAssumption DEF PoolProofs!PoolInv, PoolProofs!PermitsConserved
  <2>5. Cardinality(PoolProofs!Holders) = PoolProofs!Cardinality(PoolProofs!Holders)
    BY DEF Cardinality, PoolProofs!Cardinality
  <2> QED
    BY <2>3, <2>4, <2>5
<1> QED
  BY <1>1, HubInvariant, PTL

(* A client that is gone leaves a call behind only for a recorder. *)
THEOREM CallsEndWithClient == Spec => []GoneClientEndsCall
<1>1. HubInv => GoneClientEndsCall
  BY DEF HubInv, RequestInv, GoneClient, GoneClientEndsCall
<1> QED
  BY <1>1, HubInvariant, PTL

(* An access entry is written only after both bodies it may hold ended. *)
THEOREM WrittenIsComplete == Spec => []EntriesComplete
<1>1. HubInv => EntriesComplete
  BY DEF HubInv, RequestInv, EntryFollows, EntriesComplete, Calling
<1> QED
  BY <1>1, HubInvariant, PTL

=============================================================================
