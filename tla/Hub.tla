-------------------------------- MODULE Hub ---------------------------------
(***************************************************************************)
(* The request pipeline of openai-hub: jwt_auth_layer, global_acl_layer,   *)
(* audit_access_layer, audit_tokens_layer and RequestHandler (lib.rs,      *)
(* handler/), composed with the key pool (module KeyPool) and with the     *)
(* tasks the audit layers leave behind (tee tasks, module Tee, and tasks   *)
(* that write a log entry).                                                *)
(*                                                                         *)
(* A request is one future, polled by hyper.  When its client goes away    *)
(* the future is dropped at the await it stands at, with all it owns; the  *)
(* tasks it has spawned go on.  Whether jwt and acl let the request pass,  *)
(* what upstream answers and what the client does is up to the environment.*)
(* A response body is open until upstream ends or breaks it; its chunks    *)
(* are the business of module Tee.                                         *)
(***************************************************************************)
EXTENDS Naturals, FiniteSets

CONSTANTS
  Requests,  \* the requests; each is made once
  NumKeys,   \* how many keys api_keys lists
  NoKey,     \* the key of a request that has none
  Filters    \* the audit configurations to consider

\* audit.filters: access.enable, access.body, access.response, tokens.enable.
ASSUME KeysAssumption == NumKeys \in Nat /\ NoKey \notin 1 .. NumKeys
ASSUME RequestsAssumption == IsFiniteSet(Requests)
ASSUME FiltersAssumption ==
  Filters \subseteq [access : BOOLEAN, body : BOOLEAN, response : BOOLEAN, tokens : BOOLEAN]

VARIABLES
  keys, permits, waiters, stage, key,  \* the key pool
  filters,   \* the audit configuration of this server
  pc,        \* where each request's future stands
  upload,    \* each request's body: "open", "complete" or "broken"
  client,    \* "there" or "gone"
  counted,   \* the tokens layer takes part in this request
  call,      \* the upstream call of each request
  tees,      \* how many tees the response body goes through
  tail,      \* the task of the outermost tee
  access,    \* the access log entry of each request
  tokens     \* the token usage log entry of each request

poolVars == <<keys, permits, waiters, stage, key>>
askVars  == <<filters, upload, client, counted>>
bodyVars == <<call, tees, tail>>
logVars  == <<access, tokens>>
vars == <<poolVars, askVars, pc, bodyVars, logVars>>

Pool == INSTANCE KeyPool
Keys == Pool!Keys

Positions == {"idle",      \* not received yet
              "checking",  \* acl layer: reading the request body
              "reading",   \* tokens layer: reading the request body
              "keying",    \* handler: in key_pool.get()
              "sending",   \* handler: in request.send()
              "failing",   \* handler: send() failed, the key is being dropped
              "returning", \* response on its way back, access layer next
              "answered",  \* response head with the client
              "rejected",  \* answered by jwt or acl
              "dropped",   \* dropped at an await, the client being gone
              "panicked"}

Init ==
  /\ Pool!Init
  /\ filters \in Filters
  /\ pc = [r \in Requests |-> "idle"]
  /\ upload = [r \in Requests |-> "open"]
  /\ client = [r \in Requests |-> "there"]
  /\ counted = [r \in Requests |-> FALSE]
  /\ call = [r \in Requests |-> "none"]
  /\ tees = [r \in Requests |-> 0]
  /\ tail = [r \in Requests |-> "none"]
  /\ access = [r \in Requests |-> "none"]
  /\ tokens = [r \in Requests |-> "none"]

Goto(r, where) == pc' = [pc EXCEPT ![r] = where]

-----------------------------------------------------------------------------
(* Receiving a request.                                                    *)

(* jwt_auth_layer lets it pass, and global_acl_layer has a model rule for   *)
(* it, which makes it read a JSON body before anything else.               *)
CheckBody(r) ==
  /\ pc[r] = "idle"
  /\ Goto(r, "checking")
  /\ UNCHANGED <<poolVars, askVars, bodyVars, logVars>>

(* jwt_auth_layer or global_acl_layer answers with an error: at once, or   *)
(* when the body that the acl layer reads has ended or broken off.         *)
Reject(r) ==
  /\ pc[r] = "idle" \/ (pc[r] = "checking" /\ upload[r] # "open")
  /\ Goto(r, "rejected")
  /\ UNCHANGED <<poolVars, askVars, bodyVars, logVars>>

(***************************************************************************)
(* Both let it pass.  The access layer, if enabled, sets X-Ray-Id to an id *)
(* of its own and holds the entry it will log.  The tokens layer takes     *)
(* part if it is enabled and the endpoint is one it counts; then it        *)
(* unwraps X-Ray-Id, which is there if the access layer or the client      *)
(* (sent) put it there, and reads the body.                                *)
(***************************************************************************)
Admit(r) ==
  /\ pc[r] = "idle" \/ (pc[r] = "checking" /\ upload[r] = "complete")
  /\ \E c \in (IF filters.tokens THEN BOOLEAN ELSE {FALSE}), sent \in BOOLEAN :
       /\ counted' = [counted EXCEPT ![r] = c]
       /\ Goto(r, IF ~ c THEN "keying"
                  ELSE IF filters.access \/ sent THEN "reading" ELSE "panicked")
  /\ access' = [access EXCEPT ![r] = IF filters.access THEN "held" ELSE "none"]
  /\ UNCHANGED <<poolVars, filters, upload, client, bodyVars, tokens>>

(* The client sends the rest of the request body, or the body breaks off. *)
UploadEnds(r) ==
  /\ pc[r] \notin {"idle", "rejected", "dropped", "panicked"}
  /\ upload[r] = "open" /\ client[r] = "there"
  /\ \E u \in {"complete", "broken"} : upload' = [upload EXCEPT ![r] = u]
  /\ UNCHANGED <<poolVars, filters, client, counted, pc, bodyVars, logVars>>

(* The tokens layer has the whole body, and it is JSON with a model. *)
BodyRead(r) ==
  /\ pc[r] = "reading"
  /\ upload[r] = "complete"
  /\ Goto(r, "keying")
  /\ UNCHANGED <<poolVars, askVars, bodyVars, logVars>>

(* The tokens layer answers 400 itself: the body broke off, is not JSON,   *)
(* has no model, or asks for a stream and the policy is to reject.         *)
BodyRefused(r) ==
  /\ pc[r] = "reading"
  /\ upload[r] # "open"
  /\ Goto(r, "returning")
  /\ UNCHANGED <<poolVars, askVars, bodyVars, logVars>>

-----------------------------------------------------------------------------
(* The handler: a key, then the upstream call.                             *)

AskForKey(r) ==
  /\ pc[r] = "keying"
  /\ Pool!AcquireNow(r) \/ Pool!Enqueue(r)
  /\ UNCHANGED <<askVars, pc, bodyVars, logVars>>

GetKey(r) ==
  /\ pc[r] = "keying"
  /\ Pool!PopKey(r)
  /\ IF stage'[r] = "leased"
     THEN Goto(r, "sending") /\ call' = [call EXCEPT ![r] = "sending"]
     ELSE Goto(r, "panicked") /\ UNCHANGED call
  /\ UNCHANGED <<askVars, tees, tail, logVars>>

(* The last step of dropping a KeyGuard, on whatever task it is dropped. *)
ReleasePermit(r) ==
  /\ Pool!ReleasePermit(r)
  /\ UNCHANGED <<askVars, pc, bodyVars, logVars>>

(***************************************************************************)
(* The response passes the tokens layer, which duplicates its body and     *)
(* spawns the task that will count.  There is no await before the access   *)
(* layer.                                                                  *)
(***************************************************************************)
PassTokensLayer(r) ==
  /\ Goto(r, "returning")
  /\ IF counted[r]
     THEN /\ tees' = [tees EXCEPT ![r] = 1]
          /\ tail' = [tail EXCEPT ![r] = "open"]
          /\ tokens' = [tokens EXCEPT ![r] = "recording"]
     ELSE UNCHANGED <<tees, tail, tokens>>

(* Wrong on purpose: the key is dropped when the head of the answer is     *)
(* there, as it would be at the end of proxy_request.                      *)
SendOkDropsKey(r) ==
  /\ pc[r] = "sending"
  /\ call' = [call EXCEPT ![r] = "streaming"]
  /\ Pool!ReturnKey(r)
  /\ PassTokensLayer(r)
  /\ UNCHANGED <<askVars, access>>

(* Upstream answers: the key moves into the response body. *)
SendOk(r) ==
  /\ pc[r] = "sending"
  /\ call' = [call EXCEPT ![r] = "streaming"]
  /\ PassTokensLayer(r)
  /\ UNCHANGED <<poolVars, askVars, access>>

(* The call fails, and proxy_request begins to drop the key.               *)
SendFails(r) ==
  /\ pc[r] = "sending"
  /\ call' = [call EXCEPT ![r] = "over"]
  /\ Pool!ReturnKey(r)
  /\ Goto(r, "failing")
  /\ UNCHANGED <<askVars, tees, tail, logVars>>

(* When it is dropped, permit and all, an error is the response.           *)
AnswerFailure(r) ==
  /\ pc[r] = "failing"
  /\ stage[r] # "unwinding"
  /\ PassTokensLayer(r)
  /\ UNCHANGED <<poolVars, askVars, call, access>>

(***************************************************************************)
(* The response passes the access layer.  If request bodies are logged it  *)
(* first waits until this one is recorded to its end.  Then a task will    *)
(* write the entry, at once or when the response is recorded too.  The     *)
(* outer tee may find an error that the inner one has left in its channel. *)
(***************************************************************************)
AwaitsUpload(r) == filters.access /\ filters.body /\ upload[r] = "open"

Answer(r) ==
  /\ pc[r] = "returning"
  /\ ~ AwaitsUpload(r)
  /\ Goto(r, "answered")
  /\ IF filters.access
     THEN access' = [access EXCEPT ![r] = "recording"]
     ELSE UNCHANGED access
  /\ IF filters.access /\ filters.response
     THEN /\ tees' = [tees EXCEPT ![r] = @ + 1]
          /\ \E how \in (IF tees[r] = 1 /\ call[r] = "over" THEN {"open", "erring"} ELSE {"open"}) :
               tail' = [tail EXCEPT ![r] = how]
     ELSE UNCHANGED <<tees, tail>>
  /\ UNCHANGED <<poolVars, askVars, call, tokens>>

-----------------------------------------------------------------------------
(* The response body.                                                      *)

(* Wrong on purpose: the stream is over, but the body keeps its key. *)
CloseCallKeepingKey(r) ==
  /\ call' = [call EXCEPT ![r] = "over"]
  /\ UNCHANGED poolVars

(* The call is over, and the stream it came from is dropped with its key. *)
CloseCall(r) ==
  /\ call' = [call EXCEPT ![r] = "over"]
  /\ Pool!ReturnKey(r)

(* Upstream ends the body.  A tee task notices by itself; without one it   *)
(* is the client who reads the body to its end.                            *)
UpstreamEnds(r) ==
  /\ call[r] = "streaming"
  /\ tees[r] > 0 \/ pc[r] = "answered"
  /\ CloseCall(r)
  /\ UNCHANGED <<askVars, pc, tees, tail, logVars>>

(***************************************************************************)
(* Upstream breaks the body off.  Without a tee the client gets the error  *)
(* and its body, the stream, is dropped.  A tee reading the stream holds   *)
(* on to it until the next reader has taken the error.                     *)
(***************************************************************************)
UpstreamBreaks(r) ==
  /\ call[r] = "streaming"
  /\ tees[r] > 0 \/ pc[r] = "answered"
  /\ IF tees[r] = 0
     THEN CloseCall(r)
     ELSE call' = [call EXCEPT ![r] = "broken"] /\ UNCHANGED poolVars
  /\ IF tees[r] = 1
     THEN tail' = [tail EXCEPT ![r] = "erring"]
     ELSE UNCHANGED tail
  /\ UNCHANGED <<askVars, pc, tees, logVars>>

(* The outer tee, which always reads, takes the error from the inner one. *)
RelayError(r) ==
  /\ tees[r] = 2 /\ call[r] = "broken"
  /\ CloseCall(r)
  /\ tail' = [tail EXCEPT ![r] = "erring"]
  /\ UNCHANGED <<askVars, pc, tees, logVars>>

(* Wrong on purpose: a client that is gone keeps the send waiting. *)
ErrorTakenByClient(r) ==
  /\ tail[r] = "erring"
  /\ pc[r] = "answered" /\ client[r] = "there"
  /\ tail' = [tail EXCEPT ![r] = "ended"]
  /\ IF call[r] = "broken" THEN CloseCall(r) ELSE UNCHANGED <<call, poolVars>>
  /\ UNCHANGED <<askVars, pc, tees, logVars>>

(* The outermost tee is rid of the error: there is room for it in the      *)
(* channel, at once or when the client has read on, or the client is gone  *)
(* and the send fails.                                                     *)
ErrorTaken(r) ==
  /\ tail[r] = "erring"
  /\ tail' = [tail EXCEPT ![r] = "ended"]
  /\ IF call[r] = "broken" THEN CloseCall(r) ELSE UNCHANGED <<call, poolVars>>
  /\ UNCHANGED <<askVars, pc, tees, logVars>>

(* The outermost tee has relayed everything, and its recorder is done. *)
TeeEnds(r) ==
  /\ tail[r] = "open"
  /\ call[r] \in {"none", "over"}
  /\ tail' = [tail EXCEPT ![r] = "ended"]
  /\ UNCHANGED <<poolVars, askVars, pc, call, tees, logVars>>

-----------------------------------------------------------------------------
(* The client goes away.                                                   *)

(* What the dropped future owns of the pool and of the call. *)
DropHandler(r) ==
  \/ /\ pc[r] = "keying" /\ stage[r] = "waiting"
     /\ Pool!CancelWaiting(r)
     /\ UNCHANGED call
  \/ /\ pc[r] = "keying" /\ stage[r] = "granted"
     /\ Pool!CancelGranted(r)
     /\ UNCHANGED call
  \/ /\ pc[r] = "sending" \/ (pc[r] = "returning" /\ call[r] = "streaming" /\ tees[r] = 0)
     /\ CloseCall(r)
  \/ /\ \/ pc[r] \in {"checking", "reading"}
        \/ pc[r] = "returning" /\ ~ (call[r] = "streaming" /\ tees[r] = 0)
     /\ UNCHANGED <<poolVars, call>>

(* Before the answer: the future is dropped at an await, and with it the   *)
(* access log entry it holds.  A tee task it has spawned keeps its stream. *)
Cancel(r) ==
  /\ DropHandler(r)
  /\ pc[r] = "returning" => AwaitsUpload(r)
  /\ client' = [client EXCEPT ![r] = "gone"]
  /\ Goto(r, "dropped")
  /\ access' = [access EXCEPT ![r] = IF @ = "held" THEN "lost" ELSE @]
  /\ UNCHANGED <<filters, upload, counted, tees, tail, tokens>>

(* Wrong on purpose: the call goes on without its client. *)
LeaveCalling(r) ==
  /\ pc[r] = "answered" /\ client[r] = "there"
  /\ client' = [client EXCEPT ![r] = "gone"]
  /\ UNCHANGED <<filters, upload, counted, pc, tees, tail, call, poolVars, logVars>>

(* Wrong on purpose: the entry is lost with the response body. *)
LeaveUnlogged(r) ==
  /\ pc[r] = "answered" /\ client[r] = "there"
  /\ client' = [client EXCEPT ![r] = "gone"]
  /\ access' = [access EXCEPT ![r] = IF @ = "recording" THEN "lost" ELSE @]
  /\ IF call[r] = "streaming" /\ tees[r] = 0
     THEN CloseCall(r) ELSE UNCHANGED <<call, poolVars>>
  /\ UNCHANGED <<filters, upload, counted, pc, tees, tail, tokens>>

(* After the answer: the response body is dropped.  Without a tee that is  *)
(* the stream itself; with one, the tee task reads on.                     *)
Leave(r) ==
  /\ pc[r] = "answered" /\ client[r] = "there"
  /\ client' = [client EXCEPT ![r] = "gone"]
  /\ IF call[r] = "streaming" /\ tees[r] = 0
     THEN CloseCall(r) ELSE UNCHANGED <<call, poolVars>>
  /\ UNCHANGED <<filters, upload, counted, pc, tees, tail, logVars>>

-----------------------------------------------------------------------------
(* The tasks that write the logs.  An error of the backend is an event in  *)
(* the server's own log and nothing else.  "written" is what the task can  *)
(* know: the backend took the entry without an error.  What becomes of it  *)
(* in a file, whose errors come late or never, is in module AuditBackend.  *)

(* Wrong on purpose: the entry is written before the response is recorded. *)
LogAccessEarly(r) ==
  /\ access[r] = "recording"
  /\ \E how \in {"written", "failed"} : access' = [access EXCEPT ![r] = how]
  /\ UNCHANGED <<poolVars, askVars, pc, bodyVars, tokens>>

LogAccess(r) ==
  /\ access[r] = "recording"
  /\ filters.response => tail[r] = "ended"
  /\ \E how \in {"written", "failed"} : access' = [access EXCEPT ![r] = how]
  /\ UNCHANGED <<poolVars, askVars, pc, bodyVars, tokens>>

(* The inner recorder is done when the call is over.  The usage may be     *)
(* unknown, or not asked for (stream_tokens = "skip").                     *)
LogTokens(r) ==
  /\ tokens[r] = "recording"
  /\ call[r] = "over"
  /\ \E how \in {"written", "failed", "skipped"} : tokens' = [tokens EXCEPT ![r] = how]
  /\ UNCHANGED <<poolVars, askVars, pc, bodyVars, access>>

-----------------------------------------------------------------------------
Next ==
  \E r \in Requests :
    \/ CheckBody(r) \/ Reject(r) \/ Admit(r)
    \/ UploadEnds(r) \/ BodyRead(r) \/ BodyRefused(r)
    \/ AskForKey(r) \/ GetKey(r) \/ ReleasePermit(r)
    \/ SendOk(r) \/ SendFails(r) \/ AnswerFailure(r) \/ Answer(r)
    \/ UpstreamEnds(r) \/ UpstreamBreaks(r)
    \/ RelayError(r) \/ ErrorTaken(r) \/ TeeEnds(r)
    \/ Cancel(r) \/ Leave(r)
    \/ LogAccess(r) \/ LogTokens(r)

Spec == Init /\ [][Next]_vars

(***************************************************************************)
(* Fairness.  The runtime polls what can go on.  The environment is        *)
(* assumed to get on too, because no code makes it: reqwest's client has   *)
(* no timeout, so that an upstream that hangs, a client that neither sends *)
(* its body nor goes away, or one that does not read, hangs its request.   *)
(* No request has to arrive and no client has to leave.                    *)
(***************************************************************************)
RuntimeFairness ==
  \A r \in Requests :
    /\ WF_vars(pc[r] = "checking" /\ (Admit(r) \/ Reject(r)))
    /\ WF_vars(BodyRead(r) \/ BodyRefused(r))
    /\ WF_vars(AskForKey(r)) /\ WF_vars(GetKey(r)) /\ WF_vars(ReleasePermit(r))
    /\ WF_vars(AnswerFailure(r)) /\ WF_vars(Answer(r))
    /\ WF_vars(RelayError(r)) /\ WF_vars(TeeEnds(r))
    /\ WF_vars(LogAccess(r)) /\ WF_vars(LogTokens(r))

EnvironmentFairness ==
  \A r \in Requests :
    /\ WF_vars(UploadEnds(r))
    /\ WF_vars(SendOk(r) \/ SendFails(r))
    /\ WF_vars(UpstreamEnds(r) \/ UpstreamBreaks(r))
    /\ WF_vars(pc[r] \in {"answered", "dropped"} /\ ErrorTaken(r))

FairSpec == Spec /\ RuntimeFairness /\ EnvironmentFairness

-----------------------------------------------------------------------------
\* The upstream call of r is open: it uses an API key.
Calling(r) == call[r] \in {"sending", "streaming", "broken"}

(* Every variable has the type of what it stands for. *)
TypeOK ==
  /\ Pool!TypeOK
  /\ filters \in Filters
  /\ pc \in [Requests -> Positions]
  /\ upload \in [Requests -> {"open", "complete", "broken"}]
  /\ client \in [Requests -> {"there", "gone"}]
  /\ counted \in [Requests -> BOOLEAN]
  /\ call \in [Requests -> {"none", "sending", "streaming", "broken", "over"}]
  /\ tees \in [Requests -> 0 .. 2]
  /\ tail \in [Requests -> {"none", "open", "erring", "ended"}]
  /\ access \in [Requests -> {"none", "held", "lost", "recording", "written", "failed"}]
  /\ tokens \in [Requests -> {"none", "recording", "written", "failed", "skipped"}]

(***************************************************************************)
(* A request holds a key exactly as long as its upstream call is open:     *)
(* the key travels from proxy_request into the response body and from      *)
(* there into a tee task, and is given back neither while upstream may     *)
(* still be answering under it nor later than the call is over, whichever  *)
(* of answer, error, broken stream and vanished client ends the call.  (A  *)
(* response that broke is part of the call until the tee task lets go of   *)
(* it, which a stalled client can put off.)                                *)
(***************************************************************************)
KeyHeldWhileCalling == \A r \in Requests : stage[r] = "leased" <=> Calling(r)

(* No two upstream calls are open under the same API key at the same time. *)
OneCallPerKey ==
  \A r, s \in Requests : Calling(r) /\ Calling(s) /\ key[r] = key[s] => r = s

(***************************************************************************)
(* A client that is gone leaves no upstream call behind, unless an audit   *)
(* layer records the response: then a tee task finishes the call.          *)
(***************************************************************************)
GoneClientEndsCall ==
  \A r \in Requests : client[r] = "gone" /\ tees[r] = 0 => ~ Calling(r)

(***************************************************************************)
(* An entry the backend took is a finished one: the request body in it was *)
(* received to its end and the response body was recorded to its end,      *)
(* though the entry is written by a task that outlives the request.        *)
(***************************************************************************)
EntriesComplete ==
  \A r \in Requests : access[r] = "written" =>
    /\ filters.body => upload[r] # "open"
    /\ filters.response => ~ Calling(r)

(***************************************************************************)
(* config.toml:44 says of the tokens filter "enable = true # enable this   *)
(* filter", and of no other filter that it needs: no request panics, at    *)
(* pop_front (key.rs:34) or at the ray id (tokens.rs:54).                  *)
(***************************************************************************)
NoPanic == \A r \in Requests : pc[r] # "panicked"

(***************************************************************************)
(* README.md:8, "Utilize multiple API keys efficiently": a request waits   *)
(* for a key only while every key is of use to another one, whose call is  *)
(* open or which is just getting its key or giving it back.  No answer,    *)
(* error, broken stream or vanished client takes a key out of circulation. *)
(***************************************************************************)
InUse(r) == Calling(r) \/ stage[r] \in {"granted", "permitted", "unwinding"}
KeysInUseWhileWaiting ==
  (\E r \in Requests : stage[r] = "waiting") =>
    Cardinality({r \in Requests : InUse(r)}) = NumKeys

(***************************************************************************)
(* Every key handed out comes back, whatever ends the request, so that the *)
(* requests that wait for one get on.                                      *)
(***************************************************************************)
KeysComeBack == \A r \in Requests : stage[r] = "leased" ~> stage[r] = "idle"

(* Every request that a layer works on is answered or dropped, though it   *)
(* may have to wait for a key and for its own body to be read or recorded. *)
RequestsConcluded ==
  \A r \in Requests :
    pc[r] \in {"checking", "reading", "keying", "sending", "failing", "returning"}
      ~> pc[r] \in {"answered", "rejected", "dropped"}

(* Every answered request's entry is given to the backend, which takes it  *)
(* or reports an error, also when the client goes away in mid-answer.      *)
AnsweredIsLogged ==
  \A r \in Requests :
    pc[r] = "answered" /\ filters.access ~> access[r] \in {"written", "failed"}

(***************************************************************************)
(* README.md:12, "Keep track of API usage": a request that was sent to     *)
(* upstream is in the access log, or a task is about to write it, when its *)
(* future is gone.  A client that leaves before the answer takes the entry *)
(* with it.                                                                *)
(***************************************************************************)
EveryCallLogged ==
  \A r \in Requests :
    filters.access /\ pc[r] = "dropped" /\ call[r] # "none" => access[r] # "lost"

=============================================================================
