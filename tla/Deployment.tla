----------------------------- MODULE Deployment -----------------------------
(***************************************************************************)
(* openai-hub in use: the operator's files (Startup) are read by the       *)
(* server, when it starts, and by the token generator, when it is called;  *)
(* clients present the tokens (JwtAuth) as time goes by.  A client may     *)
(* also have a token from another program that knows a secret.             *)
(***************************************************************************)
EXTENDS Startup, JwtAuth, FiniteSets

CONSTANTS
  Periods,        \* the values of -e: sets of at most one <<length, unit>>
  Subjects,       \* the values of -s: sets of at most one subject
  ForeignTokens,  \* tokens of other programs
  Claims,         \* what clients put into X-AUTHED-SUB themselves
  LastDay,        \* bound of the clock
  MaxTokens       \* bound: how many tokens are generated

ASSUME BoundsAssumption == LastDay \in Nat /\ MaxTokens \in Nat
ASSUME PeriodsAssumption ==
  \A period \in Periods :
    period \subseteq Nat \X Units /\ \A p, q \in period : p = q
ASSUME SubjectsAssumption == \A sub \in Subjects : \A s, t \in sub : s = t
ASSUME ForeignAssumption ==
  \A t \in ForeignTokens :
    /\ t.key \in Secrets
    /\ t.nbf \subseteq Nat /\ t.exp \subseteq Nat
    /\ \A a, b \in t.exp : a = b
    /\ \A s, u \in t.sub : s = u

VARIABLES
  now,      \* the clock, in days
  wallet,   \* the tokens, with what was asked for when they were made
  request,  \* the request that is under way
  answer    \* what became of it

vars == <<startVars, now, wallet, request, answer>>

NoRequest == [cred |-> {}]
Pending == [verdict |-> "pending"]

Foreign(token) == [token |-> token, by |-> "other"]

Init ==
  /\ StartInit
  /\ now = 0
  /\ wallet = {Foreign(token) : token \in ForeignTokens}
  /\ request = NoRequest
  /\ answer = [verdict |-> "none"]

-----------------------------------------------------------------------------
(* openai-hub-jwt-token-gen.  There is no token, but an error or a panic,  *)
(* without a secret, of a bad config.toml, and if chrono cannot represent  *)
(* the end.                                                                *)
Generate ==
  /\ files.config = "good"
  /\ Cardinality({c \in wallet : c.by = "generator"}) < MaxTokens
  /\ \E key \in files.secret, sub \in Subjects, period \in Periods :
       /\ \A p \in period : Expiry(now, p[1], p[2]) <= LastDate
       /\ wallet' = wallet \cup
            {[token |-> Tokens(key, sub, {}, {Expiry(now, p[1], p[2]) : p \in period}),
              by |-> "generator", born |-> now, period |-> period]}
  /\ UNCHANGED <<startVars, now, request, answer>>

Tick ==
  /\ now < LastDay
  /\ now' = now + 1
  /\ UNCHANGED <<startVars, wallet, request, answer>>

-----------------------------------------------------------------------------
(* A client connects as soon as the port is bound, with a token or none,   *)
(* and is served once the backend is open.                                 *)
Send ==
  /\ stage \in {"listening", "serving"}
  /\ answer.verdict # "pending"
  /\ \E cred \in {{}} \cup {{c} : c \in wallet}, claimed \in Claims, listed \in BOOLEAN :
       request' = [cred |-> cred, claimed |-> claimed, listed |-> listed]
  /\ answer' = Pending
  /\ UNCHANGED <<startVars, now, wallet>>

Cred == {c.token : c \in request.cred}
User == AuthedSub(server.secret, Cred, request.claimed)

Awaited == stage = "serving" /\ answer = Pending
Respond(verdict) ==
  /\ answer' = verdict
  /\ request' = NoRequest
  /\ UNCHANGED <<startVars, now, wallet>>

Authenticated ==
  \A key \in server.secret : \E token \in Cred : Authenticates(token, key, now)

(* jwt_auth_layer: 403. *)
Forbid == Awaited /\ ~ Authenticated /\ Respond([verdict |-> "forbidden"])

(* global_acl_layer, if there is an ACL. *)
Admitted == Authenticated /\ (server.acl = "missing" \/ request.listed)
Refuse == /\ Awaited /\ Authenticated /\ ~ Admitted
          /\ Respond([verdict |-> "refused"])

(* The layers of the audit unwrap to_str() of X-AUTHED-SUB. *)
Logs == server.backend # "none"
Panic == /\ Awaited /\ Admitted /\ Logs
         /\ \E user \in User : ~ Plain(user)
         /\ Respond([verdict |-> "panicked"])

Serve ==
  /\ Awaited /\ Admitted /\ (Logs => \A user \in User : Plain(user))
  /\ Respond([verdict |-> "served",
              entry |-> IF Logs THEN {[user |-> User, sink |-> Sink(server)]} ELSE {}])

-----------------------------------------------------------------------------
(* When the server goes down, connections are reset. *)
Connections ==
  /\ IF stage' = "down" /\ answer = Pending
     THEN answer' = [verdict |-> "reset"] /\ request' = NoRequest
     ELSE UNCHANGED <<answer, request>>
  /\ UNCHANGED <<now, wallet>>

Next ==
  \/ Generate \/ Tick
  \/ Send \/ Forbid \/ Refuse \/ Panic \/ Serve
  \/ /\ \/ ReadConfig \/ ReadAcl \/ Bind
        \/ BindFails \/ OpenBackend \/ OpenBackendFails \/ InitFails \/ Stop
        \/ Edit
     /\ Connections

Spec == Init /\ [][Next]_vars

-----------------------------------------------------------------------------
(* Every variable has the type of what it stands for; a server that got as *)
(* far as its port has read files without a fault.                         *)
TypeOK ==
  /\ files \in Files /\ edits \in 0 .. MaxEdits /\ starts \in 0 .. MaxStarts
  /\ fresh \in BOOLEAN
  /\ stage \in {"down", "configured", "built", "listening", "serving"}
  /\ server \in Files
  /\ failure \in {"none", "config", "acl", "address", "store", "statement"}
  /\ stage # "down" => failure = "none"
  /\ stage \in {"built", "listening", "serving"} =>
       server.config = "good" /\ server.acl # "bad"
  /\ now \in 0 .. LastDay
  /\ \A c \in wallet : c.token.key \in Secrets /\ Cardinality(c.token.exp) <= 1
  /\ request.cred \subseteq wallet /\ request = NoRequest <=> answer # Pending
  /\ answer.verdict \in {"none", "pending", "reset", "forbidden", "refused",
                         "panicked", "served"}

Answered == answer = Pending /\ answer' # Pending /\ answer'.verdict # "reset"
LetIn == answer'.verdict # "forbidden"

(***************************************************************************)
(* From the generator's command line to the server's check: with [jwt-auth]*)
(* on, a token that was asked for a period is let in during that period,   *)
(* its last second included, by a server whose secret is that of the file  *)
(* it was made from, and at no other time and by no other server, however  *)
(* often the files are edited and the server is started in between.  There *)
(* are two exceptions: a number of years whose months are no u32 gives a   *)
(* shorter period, and a subject that no header can have is never let in.  *)
(***************************************************************************)
LivesAsRequested ==
  [][Answered /\ server.secret # {} =>
       /\ LetIn => request.cred # {}
       /\ \A c \in request.cred : c.by = "generator" =>
            LET meant == /\ c.token.key \in server.secret
                         /\ \A p \in c.period : now <= Asked(c.born, p[1], p[2])
                excepted == \/ \E p \in c.period : p[2] = "y" /\ p[1] * 12 >= U32
                            \/ \E sub \in c.token.sub : ~ InHeader(sub)
            IN  (LetIn => meant) /\ (meant => LetIn \/ excepted)]_vars

(***************************************************************************)
(* Who an entry is about: with [jwt-auth] on, the subject of the token, or *)
(* "anonymous" if it has none, whatever the client puts into X-AUTHED-SUB  *)
(* itself, and a request without a good token is never served.  The price  *)
(* is a panic, with the connection, for subjects outside ASCII.            *)
(***************************************************************************)
UserIsSubject ==
  [][Answered /\ LetIn /\ server.secret # {} =>
       \E c \in request.cred :
         LET subject == IF c.token.sub = {} THEN {"anonymous"} ELSE c.token.sub
         IN  /\ \A nbf \in c.token.nbf : nbf <= now
             /\ answer'.verdict = "served" => \A e \in answer'.entry : e.user = subject
             /\ answer'.verdict = "panicked" => subject = {"m"}]_vars

(***************************************************************************)
(* What the operator gets.  As long as the files are those the server was  *)
(* started with, a request is served only if the files are sound, the ACL  *)
(* admits it (or acl.toml could not be read), its token is signed with the *)
(* secret (or there is none), and its entry, if the audit is on, goes to   *)
(* the backend of the files: to the log that the section the code reads    *)
(* names, or to the default one if there is no section.  A failure at      *)
(* start never turns a layer off.                                          *)
(***************************************************************************)
ServesAsConfigured ==
  [][Answered /\ answer'.verdict = "served" /\ fresh =>
       /\ files.config = "good" /\ files.acl # "bad"
       /\ files.acl = "good" => request.listed
       /\ files.secret # {} => \E c \in request.cred : c.token.key \in files.secret
       /\ answer'.entry = {} <=> files.backend = "none"
       /\ \A e \in answer'.entry :
            /\ e.sink.backend = files.backend
            /\ files.section = "read" => e.sink.name = "named"
            /\ files.section = "none" => e.sink.name = "default"]_vars

-----------------------------------------------------------------------------
(* What config.toml says, and the code does not do. *)

(***************************************************************************)
(* config.toml:32, "possible backends: file, sqlite, mysql, postgres": a   *)
(* server whose files are sound, whose address is free and whose store     *)
(* answers can be started with any of them.                                *)
(***************************************************************************)
OfferedBackendsOpen == failure # "statement"

(***************************************************************************)
(* config.toml:54-56 and the comments that follow: the log is the one that *)
(* is named in [audit.backends.file], [audit.backends.sqlite] and so on.   *)
(***************************************************************************)
DocumentedSectionNamesLog ==
  [][Answered /\ answer'.verdict = "served" /\ fresh /\ files.section = "documented" =>
       \A e \in answer'.entry : e.sink.name = "named"]_vars

=============================================================================
