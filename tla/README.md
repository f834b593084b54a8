# openai-hub in TLA+

TLA+ modules of [openai-hub](../src/README.md), a reverse proxy that shares a
set of OpenAI API keys among its clients, with TLC configurations that check
them on small instances and TLAPS proofs for every instance. Paths such as
`key.rs:34` are under `src/openai-hub-core/src/` unless they say otherwise.
`PROJECT.json` maps every definition to the lines it models.

To check: `tlc -config MCHub.cfg MCHub` for each `MC*.cfg`, and
`tlapm` for `QueueLemmas`, `KeyPoolProofs`, `HubProofs`, `TeeProofs`,
`AclProofs`, `PatternsProofs`, `AuditLogProofs` and `DeploymentProofs`.

## 1. The system

    client -> jwt_auth_layer -> global_acl_layer -> audit_access_layer
           -> audit_tokens_layer -> RequestHandler -> (KeyPool) -> OpenAI

A request is one future that hyper polls; the layers are nested calls of
`next.run(req).await`. The future is dropped, at the await it stands at, when
the client's connection closes. The audit layers spawn tasks that outlive it.

| part | state | operations | hard behaviour | correct when |
|---|---|---|---|---|
| `KeyPool`, `KeyGuard` (key.rs) | deque of keys under a mutex, semaphore | `get`, drop of a guard | two structures changed in separate steps; cancellation in the queue or between grant and poll; fairness | pop never fails; keys and permits are conserved; waiters are served; keys are used in turn |
| `tee` and recorder (helpers.rs, handler/helpers.rs) | two channels of capacity 1, a task per chunk and channel | next chunk, error, end; send; read | tasks run in any order; one reader stalls or leaves; errors | each reader gets everything once; no truncated body ends cleanly; the record does not depend on the client |
| `RequestHandler`, `proxy_request` (handler/mod.rs, helpers.rs) | the guard, moved into the response body | get a key, send, answer, stream | errors and cancellation at every await; the key travels with the body | a key is held exactly while its call is open |
| `audit_access_layer` (handler/audit/access.rs) | an entry in the request's future, then in a task | hold, record bodies, write | waits for the request body; the entry dies with the future | entries written are complete; no answered request is missing |
| `audit_tokens_layer` (handler/audit/tokens.rs) | parsed body, ray id, in its task the record | read the body, refuse, count | `unwrap` of a header another layer sets; counts what the tee recorded, swapped or broken off | no panic; every text is counted once, for its choice |
| `ApiAcl`, `global_acl_layer` (acl.rs, handler/acl.rs) | regexes and model rules made from acl.toml | `load`, `validate`, `validate_path`, `validate_body` | modes; deployments cut from the path; unanchored path rules; rewritten bodies | what is listed, and only that, is forwarded; the model checked is the one forwarded |
| `wildcards_to_regex`, `endpoints_to_regex` (helpers.rs) | - | compile a pattern | escaping | a pattern matches what it says |
| `jwt_auth_layer` (handler/jwt.rs), token generator (openai-hub-jwt-token-gen) | the secret read at start | verify claims; sign | time bounds; 32-bit product; the file changes between generator and server | a token is accepted in its period, and names the user |
| `Backend`s (audit.rs) | a file under a mutex, or an SQL pool | `init`, `log_access`, `log_tokens` | write errors reported late, to another entry; records in pieces; a kill tears a line | what is damaged is bounded by what failed |
| `Server`, configuration (lib.rs, config/, openai-hubd) | the configuration | load, serve | settings without effect; a start that fails between its steps | the server serves as its files say, or not at all |

The parts interact by calls down the chain of layers, by ownership (the key
moves from `proxy_request` into `StreamWithKey`, from there into a tee task),
by channels (tee to recorder to log task) and by the pool all requests share.

## 2. The modules

| module | models | main state |
|---|---|---|
| `KeyLease` | what the pool promises: a free key is taken, and given back | `free`, `lease` |
| `KeyPool` | key.rs, one step per semaphore operation or critical section | `keys`, `permits`, `waiters`, `stage`, `key` |
| `KeyRotation` | `KeyPool` with a history of the keys handed out | `since` |
| `QueueLemmas` | lemmas on sequences without repetition, and on loops | |
| `KeyPoolProofs` | the proofs of `KeyPool` and `KeyRotation` | |
| `AuditLogProofs` | the proofs of `AuditBackend`, `TokenCount` and `AuditLog` | |
| `HubProofs`, `TeeProofs`, `AclProofs`, `PatternsProofs`, `DeploymentProofs` | the proofs of the module they are named after | |
| `Relay` | what a duplicated body promises its two readers | `made`, `seen`, `reader`, `source` |
| `Tee` | `tee` and `stream_read_body` | `task`, `spawned`, `queued`, `buffer`, `got`, `reader` |
| `Hub` | the pipeline from the jwt layer to the logs, composed with `KeyPool` | `pc`, `upload`, `client`, `call`, `tees`, `tail`, `access`, `tokens` |
| `Acl` | `ApiAcl` and `global_acl_layer` | `config`, `acl`, `ask`, `phase`, `rule`, `sent` |
| `Patterns` | the two pattern compilers | `pattern`, `regex`, `text`, `result` |
| `Journal` | what a backend promises of the entries it is given | `kept`, `fate`, `allowance` |
| `AuditBackend` | audit.rs: the file and the SQL pools | `task`, `queue`, `sent`, `op`, `lines`, `tail` |
| `TokenCount` | `get_events` and the loops that collect the choices, as operators on records | |
| `AuditLog` | the tokens layer and its task, with `TokenCount`, into an `AuditBackend` | `policy`, `count`, `job`, `usage` |
| `JwtAuth` | the token generator and `jwt_auth_layer`, as operators on tokens | |
| `Startup` | openai-hubd's main, `ServerConfig::load`, `Server::serve`, edits of the files | `files`, `stage`, `server`, `failure`, `fresh` |
| `Deployment` | `Startup` and `JwtAuth` in use: clock, generator, clients | `now`, `wallet`, `request`, `answer` |
| `MC*` | constants, fairness and symmetry for TLC; `MCAcl` is for `Acl` and `Patterns` together | |

`Hub` contains `Pool == INSTANCE KeyPool` and its actions conjoin actions of
the pool: `GetKey` is `Pool!PopKey` with the move of the request to
`request.send()`. By the way it is written `Hub` is a behaviour of the pool,
which proves nothing of the pipeline; what the pipeline has to see to, that a
key is held by an open call and by nothing else and is never idle while
somebody waits, are `KeyHeldWhileCalling` and `KeysInUseWhileWaiting`. `Tee` is
not instantiated in `Hub`: `Hub` counts the tees a response goes through and
has the four facts about them that matter to the key (a tee reads on without
its client; it drops its source when that has ended and, after an error, only
when the channel to the next reader took the error; it is done when it has
relayed everything), which are the properties `Tee` checks.

How code became actions:

- **KeyPool.** `acquire_owned().await` is `AcquireNow` or `Enqueue`, then
  `PopKey` (the critical section). Dropping a guard is `ReturnKey`
  (`Drop::drop`) and then `ReleasePermit` (the field `_permit`). A future
  dropped in `get` is `CancelWaiting` or `CancelGranted`. Keys are named by
  their position in `api_keys`, so equal strings are different keys.
  tokio's semaphore is external: FIFO, a released permit goes to the first
  waiter.
- **Tee.** The loop of the task is `SourceChunk`, `SourceError`, `SourceEnd`.
  A sender is spawned with its item, runs for the first time in `SendStart`
  and may have to queue (`SendQueued`). The readers are the recorder (`Dup`)
  and the body that travels on (`Body`), whose reader may leave.
- **Hub.** `pc` is where the request's future stands. Each await of the chain
  is a value of it (`checking`: the acl layer reads a JSON body; `reading`: the
  tokens layer does; `keying`, `sending`; `returning`: the audit layers wait
  for what they record), so that `Cancel` can drop the future there; `failing`
  is a `send` that failed and has its key still to drop. `call` is the
  upstream call, `tail` the outermost tee task, `access` and `tokens` the two
  log entries from their creation to the backend.
- **Acl.** `Load`, `Validate`, `ValidatePath`, `CheckContentType`,
  `ValidateBody`, `Forward` are the steps of a request through the layer, with
  the code's early returns. A path is a sequence of segments; a regular
  expression is what it matches. The order of a HashMap's iteration is a free
  choice among the matching rules. A path rule is not anchored, so that its last
  segment, if it is plain, matches the beginning of a longer one (`Fits`), and
  one that has no `{model}` is accepted and panics in `validate_path`.
- **Patterns.** A text is a sequence of characters with two special ones, `.`
  and `+`; a compiled pattern is a sequence of atoms and `FullMatch` is the
  anchored match: the text can be cut into pieces, one for each atom.
- **AuditBackend.** `Log` is the call of `log_access` or `log_tokens`, which
  queues for the mutex; `HandOver` is one turn of `write_all`. tokio's `File`
  is external: it takes a piece, lets a blocking thread write it
  (`PieceWritten`, `PieceFails`), and tells the error to the next caller
  (`Report`). An SQL pool is `Insert`, `Inserted`, `InsertFails`. `Crash`
  kills the server with its tasks; the file is opened again for appending.
- **AuditLog, TokenCount.** `Refuse` and `Pass` are the layer, `Panic`, `Skip`,
  `TakeUsage` and `Estimate` the ways its task can end. A record is a
  sequence of parts, three for each event of the stream, in the order the
  recorder got them; `Ends` and `Segment` are the `split`, `HasPrefix` the
  `strip_prefix`, `Parses` what serde_json makes of a payload, `Add` one turn
  of the loop over choices and `ChoicesAfter` what the turns so far have
  collected. A text stands for its tokens.
- **Startup, JwtAuth, Deployment.** One step for each thing that can fail
  between reading config.toml and accepting connections (`ReadConfig`,
  `ReadAcl`, `Bind`, `OpenBackend` and their failures, with the reason in
  `failure`). What a database makes of the statements of `init` is external
  (`Refused`). `server` is what the process has read, `files` what is on disk;
  `Edit` tells them apart.
  `Generate` is a call of the generator, `Send` a request, and `Forbid`,
  `Refuse`, `Panic`, `Serve` its answers in the order of the layers. A
  signature is the key it was made with.

Definitions headed *Wrong on purpose* are variants of the definition that
follows them, each with one plausible mistake. They are used by no
specification: put in the place of the definition, each makes the property it
is listed with in `PROJECT.json` fail, which shows that the property can.

## 3. What is checked

| run | instance | states | shows |
|---|---|---|---|
| `pool` | 4 handlers, 2 keys | 2 356 | `PopNeverFails`, `KeysConserved`, `PermitsConserved`, `PoolInv`, `NoKeyOverused`, `EveryWaiterServed`, `ImplementsLease` |
| `tee` | 3 chunks | 49 512 | `NothingLost`, `CleanEndIsWhole`, `ImplementsRelay`, `RecordCompleted`, `ErrorEndsTask` |
| `hub` | 2 requests, 1 key, 6 audit configurations | 101 696 | `KeyHeldWhileCalling`, `OneCallPerKey`, `GoneClientEndsCall`, `EntriesComplete`, `KeysInUseWhileWaiting`, `KeysComeBack`, `RequestsConcluded`, `AnsweredIsLogged` |
| `acl` | 144 configurations, 416 requests; patterns up to 4, texts up to 3 characters | 535 499 | `ListedOnly`, `RefusalsJustified`, `CheckedIsForwarded`, `CheckedIsRequested`, `PanicsWithoutModel`, `ListedMatches`, `SimplePatternsExact` |
| `audit` | 2 access entries, one in two pieces, 1 usage entry; 2 faults, 1 crash | 263 925 | `DamageIsBounded`, `PanicsOnOddModel`, `ImplementsJournal`, `CountIsExact`, `EntriesConcluded` |
| `deployment` | 1 edit, 2 starts, 3 days, 1 generated and 2 foreign tokens | 434 340 | `LivesAsRequested`, `UserIsSubject`, `ServesAsConfigured` |

Every run but `pool` also checks a `TypeOK` (`PoolInv` contains that of the
pool). Six more runs, one for each, refute a statement of the repository
(section 6). A behaviour of `acl` is either one of `Acl` or one of `Patterns`
(`EitherSpec`): the two share no state, and the states of the run are the sum
of theirs.

**Bounds.** `pool`: two handlers queue while two hold keys, so a cancelled
waiter can be in front of another, and a key can lie idle while the other is
used twice; the proofs need no bound. `Chunks`: with three, a chunk can be with
its sender, queued and in the channel at the same time, and be overtaken by an
error. `hub`: with one key and two requests one waits for the other in every
way a call can end, and a key that is given back too early is used twice; the
proofs need no bound, and neither do those of `tee`, `acl`, `audit` and
`deployment`. `acl`: each configuration has allowing and disallowing rules,
rules with a parameter, two path rules for one endpoint, and deployments, one
of them named like an endpoint; there are path rules without `{model}`, with
two of them (which is an error at start) and with a plain end; bodies have up
to two `model` members, also one that is no string. `MaxPattern`, `MaxText`:
long enough for two special characters around another one and for a second
parameter. `audit`: a record in two pieces, one that may come between, and a
third that meets the error; two faults, so that one damaged line can follow
another, and a crash after them. Streams have two or three events and an end,
which is enough for two choices, a call made anew, every swap of neighbouring
chunks of one or three parts, and a swap that puts two texts together that
still parse. `deployment`: two starts with an edit before, between or after
them; U32 = 32 and a month of two days are scaled so that a wrapped product and
an expired token fit into three days.

**Deadlock** is checked in `pool`. The other systems really stop (a body is
relayed, a request is over, all entries are written, the operator is done), so
their configurations switch it off.

**Fairness.** The runtime polls a task that can go on, and threads get their
mutex: weak fairness of `PopKey` and `ReleasePermit`, of the senders and the
recorder, and of the pipeline's own steps (`RuntimeFairness`). What only the
environment can do is kept apart. `EnvironmentFairness` says that upstream
answers, ends or breaks, and that a client sends its body and takes an error,
or leaves. The code makes none of this happen: `reqwest::Client::builder()`
(lib.rs:81) sets no timeout and `axum::serve` none, so one upstream that hangs
keeps a key. `ReturnKey` has weak fairness in `KeyPool` for the same reason.
`RecordCompleted` assumes nothing of the client; `ErrorEndsTask` assumes a
client that does not stall, as a premise of the property. In
`AuditLog`, tasks that can go on are polled and blocking writes get on
(`BackendFairness`); no write has to fail and no server to crash, and
`Deployment` has no fairness at all. Of HTTP it is assumed that a body ends
after its first error (`SourceError` of `Tee`), which holds for HTTP/1: the
loop of `tee` would go on. No request has to
arrive and no client has to leave. `EveryWaiterServed` needs `NumKeys > 0`:
with `api_keys = []` the server starts and every request waits for ever.

## 4. What is proved

For every number of keys (`NumKeysAssumption`: a natural number) and every
finite set of handlers (`RequestsAssumption`):

- `PoolInvariant`: `Spec => []PoolInv`, and from it `TypeCorrect`, `PopSafe`
  (`PopNeverFails`), `KeysSafe` (`KeysConserved`), `PermitsSafe`
  (`PermitsConserved` and `NoIdlePermit`);
- `PoolRefinesLease`: `Spec => ImplementsLease`;
- `RotationInvariant`, `Rotation`: `RotationSpec => NoKeyOverused`.

**Why the invariant has its parts.** `PopNeverFails` is not inductive: that
the deque has a key when a handler pops follows from counting. Permits free
and permits held make `NumKeys` (`PermitsConserved`); keys in the deque and in
guards make `NumKeys` (`KeysCounted`); a handler that is about to pop holds a
permit and no key, so fewer keys than permits are out (lemma `PermitMeansKey`).
The counts need that no handler is in the queue twice and that the queue is
exactly the waiting handlers (`QueueExact`), that guards and keys go together
(`GuardsHoldKeys`), and that a permit is only handed on when somebody waits
(`NoIdlePermit`). There is a lemma per action; the semaphore's release is one
lemma, `ReleasePreserves`, used for both actions that contain it.

**Rotation.** `NoKeyOverused` follows from `RotationInv`: keys handed out
since an idle key j was returned are behind j in the deque or in use. It is
preserved because a return goes to the back (and starts a new history) and a
pop takes the front.

**Refinement.** `ReturnKey` is `GiveBack`, `PopKey` with a key is `Take`, and
every other step leaves `ToSet(keys)` and `key` alone; `KeysConserved` gives
that the popped key was free once and is so no more.

**The pipeline.** `HubProofs` proves, for every number of keys, every finite
set of requests and every audit configuration: `HubInvariant`, and from it
`HubTypeCorrect`, `KeyHeldExactly` (`KeyHeldWhileCalling`), `KeysNotShared`
(`OneCallPerKey`), `NoKeyIsIdle` (`KeysInUseWhileWaiting`),
`CallsEndWithClient` (`GoneClientEndsCall`) and `WrittenIsComplete`
(`EntriesComplete`). Every action of `Hub` is a step of the pool or leaves it
alone (`StepIsPoolStep`), so `PoolInv` carries over; the theorems of
`KeyPoolProofs` are instantiated for that, not proved again. What
`KeyHeldWhileCalling` lacks to be inductive is where a request's future stands
while its call is in a state: before `send()` there is no call and no tee
(`BeforeCall`), an error waits in a tee that exists (`TeesFollowCall`), only an
answered or dropped request has lost its client (`GoneClient`), and an entry is
with its task only after the answer (`EntryFollows`). These hold for each
request by itself (`RequestInv`); the one thing a step does to another request
is to hand it a permit, and `QueueExact` of the pool says that this one was
waiting (`ReleaseMovesNoKey`). There is one lemma for each phase of a request.
`NoKeyIsIdle` joins the two: somebody waits, so the pool has no permit left
(`NoIdlePermit`), so `NumKeys` requests hold one, and a request that holds one
is calling, or between the queue and its call, or giving its key back.

**The tee.** `TeeProofs`, for a body of any number of chunks
(`ChunksAssumption`): `TeeInvariant`, and from it `TeeTypeCorrect`,
`TeeLosesNothing` (`NothingLost`), `TeeCleanEndIsWhole` (`CleanEndIsWhole`) and
`TeeImplementsRelay` (`ImplementsRelay`). An item is with a sender, queued at
the channel, in it, or read; the invariant (`PortInv`) says that these places
are disjoint for an open port and hold what the source has produced. A clean
end needs more: the error is on its way to the body, or read, as soon as the
source broke, and the task waits for it (`ErrorInv`), so an end that the reader
sees is that of the source (`EndInv`). The receiver's end is one lemma,
`EndIsWhole`: an empty channel, with no sender left, makes everything read.

**The ACL.** `AclProofs`, for every set of configurations and requests of the
right form (`ConfigsAssumption`, `AsksAssumption`): `AclInvariant`, and from it
`AclTypeCorrect`, `ForwardedIsListed` (`ListedOnly`), `RefusalIsJustified`
(`RefusalsJustified`), `CheckedModelIsForwarded` (`CheckedIsForwarded`),
`CheckedModelIsRequested` (`CheckedIsRequested`) and
`PathRulesWithModelNeverPanic` (`PanicsWithoutModel`). The invariant says what
each phase knows: the rules were made of the configuration (`LoadedInv`), the
picked rule is one for the request's endpoint (`RuleInv`), and what a path or
body was checked for (`PathChecked`, `BodyOfInterest`). The hard part is that a
path rule is picked by the endpoint and matched against the whole path: a match
of the endpoint is a match of the path, two segments further on
(`MatchesShift`), so there is a capture, and unless an earlier place matches
(`Shifted`) it is the segment that upstream takes for the model
(`RuleCaptures`).

**The patterns.** `PatternsProofs`, for patterns and texts of any length over
any characters (`LettersAssumption`, `BoundsAssumption`): `WhatIsListedMatches`
(`ListedMatches`) and `SimplePatternsAreExact` (`SimplePatternsExact`). Both
compare the compiled atoms with those of `Meaning` one by one: if each atom
takes what the other one takes, a cut of the text that fits the one fits the
other (`MatchGrows`). A pattern with one special character has it escaped
(`OneSpecialEscaped`), so its atoms are those of its meaning
(`SimpleIsMeaning`).

**The file.** `AuditLogProofs`, for any entries, pieces, number of faults
and of crashes (`PiecesAssumption`, `BoundsAssumption`): `BackendInvariant`
and `DamageStaysBounded` (`DamageIsBounded`). The file's open line is either
`Clean`, a beginning of the record whose task has the lock, or it has been
paid for by a fault or a crash that no ended line has been counted for
(`CountInv`). That it is clean in between needs the lock: the operation of the
`File` is that of the task at the head of the queue until its last piece
(`OpInv`), and what a task has handed over last is that operation
(`TaskInv`). That a reported entry is not in the file is `LineInv`.

**The journal.** `BackendIsJournal`: `BackendSpec => ImplementsJournal`. Beyond
`BackendInv` this needs that what is being written is not in the file yet, so
that no entry is kept twice (`WrittenInv`), and that faults pay: at most three
entries are spoiled by one, the record it cut, the one that is told of its
error and the one that is glued to its line (`VictimInv`, which counts the open
line and the untold error as victims to come). There is one lemma per action,
which says the journal's steps it can be. What the refinement comes to is
stated without the journal in `LogKeepsPromise`: no two whole lines are of one
entry, and `Cardinality(Victims) <= 3 * faults + crashes`.

**The log.** Whatever the layers above do is a step of the backend or leaves it
alone (by the way `AuditLog` is written: lemma `LogIsBackend`), so all of this
holds of `AuditLog` (`LogIsJournal`, `LogDamageStaysBounded`). With what a
counting task knows of its request (`LayerInv`) follow `LogTypeCorrect`
(`TypeOK`) and `PanicsOnlyOnOddModel` (`PanicsOnOddModel`): a stream that is to
be rejected never gets as far as the `unreachable!()`.

**The count.** `CountsExactly` (`CountIsExact`), for any streams and any records
of the right form (`RecordsAssumption`), so also with more chunks swapped than
TLC tries. For a record in order: its payloads are its events
(`InOrderPayloads`), and after each of its parts the choices hold the texts of
the events that ended so far, in order, and their last call (`InOrderTurn`).
For a record in disorder: the first two parts of each event begin a segment,
and this has exactly one part more, or it would not parse (`SwappedSegment`);
so the texts are collected once each (`SwappedTurn`), and as each beginning
takes one end, all ends are taken (`EndsAreTaken`, by counting). That the
function `ChoicesAfter` exists is `LoopExists` of `QueueLemmas`, which, as the
other inductions here, takes the least number for which something fails
(`LeastNumber`), because the library's induction theorems have operators for
parameters.

**In use.** `DeploymentProofs`, for any files, periods, subjects and foreign
tokens (`FilesAssumption`, `PeriodsAssumption`, `SubjectsAssumption`,
`ForeignAssumption`), any bounds (`StartsAssumption`, `BoundsAssumption`) and
any width of an integer (`WidthAssumption`): `DeploymentInvariant`, and from it
`DeploymentTypeCorrect`, `TokensLiveAsRequested` (`LivesAsRequested`),
`EntryIsAboutSubject` (`UserIsSubject`) and `ServedAsConfigured`
(`ServesAsConfigured`). While nobody edits them the server's copy is that of
the files, less the ACL until this is read (`ServerInv`); a token in the wallet
remembers what was asked for (`WalletInv`); a request has one token and is
there until it is answered (`RequestInv`). `LivesAsRequested` then rests on the
arithmetic of `ExpiryIsAsked`: a wrapped product is at most the product, and
equal to it below the width.

Every safety and action property that a passing run checks is stated by a
theorem. Only model-checked are the liveness properties (`EveryWaiterServed`,
`RecordCompleted`, `ErrorEndsTask`, `KeysComeBack`, `RequestsConcluded`,
`AnsweredIsLogged`, `EntriesConcluded`): fairness is out of the prover's reach.

## 5. What is not modelled

- error.rs, which renders a status and a message and has no state;
- the tokenizer (tiktoken_rs) and the arithmetic on its counts;
- parsing of TOML, of the command lines and of JSON, beyond its outcome; the
  settings that are only passed on to OpenAI or to a database driver;
- `LogTokens` in `Hub` and `AuditLog` each have a view of the counting task:
  `Hub` when it runs, `AuditLog` what it does. They are not one specification,
  because the product of their states is out of TLC's reach;
- which headers are passed on or logged, formats of records, error messages;
- the memory held by senders that a slow client leaves waiting (tee has no
  backpressure): `Chunks` bounds it;
- HTTP itself (hyper, axum), TLS, regular expressions beyond section 2;
- in `Acl`, the characters that a path rule leaves unescaped (`Patterns` has
  those of the endpoints);
- items of an upstream body after its first error (see Fairness);
- the width of a choice's `index` (tokens.rs:205, 255): `index + 1` of a usize
  overflows, and a large one makes `resize` fail. `TokenCount` counts with
  natural numbers, and the indices of its streams are small. A panic there
  would be one more reason for `PanicsOnOddModel` to name;
- what the token usage is cast to for a column (audit.rs:314): no usage comes
  near a u32.

## 6. Where the code and the documents disagree

| run | document | code |
|---|---|---|
| `tee_order` | config.toml:41 "log openai response" | chunks are sent by tasks of their own (helpers.rs:168), so the log, and the client, may get them swapped |
| `hub_lost` | README.md:12 "Keep track of API usage and token consumption" | a client that leaves before the answer takes the access entry with it (access.rs:48) |
| `hub_panic` | config.toml:44 "enable this filter" | the tokens filter panics without the access filter, unless the client sends X-Ray-Id (tokens.rs:54) |
| `acl_models` | README.md:10, acl.toml:62-63 | model lists apply to `application/json` only (handler/acl.rs:44); that endpoint takes multipart bodies |
| `deployment_postgres` | config.toml:32 "possible backends: file, sqlite, mysql, postgres", README.md:12 | PostgreSQL refuses the tables that `init` creates: `user` is a reserved word there (audit.rs:424, 442) and `AUTO_INCREMENT` (audit.rs:439) no keyword; the start fails |
| `deployment_section` | config.toml:54-56 "For file backend, specify the file path for the access log.", `[audit.backends.file]` | the code reads `file_backend` (config/audit.rs:28), ignores the section without an error and logs to the default file |

`acl_models` has one endpoint, the list `{m1}` and a multipart body with a part
`model`; its counterexample is a request for m2, forwarded. The counterexample
of `deployment_postgres` has nothing in its way but the statements: sound
files, a free address, a database that answers.

## 7. Hazards

`PROJECT.json` lists them with their lines and properties. These are
disagreements without a run of their own, or conditions in properties:

- `Regex::replace` escapes the first special character of a pattern only
  (helpers.rs:37, 64): from the second on, a pattern such as `.x.` matches
  texts that it does not say, although acl.toml:2 says "default reject unlisted
  requests". `SimplePatternsExact` is stated for one special character for
  that reason.
- A path rule without `{model}` is accepted by `load` (acl.rs:181) and panics
  at the first request it is picked for (acl.rs:314): the one case that
  `PanicsWithoutModel` admits.
- After an upstream error a client that stalls keeps the key, and keeps the
  record from ending (helpers.rs:177). `KeysComeBack`, `ErrorEndsTask` and
  `RecordCompleted` leave that case out, by the fairness or the premise
  that section 3 names; no property catches it.
- `written` of `Hub` says that the backend took an entry without an error.
  The error of a `File` can come with the next entry, or never (audit.rs:169),
  which is the subject of `AuditBackend`.
- acl.toml:79-80 configures a DELETE with "filter model in path"; the layer
  demands a content type of it all the same (handler/acl.rs:36). Part of
  `CheckContentType`; no property says that it must not, and an empty list of
  models (helpers.rs:47) is read the same on both sides of every property.
- A number of years whose months are no u32 gives a shorter period
  (openai-hub-jwt-token-gen/src/main.rs:51), and a subject outside ASCII makes
  the audit layers panic (handler/audit/access.rs:34): exceptions in
  `LivesAsRequested` and `UserIsSubject`.
- A function call streamed in fragments has no `name` in the later ones
  (tokens.rs:325), so that the whole estimate fails (`Parses`); and if a chunk
  that starts within a `data: ` is swapped, its event is skipped without an
  error, the exception in `CountIsExact`.

- `Shifted` (module `Acl`): `validate` picks a path rule by the endpoint,
  `validate_path` searches the whole path. With a deployment named like the
  first segment of the rule, `/engines/models/models/m2` matches earlier and
  `models` is checked in the place of `m2`.
- `ListedMatches` (module `Patterns`) excepts a `+` that is not the first
  special character: it becomes a repetition, and the pattern no longer
  matches itself.

## 8. Plan

Done: `KeyLease`, `KeyPool`, `KeyRotation`, `Hub`; `Relay`, `Tee`; `Acl`;
`Patterns`; `Journal`, `AuditBackend`, `TokenCount`, `AuditLog`; `JwtAuth`,
`Startup`, `Deployment`; and the proofs of all of them. Next:

1. Show `tail` and `RelayError` of `Hub` to be a refinement of two composed
   tees rather than a summary of them.
