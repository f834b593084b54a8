------------------------------ MODULE KeyPool -------------------------------
(***************************************************************************)
(* The API key pool, openai-hub-core/src/key.rs: a deque of keys under a   *)
(* mutex, a tokio semaphore with one permit per key, and a guard that puts *)
(* the key back when it is dropped.                                        *)
(*                                                                         *)
(* A key is a String that is moved, never copied, between the deque and    *)
(* the guards, so a key is named by its position in api_keys: two equal    *)
(* strings of the configuration are two keys.                              *)
(*                                                                         *)
(* The handler of a request is a future.  It can be dropped at an await    *)
(* point (its client went away), and KeyPool::get has one, the wait for    *)
(* the permit.  Handlers run on several threads: a step here is one        *)
(* operation on the semaphore or one critical section of the mutex.        *)
(***************************************************************************)
EXTENDS Naturals, Sequences, SequencesExt, FiniteSets

CONSTANTS
  Requests,  \* the handlers alive at the same time; a name is used again
             \* when its handler is gone
  NumKeys,   \* how many keys api_keys lists
  NoKey      \* the empty String that mem::take leaves in a guard

ASSUME NumKeysAssumption == NumKeys \in Nat
ASSUME RequestsAssumption == IsFiniteSet(Requests)

Keys == 1 .. NumKeys

ASSUME NoKeyAssumption == NoKey \notin Keys

VARIABLES
  keys,      \* KeyPool.keys: the deque, oldest return first
  permits,   \* permits the semaphore has to give
  waiters,   \* the semaphore's FIFO queue of waiting handlers
  stage,     \* how far each handler has come
  key        \* KeyGuard.key of each handler's guard, NoKey without one

vars == <<keys, permits, waiters, stage, key>>

Stages == {"idle",       \* not asking for a key
           "waiting",    \* queued in the semaphore
           "granted",    \* given a permit by a release, not polled since
           "permitted",  \* has its permit, between acquire and pop_front
           "leased",     \* owns a KeyGuard
           "unwinding"}  \* owns a permit only: the second half of dropping
                         \* a guard, or the unwinding of a failed pop_front

(* Wrong on purpose: one permit too many. *)
InitOneMore ==
  /\ keys = [i \in Keys |-> i]
  /\ permits = NumKeys + 1
  /\ waiters = <<>>
  /\ stage = [r \in Requests |-> "idle"]
  /\ key = [r \in Requests |-> NoKey]

Init ==
  /\ keys = [i \in Keys |-> i]
  /\ permits = NumKeys
  /\ waiters = <<>>
  /\ stage = [r \in Requests |-> "idle"]
  /\ key = [r \in Requests |-> NoKey]

-----------------------------------------------------------------------------
(* KeyPool::get, first half: semaphore.acquire_owned().await.              *)

(* A permit is there: the future is ready at its first poll. *)
AcquireNow(r) ==
  /\ stage[r] = "idle"
  /\ permits > 0
  /\ permits' = permits - 1
  /\ stage' = [stage EXCEPT ![r] = "permitted"]
  /\ UNCHANGED <<keys, waiters, key>>

(* Wrong on purpose: every handler joins the queue. *)
EnqueueAlways(r) ==
  /\ stage[r] = "idle"
  /\ waiters' = Append(waiters, r)
  /\ stage' = [stage EXCEPT ![r] = "waiting"]
  /\ UNCHANGED <<keys, permits, key>>

(* No permit: the handler joins the end of the queue. *)
Enqueue(r) ==
  /\ stage[r] = "idle"
  /\ permits = 0
  /\ waiters' = Append(waiters, r)
  /\ stage' = [stage EXCEPT ![r] = "waiting"]
  /\ UNCHANGED <<keys, permits, key>>

(* Wrong on purpose: the key is cloned, not popped. *)
PopKeyPeeking(r) ==
  /\ stage[r] \in {"granted", "permitted"}
  /\ keys # <<>>
  /\ stage' = [stage EXCEPT ![r] = "leased"]
  /\ key' = [key EXCEPT ![r] = Head(keys)]
  /\ UNCHANGED <<keys, permits, waiters>>

(***************************************************************************)
(* KeyPool::get, second half: keys.lock().pop_front().unwrap().  There is  *)
(* no await between the permit and the pop.  With an empty deque unwrap    *)
(* panics, and unwinding drops the permit.                                 *)
(***************************************************************************)
PopKey(r) ==
  /\ stage[r] \in {"granted", "permitted"}
  /\ IF keys = <<>>
     THEN /\ stage' = [stage EXCEPT ![r] = "unwinding"]
          /\ UNCHANGED <<keys, key>>
     ELSE /\ stage' = [stage EXCEPT ![r] = "leased"]
          /\ key' = [key EXCEPT ![r] = Head(keys)]
          /\ keys' = Tail(keys)
  /\ UNCHANGED <<permits, waiters>>

-----------------------------------------------------------------------------
(***************************************************************************)
(* Giving a permit back to the semaphore: the first waiter gets it, and    *)
(* only when nobody waits does it become available again.  r is the        *)
(* handler that gives it up.                                               *)
(***************************************************************************)
ReleaseOf(r) ==
  IF waiters = <<>>
  THEN /\ permits' = permits + 1
       /\ stage' = [stage EXCEPT ![r] = "idle"]
       /\ UNCHANGED waiters
  ELSE /\ waiters' = Tail(waiters)
       /\ stage' = [stage EXCEPT ![r] = "idle", ![Head(waiters)] = "granted"]
       /\ UNCHANGED permits

(* The handler is dropped while it is queued: it leaves the queue. *)
CancelWaiting(r) ==
  /\ stage[r] = "waiting"
  /\ \E i \in 1 .. Len(waiters) :
       /\ waiters[i] = r
       /\ waiters' = RemoveAt(waiters, i)
  /\ stage' = [stage EXCEPT ![r] = "idle"]
  /\ UNCHANGED <<keys, permits, key>>

(* The handler is dropped after a release gave it a permit but before it   *)
(* was polled again: the permit goes back to the semaphore.                *)
CancelGranted(r) ==
  /\ stage[r] = "granted"
  /\ ReleaseOf(r)
  /\ UNCHANGED <<keys, key>>

(* Wrong on purpose: what mem::take leaves is pushed, not what it takes. *)
ReturnNoKey(r) ==
  /\ stage[r] = "leased"
  /\ keys' = Append(keys, NoKey)
  /\ key' = [key EXCEPT ![r] = NoKey]
  /\ stage' = [stage EXCEPT ![r] = "unwinding"]
  /\ UNCHANGED <<permits, waiters>>

(* Wrong on purpose: the key is not pushed. *)
ReturnKeyLost(r) ==
  /\ stage[r] = "leased"
  /\ key' = [key EXCEPT ![r] = NoKey]
  /\ stage' = [stage EXCEPT ![r] = "unwinding"]
  /\ UNCHANGED <<keys, permits, waiters>>

(* Wrong on purpose: push_front, so that the last key used is the next. *)
ReturnKeyInFront(r) ==
  /\ stage[r] = "leased"
  /\ keys' = <<key[r]>> \o keys
  /\ key' = [key EXCEPT ![r] = NoKey]
  /\ stage' = [stage EXCEPT ![r] = "unwinding"]
  /\ UNCHANGED <<permits, waiters>>

(***************************************************************************)
(* Dropping a KeyGuard.  Drop::drop runs first: it takes the key out of    *)
(* the guard and pushes it at the back of the deque.  Only then are the    *)
(* fields dropped, and with _permit the permit is released.                *)
(***************************************************************************)
ReturnKey(r) ==
  /\ stage[r] = "leased"
  /\ keys' = Append(keys, key[r])
  /\ key' = [key EXCEPT ![r] = NoKey]
  /\ stage' = [stage EXCEPT ![r] = "unwinding"]
  /\ UNCHANGED <<permits, waiters>>

(* Wrong on purpose: the permit is forgotten (OwnedSemaphorePermit::forget). *)
ReleasePermitForgotten(r) ==
  /\ stage[r] = "unwinding"
  /\ stage' = [stage EXCEPT ![r] = "idle"]
  /\ UNCHANGED <<keys, permits, waiters, key>>

ReleasePermit(r) ==
  /\ stage[r] = "unwinding"
  /\ ReleaseOf(r)
  /\ UNCHANGED <<keys, key>>

-----------------------------------------------------------------------------
Next ==
  \E r \in Requests :
    \/ AcquireNow(r)
    \/ Enqueue(r)
    \/ PopKey(r)
    \/ CancelWaiting(r)
    \/ CancelGranted(r)
    \/ ReturnKey(r)
    \/ ReleasePermit(r)

Spec == Init /\ [][Next]_vars

(***************************************************************************)
(* Fairness.  The runtime polls every task that can make progress, so the  *)
(* pop and the release happen.  That a leased key is returned at all is up *)
(* to the environment: the upstream answers or fails and the client reads  *)
(* or goes away (there is no timeout in reqwest::Client::builder()).       *)
(***************************************************************************)
Fairness ==
  \A r \in Requests :
    WF_vars(PopKey(r)) /\ WF_vars(ReturnKey(r)) /\ WF_vars(ReleasePermit(r))

FairSpec == Spec /\ Fairness

-----------------------------------------------------------------------------
(* Who has what.                                                           *)

\* Handlers that own a permit.
Holders == {r \in Requests :
              stage[r] \in {"granted", "permitted", "leased", "unwinding"}}

\* Handlers that own a KeyGuard.
Guards == {r \in Requests : stage[r] = "leased"}

\* Every variable has the type of the field it stands for.
TypeOK ==
  /\ keys \in Seq(Keys)
  /\ permits \in 0 .. NumKeys
  /\ waiters \in Seq(Requests)
  /\ stage \in [Requests -> Stages]
  /\ key \in [Requests -> Keys \cup {NoKey}]

(***************************************************************************)
(* The unwrap in KeyPool::get (key.rs:34) never panics: whenever a handler *)
(* is about to pop, with a permit in its hand, the deque has a key for it. *)
(* This is what pushing the key before releasing the permit is for.        *)
(***************************************************************************)
PopNeverFails ==
  (\E r \in Requests : stage[r] \in {"granted", "permitted"}) => keys # <<>>

(***************************************************************************)
(* No key is lost, duplicated or shared, whatever is cancelled and in      *)
(* whatever order guards are dropped: each key is in the deque exactly     *)
(* once or in exactly one guard.                                           *)
(***************************************************************************)
KeysConserved ==
  /\ IsInjective(keys)
  /\ \A r, s \in Guards : key[r] = key[s] => r = s
  /\ \A k \in Keys : k \in ToSet(keys) <=> ~ \E r \in Guards : key[r] = k

(***************************************************************************)
(* No permit leaks and none is invented: available permits and permits in  *)
(* the hands of handlers add up to the number of keys, also when a handler *)
(* is cancelled between being granted a permit and being polled.           *)
(***************************************************************************)
PermitsConserved == permits + Cardinality(Holders) = NumKeys

(* No handler queues while a permit is free: no wake-up is lost, and a     *)
(* handler that arrives later does not overtake the queue.                 *)
NoIdlePermit == waiters # <<>> => permits = 0

(***************************************************************************)
(* The inductive invariant the proofs of module KeyPoolProofs use.         *)
(***************************************************************************)

\* The semaphore's queue holds the waiting handlers, none of them twice.
QueueExact ==
  /\ IsInjective(waiters)
  /\ ToSet(waiters) = {r \in Requests : stage[r] = "waiting"}

\* A handler has a key in its guard exactly while it has a guard.
GuardsHoldKeys == \A r \in Requests : key[r] # NoKey <=> stage[r] = "leased"

\* Keys in the deque and keys in guards add up.
KeysCounted == Len(keys) + Cardinality(Guards) = NumKeys

(* Everything the handlers rely on, as one inductive invariant: the queue, *)
(* the guards and the two counts that tie permits to keys.                 *)
PoolInv ==
  /\ TypeOK
  /\ QueueExact
  /\ GuardsHoldKeys
  /\ KeysConserved
  /\ KeysCounted
  /\ PermitsConserved
  /\ NoIdlePermit

(***************************************************************************)
(* Every handler that waits for a key gets one, unless its client goes     *)
(* away first: no handler starves in the queue behind handlers that keep   *)
(* coming.  It needs at least one key, see hazards in the README.          *)
(***************************************************************************)
EveryWaiterServed ==
  \A r \in Requests : stage[r] = "waiting" ~> stage[r] \in {"leased", "idle"}

(* The pool implements the abstract lease: a key is free while it is in    *)
(* the deque, leased while it is in a guard.                               *)
Lease == INSTANCE KeyLease WITH free <- ToSet(keys), lease <- key
ImplementsLease == Lease!LeaseSpec

=============================================================================
