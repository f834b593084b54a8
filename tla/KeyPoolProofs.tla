--------------------------- MODULE KeyPoolProofs ----------------------------
(***************************************************************************)
(* Proofs about the key pool, for every number of keys and every finite    *)
(* set of handlers.  The inductive invariant is PoolInv of module KeyPool. *)
(* Then those about the pool with the history of module KeyRotation.       *)
(***************************************************************************)
EXTENDS KeyRotation, QueueLemmas, FiniteSetTheorems, TLAPS

-----------------------------------------------------------------------------
(* Sets of handlers are finite, and one handler more or less counts one.   *)

(* Any set of handlers described by their stage is finite. *)
LEMMA HandlersFinite ==
  /\ IsFiniteSet(Holders) /\ Cardinality(Holders) \in Nat
  /\ IsFiniteSet(Guards) /\ Cardinality(Guards) \in Nat
<1>1. Holders \subseteq Requests /\ Guards \subseteq Requests
  BY DEF Holders, Guards
<1> QED
  BY <1>1, RequestsAssumption, FS_Subset, FS_CardinalityType

(* A handler that joins a finite set adds one to its size. *)
LEMMA OneMore ==
  ASSUME NEW S, IsFiniteSet(S), NEW x, x \notin S
  PROVE  Cardinality(S \cup {x}) = Cardinality(S) + 1
BY FS_AddElement

(* A handler that leaves a finite set takes one from its size. *)
LEMMA OneLess ==
  ASSUME NEW S, IsFiniteSet(S), NEW x, x \in S
  PROVE  Cardinality(S \ {x}) = Cardinality(S) - 1
BY FS_RemoveElement

-----------------------------------------------------------------------------
(* The pool starts in the invariant: all keys in the deque, all permits    *)
(* available, nobody waiting.                                              *)
LEMMA PoolInvInit == Init => PoolInv
<1> SUFFICES ASSUME Init PROVE PoolInv
  OBVIOUS
<1> USE NumKeysAssumption, NoKeyAssumption DEF Init
<1>1. keys \in Seq(Keys) /\ Len(keys) = NumKeys
  BY DEF Keys
<1>2. ToSet(keys) = Keys /\ IsInjective(keys)
  <2>1. ToSet(keys) = {keys[i] : i \in 1 .. Len(keys)}
    BY <1>1, ToSetOfSeq
  <2>2. \A i, j \in 1 .. Len(keys) : keys[i] = keys[j] => i = j
    BY <1>1 DEF Keys
  <2>3. IsInjective(keys)
    BY <1>1, <2>2, ToSetOfSeq
  <2>4. \A i \in 1 .. NumKeys : keys[i] = i
    BY DEF Keys
  <2> QED
    BY ONLY <1>1, <2>1, <2>3, <2>4 DEF Keys
<1>3. Holders = {} /\ Guards = {}
  BY DEF Holders, Guards
<1>4. Cardinality(Holders) = 0 /\ Cardinality(Guards) = 0
  BY <1>3, FS_EmptySet
<1>5. TypeOK
  BY <1>1 DEF TypeOK, Stages
<1>6. QueueExact
  <2>1. ToSet(waiters) = {} /\ IsInjective(waiters)
    BY EmptyQueue
  <2> QED
    BY <2>1 DEF QueueExact
<1>7. GuardsHoldKeys
  BY DEF GuardsHoldKeys
<1>8. KeysConserved
  BY <1>2, <1>3 DEF KeysConserved
<1>9. KeysCounted /\ PermitsConserved /\ NoIdlePermit
  BY <1>1, <1>4 DEF KeysCounted, PermitsConserved, NoIdlePermit
<1> QED
  BY <1>5, <1>6, <1>7, <1>8, <1>9 DEF PoolInv

-----------------------------------------------------------------------------
(* One lemma per action: it preserves the invariant.                       *)

(* Taking a free permit: one fewer is free, one more is held. *)
LEMMA AcquireNowPreserves ==
  ASSUME PoolInv, NEW r \in Requests, AcquireNow(r)
  PROVE  PoolInv'
<1> USE DEF AcquireNow, PoolInv
<1>1. TypeOK'
  BY NumKeysAssumption DEF TypeOK, Stages
<1>2. Holders' = Holders \cup {r} /\ r \notin Holders /\ Guards' = Guards
  BY DEF Holders, Guards, TypeOK
<1>3. PermitsConserved'
  BY <1>2, HandlersFinite, OneMore, NumKeysAssumption DEF PermitsConserved, TypeOK
<1>4. QueueExact' /\ GuardsHoldKeys'
  BY DEF QueueExact, GuardsHoldKeys, TypeOK
<1>5. KeysConserved' /\ KeysCounted'
  BY <1>2 DEF KeysConserved, KeysCounted
<1>6. NoIdlePermit'
  BY DEF NoIdlePermit, TypeOK
<1> QED
  BY <1>1, <1>3, <1>4, <1>5, <1>6

(* Joining the queue: it happens only when no permit is free. *)
LEMMA EnqueuePreserves ==
  ASSUME PoolInv, NEW r \in Requests, Enqueue(r)
  PROVE  PoolInv'
<1> USE DEF Enqueue, PoolInv
<1>1. /\ waiters' \in Seq(Requests)
      /\ ToSet(waiters') = ToSet(waiters) \cup {r}
      /\ IsInjective(waiters) /\ r \notin ToSet(waiters) => IsInjective(waiters')
  BY JoinBack DEF TypeOK
<1>2. TypeOK'
  BY <1>1 DEF TypeOK, Stages
<1>3. Holders' = Holders /\ Guards' = Guards
  BY DEF Holders, Guards, TypeOK
<1>4. QueueExact'
  BY <1>1 DEF QueueExact, TypeOK
<1>5. GuardsHoldKeys'
  BY DEF GuardsHoldKeys, TypeOK
<1>6. KeysConserved' /\ KeysCounted' /\ PermitsConserved'
  BY <1>3 DEF KeysConserved, KeysCounted, PermitsConserved
<1>7. NoIdlePermit'
  BY DEF NoIdlePermit
<1> QED
  BY <1>2, <1>4, <1>5, <1>6, <1>7

(* A permit in hand means a key in the deque: the two counts say so. *)
LEMMA PermitMeansKey ==
  ASSUME PoolInv, NEW r \in Requests, stage[r] \in {"granted", "permitted"}
  PROVE  keys # <<>>
<1>1. Guards \cup {r} \subseteq Holders /\ r \notin Guards
  BY DEF Guards, Holders
<1>2. Cardinality(Guards \cup {r}) = Cardinality(Guards) + 1
  BY <1>1, HandlersFinite, OneMore
<1>3. Cardinality(Guards \cup {r}) <= Cardinality(Holders)
  BY <1>1, HandlersFinite, FS_Subset
<1>4. Len(keys) # 0
  BY <1>2, <1>3, HandlersFinite, NumKeysAssumption
     DEF PoolInv, KeysCounted, PermitsConserved, TypeOK
<1> QED
  BY <1>4

(* Popping: the front key moves from the deque to a new guard. *)
LEMMA PopKeyPreserves ==
  ASSUME PoolInv, NEW r \in Requests, PopKey(r)
  PROVE  PoolInv'
<1> USE DEF PoolInv
<1>1. keys # <<>>
  BY PermitMeansKey DEF PopKey
<1>2. /\ stage[r] \in {"granted", "permitted"}
      /\ stage' = [stage EXCEPT ![r] = "leased"]
      /\ key' = [key EXCEPT ![r] = Head(keys)]
      /\ keys' = Tail(keys)
      /\ permits' = permits /\ waiters' = waiters
  BY <1>1 DEF PopKey
<1>3. /\ Head(keys) \in ToSet(keys)
      /\ keys' \in Seq(Keys)
      /\ ToSet(keys') = ToSet(keys) \ {Head(keys)}
      /\ IsInjective(keys')
  BY <1>1, <1>2, LeaveFront DEF TypeOK, KeysConserved
<1>4. Head(keys) \in Keys /\ Head(keys) # NoKey
  BY <1>3, ToSetOfSeq, NoKeyAssumption DEF TypeOK
<1>5. Len(keys') = Len(keys) - 1 /\ Len(keys) \in Nat
  BY <1>1, <1>2, HeadTailProperties, LenProperties DEF TypeOK
<1>6. Guards' = Guards \cup {r} /\ r \notin Guards /\ Holders' = Holders
  BY <1>2 DEF Guards, Holders, TypeOK
<1>7. TypeOK'
  BY <1>2, <1>3, <1>4 DEF TypeOK, Stages
<1>8. QueueExact'
  BY <1>2 DEF QueueExact, TypeOK
<1>9. GuardsHoldKeys'
  BY <1>2, <1>4 DEF GuardsHoldKeys, TypeOK
<1>10. KeysConserved'
  <2>1. \A g \in Guards : key'[g] = key[g] /\ key[g] # Head(keys)
    <3> SUFFICES ASSUME NEW g \in Guards PROVE key'[g] = key[g] /\ key[g] # Head(keys)
      OBVIOUS
    <3>1. g # r /\ g \in Requests
      BY <1>6 DEF Guards
    <3> QED
      BY <3>1, <1>2, <1>3, <1>4 DEF KeysConserved, TypeOK
  <2>2. key'[r] = Head(keys)
    BY <1>2 DEF TypeOK
  <2>3. \A g, h \in Guards' : key'[g] = key'[h] => g = h
    BY <1>6, <2>1, <2>2 DEF KeysConserved
  <2>4. ASSUME NEW k \in Keys
        PROVE  k \in ToSet(keys') <=> ~ \E g \in Guards' : key'[g] = k
    BY <1>3, <1>6, <2>1, <2>2 DEF KeysConserved
  <2> QED
    BY <1>3, <2>3, <2>4 DEF KeysConserved
<1>11. KeysCounted'
  BY <1>5, <1>6, HandlersFinite, OneMore, NumKeysAssumption DEF KeysCounted
<1>12. PermitsConserved' /\ NoIdlePermit'
  BY <1>2, <1>6 DEF PermitsConserved, NoIdlePermit
<1> QED
  BY <1>7, <1>8, <1>9, <1>10, <1>11, <1>12

(* Leaving the queue: one handler fewer waits, no permit is touched. *)
LEMMA CancelWaitingPreserves ==
  ASSUME PoolInv, NEW r \in Requests, CancelWaiting(r)
  PROVE  PoolInv'
<1> USE DEF PoolInv
<1>1. PICK i \in 1 .. Len(waiters) : waiters[i] = r /\ waiters' = RemoveAt(waiters, i)
  BY DEF CancelWaiting
<1>2. /\ stage[r] = "waiting"
      /\ stage' = [stage EXCEPT ![r] = "idle"]
      /\ UNCHANGED <<keys, permits, key>>
  BY DEF CancelWaiting
<1>3. /\ waiters' \in Seq(Requests)
      /\ ToSet(waiters') = ToSet(waiters) \ {r}
      /\ IsInjective(waiters')
  BY <1>1, LeaveMiddle DEF TypeOK, QueueExact
<1>4. waiters # <<>>
  BY <1>1
<1>5. TypeOK'
  BY <1>2, <1>3 DEF TypeOK, Stages
<1>6. Holders' = Holders /\ Guards' = Guards
  BY <1>2 DEF Holders, Guards, TypeOK
<1>7. QueueExact'
  BY <1>2, <1>3 DEF QueueExact, TypeOK
<1>8. GuardsHoldKeys'
  BY <1>2 DEF GuardsHoldKeys, TypeOK
<1>9. KeysConserved' /\ KeysCounted' /\ PermitsConserved'
  BY <1>2, <1>6 DEF KeysConserved, KeysCounted, PermitsConserved
<1>10. NoIdlePermit'
  BY <1>2, <1>4 DEF NoIdlePermit
<1> QED
  BY <1>5, <1>7, <1>8, <1>9, <1>10

(* Giving a permit back, with or without somebody waiting for it. *)
LEMMA ReleasePreserves ==
  ASSUME PoolInv, NEW r \in Requests, stage[r] \in {"granted", "unwinding"},
         ReleaseOf(r), UNCHANGED <<keys, key>>
  PROVE  PoolInv'
<1> USE DEF PoolInv
<1>0. r \in Holders /\ r \notin Guards
  BY DEF Holders, Guards
<1>1. CASE waiters = <<>>
  <2>1. /\ permits' = permits + 1
        /\ stage' = [stage EXCEPT ![r] = "idle"]
        /\ waiters' = waiters
    BY <1>1 DEF ReleaseOf
  <2>2. Holders' = Holders \ {r} /\ Guards' = Guards
    BY <2>1 DEF Holders, Guards, TypeOK
  <2>3. Cardinality(Holders') = Cardinality(Holders) - 1 /\ Cardinality(Holders) \in Nat
    BY <1>0, <2>2, HandlersFinite, OneLess
  <2>4. Cardinality(Holders') \in Nat
    BY <2>2, HandlersFinite, FS_RemoveElement, FS_CardinalityType
  <2>5. PermitsConserved'
    BY <2>1, <2>3 DEF PermitsConserved, TypeOK
  <2>6. permits' \in 0 .. NumKeys
    BY <2>1, <2>3, <2>4, NumKeysAssumption DEF PermitsConserved, TypeOK
  <2>7. TypeOK'
    BY <2>1, <2>6 DEF TypeOK, Stages
  <2>8. QueueExact' /\ GuardsHoldKeys'
    BY <2>1 DEF QueueExact, GuardsHoldKeys, TypeOK
  <2>9. KeysConserved' /\ KeysCounted' /\ NoIdlePermit'
    BY <1>1, <2>1, <2>2 DEF KeysConserved, KeysCounted, NoIdlePermit
  <2> QED
    BY <2>5, <2>7, <2>8, <2>9
<1>2. CASE waiters # <<>>
  <2> DEFINE w == Head(waiters)
  <2>1. /\ permits' = permits
        /\ stage' = [stage EXCEPT ![r] = "idle", ![w] = "granted"]
        /\ waiters' = Tail(waiters)
    BY <1>2 DEF ReleaseOf
  <2>2. /\ w \in ToSet(waiters)
        /\ waiters' \in Seq(Requests)
        /\ ToSet(waiters') = ToSet(waiters) \ {w}
        /\ IsInjective(waiters')
    BY <1>2, <2>1, LeaveFront DEF TypeOK, QueueExact
  <2>3. w \in Requests /\ stage[w] = "waiting" /\ w # r
    BY <2>2 DEF QueueExact
  <2> HIDE DEF w
  <2>4. w \notin Holders /\ Holders' = (Holders \ {r}) \cup {w} /\ Guards' = Guards
    BY <2>1, <2>3 DEF Holders, Guards, TypeOK
  <2>5. Cardinality(Holders') = Cardinality(Holders)
    <3>1. IsFiniteSet(Holders \ {r}) /\ Cardinality(Holders \ {r}) = Cardinality(Holders) - 1
      BY <1>0, HandlersFinite, FS_RemoveElement
    <3>2. Cardinality((Holders \ {r}) \cup {w}) = Cardinality(Holders \ {r}) + 1
      BY <2>4, <3>1, OneMore
    <3> QED
      BY <2>4, <3>1, <3>2, HandlersFinite
  <2>6. TypeOK'
    BY <2>1, <2>2, <2>3 DEF TypeOK, Stages
  <2>7. QueueExact'
    BY <2>1, <2>2, <2>3 DEF QueueExact, TypeOK
  <2>8. GuardsHoldKeys'
    BY <2>1, <2>3 DEF GuardsHoldKeys, TypeOK
  <2>9. KeysConserved' /\ KeysCounted' /\ PermitsConserved'
    BY <2>1, <2>4, <2>5 DEF KeysConserved, KeysCounted, PermitsConserved
  <2>10. NoIdlePermit'
    BY <1>2, <2>1 DEF NoIdlePermit
  <2> QED
    BY <2>6, <2>7, <2>8, <2>9, <2>10
<1> QED
  BY <1>1, <1>2

(* Returning: the key moves from its guard to the back of the deque. *)
LEMMA ReturnKeyPreserves ==
  ASSUME PoolInv, NEW r \in Requests, ReturnKey(r)
  PROVE  PoolInv'
<1> USE DEF PoolInv
<1>1. /\ stage[r] = "leased"
      /\ keys' = Append(keys, key[r])
      /\ key' = [key EXCEPT ![r] = NoKey]
      /\ stage' = [stage EXCEPT ![r] = "unwinding"]
      /\ permits' = permits /\ waiters' = waiters
  BY DEF ReturnKey
<1>2. r \in Guards /\ key[r] \in Keys
  BY <1>1 DEF Guards, GuardsHoldKeys, TypeOK
<1>3. key[r] \notin ToSet(keys)
  BY <1>2 DEF KeysConserved
<1>4. /\ keys' \in Seq(Keys)
      /\ ToSet(keys') = ToSet(keys) \cup {key[r]}
      /\ IsInjective(keys')
  BY <1>1, <1>2, <1>3, JoinBack DEF TypeOK, KeysConserved
<1>5. Len(keys') = Len(keys) + 1 /\ Len(keys) \in Nat
  BY <1>1, <1>2, AppendProperties, LenProperties DEF TypeOK
<1>6. Guards' = Guards \ {r} /\ Holders' = Holders
  BY <1>1 DEF Guards, Holders, TypeOK
<1>7. TypeOK'
  BY <1>1, <1>4 DEF TypeOK, Stages
<1>8. QueueExact'
  BY <1>1 DEF QueueExact, TypeOK
<1>9. GuardsHoldKeys'
  BY <1>1 DEF GuardsHoldKeys, TypeOK
<1>10. KeysConserved'
  <2>1. \A g \in Guards' : key'[g] = key[g] /\ g \in Guards /\ g # r
    BY <1>1, <1>6 DEF Guards, TypeOK
  <2>2. ASSUME NEW k \in Keys
        PROVE  k \in ToSet(keys') <=> ~ \E g \in Guards' : key'[g] = k
    <3>1. CASE k = key[r]
      BY <3>1, <1>2, <1>4, <2>1 DEF KeysConserved
    <3>2. CASE k # key[r]
      BY <3>2, <1>4, <1>6, <2>1 DEF KeysConserved
    <3> QED
      BY <3>1, <3>2
  <2>3. \A g, h \in Guards' : key'[g] = key'[h] => g = h
    BY <2>1 DEF KeysConserved
  <2> QED
    BY <1>4, <2>2, <2>3 DEF KeysConserved
<1>11. KeysCounted'
  BY <1>2, <1>5, <1>6, HandlersFinite, OneLess, NumKeysAssumption DEF KeysCounted
<1>12. PermitsConserved' /\ NoIdlePermit'
  BY <1>1, <1>6 DEF PermitsConserved, NoIdlePermit
<1> QED
  BY <1>7, <1>8, <1>9, <1>10, <1>11, <1>12

-----------------------------------------------------------------------------
(* Every step of the pool preserves the invariant.                         *)
LEMMA PoolInvNext == PoolInv /\ [Next]_vars => PoolInv'
<1> SUFFICES ASSUME PoolInv, [Next]_vars PROVE PoolInv'
  OBVIOUS
<1>1. ASSUME NEW r \in Requests, AcquireNow(r) PROVE PoolInv'
  BY <1>1, AcquireNowPreserves
<1>2. ASSUME NEW r \in Requests, Enqueue(r) PROVE PoolInv'
  BY <1>2, EnqueuePreserves
<1>3. ASSUME NEW r \in Requests, PopKey(r) PROVE PoolInv'
  BY <1>3, PopKeyPreserves
<1>4. ASSUME NEW r \in Requests, CancelWaiting(r) PROVE PoolInv'
  BY <1>4, CancelWaitingPreserves
<1>5. ASSUME NEW r \in Requests, CancelGranted(r) PROVE PoolInv'
  BY <1>5, ReleasePreserves DEF CancelGranted
<1>6. ASSUME NEW r \in Requests, ReturnKey(r) PROVE PoolInv'
  BY <1>6, ReturnKeyPreserves
<1>7. ASSUME NEW r \in Requests, ReleasePermit(r) PROVE PoolInv'
  BY <1>7, ReleasePreserves DEF ReleasePermit
<1>8. CASE UNCHANGED vars
  BY <1>8 DEF vars, PoolInv, TypeOK, QueueExact, GuardsHoldKeys, KeysConserved,
              KeysCounted, PermitsConserved, NoIdlePermit, Guards, Holders
<1> QED
  BY <1>1, <1>2, <1>3, <1>4, <1>5, <1>6, <1>7, <1>8 DEF Next

(***************************************************************************)
(* The pool's bookkeeping is consistent in every reachable state: no       *)
(* permit leaks, no key is lost, duplicated or shared, nobody queues while *)
(* a permit is free, and every field keeps its type.                       *)
(***************************************************************************)
THEOREM PoolInvariant == Spec => []PoolInv
<1>1. Init => PoolInv
  BY PoolInvInit
<1>2. PoolInv /\ [Next]_vars => PoolInv'
  BY PoolInvNext
<1> QED
  BY <1>1, <1>2, PTL DEF Spec

(* Every variable of the pool keeps its type. *)
THEOREM TypeCorrect == Spec => []TypeOK
<1>1. PoolInv => TypeOK
  BY DEF PoolInv
<1> QED
  BY <1>1, PoolInvariant, PTL

(* The unwrap of pop_front in KeyPool::get never panics. *)
THEOREM PopSafe == Spec => []PopNeverFails
<1>1. PoolInv => PopNeverFails
  BY PermitMeansKey DEF PopNeverFails
<1> QED
  BY <1>1, PoolInvariant, PTL

(* No API key is ever lost, duplicated or held by two handlers. *)
THEOREM KeysSafe == Spec => []KeysConserved
<1>1. PoolInv => KeysConserved
  BY DEF PoolInv
<1> QED
  BY <1>1, PoolInvariant, PTL

(* No permit is lost, whenever a handler is dropped, and nobody queues     *)
(* while one is available.                                                 *)
THEOREM PermitsSafe == Spec => [](PermitsConserved /\ NoIdlePermit)
<1>1. PoolInv => PermitsConserved /\ NoIdlePermit
  BY DEF PoolInv
<1> QED
  BY <1>1, PoolInvariant, PTL

-----------------------------------------------------------------------------
(* The pool implements the abstract lease.                                 *)

(* At the start every key is free and nobody holds one. *)
LEMMA LeaseInitRefined == Init => Lease!LeaseInit
<1> SUFFICES ASSUME Init PROVE Lease!LeaseInit
  OBVIOUS
<1>1. PoolInv /\ Guards = {}
  BY PoolInvInit DEF Init, Guards
<1>2. ToSet(keys) = Keys
  <2>1. ToSet(keys) \subseteq Keys
    BY <1>1, ToSetOfSeq DEF PoolInv, TypeOK
  <2> QED
    BY <1>1, <2>1 DEF PoolInv, KeysConserved
<1> QED
  BY <1>2 DEF Init, Lease!LeaseInit

(* Popping takes a free key, returning gives back the key that was taken,  *)
(* and no other step of the pool changes who holds what.                   *)
LEMMA LeaseStepRefined ==
  PoolInv /\ [Next]_vars => [Lease!LeaseNext]_(Lease!leaseVars)
<1> SUFFICES ASSUME PoolInv, [Next]_vars
             PROVE  [Lease!LeaseNext]_(Lease!leaseVars)
  OBVIOUS
<1> USE DEF Lease!leaseVars
<1>1. ASSUME NEW r \in Requests, PopKey(r) PROVE Lease!Take(r)
  <2>1. keys # <<>>
    BY <1>1, PermitMeansKey DEF PopKey
  <2>2. keys' = Tail(keys) /\ key' = [key EXCEPT ![r] = Head(keys)]
    BY <1>1, <2>1 DEF PopKey
  <2>3. Head(keys) \in ToSet(keys) /\ ToSet(keys') = ToSet(keys) \ {Head(keys)}
    BY <2>1, <2>2, LeaveFront DEF PoolInv, TypeOK, KeysConserved
  <2>4. key[r] = NoKey
    BY <1>1 DEF PopKey, PoolInv, GuardsHoldKeys
  <2> QED
    BY <2>2, <2>3, <2>4 DEF Lease!Take
<1>2. ASSUME NEW r \in Requests, ReturnKey(r) PROVE Lease!GiveBack(r)
  <2>1. key[r] # NoKey /\ key[r] \in Keys
    BY <1>2 DEF ReturnKey, PoolInv, GuardsHoldKeys, TypeOK
  <2>2. ToSet(keys') = ToSet(keys) \cup {key[r]}
    BY <1>2, <2>1, JoinBack DEF ReturnKey, PoolInv, TypeOK
  <2> QED
    BY <1>2, <2>1, <2>2 DEF ReturnKey, Lease!GiveBack
<1>3. ASSUME NEW r \in Requests,
             \/ AcquireNow(r) \/ Enqueue(r) \/ CancelWaiting(r)
             \/ CancelGranted(r) \/ ReleasePermit(r)
      PROVE  UNCHANGED Lease!leaseVars
  BY <1>3 DEF AcquireNow, Enqueue, CancelWaiting, CancelGranted, ReleasePermit
<1>4. CASE UNCHANGED vars
  BY <1>4 DEF vars
<1> QED
  BY <1>1, <1>2, <1>3, <1>4 DEF Next, Lease!LeaseNext

(***************************************************************************)
(* The pool keeps its promise to the handlers: whatever the interleaving,  *)
(* a handler gets a key nobody else holds and gives that key back.         *)
(***************************************************************************)
THEOREM PoolRefinesLease == Spec => ImplementsLease
<1>1. Init => Lease!LeaseInit
  BY LeaseInitRefined
<1>2. PoolInv /\ [Next]_vars => [Lease!LeaseNext]_(Lease!leaseVars)
  BY LeaseStepRefined
<1> QED
  BY <1>1, <1>2, PoolInvariant, PTL DEF Spec, ImplementsLease, Lease!LeaseSpec

-----------------------------------------------------------------------------
(***************************************************************************)
(* No API key is overused.  The invariant is the pool's own (PoolInv), the *)
(* type of the history and RotationInv, which says that what was handed    *)
(* out since an idle key came back is not ahead of that key in the deque.  *)
(***************************************************************************)
SinceType == since \in [Keys -> SUBSET Keys]

FullInv == PoolInv /\ SinceType /\ RotationInv

-----------------------------------------------------------------------------
(* A step of the pool pops the head for one handler, returns the key of    *)
(* one guard, or leaves keys and guards alone.                             *)
LEMMA PoolSteps ==
  ASSUME PoolInv, [Next]_vars
  PROVE  \/ \E r \in Requests :
              /\ keys # <<>> /\ key[r] = NoKey
              /\ keys' = Tail(keys) /\ key' = [key EXCEPT ![r] = Head(keys)]
         \/ \E r \in Requests :
              /\ key[r] \in Keys
              /\ keys' = Append(keys, key[r]) /\ key' = [key EXCEPT ![r] = NoKey]
         \/ UNCHANGED <<keys, key>>
<1>1. ASSUME NEW r \in Requests, PopKey(r)
      PROVE  /\ keys # <<>> /\ key[r] = NoKey
             /\ keys' = Tail(keys) /\ key' = [key EXCEPT ![r] = Head(keys)]
  BY <1>1, PermitMeansKey DEF PopKey, PoolInv, GuardsHoldKeys
<1>2. ASSUME NEW r \in Requests, ReturnKey(r)
      PROVE  /\ key[r] \in Keys
             /\ keys' = Append(keys, key[r]) /\ key' = [key EXCEPT ![r] = NoKey]
  BY <1>2 DEF ReturnKey, PoolInv, GuardsHoldKeys, TypeOK
<1>3. ASSUME NEW r \in Requests,
             \/ AcquireNow(r) \/ Enqueue(r) \/ CancelWaiting(r)
             \/ CancelGranted(r) \/ ReleasePermit(r)
      PROVE  UNCHANGED <<keys, key>>
  BY <1>3 DEF AcquireNow, Enqueue, CancelWaiting, CancelGranted, ReleasePermit
<1>4. CASE UNCHANGED vars
  BY <1>4 DEF vars
<1> QED
  BY <1>1, <1>2, <1>3, <1>4 DEF Next

(* What popping hands out: the head, and nothing comes back. *)
LEMMA PopHistory ==
  ASSUME PoolInv, NEW r \in Requests, keys # <<>>, key[r] = NoKey,
         key' = [key EXCEPT ![r] = Head(keys)]
  PROVE  HandedOut = {Head(keys)} /\ PutBack = {} /\ Head(keys) \in Keys
<1>1. Head(keys) \in Keys
  BY HeadTailProperties DEF PoolInv, TypeOK
<1>2. key \in [Requests -> Keys \cup {NoKey}]
  BY DEF PoolInv, TypeOK
<1>3. /\ key'[r] = Head(keys)
      /\ \A s \in Requests \ {r} : key'[s] = key[s]
  BY <1>2
<1>4. Head(keys) # NoKey
  BY <1>1, NoKeyAssumption
<1>5. HandedOut = {Head(keys)}
  BY <1>1, <1>3, <1>4 DEF HandedOut
<1>6. PutBack = {}
  BY <1>3, NoKeyAssumption DEF PutBack
<1> QED
  BY <1>1, <1>5, <1>6

(* What returning puts back: the key of the guard, and none is handed out. *)
LEMMA ReturnHistory ==
  ASSUME PoolInv, NEW r \in Requests, key[r] \in Keys,
         key' = [key EXCEPT ![r] = NoKey]
  PROVE  HandedOut = {} /\ PutBack = {key[r]} /\ key[r] \notin ToSet(keys)
<1>1. key \in [Requests -> Keys \cup {NoKey}]
  BY DEF PoolInv, TypeOK
<1>2. /\ key'[r] = NoKey
      /\ \A s \in Requests \ {r} : key'[s] = key[s]
  BY <1>1
<1>3. HandedOut = {}
  BY <1>2, NoKeyAssumption DEF HandedOut
<1>4. PutBack = {key[r]}
  BY <1>2, NoKeyAssumption DEF PutBack
<1>5. r \in Guards
  BY NoKeyAssumption DEF Guards, PoolInv, GuardsHoldKeys
<1>6. key[r] \notin ToSet(keys)
  BY <1>5 DEF PoolInv, KeysConserved
<1> QED
  BY <1>3, <1>4, <1>6

-----------------------------------------------------------------------------
(* At the start no key was handed out and the history is empty. *)
LEMMA FullInvInit == RotationInit => FullInv
<1> SUFFICES ASSUME RotationInit PROVE FullInv
  OBVIOUS
<1>1. PoolInv
  BY PoolInvInit DEF RotationInit
<1>2. SinceType
  BY DEF RotationInit, SinceType
<1>3. RotationInv
  <2>1. \A i \in 1 .. Len(keys) : keys[i] \in Keys
    BY <1>1, ElementOfSeq DEF PoolInv, TypeOK
  <2> QED
    BY <2>1, LenProperties, <1>1 DEF RotationInit, RotationInv, PoolInv, TypeOK
<1> QED
  BY <1>1, <1>2, <1>3 DEF FullInv

(* Every step preserves the pool's invariant and that of the history. *)
LEMMA FullInvNext == FullInv /\ [RotationNext]_rotationVars => FullInv'
<1> SUFFICES ASSUME FullInv, [RotationNext]_rotationVars PROVE FullInv'
  OBVIOUS
<1> USE DEF FullInv
<1>1. [Next]_vars
  BY DEF RotationNext, rotationVars
<1>2. PoolInv'
  BY <1>1, PoolInvNext
<1>3. keys \in Seq(Keys) /\ Len(keys) \in Nat
  BY LenProperties DEF PoolInv, TypeOK
<1>4. \A i, j \in 1 .. Len(keys) : keys[i] = keys[j] => i = j
  BY <1>3, ToSetOfSeq DEF PoolInv, KeysConserved
<1>5. \A i \in 1 .. Len(keys) : keys[i] \in Keys
  BY <1>3, ElementOfSeq
<1>6. CASE UNCHANGED rotationVars
  BY <1>2, <1>6 DEF rotationVars, vars, SinceType, RotationInv
<1>7. CASE RotationNext
  <2>0. since' = [k \in Keys |->
           IF k \in HandedOut \cup PutBack THEN {} ELSE since[k] \cup HandedOut]
    BY <1>7 DEF RotationNext
  <2>1. HandedOut \subseteq Keys
    BY DEF HandedOut
  <2>2. SinceType'
    BY <2>0, <2>1 DEF SinceType
  <2>3. CASE UNCHANGED <<keys, key>>
    <3>1. HandedOut = {} /\ PutBack = {}
      BY <2>3 DEF HandedOut, PutBack
    <3>2. since' = since
      BY <2>0, <3>1 DEF SinceType
    <3> QED
      BY <1>2, <2>2, <2>3, <3>2 DEF RotationInv
  <2>4. ASSUME NEW r \in Requests, keys # <<>>, key[r] = NoKey,
               keys' = Tail(keys), key' = [key EXCEPT ![r] = Head(keys)]
        PROVE  FullInv'
    <3>1. HandedOut = {Head(keys)} /\ PutBack = {}
      BY <2>4, PopHistory
    <3>2. /\ Len(keys') = Len(keys) - 1
          /\ \A i \in 1 .. Len(keys') : keys'[i] = keys[i + 1]
          /\ Head(keys) = keys[1]
      BY <2>4, <1>3, HeadTailProperties
    <3>3. ASSUME NEW i \in 1 .. Len(keys'), NEW j \in 1 .. Len(keys'), i < j
          PROVE  keys'[i] \notin since'[keys'[j]]
      <4>1. /\ i + 1 \in 1 .. Len(keys) /\ j + 1 \in 1 .. Len(keys) /\ 1 \in 1 .. Len(keys)
            /\ i + 1 < j + 1 /\ i + 1 # 1
            /\ keys'[i] = keys[i + 1] /\ keys'[j] = keys[j + 1]
        BY <3>2, <3>3, <1>3
      <4>2. keys[i + 1] \notin since[keys[j + 1]]
        BY <4>1 DEF RotationInv
      <4>3. keys[i + 1] # Head(keys) /\ keys[j + 1] \in Keys
        BY <4>1, <3>2, <1>4, <1>5
      <4>4. since'[keys[j + 1]] \subseteq since[keys[j + 1]] \cup {Head(keys)}
        BY <2>0, <3>1, <4>3
      <4> QED
        BY <4>1, <4>2, <4>3, <4>4
    <3> QED
      BY <1>2, <2>2, <3>3 DEF RotationInv
  <2>5. ASSUME NEW r \in Requests, key[r] \in Keys,
               keys' = Append(keys, key[r]), key' = [key EXCEPT ![r] = NoKey]
        PROVE  FullInv'
    <3>1. HandedOut = {} /\ PutBack = {key[r]}
      BY <2>5, ReturnHistory
    <3>2. /\ Len(keys') = Len(keys) + 1
          /\ \A i \in 1 .. Len(keys) : keys'[i] = keys[i]
          /\ keys'[Len(keys) + 1] = key[r]
      BY <2>5, <1>3, AppendProperties
    <3>3. ASSUME NEW i \in 1 .. Len(keys'), NEW j \in 1 .. Len(keys'), i < j
          PROVE  keys'[i] \notin since'[keys'[j]]
      <4>1. CASE j = Len(keys) + 1
        <5>1. since'[key[r]] = {}
          BY <2>0, <2>5, <3>1
        <5> QED
          BY <4>1, <5>1, <3>2
      <4>2. CASE j # Len(keys) + 1
        <5>1. i \in 1 .. Len(keys) /\ j \in 1 .. Len(keys)
          BY <4>2, <3>2, <3>3, <1>3
        <5>2. keys[i] \notin since[keys[j]]
          BY <5>1, <3>3 DEF RotationInv
        <5>3. since'[keys[j]] \subseteq since[keys[j]]
          BY <5>1, <2>0, <3>1, <1>5
        <5> QED
          BY <5>1, <5>2, <5>3, <3>2
      <4> QED
        BY <4>1, <4>2
    <3> QED
      BY <1>2, <2>2, <3>3 DEF RotationInv
  <2> QED
    BY <1>1, <2>3, <2>4, <2>5, PoolSteps
<1> QED
  BY <1>6, <1>7

(* In a state of the invariant, a step hands out only a key that was not   *)
(* handed out since any other idle key came back.                          *)
LEMMA NoOveruseStep ==
  ASSUME FullInv, [RotationNext]_rotationVars,
         NEW k \in HandedOut, NEW j \in ToSet(keys) \ HandedOut
  PROVE  k \notin since[j]
<1> USE DEF FullInv
<1>1. [Next]_vars
  BY DEF RotationNext, rotationVars
<1>2. CASE UNCHANGED <<keys, key>>
  BY <1>2 DEF HandedOut
<1>3. ASSUME NEW r \in Requests, key[r] \in Keys, key' = [key EXCEPT ![r] = NoKey]
      PROVE  FALSE
  BY <1>3, ReturnHistory
<1>4. ASSUME NEW r \in Requests, keys # <<>>, key[r] = NoKey,
             keys' = Tail(keys), key' = [key EXCEPT ![r] = Head(keys)]
      PROVE  k \notin since[j]
  <2>1. HandedOut = {Head(keys)}
    BY <1>4, PopHistory
  <2>2. keys \in Seq(Keys) /\ Len(keys) \in Nat \ {0} /\ Head(keys) = keys[1]
    BY <1>4, EmptySeq, HeadTailProperties DEF PoolInv, TypeOK
  <2>3. PICK n \in 1 .. Len(keys) : keys[n] = j
    BY <2>2, ToSetOfSeq
  <2>4. n # 1 /\ 1 < n /\ 1 \in 1 .. Len(keys)
    BY <2>1, <2>2, <2>3
  <2>5. keys[1] \notin since[keys[n]]
    BY <2>3, <2>4 DEF RotationInv
  <2> QED
    BY <2>1, <2>2, <2>3, <2>5
<1> QED
  BY <1>1, <1>2, <1>3, <1>4, PoolSteps

(* The history invariant holds in every reachable state. *)
THEOREM RotationInvariant == RotationSpec => []RotationInv
<1>1. RotationInit => FullInv
  BY FullInvInit
<1>2. FullInv /\ [RotationNext]_rotationVars => FullInv'
  BY FullInvNext
<1>3. FullInv => RotationInv
  BY DEF FullInv
<1> QED
  BY <1>1, <1>2, <1>3, PTL DEF RotationSpec

(***************************************************************************)
(* README.md:8, "preventing the overuse of any single key": no key is      *)
(* handed out twice while another one lies idle in the deque.              *)
(***************************************************************************)
THEOREM Rotation == RotationSpec => NoKeyOverused
<1>1. RotationInit => FullInv
  BY FullInvInit
<1>2. FullInv /\ [RotationNext]_rotationVars => FullInv'
  BY FullInvNext
<1>3. FullInv /\ [RotationNext]_rotationVars =>
        [\A k \in HandedOut, j \in ToSet(keys) \ HandedOut : k \notin since[j]]_rotationVars
  BY NoOveruseStep
<1> QED
  BY <1>1, <1>2, <1>3, PTL DEF RotationSpec, NoKeyOverused

=============================================================================
