---------------------------- MODULE QueueLemmas -----------------------------
(***************************************************************************)
(* Lemmas on sequences used as queues: which elements a queue has, and     *)
(* that it has none twice, after an element joins at the back, leaves at   *)
(* the front or leaves from the middle, or one queue is put behind         *)
(* another.  Modules KeyPool and KeyRotation use queues of keys and of     *)
(* waiting handlers, module Tee queues of chunks in these ways.            *)
(*                                                                         *)
(* And on what stands in for induction over numbers: the least element of  *)
(* a set, and that a loop of so many turns has all the values in between,  *)
(* as module TokenCount has one over the segments of a record.             *)
(***************************************************************************)
EXTENDS Integers, SequencesExt, SequenceTheorems, WellFoundedInduction,
        TLAPS

(* A sequence's elements are what its positions hold. *)
LEMMA ToSetOfSeq ==
  ASSUME NEW S, NEW s \in Seq(S)
  PROVE  /\ ToSet(s) = {s[i] : i \in 1 .. Len(s)}
         /\ ToSet(s) \subseteq S
         /\ IsInjective(s) <=> \A i, j \in 1 .. Len(s) : s[i] = s[j] => i = j
<1>1. DOMAIN s = 1 .. Len(s)
  BY LenProperties
<1>2. \A i \in 1 .. Len(s) : s[i] \in S
  BY ElementOfSeq
<1> QED
  BY <1>1, <1>2 DEF ToSet, IsInjective

(* A queue with no element has no elements, and none twice. *)
LEMMA EmptyQueue == ToSet(<<>>) = {} /\ IsInjective(<<>>)
<1>1. DOMAIN <<>> = {}
  OBVIOUS
<1> QED
  BY <1>1 DEF ToSet, IsInjective

(* Joining at the back adds one element; a new one repeats nothing. *)
LEMMA JoinBack ==
  ASSUME NEW S, NEW s \in Seq(S), NEW e \in S
  PROVE  /\ Append(s, e) \in Seq(S)
         /\ ToSet(Append(s, e)) = ToSet(s) \cup {e}
         /\ IsInjective(s) /\ e \notin ToSet(s) => IsInjective(Append(s, e))
<1> DEFINE t == Append(s, e)
<1>1. /\ t \in Seq(S)
      /\ Len(t) = Len(s) + 1
      /\ \A i \in 1 .. Len(s) : t[i] = s[i]
      /\ t[Len(s) + 1] = e
      /\ Len(s) \in Nat
  BY AppendProperties, LenProperties
<1>2. ToSet(t) = {t[i] : i \in 1 .. Len(t)}
  BY <1>1, ToSetOfSeq
<1>3. ToSet(s) = {s[i] : i \in 1 .. Len(s)}
  BY ToSetOfSeq
<1>4. ToSet(t) = ToSet(s) \cup {e}
  BY <1>1, <1>2, <1>3
<1>5. ASSUME IsInjective(s), e \notin ToSet(s)
      PROVE  \A i, j \in 1 .. Len(t) : t[i] = t[j] => i = j
  <2>1. \A i, j \in 1 .. Len(s) : s[i] = s[j] => i = j
    BY <1>5, ToSetOfSeq
  <2> QED
    BY <1>1, <1>3, <1>5, <2>1
<1>6. IsInjective(s) /\ e \notin ToSet(s) => IsInjective(t)
  BY <1>1, <1>5, ToSetOfSeq
<1> QED
  BY <1>1, <1>4, <1>6

(* Leaving from the front removes exactly the first element. *)
LEMMA LeaveFront ==
  ASSUME NEW S, NEW s \in Seq(S), s # <<>>, IsInjective(s)
  PROVE  /\ Head(s) \in ToSet(s)
         /\ Tail(s) \in Seq(S)
         /\ ToSet(Tail(s)) = ToSet(s) \ {Head(s)}
         /\ IsInjective(Tail(s))
<1> DEFINE t == Tail(s)
<1>1. /\ t \in Seq(S)
      /\ Len(t) = Len(s) - 1
      /\ \A i \in 1 .. Len(t) : t[i] = s[i + 1]
      /\ Len(s) \in Nat \ {0}
      /\ Head(s) = s[1]
  BY HeadTailProperties, LenProperties, EmptySeq
<1> HIDE DEF t
<1>2. \A i, j \in 1 .. Len(s) : s[i] = s[j] => i = j
  BY ToSetOfSeq
<1>3. ToSet(s) = {s[i] : i \in 1 .. Len(s)}
  BY ToSetOfSeq
<1>4. ToSet(t) = {t[i] : i \in 1 .. Len(t)}
  BY <1>1, ToSetOfSeq
<1>5. Head(s) \in ToSet(s)
  BY <1>1, <1>3
<1>6. ToSet(t) \subseteq ToSet(s) \ {Head(s)}
  <2> SUFFICES ASSUME NEW i \in 1 .. Len(t)
               PROVE  t[i] \in ToSet(s) \ {Head(s)}
    BY <1>4
  <2>1. t[i] = s[i + 1] /\ i + 1 \in 1 .. Len(s) /\ i + 1 # 1
    BY <1>1
  <2> QED
    BY <2>1, <1>1, <1>2, <1>3
<1>7. ToSet(s) \ {Head(s)} \subseteq ToSet(t)
  <2> SUFFICES ASSUME NEW i \in 1 .. Len(s), s[i] # Head(s)
               PROVE  s[i] \in ToSet(t)
    BY <1>3
  <2>1. i - 1 \in 1 .. Len(t) /\ t[i - 1] = s[i]
    BY <1>1
  <2> QED
    BY <2>1, <1>4
<1>8. IsInjective(t)
  <2>1. \A i, j \in 1 .. Len(t) : t[i] = t[j] => i = j
    BY <1>1, <1>2
  <2> QED
    BY <1>1, <2>1, ToSetOfSeq
<1> QED
  BY <1>1, <1>5, <1>6, <1>7, <1>8 DEF t

(* Leaving from position n removes exactly the element there. *)
LEMMA LeaveMiddle ==
  ASSUME NEW S, NEW s \in Seq(S), NEW n \in 1 .. Len(s), IsInjective(s)
  PROVE  /\ RemoveAt(s, n) \in Seq(S)
         /\ ToSet(RemoveAt(s, n)) = ToSet(s) \ {s[n]}
         /\ IsInjective(RemoveAt(s, n))
<1> DEFINE a == SubSeq(s, 1, n - 1)
           b == SubSeq(s, n + 1, Len(s))
           t == a \o b
<1>0. Len(s) \in Nat /\ n \in Nat /\ n >= 1 /\ n <= Len(s)
  BY LenProperties
<1>1. RemoveAt(s, n) = t
  BY DEF RemoveAt
<1>2. \A i \in 1 .. Len(s) : s[i] \in S
  BY ElementOfSeq
<1>3. /\ a \in Seq(S)
      /\ Len(a) = n - 1
      /\ \A i \in 1 .. n - 1 : a[i] = s[i]
  BY <1>0, <1>2, SubSeqProperties
<1>4. /\ b \in Seq(S)
      /\ Len(b) = Len(s) - n
      /\ \A i \in 1 .. Len(s) - n : b[i] = s[n + i]
  <2>1. \A i \in n + 1 .. Len(s) : s[i] \in S
    BY <1>0, <1>2
  <2>2. n + 1 \in Int /\ Len(s) \in Int
    BY <1>0
  <2>3. /\ b \in Seq(S)
        /\ Len(b) = IF n + 1 <= Len(s) THEN Len(s) - (n + 1) + 1 ELSE 0
        /\ \A i \in 1 .. Len(s) - (n + 1) + 1 : b[i] = s[(n + 1) + i - 1]
    BY <2>1, <2>2, SubSeqProperties
  <2> QED
    BY <1>0, <2>3
<1>5. /\ t \in Seq(S)
      /\ Len(t) = Len(s) - 1
      /\ \A i \in 1 .. Len(s) - 1 : t[i] = s[IF i < n THEN i ELSE i + 1]
  <2>1. /\ t \in Seq(S)
        /\ Len(t) = Len(a) + Len(b)
        /\ \A i \in 1 .. Len(a) + Len(b) :
             t[i] = IF i <= Len(a) THEN a[i] ELSE b[i - Len(a)]
    BY <1>3, <1>4, ConcatProperties
  <2> HIDE DEF a, b, t
  <2>2. Len(t) = Len(s) - 1
    BY <1>0, <1>3, <1>4, <2>1
  <2>3. ASSUME NEW i \in 1 .. Len(s) - 1
        PROVE  t[i] = s[IF i < n THEN i ELSE i + 1]
    <3>1. CASE i < n
      BY <3>1, <1>0, <1>3, <1>4, <2>1
    <3>2. CASE ~(i < n)
      <4> DEFINE k == i - Len(a)
      <4>1. k \in 1 .. Len(s) - n /\ n + k = i + 1 /\ ~(i <= Len(a))
        BY <3>2, <1>0, <1>3
      <4>2. i \in 1 .. Len(a) + Len(b)
        BY <1>0, <1>3, <1>4
      <4>3. t[i] = b[k]
        BY <2>1, <4>1, <4>2
      <4> HIDE DEF k
      <4>4. b[k] = s[n + k]
        BY <1>4, <4>1
      <4> QED
        BY <3>2, <4>1, <4>3, <4>4
    <3> QED
      BY <3>1, <3>2
  <2> QED
    BY <2>1, <2>2, <2>3
<1> HIDE DEF a, b, t
<1>6. \A i, j \in 1 .. Len(s) : s[i] = s[j] => i = j
  BY ToSetOfSeq
<1>7. ToSet(s) = {s[i] : i \in 1 .. Len(s)}
  BY ToSetOfSeq
<1>8. ToSet(t) = {t[i] : i \in 1 .. Len(t)}
  BY <1>5, ToSetOfSeq
<1>9. ToSet(t) \subseteq ToSet(s) \ {s[n]}
  <2> SUFFICES ASSUME NEW i \in 1 .. Len(s) - 1
               PROVE  t[i] \in ToSet(s) \ {s[n]}
    BY <1>5, <1>8
  <2> DEFINE j == IF i < n THEN i ELSE i + 1
  <2>1. t[i] = s[j] /\ j \in 1 .. Len(s) /\ j # n
    BY <1>0, <1>5
  <2> QED
    BY <2>1, <1>0, <1>6, <1>7
<1>10. ToSet(s) \ {s[n]} \subseteq ToSet(t)
  <2> SUFFICES ASSUME NEW j \in 1 .. Len(s), j # n
               PROVE  s[j] \in ToSet(t)
    BY <1>7
  <2> DEFINE i == IF j < n THEN j ELSE j - 1
  <2>1. i \in 1 .. Len(s) - 1 /\ t[i] = s[j]
    BY <1>0, <1>5
  <2> QED
    BY <2>1, <1>5, <1>8
<1>11. IsInjective(t)
  <2>1. \A i, j \in 1 .. Len(t) : t[i] = t[j] => i = j
    <3> SUFFICES ASSUME NEW i \in 1 .. Len(s) - 1, NEW j \in 1 .. Len(s) - 1,
                        t[i] = t[j]
                 PROVE  i = j
      BY <1>5
    <3>1. s[IF i < n THEN i ELSE i + 1] = s[IF j < n THEN j ELSE j + 1]
      BY <1>5
    <3>2. (IF i < n THEN i ELSE i + 1) = (IF j < n THEN j ELSE j + 1)
      BY <3>1, <1>0, <1>6
    <3> QED
      BY <3>2, <1>0
  <2> QED
    BY <1>5, <2>1, ToSetOfSeq
<1> QED
  BY <1>1, <1>5, <1>9, <1>10, <1>11

(* A queue of one element has that element, once. *)
LEMMA OneElement ==
  ASSUME NEW S, NEW e \in S
  PROVE  <<e>> \in Seq(S) /\ ToSet(<<e>>) = {e} /\ IsInjective(<<e>>)
<1>1. <<e>> \in Seq(S)
  OBVIOUS
<1>2. DOMAIN <<e>> = {1} /\ <<e>>[1] = e
  OBVIOUS
<1>3. ToSet(<<e>>) = {e}
  BY <1>2 DEF ToSet
<1>4. IsInjective(<<e>>)
  BY <1>2 DEF IsInjective
<1> QED
  BY <1>1, <1>3, <1>4

(* One queue behind another has the elements of both, and repeats none if  *)
(* neither does and they share none.                                       *)
LEMMA Concatenation ==
  ASSUME NEW S, NEW s \in Seq(S), NEW t \in Seq(S)
  PROVE  /\ s \o t \in Seq(S)
         /\ ToSet(s \o t) = ToSet(s) \cup ToSet(t)
         /\ IsInjective(s) /\ IsInjective(t) /\ ToSet(s) \cap ToSet(t) = {}
              => IsInjective(s \o t)
<1> DEFINE m == Len(s)
           n == Len(t)
           u == s \o t
<1>1. /\ u \in Seq(S) /\ m \in Nat /\ n \in Nat
      /\ Len(u) = m + n
      /\ \A i \in 1 .. m + n : u[i] = IF i <= m THEN s[i] ELSE t[i - m]
  BY ConcatProperties, LenProperties
<1>2. /\ ToSet(s) = {s[i] : i \in 1 .. m}
      /\ ToSet(t) = {t[i] : i \in 1 .. n}
      /\ ToSet(u) = {u[i] : i \in 1 .. m + n}
  <2>1. ToSet(s) = {s[i] : i \in 1 .. m}
    BY ToSetOfSeq
  <2>2. ToSet(t) = {t[i] : i \in 1 .. n}
    BY ToSetOfSeq
  <2>3. u \in Seq(S) /\ Len(u) = m + n
    BY <1>1
  <2> HIDE DEF u
  <2>4. ToSet(u) = {u[i] : i \in 1 .. Len(u)}
    BY <2>3, ToSetOfSeq
  <2> QED
    BY <2>1, <2>2, <2>3, <2>4
<1> HIDE DEF m, n, u
<1>3. ToSet(u) \subseteq ToSet(s) \cup ToSet(t)
  <2> SUFFICES ASSUME NEW i \in 1 .. m + n
               PROVE  u[i] \in ToSet(s) \cup ToSet(t)
    BY <1>2
  <2>1. CASE i <= m
    BY <2>1, <1>1, <1>2
  <2>2. CASE ~(i <= m)
    <3>1. i - m \in 1 .. n /\ u[i] = t[i - m]
      BY <2>2, <1>1
    <3> QED
      BY <3>1, <1>2
  <2> QED
    BY <2>1, <2>2
<1>4. ToSet(s) \cup ToSet(t) \subseteq ToSet(u)
  <2>1. ASSUME NEW i \in 1 .. m PROVE s[i] \in ToSet(u)
    BY <1>1, <1>2
  <2>2. ASSUME NEW i \in 1 .. n PROVE t[i] \in ToSet(u)
    <3>1. m + i \in 1 .. m + n /\ ~(m + i <= m) /\ (m + i) - m = i
      BY <1>1
    <3>2. u[m + i] = t[i]
      BY <3>1, <1>1
    <3> QED
      BY <3>1, <3>2, <1>2
  <2> QED
    BY <2>1, <2>2, <1>2
<1>5. ASSUME IsInjective(s), IsInjective(t), ToSet(s) \cap ToSet(t) = {}
      PROVE  IsInjective(u)
  <2>1. /\ \A i, j \in 1 .. m : s[i] = s[j] => i = j
        /\ \A i, j \in 1 .. n : t[i] = t[j] => i = j
    BY <1>5, ToSetOfSeq DEF m, n
  <2>2. ASSUME NEW i \in 1 .. m + n, NEW j \in 1 .. m + n, u[i] = u[j]
        PROVE  i = j
    <3>1. CASE i <= m /\ j <= m
      BY <2>1, <2>2, <3>1, <1>1
    <3>2. CASE i <= m /\ ~(j <= m)
      <4>1. u[i] \in ToSet(s) /\ j - m \in 1 .. n /\ u[j] = t[j - m]
        BY <3>2, <1>1, <1>2
      <4> QED
        BY <4>1, <2>2, <1>2, <1>5
    <3>3. CASE ~(i <= m) /\ j <= m
      <4>1. u[j] \in ToSet(s) /\ i - m \in 1 .. n /\ u[i] = t[i - m]
        BY <3>3, <1>1, <1>2
      <4> QED
        BY <4>1, <2>2, <1>2, <1>5
    <3>4. CASE ~(i <= m) /\ ~(j <= m)
      <4>1. i - m \in 1 .. n /\ j - m \in 1 .. n /\ t[i - m] = t[j - m]
        BY <2>2, <3>4, <1>1
      <4>2. i - m = j - m
        BY <4>1, <2>1
      <4> QED
        BY <4>2, <1>1
    <3> QED
      BY <3>1, <3>2, <3>3, <3>4
  <2>3. \A i, j \in 1 .. Len(u) : u[i] = u[j] => i = j
    BY <2>2, <1>1
  <2> QED
    BY <1>1, <2>3, ToSetOfSeq
<1> QED
  BY <1>1, <1>3, <1>4, <1>5 DEF u

-----------------------------------------------------------------------------
(* A nonempty set of numbers has a least one. *)
LEMMA LeastNumber ==
  ASSUME NEW M \in SUBSET Nat, M # {}
  PROVE  \E x \in M : \A y \in M : x <= y
<1>1. PICK x \in M : \A y \in M : ~ (<<y, x>> \in OpToRel(<, Nat))
  BY NatLessThanWellFounded, WFMin
<1>2. \A y \in M : ~ (y < x)
  BY <1>1 DEF OpToRel
<1> QED
  BY <1>2

(* What a set holds of 0, and of n if of n - 1, it holds up to any bound. *)
LEMMA UpTo ==
  ASSUME NEW N \in Nat, NEW M, 0 \in M,
         \A n \in 1 .. N : n - 1 \in M => n \in M
  PROVE  0 .. N \subseteq M
<1> SUFFICES ASSUME NEW m \in 0 .. N, m \notin M
             PROVE  FALSE
  OBVIOUS
<1> DEFINE T == {n \in 0 .. N : n \notin M}
<1>1. T \in SUBSET Nat /\ T # {}
  OBVIOUS
<1> HIDE DEF T
<1>2. PICK x \in T : \A y \in T : x <= y
  BY <1>1, LeastNumber
<1>3. x \in 1 .. N /\ x \notin M /\ x - 1 \in 0 .. N /\ x - 1 \notin T
  BY <1>2 DEF T
<1> QED
  BY <1>3 DEF T

\* What f keeps after each of the N turns of a loop that starts with v.
IsLoop(f, N, v, turn) ==
  /\ f[0] = v
  /\ \A n \in 1 .. N : f[n] = turn[n][f[n - 1]]

(* A loop of N turns has a function from its turns to its values. *)
LEMMA LoopExists ==
  ASSUME NEW N \in Nat, NEW V, NEW v \in V, NEW turn \in [1 .. N -> [V -> V]]
  PROVE  \E f \in [0 .. N -> V] : IsLoop(f, N, v, turn)
<1> DEFINE Loop(f, n) == IsLoop(f, n, v, turn)
           M == {n \in 0 .. N : \E f \in [0 .. n -> V] : Loop(f, n)}
<1>1. 0 \in M
  <2> DEFINE f == [i \in 0 .. 0 |-> v]
  <2>1. f \in [0 .. 0 -> V] /\ Loop(f, 0)
    BY DEF IsLoop
  <2> HIDE DEF f, Loop
  <2> QED
    BY <2>1
<1>2. ASSUME NEW n \in 1 .. N, n - 1 \in M
      PROVE  n \in M
  <2>1. PICK f \in [0 .. n - 1 -> V] : Loop(f, n - 1)
    BY <1>2
  <2> DEFINE g == [i \in 0 .. n |-> IF i = n THEN turn[n][f[n - 1]] ELSE f[i]]
  <2>2. f[n - 1] \in V /\ turn[n][f[n - 1]] \in V
    BY <2>1 DEF IsLoop
  <2>3. g \in [0 .. n -> V] /\ g[0] = v
    BY <2>1, <2>2 DEF IsLoop
  <2>4. ASSUME NEW i \in 1 .. n
        PROVE  g[i] = turn[i][g[i - 1]]
    <3>1. CASE i = n
      BY <3>1
    <3>2. CASE i # n
      <4>1. i \in 1 .. n - 1 /\ g[i] = f[i] /\ g[i - 1] = f[i - 1]
        BY <3>2
      <4> QED
        BY <4>1, <2>1 DEF IsLoop
    <3> QED
      BY <3>1, <3>2
  <2>5. g \in [0 .. n -> V] /\ Loop(g, n)
    BY <2>3, <2>4 DEF IsLoop
  <2> HIDE DEF g, Loop
  <2> QED
    BY <2>5
<1> HIDE DEF M
<1>3. 0 .. N \subseteq M
  BY <1>1, <1>2, UpTo
<1>4. N \in M
  BY <1>3
<1> QED
  BY <1>4 DEF M

=============================================================================
