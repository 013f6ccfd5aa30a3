--------------------------- MODULE SchedulerProofs ---------------------------
(***************************************************************************)
(* Theorems about FairStreamScheduler, for any number of users, threads    *)
(* and streams and any limits of the queues: its accounting, its queues,   *)
(* its wake-ups, that it implements StreamAdmission, and (with FairShare)  *)
(* that nobody is passed twice by the same user.                           *)
(***************************************************************************)
EXTENDS FairShare, FiniteSetTheorems, SequenceTheorems, TLAPS

(* A nonempty queue has an oldest waiter and a rest that is a queue.       *)
LEMMA HeadAndTail ==
  ASSUME NEW S, NEW q \in Seq(S), q # <<>>
  PROVE  /\ Head(q) \in S
         /\ Head(q) = q[1]
         /\ Tail(q) \in Seq(S)
         /\ Len(q) \in Nat /\ Len(q) >= 1
         /\ Len(Tail(q)) = Len(q) - 1
         /\ \A i \in 1..Len(Tail(q)) : Tail(q)[i] = q[i + 1]
BY HeadTailProperties, EmptySeq, LenProperties

(* Cutting out position k keeps the others in order.                       *)
LEMMA RemoveAtProperties ==
  ASSUME NEW S, NEW q \in Seq(S), NEW k \in 1..Len(q)
  PROVE  /\ RemoveAt(q, k) \in Seq(S)
         /\ Len(RemoveAt(q, k)) = Len(q) - 1
         /\ \A i \in 1..(Len(q) - 1) :
              RemoveAt(q, k)[i] = IF i < k THEN q[i] ELSE q[i + 1]
<1>. DEFINE a == SubSeq(q, 1, k - 1)
            b == SubSeq(q, k + 1, Len(q))
<1>1. Len(q) \in Nat /\ \A i \in 1..Len(q) : q[i] \in S
  BY LenProperties, ElementOfSeq
<1>2. /\ a \in Seq(S)
      /\ Len(a) = k - 1
      /\ \A i \in 1..(k - 1) : a[i] = q[i]
  <2>1. 1 \in Int /\ k - 1 \in Int /\ \A i \in 1..(k - 1) : q[i] \in S
    BY <1>1
  <2> QED BY <1>1, <2>1, SubSeqProperties
<1>3. /\ b \in Seq(S)
      /\ Len(b) = Len(q) - k
      /\ \A i \in 1..(Len(q) - k) : b[i] = q[k + i]
  <2>1. k + 1 \in Int /\ Len(q) \in Int /\ \A i \in (k + 1)..Len(q) : q[i] \in S
    BY <1>1
  <2>2. /\ b \in Seq(S)
        /\ Len(b) = IF k + 1 <= Len(q) THEN Len(q) - (k + 1) + 1 ELSE 0
        /\ \A i \in 1..(Len(q) - (k + 1) + 1) : b[i] = q[(k + 1) + i - 1]
    BY <2>1, SubSeqProperties
  <2> QED BY <1>1, <2>2
<1>. HIDE DEF a, b
<1>4. /\ a \o b \in Seq(S)
      /\ Len(a \o b) = Len(a) + Len(b)
      /\ \A i \in 1..(Len(a) + Len(b)) :
           (a \o b)[i] = IF i <= Len(a) THEN a[i] ELSE b[i - Len(a)]
  BY <1>2, <1>3, ConcatProperties
<1>5. RemoveAt(q, k) = a \o b
  BY DEF RemoveAt, a, b
<1>6. ASSUME NEW i \in 1..(Len(q) - 1)
      PROVE  (a \o b)[i] = IF i < k THEN q[i] ELSE q[i + 1]
  <2>1. (a \o b)[i] = IF i <= k - 1 THEN a[i] ELSE b[i - (k - 1)]
    BY <1>1, <1>2, <1>3, <1>4
  <2>2. CASE i < k
    BY <1>1, <1>2, <2>1, <2>2
  <2>3. CASE ~(i < k)
    <3>1. i - (k - 1) \in 1..(Len(q) - k) /\ k + (i - (k - 1)) = i + 1
      BY <1>1, <2>3
    <3>2. (a \o b)[i] = b[i - (k - 1)] /\ b[i - (k - 1)] = q[k + (i - (k - 1))]
      <4>1. ~(i <= k - 1)
        BY <1>1, <2>3
      <4> QED BY <1>3, <2>1, <3>1, <4>1
    <3> QED BY <2>3, <3>1, <3>2
  <2> QED BY <2>2, <2>3
<1>7. a \o b \in Seq(S) /\ Len(a \o b) = Len(q) - 1
  <2>1. (k - 1) + (Len(q) - k) = Len(q) - 1
    BY <1>1
  <2> QED BY <1>2, <1>3, <1>4, <2>1
<1> QED
  BY <1>5, <1>6, <1>7

(* The elements of a sequence and its positions.                           *)
LEMMA Elements ==
  ASSUME NEW S, NEW q \in Seq(S)
  PROVE  /\ Len(q) \in Nat
         /\ DOMAIN q = 1..Len(q)
         /\ ToSet(q) \subseteq S
         /\ \A x : x \in ToSet(q) <=> \E i \in 1..Len(q) : q[i] = x
         /\ IsInjective(q) <=> \A i, j \in 1..Len(q) : q[i] = q[j] => i = j
<1>1. Len(q) \in Nat /\ DOMAIN q = 1..Len(q) /\ \A i \in 1..Len(q) : q[i] \in S
  BY LenProperties, ElementOfSeq
<1> QED BY <1>1 DEF ToSet, IsInjective

(* The empty sequence has no elements, and only it has none.               *)
LEMMA NoElements ==
  ASSUME NEW S, NEW q \in Seq(S)
  PROVE  q = <<>> <=> ToSet(q) = {}
<1>1. CASE q = <<>>
  BY <1>1 DEF ToSet
<1>2. CASE q # <<>>
  <2>1. q[1] \in ToSet(q)
    BY <1>2, HeadAndTail, Elements
  <2> QED BY <1>2, <2>1
<1> QED BY <1>1, <1>2

(* Taking the head away.                                                   *)
LEMMA TailElements ==
  ASSUME NEW S, NEW q \in Seq(S), q # <<>>, IsInjective(q)
  PROVE  /\ Head(q) \in ToSet(q)
         /\ ToSet(Tail(q)) = ToSet(q) \ {Head(q)}
         /\ IsInjective(Tail(q))
<1>1. /\ Head(q) = q[1] /\ Tail(q) \in Seq(S)
      /\ Len(q) \in Nat /\ Len(q) >= 1 /\ Len(Tail(q)) = Len(q) - 1
      /\ \A i \in 1..Len(Tail(q)) : Tail(q)[i] = q[i + 1]
  BY HeadAndTail
<1>2. /\ \A x : x \in ToSet(q) <=> \E i \in 1..Len(q) : q[i] = x
      /\ \A i, j \in 1..Len(q) : q[i] = q[j] => i = j
  BY Elements
<1>3. \A x : x \in ToSet(Tail(q)) <=> \E i \in 1..(Len(q) - 1) : q[i + 1] = x
  <2>1. \A x : x \in ToSet(Tail(q)) <=> \E i \in 1..Len(Tail(q)) : Tail(q)[i] = x
    BY <1>1, Elements
  <2> QED BY <1>1, <2>1
<1>4. \A x : x \in ToSet(Tail(q)) <=> x \in ToSet(q) /\ x # Head(q)
  <2>1. ASSUME NEW x, x \in ToSet(Tail(q)) PROVE x \in ToSet(q) /\ x # Head(q)
    BY <1>1, <1>2, <1>3, <2>1
  <2>2. ASSUME NEW x, x \in ToSet(q), x # Head(q) PROVE x \in ToSet(Tail(q))
    <3>1. PICK i \in 1..Len(q) : q[i] = x
      BY <1>2, <2>2
    <3>2. i - 1 \in 1..(Len(q) - 1) /\ (i - 1) + 1 = i
      BY <1>1, <2>2, <3>1
    <3> QED BY <1>3, <3>1, <3>2
  <2> QED BY <2>1, <2>2
<1>5. IsInjective(Tail(q))
  <2>1. ASSUME NEW i \in 1..Len(Tail(q)), NEW j \in 1..Len(Tail(q)),
               Tail(q)[i] = Tail(q)[j]
        PROVE  i = j
    <3>1. i + 1 \in 1..Len(q) /\ j + 1 \in 1..Len(q) /\ q[i + 1] = q[j + 1]
      BY <1>1, <2>1
    <3> QED BY <1>1, <1>2, <3>1
  <2> QED BY <1>1, <2>1, Elements
<1> QED BY <1>1, <1>2, <1>4, <1>5

(* Appending a new element.                                                *)
LEMMA AppendElements ==
  ASSUME NEW S, NEW q \in Seq(S), NEW x \in S
  PROVE  /\ Append(q, x) \in Seq(S)
         /\ Append(q, x) # <<>>
         /\ ToSet(Append(q, x)) = ToSet(q) \cup {x}
         /\ IsInjective(q) /\ x \notin ToSet(q) => IsInjective(Append(q, x))
<1>1. /\ Append(q, x) \in Seq(S) /\ Append(q, x) # <<>>
      /\ Len(q) \in Nat
      /\ Len(Append(q, x)) = Len(q) + 1
      /\ \A i \in 1..Len(q) : Append(q, x)[i] = q[i]
      /\ Append(q, x)[Len(q) + 1] = x
  BY AppendProperties, LenProperties
<1>2. /\ \A y : y \in ToSet(q) <=> \E i \in 1..Len(q) : q[i] = y
      /\ \A y : y \in ToSet(Append(q, x)) <=>
               \E i \in 1..(Len(q) + 1) : Append(q, x)[i] = y
  <2>1. \A y : y \in ToSet(Append(q, x)) <=>
               \E i \in 1..Len(Append(q, x)) : Append(q, x)[i] = y
    BY <1>1, Elements
  <2> QED BY <1>1, <2>1, Elements
<1>3. ToSet(Append(q, x)) = ToSet(q) \cup {x}
  BY <1>1, <1>2
<1>4. ASSUME IsInjective(q), x \notin ToSet(q) PROVE IsInjective(Append(q, x))
  <2>1. \A i, j \in 1..Len(q) : q[i] = q[j] => i = j
    BY <1>4, Elements
  <2>. DEFINE r == Append(q, x)
  <2>2. ASSUME NEW i \in 1..(Len(q) + 1), NEW j \in 1..(Len(q) + 1), r[i] = r[j]
        PROVE  i = j
    <3>1. \A n \in 1..(Len(q) + 1) :
            \/ n \in 1..Len(q) /\ r[n] = q[n]
            \/ n = Len(q) + 1 /\ r[n] = x
      <4>1. \A n \in 1..(Len(q) + 1) : n \in 1..Len(q) \/ n = Len(q) + 1
        BY <1>1
      <4> QED BY <1>1, <4>1
    <3>2. \A n \in 1..Len(q) : q[n] # x
      BY <1>2, <1>4
    <3> QED BY <2>1, <2>2, <3>1, <3>2
  <2> QED BY <1>1, <2>2, Elements
<1> QED BY <1>1, <1>3, <1>4

(* Cutting out a position of a sequence without repetitions.               *)
LEMMA RemoveAtElements ==
  ASSUME NEW S, NEW q \in Seq(S), NEW k \in 1..Len(q), IsInjective(q)
  PROVE  /\ ToSet(RemoveAt(q, k)) = ToSet(q) \ {q[k]}
         /\ IsInjective(RemoveAt(q, k))
<1>. DEFINE r == RemoveAt(q, k)
<1>1. /\ r \in Seq(S) /\ Len(q) \in Nat /\ Len(r) = Len(q) - 1
      /\ \A i \in 1..(Len(q) - 1) : r[i] = IF i < k THEN q[i] ELSE q[i + 1]
  BY RemoveAtProperties, LenProperties
<1>. HIDE DEF r
<1>2. /\ \A x : x \in ToSet(q) <=> \E i \in 1..Len(q) : q[i] = x
      /\ \A i, j \in 1..Len(q) : q[i] = q[j] => i = j
  BY Elements
<1>3. \A x : x \in ToSet(r) <=> \E i \in 1..(Len(q) - 1) : r[i] = x
  BY <1>1, Elements
<1>4. ASSUME NEW x, x \in ToSet(r) PROVE x \in ToSet(q) /\ x # q[k]
  <2>1. PICK i \in 1..(Len(q) - 1) : r[i] = x
    BY <1>3, <1>4
  <2>2. CASE i < k
    BY <1>1, <1>2, <2>1, <2>2
  <2>3. CASE ~(i < k)
    <3>1. i + 1 \in 1..Len(q) /\ i + 1 # k /\ x = q[i + 1]
      BY <1>1, <2>1, <2>3
    <3> QED BY <1>2, <3>1
  <2> QED BY <2>2, <2>3
<1>5. ASSUME NEW x, x \in ToSet(q), x # q[k] PROVE x \in ToSet(r)
  <2>1. PICK i \in 1..Len(q) : q[i] = x
    BY <1>2, <1>5
  <2>2. CASE i < k
    <3>1. i \in 1..(Len(q) - 1) /\ r[i] = x
      BY <1>1, <2>1, <2>2
    <3> QED BY <1>3, <3>1
  <2>3. CASE i > k
    <3>1. i - 1 \in 1..(Len(q) - 1) /\ ~(i - 1 < k) /\ (i - 1) + 1 = i
      BY <1>1, <2>1, <2>3
    <3>2. r[i - 1] = x
      BY <1>1, <2>1, <3>1
    <3> QED BY <1>3, <3>1, <3>2
  <2> QED BY <1>5, <2>1, <2>2, <2>3
<1>6. IsInjective(r)
  <2>1. ASSUME NEW i \in 1..Len(r), NEW j \in 1..Len(r), r[i] = r[j], i < j
        PROVE  FALSE
    <3>1. i \in 1..(Len(q) - 1) /\ j \in 1..(Len(q) - 1)
      BY <1>1
    <3>2. \A n \in 1..(Len(q) - 1) :
            \E m \in 1..Len(q) : r[n] = q[m] /\ m = (IF n < k THEN n ELSE n + 1)
      BY <1>1
    <3> QED BY <1>1, <1>2, <2>1, <3>1, <3>2
  <2>2. \A i, j \in 1..Len(r) : r[i] = r[j] => i = j
    BY <1>1, <2>1
  <2> QED BY <1>1, <2>2, Elements
<1> QED BY <1>4, <1>5, <1>6 DEF r
-----------------------------------------------------------------------------

(* Without cuts out a position that holds x, or changes nothing.           *)
LEMMA WithoutCases ==
  ASSUME NEW S, NEW q \in Seq(S), NEW x
  PROVE  \/ \E k \in 1..Len(q) : q[k] = x /\ Without(q, x) = RemoveAt(q, k)
         \/ (\A i \in 1..Len(q) : q[i] # x) /\ Without(q, x) = q
<1>1. DOMAIN q = 1..Len(q)
  BY LenProperties
<1>2. CASE \E i \in DOMAIN q : q[i] = x
  <2>1. (CHOOSE i \in DOMAIN q : q[i] = x) \in {i \in DOMAIN q : q[i] = x}
    BY <1>2
  <2> QED BY <1>1, <1>2, <2>1 DEF Without
<1>3. CASE ~\E i \in DOMAIN q : q[i] = x
  BY <1>1, <1>3 DEF Without
<1> QED BY <1>2, <1>3

LEMMA WithoutIsSeq ==
  ASSUME NEW S, NEW q \in Seq(S), NEW x
  PROVE  Without(q, x) \in Seq(S)
<1>1. CASE \E k \in 1..Len(q) : q[k] = x /\ Without(q, x) = RemoveAt(q, k)
  <2>1. PICK k \in 1..Len(q) : Without(q, x) = RemoveAt(q, k)
    BY <1>1
  <2> QED BY <2>1, RemoveAtProperties
<1> QED BY <1>1, WithoutCases
-----------------------------------------------------------------------------
(* Type correctness.  That Head(rotation) exists when _next_user_locked    *)
(* pops it depends on the bound of its loop, so the two go together.       *)

TypeInv == TypeOK /\ scan <= Len(rotation)

(* While the scan runs there is a user at the front.                       *)
LEMMA FrontExists ==
  ASSUME TypeInv, Scanning
  PROVE  /\ rotation # <<>>
         /\ Head(rotation) \in Users
         /\ Head(rotation) = rotation[1]
         /\ queues[Head(rotation)] \in Seq(Threads)
<1>1. rotation # <<>>
  BY EmptySeq DEF TypeInv, TypeOK, Scanning
<1> QED BY <1>1, HeadAndTail DEF TypeInv, TypeOK

(* What Rotated does with the front user.                                  *)
LEMMA RotatedProperties ==
  ASSUME TypeOK, rotation # <<>>, NEW w
  PROVE  /\ Len(rotation) \in Nat \ {0}
         /\ Rotated(Head(rotation), w) \in Seq(Users)
         /\ Len(Rotated(Head(rotation), w)) =
              IF w = <<>> THEN Len(rotation) - 1 ELSE Len(rotation)
         /\ \A i \in 1..(Len(rotation) - 1) :
              Rotated(Head(rotation), w)[i] = rotation[i + 1]
         /\ w # <<>> =>
              Rotated(Head(rotation), w)[Len(rotation)] = Head(rotation)
<1>1. /\ Head(rotation) \in Users
      /\ Tail(rotation) \in Seq(Users)
      /\ Len(rotation) \in Nat \ {0}
      /\ Len(Tail(rotation)) = Len(rotation) - 1
      /\ \A i \in 1..(Len(rotation) - 1) : Tail(rotation)[i] = rotation[i + 1]
  <2>1. rotation \in Seq(Users)
    BY DEF TypeOK
  <2> QED BY <2>1, HeadAndTail
<1>. DEFINE back == Append(Tail(rotation), Head(rotation))
<1>2. /\ back \in Seq(Users)
      /\ Len(back) = Len(rotation)
      /\ \A i \in 1..(Len(rotation) - 1) : back[i] = rotation[i + 1]
      /\ back[Len(rotation)] = Head(rotation)
  <2>1. /\ back \in Seq(Users)
        /\ Len(back) = Len(Tail(rotation)) + 1
        /\ \A i \in 1..Len(Tail(rotation)) : back[i] = Tail(rotation)[i]
        /\ back[Len(Tail(rotation)) + 1] = Head(rotation)
    BY <1>1, AppendProperties
  <2> QED BY <1>1, <2>1
<1>3. CASE w = <<>>
  BY <1>1, <1>3 DEF Rotated
<1>4. CASE w # <<>>
  BY <1>1, <1>2, <1>4 DEF Rotated
<1> QED BY <1>3, <1>4

LEMMA TypeInit == Init => TypeInv
<1> SUFFICES ASSUME Init PROVE TypeInv
  OBVIOUS
<1>1. queues \in [Users -> Seq(Threads)] /\ rotation \in Seq(Users) /\ Len(rotation) = 0
  BY EmptySeq DEF Init
<1>2. changed \in BOOLEAN
  BY DEF Init
<1>3. /\ active \in [Users -> Nat] /\ activeTotal \in Int /\ scan \in Nat
      /\ granted \in SUBSET Threads /\ borrowed \in SUBSET Threads
      /\ notified \in SUBSET Threads /\ expired \in SUBSET Threads
      /\ pc \in [Threads -> Places] /\ scan <= 0
  BY DEF Init, Places
<1> QED BY <1>1, <1>2, <1>3 DEF TypeInv, TypeOK

LEMMA TypeStep == TypeInv /\ [Next]_vars => TypeInv'
<1> SUFFICES ASSUME TypeInv, [Next]_vars PROVE TypeInv'
  OBVIOUS
<1>. USE ThreadsAssumption DEF TypeInv, TypeOK, Places, Scheduling
<1>n. /\ NotifyAll => notified' \in SUBSET Threads
      /\ NotifyIfChanged => notified' \in SUBSET Threads
  BY DEF NotifyAll, NotifyIfChanged, Sleeping
<1>s. ASSUME StartSchedule, rotation' \in Seq(Users)
      PROVE  scan' \in Nat /\ scan' <= Len(rotation') /\ changed' \in BOOLEAN
  <2>1. Len(rotation') \in Nat
    BY <1>s, LenProperties
  <2>2. changed' \in BOOLEAN
    BY <1>s DEF StartSchedule
  <2> QED BY <1>s, <2>1, <2>2 DEF StartSchedule
<1>1. ASSUME NEW t \in Threads, Grant(t) PROVE TypeInv'
  <2>. DEFINE u == Head(rotation)
  <2>1. /\ rotation # <<>> /\ u \in Users /\ queues[u] \in Seq(Threads)
        /\ queues[u] # <<>>
    BY <1>1, FrontExists DEF Grant, FrontIsNext
  <2>2. Head(queues[u]) \in Threads /\ Tail(queues[u]) \in Seq(Threads)
    BY <2>1, HeadAndTail
  <2>3. rotation' \in Seq(Users) /\ scan' = Len(rotation') /\ scan' \in Nat
    BY <1>1, <2>1, RotatedProperties, LenProperties DEF Grant
  <2>4. changed' \in BOOLEAN
    BY <1>1 DEF Grant
  <2>5. queues' \in [Users -> Seq(Threads)]
    BY <1>1, <2>1, <2>2 DEF Grant
  <2>6. /\ active' \in [Users -> Nat] /\ activeTotal' \in Int
        /\ granted' \in SUBSET Threads /\ borrowed' \in SUBSET Threads
    BY <1>1, <2>1, <2>2 DEF Grant
  <2>7. /\ pc' \in [Threads -> Places] /\ notified' \in SUBSET Threads
        /\ expired' \in SUBSET Threads
    BY <1>1 DEF Grant
  <2>8. scan' <= Len(rotation')
    BY <2>3
  <2>. HIDE DEF TypeInv, TypeOK
  <2>9. TypeOK'
    BY <2>3, <2>4, <2>5, <2>6, <2>7 DEF TypeOK
  <2> QED BY <2>8, <2>9 DEF TypeInv
<1>2. ASSUME NEW t \in Threads, Rotate(t) PROVE TypeInv'
  <2>1. rotation # <<>>
    BY <1>2, FrontExists DEF Rotate
  <2>2. /\ rotation' \in Seq(Users)
        /\ Len(rotation) \in Nat
        /\ Len(rotation') >= Len(rotation) - 1
    BY <1>2, <2>1, RotatedProperties DEF Rotate
  <2>3. scan' \in Nat /\ scan' <= Len(rotation) - 1
    BY <1>2, <2>2 DEF Rotate, Scanning
  <2>4. changed' \in BOOLEAN
    BY <1>2 DEF Rotate
  <2>5. /\ queues' \in [Users -> Seq(Threads)] /\ active' \in [Users -> Nat]
        /\ activeTotal' \in Int /\ pc' \in [Threads -> Places]
        /\ granted' \in SUBSET Threads /\ borrowed' \in SUBSET Threads
        /\ notified' \in SUBSET Threads /\ expired' \in SUBSET Threads
    BY <1>2 DEF Rotate
  <2>6. Len(rotation') \in Nat /\ scan' <= Len(rotation')
    BY <2>2, <2>3, LenProperties
  <2>. HIDE DEF TypeInv, TypeOK
  <2>7. TypeOK'
    BY <2>2, <2>3, <2>4, <2>5 DEF TypeOK
  <2> QED BY <2>6, <2>7 DEF TypeInv
<1>3. ASSUME NEW t \in Threads, Acquire(t) PROVE TypeInv'
  <2>1. UserOf[t] \in Users /\ queues[UserOf[t]] \in Seq(Threads)
    OBVIOUS
  <2>2. queues' \in [Users -> Seq(Threads)]
    BY <1>3, <2>1, AppendProperties DEF Acquire
  <2>3. rotation' \in Seq(Users)
    BY <1>3, <2>1, AppendProperties DEF Acquire, Joined
  <2> QED BY <1>3, <1>s, <2>2, <2>3 DEF Acquire
<1>4. ASSUME NEW t \in Threads, GiveUp(t) PROVE TypeInv'
  <2>1. UserOf[t] \in Users /\ queues[UserOf[t]] \in Seq(Threads)
    OBVIOUS
  <2>2. queues' \in [Users -> Seq(Threads)]
    <3>1. Without(queues[UserOf[t]], t) \in Seq(Threads)
      BY <2>1, WithoutIsSeq
    <3> QED BY <1>4, <2>1, <3>1 DEF GiveUp
  <2>3. rotation' \in Seq(Users)
    <3>1. Without(rotation, UserOf[t]) \in Seq(Users)
      BY WithoutIsSeq
    <3> QED BY <1>4, <3>1 DEF GiveUp
  <2> QED BY <1>4, <1>n, <1>s, <2>2, <2>3 DEF GiveUp
<1>5. ASSUME NEW t \in Threads, Wake(t) \/ Release(t) PROVE TypeInv'
  <2>1. CASE Wake(t)
    BY <2>1, <1>s DEF Wake
  <2>2. CASE Release(t)
    <3>1. UserOf[t] \in Users /\ active' \in [Users -> Nat] /\ activeTotal' \in Int
      BY <2>2 DEF Release, HolderIsCounted
    <3>2. rotation' \in Seq(Users)
      BY <2>2 DEF Release
    <3> QED BY <2>2, <1>s, <3>1, <3>2 DEF Release
  <2> QED BY <1>5, <2>1, <2>2
<1>6. ASSUME NEW t \in Threads,
             ReturnLease(t) \/ Sleep(t) \/ RaiseTimeout(t) \/ ReturnRelease(t)
      PROVE  TypeInv'
  BY <1>6, <1>n DEF ReturnLease, Sleep, RaiseTimeout, ReturnRelease
<1>7. ASSUME NEW t \in Threads, Expire(t) PROVE TypeInv'
  BY <1>7 DEF Expire
<1>8. CASE UNCHANGED vars
  BY <1>8 DEF vars
<1> QED
  BY <1>1, <1>2, <1>3, <1>4, <1>5, <1>6, <1>7, <1>8 DEF Next, Locked

-----------------------------------------------------------------------------
(* The queues hold the unserved requests, each once.                       *)

QueueInv ==
  /\ QueuedIffUnserved
  /\ \A t \in granted : pc[t] \in {"acquiring", "waiting", "holding"}
  /\ \A t \in Threads : pc[t] = "holding" => t \in granted

(* A step that moves threads without touching queues and leases.           *)
LEMMA QueueFrame ==
  ASSUME TypeInv, QueueInv, queues' = queues, granted' = granted,
         \A t \in Threads : \/ pc'[t] = pc[t]
                            \/ /\ pc[t] \in {"acquiring", "waiting"}
                               /\ pc'[t] \in {"acquiring", "waiting"}
                            \/ t \in granted /\ pc'[t] = "holding"
                            \/ pc[t] \in {"givingUp", "releasing"} /\ pc'[t] = "idle"
  PROVE  QueueInv'
BY DEF QueueInv, QueuedIffUnserved, Queued, TypeInv, TypeOK

(* Serving the oldest waiter w of u.                                       *)
LEMMA GrantFacts ==
  ASSUME TypeInv, QueueInv, NEW t \in Threads, Grant(t)
  PROVE  LET u == Head(rotation)
             w == Head(queues[u])
         IN  /\ rotation # <<>> /\ u \in Users /\ queues[u] \in Seq(Threads)
             /\ w \in Threads /\ UserOf[w] = u
             /\ Queued(w) /\ w \notin granted
             /\ pc[w] \in {"acquiring", "waiting"}
             /\ queues' = [queues EXCEPT ![u] = Tail(queues[u])]
             /\ Tail(queues[u]) \in Seq(Threads)
             /\ ToSet(Tail(queues[u])) = ToSet(queues[u]) \ {w}
             /\ IsInjective(Tail(queues[u]))
             /\ granted' = granted \cup {w}
<1>. DEFINE u == Head(rotation)
            w == Head(queues[u])
<1>1. /\ rotation # <<>> /\ u \in Users /\ queues[u] \in Seq(Threads)
      /\ queues[u] # <<>>
  BY FrontExists DEF Grant, FrontIsNext
<1>2. IsInjective(queues[u]) /\ ToSet(queues[u]) \subseteq ThreadsOf(u)
  BY <1>1 DEF QueueInv, QueuedIffUnserved
<1>3. /\ w \in ToSet(queues[u])
      /\ Tail(queues[u]) \in Seq(Threads)
      /\ ToSet(Tail(queues[u])) = ToSet(queues[u]) \ {w}
      /\ IsInjective(Tail(queues[u]))
  BY <1>1, <1>2, HeadAndTail, TailElements
<1>4. w \in Threads /\ UserOf[w] = u /\ Queued(w)
  BY <1>2, <1>3 DEF ThreadsOf, Queued
<1>5. w \notin granted /\ pc[w] \in {"acquiring", "waiting"}
  BY <1>4 DEF QueueInv, QueuedIffUnserved
<1>6. /\ queues' = [queues EXCEPT ![u] = Tail(queues[u])]
      /\ granted' = granted \cup {w}
  BY <1>1 DEF Grant, TypeInv, TypeOK
<1> QED BY <1>1, <1>3, <1>4, <1>5, <1>6

(* Taking the waiter that gives up out of its queue.                       *)
LEMMA GiveUpFacts ==
  ASSUME TypeInv, QueueInv, NEW t \in Threads, GiveUp(t)
  PROVE  LET u == UserOf[t]
             rest == Without(queues[u], t)
         IN  /\ u \in Users /\ queues[u] \in Seq(Threads)
             /\ Queued(t) /\ t \notin granted
             /\ queues' = [queues EXCEPT ![u] = rest]
             /\ rest \in Seq(Threads)
             /\ ToSet(rest) = ToSet(queues[u]) \ {t}
             /\ IsInjective(rest)
<1>. DEFINE u == UserOf[t]
            rest == Without(queues[u], t)
<1>1. u \in Users /\ queues[u] \in Seq(Threads)
  BY ThreadsAssumption DEF TypeInv, TypeOK
<1>2. /\ pc[t] = "acquiring" /\ t \notin granted
      /\ queues' = [queues EXCEPT ![u] = rest]
  BY DEF GiveUp, MustGiveUp
<1>3. Queued(t) /\ IsInjective(queues[u])
  BY <1>1, <1>2 DEF QueueInv, QueuedIffUnserved
<1>4. \E k \in 1..Len(queues[u]) : queues[u][k] = t
  BY <1>1, <1>3, Elements DEF Queued
<1>5. PICK k \in 1..Len(queues[u]) : queues[u][k] = t /\ rest = RemoveAt(queues[u], k)
  BY <1>1, <1>4, WithoutCases
<1>6. /\ rest \in Seq(Threads)
      /\ ToSet(rest) = ToSet(queues[u]) \ {t}
      /\ IsInjective(rest)
  BY <1>1, <1>3, <1>5, RemoveAtProperties, RemoveAtElements
<1> QED BY <1>1, <1>2, <1>3, <1>6

LEMMA QueueStep == TypeInv /\ QueueInv /\ [Next]_vars => QueueInv'
<1> SUFFICES ASSUME TypeInv, QueueInv, [Next]_vars PROVE QueueInv'
  OBVIOUS
<1>1. ASSUME NEW t \in Threads, Grant(t) PROVE QueueInv'
  <2>. DEFINE u == Head(rotation)
              w == Head(queues[u])
  <2>1. /\ u \in Users /\ w \in Threads /\ UserOf[w] = u
        /\ Queued(w) /\ w \notin granted /\ pc[w] \in {"acquiring", "waiting"}
        /\ queues' = [queues EXCEPT ![u] = Tail(queues[u])]
        /\ ToSet(Tail(queues[u])) = ToSet(queues[u]) \ {w}
        /\ IsInjective(Tail(queues[u]))
        /\ granted' = granted \cup {w}
    BY <1>1, GrantFacts
  <2>2. pc' = pc
    BY <1>1 DEF Grant
  <2>. HIDE DEF u, w
  <2>3. \A v \in Users : /\ IsInjective(queues'[v])
                         /\ ToSet(queues'[v]) = ToSet(queues[v]) \ {w}
    BY <2>1 DEF QueueInv, QueuedIffUnserved, ThreadsOf, TypeInv, TypeOK
  <2>4. \A s \in Threads : Queued(s)' <=> Queued(s) /\ s # w
    BY <2>3, ThreadsAssumption DEF Queued
  <2> QED BY <2>1, <2>2, <2>3, <2>4 DEF QueueInv, QueuedIffUnserved
<1>2. ASSUME NEW t \in Threads, Acquire(t) PROVE QueueInv'
  <2>. DEFINE u == UserOf[t]
  <2>1. u \in Users /\ queues[u] \in Seq(Threads) /\ pc[t] = "idle"
    BY <1>2, ThreadsAssumption DEF Acquire, TypeInv, TypeOK
  <2>2. ~Queued(t) /\ t \notin granted
    BY <2>1 DEF QueueInv, QueuedIffUnserved
  <2>3. IsInjective(queues[u]) /\ ToSet(queues[u]) \subseteq ThreadsOf(u)
    BY <2>1 DEF QueueInv, QueuedIffUnserved
  <2>4. /\ ToSet(Append(queues[u], t)) = ToSet(queues[u]) \cup {t}
        /\ IsInjective(Append(queues[u], t))
    BY <2>1, <2>2, <2>3, AppendElements DEF Queued
  <2>5. /\ queues' = [queues EXCEPT ![u] = Append(queues[u], t)]
        /\ pc' = [pc EXCEPT ![t] = "acquiring"]
        /\ granted' = granted
    BY <1>2 DEF Acquire
  <2>6. \A v \in Users :
          /\ IsInjective(queues'[v])
          /\ ToSet(queues'[v]) = IF v = u THEN ToSet(queues[v]) \cup {t} ELSE ToSet(queues[v])
    BY <2>1, <2>4, <2>5 DEF QueueInv, QueuedIffUnserved, TypeInv, TypeOK
  <2>7. \A s \in Threads : Queued(s)' <=> Queued(s) \/ s = t
    BY <2>6, ThreadsAssumption DEF Queued
  <2>8. \A v \in Users : ToSet(queues'[v]) \subseteq ThreadsOf(v)
    <3>1. t \in ThreadsOf(u)
      BY DEF ThreadsOf
    <3>2. \A v \in Users : ToSet(queues[v]) \subseteq ThreadsOf(v)
      BY DEF QueueInv, QueuedIffUnserved
    <3>3. ToSet(queues'[u]) = ToSet(queues[u]) \cup {t}
      BY <2>1, <2>6
    <3>4. \A v \in Users \ {u} : ToSet(queues'[v]) = ToSet(queues[v])
      BY <2>6
    <3>. HIDE DEF u
    <3> QED BY <3>1, <3>2, <3>3, <3>4
  <2>9. \A s \in Threads : pc'[s] = IF s = t THEN "acquiring" ELSE pc[s]
    BY <2>5 DEF TypeInv, TypeOK
  <2> QED BY <2>1, <2>2, <2>5, <2>6, <2>7, <2>8, <2>9 DEF QueueInv, QueuedIffUnserved, TypeInv, TypeOK
<1>3. ASSUME NEW t \in Threads, GiveUp(t) PROVE QueueInv'
  <2>. DEFINE u == UserOf[t]
              rest == Without(queues[u], t)
  <2>1. /\ u \in Users /\ t \notin granted
        /\ queues' = [queues EXCEPT ![u] = rest]
        /\ ToSet(rest) = ToSet(queues[u]) \ {t}
        /\ IsInjective(rest)
    BY <1>3, GiveUpFacts
  <2>. HIDE DEF rest
  <2>2. pc' = [pc EXCEPT ![t] = "givingUp"] /\ granted' = granted
    BY <1>3 DEF GiveUp
  <2>3. \A v \in Users :
          /\ IsInjective(queues'[v])
          /\ ToSet(queues'[v]) = ToSet(queues[v]) \ {t}
    BY <2>1 DEF QueueInv, QueuedIffUnserved, ThreadsOf, TypeInv, TypeOK
  <2>4. \A s \in Threads : Queued(s)' <=> Queued(s) /\ s # t
    BY <2>3, ThreadsAssumption DEF Queued
  <2>5. \A s \in Threads : pc'[s] = IF s = t THEN "givingUp" ELSE pc[s]
    BY <2>2 DEF TypeInv, TypeOK
  <2> QED BY <2>1, <2>2, <2>3, <2>4, <2>5 DEF QueueInv, QueuedIffUnserved, TypeInv, TypeOK
<1>4. ASSUME NEW t \in Threads, Release(t) PROVE QueueInv'
  <2>1. /\ pc[t] = "holding" /\ queues' = queues /\ granted' = granted \ {t}
        /\ \A s \in Threads : pc'[s] = IF s = t THEN "releasing" ELSE pc[s]
    BY <1>4 DEF Release, TypeInv, TypeOK
  <2>2. \A s \in Threads : Queued(s)' <=> Queued(s)
    BY <2>1 DEF Queued
  <2> QED BY <2>1, <2>2 DEF QueueInv, QueuedIffUnserved, TypeInv, TypeOK
<1>5. ASSUME NEW t \in Threads, ReturnLease(t) PROVE QueueInv'
  BY <1>5, QueueFrame DEF ReturnLease, TypeInv, TypeOK
<1>6. ASSUME NEW t \in Threads, Sleep(t) \/ Wake(t) \/ RaiseTimeout(t) \/ ReturnRelease(t)
      PROVE  QueueInv'
  BY <1>6, QueueFrame DEF Sleep, Wake, RaiseTimeout, ReturnRelease, TypeInv, TypeOK
<1>7. ASSUME NEW t \in Threads, Rotate(t) \/ Expire(t) PROVE QueueInv'
  BY <1>7, QueueFrame DEF Rotate, Expire
<1>8. CASE UNCHANGED vars
  BY <1>8, QueueFrame DEF vars
<1> QED
  BY <1>1, <1>2, <1>3, <1>4, <1>5, <1>6, <1>7, <1>8 DEF Next, Locked
-----------------------------------------------------------------------------
(* The counters count the leases.                                          *)

CountInv ==
  /\ \A u \in Users : active[u] = Cardinality(granted \cap ThreadsOf(u))
  /\ activeTotal = Cardinality(granted)
  /\ activeTotal <= MaxStreams

(* One more or one fewer lease.                                            *)
LEMMA CountOne ==
  ASSUME NEW G \in SUBSET Threads, NEW w \in Threads, NEW u \in Users
  PROVE  /\ IsFiniteSet(G) /\ Cardinality(G) \in Nat
         /\ w \notin G => Cardinality(G \cup {w}) = Cardinality(G) + 1
         /\ w \in G => Cardinality(G \ {w}) = Cardinality(G) - 1
         /\ Cardinality(G \cap ThreadsOf(u)) \in Nat
         /\ w \notin G =>
              Cardinality((G \cup {w}) \cap ThreadsOf(u)) =
                IF UserOf[w] = u THEN Cardinality(G \cap ThreadsOf(u)) + 1
                                 ELSE Cardinality(G \cap ThreadsOf(u))
         /\ w \in G =>
              Cardinality((G \ {w}) \cap ThreadsOf(u)) =
                IF UserOf[w] = u THEN Cardinality(G \cap ThreadsOf(u)) - 1
                                 ELSE Cardinality(G \cap ThreadsOf(u))
<1>1. IsFiniteSet(G)
  BY ThreadsAssumption, FS_Subset
<1>. DEFINE H == G \cap ThreadsOf(u)
<1>2. IsFiniteSet(H)
  BY <1>1, FS_Subset
<1>3. Cardinality(G) \in Nat /\ Cardinality(H) \in Nat
  BY <1>1, <1>2, FS_CardinalityType
<1>4. w \notin G => Cardinality(G \cup {w}) = Cardinality(G) + 1
  BY <1>1, FS_AddElement
<1>5. w \in G => Cardinality(G \ {w}) = Cardinality(G) - 1
  BY <1>1, FS_RemoveElement
<1>6. CASE UserOf[w] = u
  <2>1. w \notin G => (G \cup {w}) \cap ThreadsOf(u) = H \cup {w} /\ w \notin H
    BY <1>6 DEF ThreadsOf
  <2>2. w \in G => (G \ {w}) \cap ThreadsOf(u) = H \ {w} /\ w \in H
    BY <1>6 DEF ThreadsOf
  <2>. HIDE DEF H
  <2>3. w \notin H => Cardinality(H \cup {w}) = Cardinality(H) + 1
    BY <1>2, FS_AddElement
  <2>4. w \in H => Cardinality(H \ {w}) = Cardinality(H) - 1
    BY <1>2, FS_RemoveElement
  <2>5. w \notin G => Cardinality((G \cup {w}) \cap ThreadsOf(u)) = Cardinality(H) + 1
    BY <2>1, <2>3
  <2>6. w \in G => Cardinality((G \ {w}) \cap ThreadsOf(u)) = Cardinality(H) - 1
    BY <2>2, <2>4
  <2> QED BY <1>1, <1>3, <1>4, <1>5, <1>6, <2>5, <2>6 DEF H
<1>7. CASE UserOf[w] # u
  <2>1. (G \cup {w}) \cap ThreadsOf(u) = H /\ (G \ {w}) \cap ThreadsOf(u) = H
    BY <1>7 DEF ThreadsOf
  <2> QED BY <1>1, <1>3, <1>4, <1>5, <1>7, <2>1
<1> QED BY <1>6, <1>7

(* One lease more, for all users.                                          *)
LEMMA CountMore ==
  ASSUME NEW G \in SUBSET Threads, NEW w \in Threads, w \notin G
  PROVE  /\ Cardinality(G) \in Nat
         /\ Cardinality(G \cup {w}) = Cardinality(G) + 1
         /\ \A v \in Users :
              Cardinality((G \cup {w}) \cap ThreadsOf(v)) =
                IF UserOf[w] = v THEN Cardinality(G \cap ThreadsOf(v)) + 1
                                 ELSE Cardinality(G \cap ThreadsOf(v))
<1>1. UserOf[w] \in Users
  BY ThreadsAssumption
<1>2. Cardinality(G) \in Nat /\ Cardinality(G \cup {w}) = Cardinality(G) + 1
  BY <1>1, CountOne
<1>3. ASSUME NEW v \in Users
      PROVE  Cardinality((G \cup {w}) \cap ThreadsOf(v)) =
                IF UserOf[w] = v THEN Cardinality(G \cap ThreadsOf(v)) + 1
                                 ELSE Cardinality(G \cap ThreadsOf(v))
  BY CountOne
<1> QED BY <1>2, <1>3

(* One lease fewer, for all users.                                         *)
LEMMA CountFewer ==
  ASSUME NEW G \in SUBSET Threads, NEW w \in Threads, w \in G
  PROVE  /\ Cardinality(G) \in Nat
         /\ Cardinality(G \ {w}) = Cardinality(G) - 1
         /\ \A v \in Users :
              Cardinality((G \ {w}) \cap ThreadsOf(v)) =
                IF UserOf[w] = v THEN Cardinality(G \cap ThreadsOf(v)) - 1
                                 ELSE Cardinality(G \cap ThreadsOf(v))
<1>1. UserOf[w] \in Users
  BY ThreadsAssumption
<1>2. Cardinality(G) \in Nat /\ Cardinality(G \ {w}) = Cardinality(G) - 1
  BY <1>1, CountOne
<1>3. ASSUME NEW v \in Users
      PROVE  Cardinality((G \ {w}) \cap ThreadsOf(v)) =
                IF UserOf[w] = v THEN Cardinality(G \cap ThreadsOf(v)) - 1
                                 ELSE Cardinality(G \cap ThreadsOf(v))
  BY CountOne
<1> QED BY <1>2, <1>3

LEMMA CountStep == TypeInv /\ QueueInv /\ CountInv /\ [Next]_vars => CountInv'
<1> SUFFICES ASSUME TypeInv, QueueInv, CountInv, [Next]_vars PROVE CountInv'
  OBVIOUS
<1>. USE LimitsAssumption
<1>0. ASSUME UNCHANGED <<granted, active, activeTotal>> PROVE CountInv'
  BY <1>0 DEF CountInv
<1>1. ASSUME NEW t \in Threads, Grant(t) PROVE CountInv'
  <2>. DEFINE u == Head(rotation)
              w == Head(queues[u])
  <2>1. /\ u \in Users /\ w \in Threads /\ UserOf[w] = u /\ w \notin granted
        /\ granted' = granted \cup {w}
    BY <1>1, GrantFacts
  <2>2. /\ active' = [active EXCEPT ![u] = @ + 1]
        /\ activeTotal' = activeTotal + 1
        /\ activeTotal < MaxStreams
    BY <1>1 DEF Grant, Scanning
  <2>. HIDE DEF u, w
  <2>3. granted \in SUBSET Threads /\ active \in [Users -> Nat] /\ activeTotal \in Int
    BY DEF TypeInv, TypeOK
  <2>4. /\ Cardinality(granted') = Cardinality(granted) + 1
        /\ \A v \in Users :
             Cardinality(granted' \cap ThreadsOf(v)) =
               IF u = v THEN Cardinality(granted \cap ThreadsOf(v)) + 1
                        ELSE Cardinality(granted \cap ThreadsOf(v))
    BY <2>1, <2>3, CountMore
  <2>5. activeTotal' = Cardinality(granted') /\ activeTotal' <= MaxStreams
    BY <2>2, <2>3, <2>4 DEF CountInv
  <2>6. \A v \in Users : active'[v] = IF u = v THEN active[v] + 1 ELSE active[v]
    BY <2>1, <2>2, <2>3
  <2> QED BY <2>4, <2>5, <2>6 DEF CountInv
<1>2. ASSUME NEW t \in Threads, Release(t) PROVE CountInv'
  <2>. DEFINE u == UserOf[t]
  <2>1. /\ u \in Users /\ t \in granted /\ granted' = granted \ {t}
        /\ active' = [active EXCEPT ![u] = @ - 1]
        /\ activeTotal' = activeTotal - 1
    BY <1>2, ThreadsAssumption DEF Release, QueueInv
  <2>. HIDE DEF u
  <2>2. granted \in SUBSET Threads /\ active \in [Users -> Nat] /\ activeTotal \in Int
    BY DEF TypeInv, TypeOK
  <2>3. /\ Cardinality(granted') = Cardinality(granted) - 1
        /\ \A v \in Users :
             Cardinality(granted' \cap ThreadsOf(v)) =
               IF u = v THEN Cardinality(granted \cap ThreadsOf(v)) - 1
                        ELSE Cardinality(granted \cap ThreadsOf(v))
    BY <2>1, <2>2, CountFewer DEF u
  <2>4. activeTotal' = Cardinality(granted') /\ activeTotal' <= MaxStreams
    BY <2>1, <2>2, <2>3 DEF CountInv
  <2>5. \A v \in Users : active'[v] = IF u = v THEN active[v] - 1 ELSE active[v]
    BY <2>1, <2>2
  <2> QED BY <2>3, <2>4, <2>5 DEF CountInv
<1>3. ASSUME NEW t \in Threads, Acquire(t) \/ Wake(t) \/ Expire(t) \/ Rotate(t)
      PROVE  CountInv'
  BY <1>0, <1>3 DEF Acquire, Wake, Expire, Rotate
<1>4. ASSUME NEW t \in Threads,
             \/ ReturnLease(t) \/ Sleep(t) \/ GiveUp(t)
             \/ RaiseTimeout(t) \/ ReturnRelease(t)
      PROVE  CountInv'
  BY <1>0, <1>4 DEF ReturnLease, Sleep, GiveUp, RaiseTimeout, ReturnRelease
<1>5. CASE UNCHANGED vars
  BY <1>0, <1>5 DEF vars
<1> QED
  BY <1>1, <1>2, <1>3, <1>4, <1>5 DEF Next, Locked
-----------------------------------------------------------------------------
(* The rotation holds the users with waiters.                              *)

(* Rotated removes the front user or moves it to the back.                 *)
LEMMA RotatedElements ==
  ASSUME TypeOK, rotation # <<>>, IsInjective(rotation), NEW w
  PROVE  /\ ToSet(Rotated(Head(rotation), w)) =
              IF w = <<>> THEN ToSet(rotation) \ {Head(rotation)} ELSE ToSet(rotation)
         /\ IsInjective(Rotated(Head(rotation), w))
<1>1. rotation \in Seq(Users)
  BY DEF TypeOK
<1>2. /\ Head(rotation) \in Users /\ Tail(rotation) \in Seq(Users)
      /\ Head(rotation) \in ToSet(rotation)
      /\ ToSet(Tail(rotation)) = ToSet(rotation) \ {Head(rotation)}
      /\ IsInjective(Tail(rotation))
  BY <1>1, HeadAndTail, TailElements
<1>3. CASE w = <<>>
  BY <1>2, <1>3 DEF Rotated
<1>4. CASE w # <<>>
  <2>1. Rotated(Head(rotation), w) = Append(Tail(rotation), Head(rotation))
    BY <1>4 DEF Rotated
  <2>2. /\ ToSet(Append(Tail(rotation), Head(rotation)))
              = ToSet(Tail(rotation)) \cup {Head(rotation)}
        /\ IsInjective(Append(Tail(rotation), Head(rotation)))
    <3>. DEFINE h == Head(rotation)
                r == Tail(rotation)
    <3>1. h \in Users /\ r \in Seq(Users) /\ h \notin ToSet(r) /\ IsInjective(r)
      BY <1>2
    <3>. HIDE DEF h, r
    <3>2. ToSet(Append(r, h)) = ToSet(r) \cup {h} /\ IsInjective(Append(r, h))
      BY <3>1, AppendElements
    <3> QED BY <3>2 DEF h, r
  <2>3. ToSet(Tail(rotation)) \cup {Head(rotation)} = ToSet(rotation)
    BY <1>2
  <2> QED BY <1>4, <2>1, <2>2, <2>3
<1> QED BY <1>3, <1>4

RotationInv == RotationHoldsWaitingUsers

LEMMA RotationStep ==
  TypeInv /\ QueueInv /\ RotationInv /\ [Next]_vars => RotationInv'
<1> SUFFICES ASSUME TypeInv, QueueInv, RotationInv, [Next]_vars PROVE RotationInv'
  OBVIOUS
<1>. USE DEF RotationInv, RotationHoldsWaitingUsers
<1>0. ASSUME rotation' = rotation, queues' = queues PROVE RotationInv'
  BY <1>0
<1>1. ASSUME NEW t \in Threads, Grant(t) PROVE RotationInv'
  <2>. DEFINE u == Head(rotation)
              rest == Tail(queues[u])
  <2>1. /\ rotation # <<>> /\ u \in Users /\ queues[u] # <<>>
        /\ queues' = [queues EXCEPT ![u] = rest]
        /\ rotation' = Rotated(u, rest)
    BY <1>1, GrantFacts DEF Grant, FrontIsNext
  <2>2. /\ ToSet(rotation') =
             IF rest = <<>> THEN ToSet(rotation) \ {u} ELSE ToSet(rotation)
        /\ IsInjective(rotation')
    BY <2>1, RotatedElements DEF TypeInv
  <2>3. \A v \in Users : queues'[v] = IF v = u THEN rest ELSE queues[v]
    BY <2>1 DEF TypeInv, TypeOK
  <2>. HIDE DEF u, rest
  <2> QED BY <2>1, <2>2, <2>3
<1>2. ASSUME NEW t \in Threads, Rotate(t) PROVE RotationInv'
  <2>. DEFINE u == Head(rotation)
  <2>1. rotation # <<>> /\ u \in Users
    BY <1>2, FrontExists DEF Rotate
  <2>2. rotation' = Rotated(u, queues[u]) /\ queues' = queues
    BY <1>2 DEF Rotate
  <2>3. /\ ToSet(rotation') =
             IF queues[u] = <<>> THEN ToSet(rotation) \ {u} ELSE ToSet(rotation)
        /\ IsInjective(rotation')
    BY <2>1, <2>2, RotatedElements DEF TypeInv
  <2>. HIDE DEF u
  <2> QED BY <2>1, <2>2, <2>3
<1>3. ASSUME NEW t \in Threads, Acquire(t) PROVE RotationInv'
  <2>. DEFINE u == UserOf[t]
  <2>1. /\ u \in Users /\ queues[u] \in Seq(Threads) /\ rotation \in Seq(Users)
        /\ queues' = [queues EXCEPT ![u] = Append(queues[u], t)]
        /\ rotation' = IF queues[u] = <<>> THEN Append(rotation, u) ELSE rotation
    BY <1>3, ThreadsAssumption DEF Acquire, Joined, TypeInv, TypeOK
  <2>2. Append(queues[u], t) # <<>>
    BY <2>1, AppendElements
  <2>3. /\ ToSet(Append(rotation, u)) = ToSet(rotation) \cup {u}
        /\ u \notin ToSet(rotation) => IsInjective(Append(rotation, u))
    BY <2>1, AppendElements
  <2>. HIDE DEF u
  <2>4. \A v \in Users : queues'[v] # <<>> <=> queues[v] # <<>> \/ v = u
    BY <2>1, <2>2 DEF TypeInv, TypeOK
  <2>5. CASE queues[u] = <<>>
    BY <2>1, <2>3, <2>4, <2>5
  <2>6. CASE queues[u] # <<>>
    BY <2>1, <2>4, <2>6
  <2> QED BY <2>5, <2>6
<1>4. ASSUME NEW t \in Threads, GiveUp(t) PROVE RotationInv'
  <2>. DEFINE u == UserOf[t]
              rest == Without(queues[u], t)
  <2>1. /\ u \in Users /\ queues[u] \in Seq(Threads) /\ t \in ToSet(queues[u])
        /\ queues' = [queues EXCEPT ![u] = rest]
    BY <1>4, GiveUpFacts DEF Queued
  <2>2. rotation' = IF rest = <<>> THEN Without(rotation, u) ELSE rotation
    BY <1>4 DEF GiveUp
  <2>3. queues[u] # <<>>
    BY <2>1, NoElements
  <2>. HIDE DEF u, rest
  <2>4. \A v \in Users : queues'[v] = IF v = u THEN rest ELSE queues[v]
    BY <2>1 DEF TypeInv, TypeOK
  <2>5. CASE rest = <<>>
    <3>1. rotation \in Seq(Users) /\ u \in ToSet(rotation) /\ IsInjective(rotation)
      BY <2>1, <2>3 DEF TypeInv, TypeOK
    <3>2. \E k \in 1..Len(rotation) : rotation[k] = u
      BY <3>1, Elements
    <3>3. PICK k \in 1..Len(rotation) :
            rotation[k] = u /\ Without(rotation, u) = RemoveAt(rotation, k)
      BY <3>1, <3>2, WithoutCases
    <3>4. /\ ToSet(rotation') = ToSet(rotation) \ {u}
          /\ IsInjective(rotation')
      BY <2>2, <2>5, <3>1, <3>3, RemoveAtElements
    <3> QED BY <2>1, <2>4, <2>5, <3>4
  <2>6. CASE rest # <<>>
    BY <2>1, <2>2, <2>3, <2>4, <2>6
  <2> QED BY <2>5, <2>6
<1>5. ASSUME NEW t \in Threads, Wake(t) \/ Release(t) \/ Expire(t) PROVE RotationInv'
  BY <1>0, <1>5 DEF Wake, Release, Expire
<1>6. ASSUME NEW t \in Threads,
             ReturnLease(t) \/ Sleep(t) \/ RaiseTimeout(t) \/ ReturnRelease(t)
      PROVE  RotationInv'
  BY <1>0, <1>6 DEF ReturnLease, Sleep, RaiseTimeout, ReturnRelease
<1>7. CASE UNCHANGED vars
  BY <1>0, <1>7 DEF vars
<1> QED
  BY <1>1, <1>2, <1>3, <1>4, <1>5, <1>6, <1>7 DEF Next, Locked
-----------------------------------------------------------------------------
(* One thread at a time schedules, and it leaves nobody eligible behind.   *)

MutexInv ==
  \A s, t \in Threads : pc[s] \in Scheduling /\ pc[t] \in Scheduling => s = t

(* The users that the scan has rotated to the back are not eligible.       *)
ScanInv ==
  ~LockFree => \A i \in (scan + 1)..Len(rotation) : ~Eligible(rotation[i])

(* Where the threads go.                                                   *)
LEMMA LockMoves ==
  ASSUME TypeInv, MutexInv, NEW t \in Threads
  PROVE  /\ Acquire(t) \/ Wake(t) \/ Release(t)
              => /\ LockFree /\ ~LockFree'
                 /\ MutexInv'
         /\ Grant(t) \/ Rotate(t) \/ GiveUp(t)
              => /\ pc[t] \in Scheduling /\ pc'[t] \in Scheduling
                 /\ MutexInv'
         /\ ReturnLease(t) \/ Sleep(t) \/ RaiseTimeout(t) \/ ReturnRelease(t)
              => /\ pc[t] \in Scheduling /\ LockFree'
                 /\ MutexInv'
<1>. USE DEF TypeInv, TypeOK, MutexInv, LockFree, Scheduling
<1>1. Acquire(t) \/ Wake(t) \/ Release(t) => LockFree /\ ~LockFree' /\ MutexInv'
  BY DEF Acquire, Wake, Release
<1>2. Grant(t) \/ Rotate(t)
        => pc[t] \in Scheduling /\ pc'[t] \in Scheduling /\ MutexInv'
  BY DEF Grant, Rotate
<1>3. GiveUp(t) => pc[t] \in Scheduling /\ pc'[t] \in Scheduling /\ MutexInv'
  BY DEF GiveUp
<1>4. ReturnLease(t) \/ Sleep(t) \/ RaiseTimeout(t) \/ ReturnRelease(t)
        => pc[t] \in Scheduling /\ LockFree' /\ MutexInv'
  BY DEF ReturnLease, Sleep, RaiseTimeout, ReturnRelease
<1> QED BY <1>1, <1>2, <1>3, <1>4

LEMMA ScanStep ==
  TypeInv /\ RotationInv /\ MutexInv /\ ScanInv /\ NoEligibleWaiter /\ [Next]_vars
    => ScanInv' /\ NoEligibleWaiter'
<1> SUFFICES ASSUME TypeInv, RotationInv, MutexInv, ScanInv, NoEligibleWaiter, [Next]_vars
             PROVE  ScanInv' /\ NoEligibleWaiter'
  OBVIOUS
<1>1. ASSUME scan' = Len(rotation'), rotation' \in Seq(Users), ~LockFree'
      PROVE  ScanInv' /\ NoEligibleWaiter'
  <2>1. Len(rotation') \in Nat
    BY <1>1, LenProperties
  <2>2. (scan' + 1)..Len(rotation') = {}
    BY <1>1, <2>1
  <2> QED BY <1>1, <2>2 DEF ScanInv, NoEligibleWaiter
<1>2. ASSUME NEW t \in Threads, Acquire(t) \/ Wake(t) \/ Release(t) \/ Grant(t) \/ GiveUp(t)
      PROVE  ScanInv' /\ NoEligibleWaiter'
  <2>1. ~LockFree'
    <3>1. pc'[t] \in Scheduling \/ ~LockFree'
      BY <1>2, LockMoves
    <3> QED BY <3>1 DEF LockFree
  <2>2. scan' = Len(rotation')
    BY <1>2 DEF Acquire, Wake, Release, Grant, GiveUp, StartSchedule
  <2>3. rotation' \in Seq(Users)
    BY TypeStep DEF TypeInv, TypeOK
  <2> QED BY <1>1, <2>1, <2>2, <2>3
<1>3. ASSUME NEW t \in Threads, Rotate(t) PROVE ScanInv' /\ NoEligibleWaiter'
  <2>. DEFINE u == Head(rotation)
  <2>1. rotation # <<>> /\ u \in Users /\ u = rotation[1] /\ rotation \in Seq(Users)
    BY <1>3, FrontExists DEF Rotate, TypeInv, TypeOK
  <2>2. u \in ToSet(rotation)
    <3>1. 1 \in 1..Len(rotation)
      BY <2>1, HeadAndTail
    <3> QED BY <2>1, <3>1, Elements
  <2>3. queues[u] # <<>> /\ ~Eligible(u)
    BY <1>3, <2>1, <2>2 DEF RotationInv, RotationHoldsWaitingUsers, Rotate, FrontIsNext
  <2>4. /\ Len(rotation) \in Nat \ {0}
        /\ Len(rotation') = Len(rotation)
        /\ \A i \in 1..(Len(rotation) - 1) : rotation'[i] = rotation[i + 1]
        /\ rotation'[Len(rotation)] = u
    BY <1>3, <2>1, <2>3, RotatedProperties DEF Rotate, TypeInv
  <2>5. \A v : Eligible(v)' <=> Eligible(v)
    BY <1>3 DEF Rotate, Eligible, Participants
  <2>6. scan \in Nat /\ scan' = scan - 1 /\ scan > 0
    BY <1>3 DEF Rotate, Scanning, TypeInv, TypeOK
  <2>7. ~LockFree /\ ~LockFree'
    BY <1>3, LockMoves DEF LockFree
  <2>. HIDE DEF u
  <2>8. ASSUME NEW i \in (scan' + 1)..Len(rotation') PROVE ~Eligible(rotation'[i])
    <3>1. CASE i = Len(rotation)
      BY <2>3, <2>4, <3>1
    <3>2. CASE i # Len(rotation)
      <4>1. i \in 1..(Len(rotation) - 1) /\ i + 1 \in (scan + 1)..Len(rotation)
        BY <2>4, <2>6, <2>8, <3>2
      <4> QED BY <2>4, <2>7, <4>1 DEF ScanInv
    <3> QED BY <3>1, <3>2
  <2> QED BY <2>5, <2>7, <2>8 DEF ScanInv, NoEligibleWaiter
<1>4. ASSUME NEW t \in Threads,
             ReturnLease(t) \/ Sleep(t) \/ RaiseTimeout(t) \/ ReturnRelease(t)
      PROVE  ScanInv' /\ NoEligibleWaiter'
  <2>1. ~LockFree /\ LockFree'
    BY <1>4, LockMoves DEF LockFree
  <2>2. /\ ~Scanning
        /\ UNCHANGED <<queues, rotation, active, activeTotal>>
    BY <1>4 DEF ReturnLease, Sleep, RaiseTimeout, ReturnRelease
  <2>3. ASSUME NEW u \in Users, queues[u] # <<>> PROVE ~Eligible(u)
    <3>1. CASE ~(activeTotal < MaxStreams)
      BY <3>1 DEF Eligible
    <3>2. CASE activeTotal < MaxStreams
      <4>1. scan = 0
        BY <2>2, <3>2 DEF Scanning, TypeInv, TypeOK
      <4>2. u \in ToSet(rotation)
        BY <2>3 DEF RotationInv, RotationHoldsWaitingUsers
      <4>3. PICK i \in 1..Len(rotation) : rotation[i] = u
        BY <4>2, Elements DEF TypeInv, TypeOK
      <4>4. i \in (scan + 1)..Len(rotation)
        BY <4>1
      <4> QED BY <2>1, <4>3, <4>4 DEF ScanInv
    <3> QED BY <3>1, <3>2
  <2>4. \A v : Eligible(v)' <=> Eligible(v)
    BY <2>2 DEF Eligible, Participants
  <2> QED BY <2>1, <2>2, <2>3, <2>4 DEF ScanInv, NoEligibleWaiter
<1>5. ASSUME UNCHANGED <<queues, rotation, active, activeTotal, scan, pc>>
      PROVE  ScanInv' /\ NoEligibleWaiter'
  <2>1. \A v : Eligible(v)' <=> Eligible(v)
    BY <1>5 DEF Eligible, Participants
  <2>2. LockFree' <=> LockFree
    BY <1>5 DEF LockFree
  <2> QED BY <1>5, <2>1, <2>2 DEF ScanInv, NoEligibleWaiter
<1>6. ASSUME NEW t \in Threads, Expire(t) PROVE ScanInv' /\ NoEligibleWaiter'
  BY <1>5, <1>6 DEF Expire
<1>7. CASE UNCHANGED vars
  BY <1>5, <1>7 DEF vars
<1> QED
  BY <1>2, <1>3, <1>4, <1>6, <1>7 DEF Next, Locked
-----------------------------------------------------------------------------
(* A waiter that was served has been notified, or is about to be.          *)

WakeupInv ==
  \A s \in granted :
    pc[s] = "waiting" =>
      \/ s \in notified
      \/ \E t \in Threads : \/ pc[t] \in {"acquiring", "givingUp"} /\ changed
                           \/ pc[t] = "releasing"

LEMMA WakeupStep ==
  TypeInv /\ MutexInv /\ WakeupInv /\ [Next]_vars => WakeupInv'
<1> SUFFICES ASSUME TypeInv, MutexInv, WakeupInv, [Next]_vars PROVE WakeupInv'
  OBVIOUS
<1>. USE DEF TypeInv, TypeOK, Scheduling
<1>1. ASSUME NEW t \in Threads, Grant(t) PROVE WakeupInv'
  <2>1. pc[t] \in Scheduling /\ pc' = pc /\ changed' = TRUE
    BY <1>1 DEF Grant
  <2> QED BY <2>1 DEF WakeupInv
<1>2. ASSUME LockFree PROVE \A s \in granted : pc[s] = "waiting" => s \in notified
  BY <1>2 DEF WakeupInv, LockFree
<1>3. ASSUME NEW t \in Threads, Acquire(t) PROVE WakeupInv'
  <2>1. \A s \in granted' : pc'[s] = "waiting" => s \in notified'
    BY <1>2, <1>3 DEF Acquire
  <2> QED BY <2>1 DEF WakeupInv
<1>4. ASSUME NEW t \in Threads, Wake(t) PROVE WakeupInv'
  <2>1. \A s \in granted' : pc'[s] = "waiting" => s \in notified'
    BY <1>2, <1>4 DEF Wake
  <2> QED BY <2>1 DEF WakeupInv
<1>5. ASSUME NEW t \in Threads, Release(t) PROVE WakeupInv'
  <2>1. \A s \in granted' : pc'[s] = "waiting" => s \in notified'
    BY <1>2, <1>5 DEF Release
  <2> QED BY <2>1 DEF WakeupInv
<1>6. ASSUME NEW t \in Threads, pc[t] \in {"acquiring", "givingUp"}, NotifyIfChanged
      PROVE  \A s \in granted : pc[s] = "waiting" => s \in notified'
  <2> SUFFICES ASSUME NEW s \in granted, pc[s] = "waiting" PROVE s \in notified'
    OBVIOUS
  <2>1. CASE changed
    BY <1>6, <2>1 DEF NotifyIfChanged, NotifyAll, Sleeping
  <2>2. CASE ~changed
    <3>1. s \in notified
      BY <1>6, <2>2 DEF WakeupInv, MutexInv
    <3> QED BY <1>6, <2>2, <3>1 DEF NotifyIfChanged
  <2> QED BY <2>1, <2>2
<1>7. ASSUME NEW t \in Threads, ReturnLease(t) \/ Sleep(t) \/ RaiseTimeout(t) \/ GiveUp(t)
      PROVE  WakeupInv'
  <2>1. \A s \in granted : pc[s] = "waiting" => s \in notified'
    BY <1>6, <1>7 DEF ReturnLease, Sleep, RaiseTimeout, GiveUp
  <2>2. /\ granted' = granted
        /\ \A s \in granted : pc'[s] = "waiting" => pc[s] = "waiting"
    BY <1>7 DEF ReturnLease, Sleep, RaiseTimeout, GiveUp
  <2> QED BY <2>1, <2>2 DEF WakeupInv
<1>8. ASSUME NEW t \in Threads, ReturnRelease(t) PROVE WakeupInv'
  <2>1. \A s \in granted' : pc'[s] = "waiting" => s \in notified'
    BY <1>8 DEF ReturnRelease, NotifyAll, Sleeping
  <2> QED BY <2>1 DEF WakeupInv
<1>9. ASSUME UNCHANGED <<granted, pc, notified, changed>> PROVE WakeupInv'
  BY <1>9 DEF WakeupInv
<1>10. ASSUME NEW t \in Threads, Rotate(t) \/ Expire(t) PROVE WakeupInv'
  BY <1>9, <1>10 DEF Rotate, Expire
<1>11. CASE UNCHANGED vars
  BY <1>9, <1>11 DEF vars
<1> QED
  BY <1>1, <1>3, <1>4, <1>5, <1>7, <1>8, <1>10, <1>11 DEF Next, Locked
-----------------------------------------------------------------------------
(* The inductive invariant.                                                *)

IInv == /\ TypeInv
        /\ QueueInv
        /\ CountInv
        /\ RotationInv
        /\ MutexInv
        /\ ScanInv
        /\ NoEligibleWaiter
        /\ WakeupInv

LEMMA InductiveInit == Init => IInv
<1> SUFFICES ASSUME Init PROVE IInv
  OBVIOUS
<1>1. TypeInv
  BY TypeInit
<1>2. /\ granted = {} /\ activeTotal = 0 /\ rotation = <<>>
      /\ queues = [u \in Users |-> <<>>] /\ active = [u \in Users |-> 0]
      /\ pc = [t \in Threads |-> "idle"]
  BY DEF Init
<1>3. ToSet(<<>>) = {} /\ IsInjective(<<>>)
  BY DEF ToSet, IsInjective
<1>4. QueueInv
  <2>1. \A t \in Threads : ~Queued(t)
    BY <1>2, <1>3, ThreadsAssumption DEF Queued
  <2> QED BY <1>2, <1>3, <2>1 DEF QueueInv, QueuedIffUnserved
<1>5. CountInv
  <2>1. Cardinality({}) = 0 /\ \A u \in Users : {} \cap ThreadsOf(u) = {}
    BY FS_EmptySet
  <2> QED BY <1>2, <2>1, LimitsAssumption DEF CountInv
<1>6. RotationInv
  BY <1>2, <1>3 DEF RotationInv, RotationHoldsWaitingUsers
<1>7. MutexInv /\ ScanInv /\ NoEligibleWaiter /\ WakeupInv
  BY <1>2 DEF MutexInv, ScanInv, NoEligibleWaiter, WakeupInv, LockFree, Scheduling
<1> QED BY <1>1, <1>4, <1>5, <1>6, <1>7 DEF IInv

LEMMA InductiveStep == IInv /\ [Next]_vars => IInv'
<1> SUFFICES ASSUME IInv, [Next]_vars PROVE IInv'
  OBVIOUS
<1>1. TypeInv' /\ QueueInv' /\ CountInv' /\ RotationInv'
  BY TypeStep, QueueStep, CountStep, RotationStep DEF IInv
<1>2. MutexInv'
  <2>1. ASSUME NEW t \in Threads, Expire(t) PROVE MutexInv'
    BY <2>1 DEF Expire, MutexInv, IInv
  <2>2. CASE UNCHANGED vars
    BY <2>2 DEF vars, MutexInv, IInv
  <2> QED BY <2>1, <2>2, LockMoves DEF IInv, Next, Locked
<1>3. ScanInv' /\ NoEligibleWaiter'
  BY ScanStep DEF IInv
<1>4. WakeupInv'
  BY WakeupStep DEF IInv
<1> QED BY <1>1, <1>2, <1>3, <1>4 DEF IInv

LEMMA Inductive == Spec => []IInv
<1> QED BY InductiveInit, InductiveStep, PTL DEF Spec

(* TypeOK holds in every reachable state: in particular no deque is popped *)
(* when it is empty.                                                       *)
THEOREM TypeCorrect == Spec => []TypeOK
<1>1. IInv => TypeOK
  BY DEF IInv, TypeInv
<1> QED BY <1>1, Inductive, PTL

(* The counters of active streams are exact and within max_streams, and    *)
(* release() never raises, whatever the interleaving.                      *)
THEOREM AccountingCorrect == Spec => []LeasesAccounted
<1>1. IInv => LeasesAccounted
  <2> SUFFICES ASSUME IInv PROVE LeasesAccounted
    OBVIOUS
  <2>1. ASSUME NEW t \in Threads, pc[t] = "holding" PROVE t \in granted /\ HolderIsCounted(t)
    <3>1. t \in granted /\ UserOf[t] \in Users /\ t \in ThreadsOf(UserOf[t])
      BY <2>1, ThreadsAssumption DEF IInv, QueueInv, ThreadsOf
    <3>2. /\ IsFiniteSet(granted \cap ThreadsOf(UserOf[t]))
          /\ granted \cap ThreadsOf(UserOf[t]) # {}
      <4>1. granted \in SUBSET Threads
        BY DEF IInv, TypeInv, TypeOK
      <4>2. IsFiniteSet(granted)
        BY <4>1, ThreadsAssumption, FS_Subset
      <4> QED BY <3>1, <4>2, FS_Subset
    <3>3. /\ Cardinality(granted \cap ThreadsOf(UserOf[t])) \in Nat
          /\ Cardinality(granted \cap ThreadsOf(UserOf[t])) # 0
      BY <3>2, FS_EmptySet, FS_CardinalityType
    <3>4. active[UserOf[t]] = Cardinality(granted \cap ThreadsOf(UserOf[t]))
      BY <3>1 DEF IInv, CountInv
    <3> QED BY <3>1, <3>3, <3>4 DEF HolderIsCounted
  <2> QED BY <2>1 DEF IInv, QueueInv, CountInv, LeasesAccounted
<1> QED BY <1>1, Inductive, PTL

(* No waiter is lost, left behind or queued twice.                         *)
THEOREM QueuesCorrect == Spec => []QueuedIffUnserved
<1>1. IInv => QueuedIffUnserved
  BY DEF IInv, QueueInv
<1> QED BY <1>1, Inductive, PTL

(* The rotation never drops a user that waits.                             *)
THEOREM RotationCorrect == Spec => []RotationHoldsWaitingUsers
<1>1. IInv => RotationHoldsWaitingUsers
  BY DEF IInv, RotationInv
<1> QED BY <1>1, Inductive, PTL

(* Whenever the lock is free, nobody waits whom the rule would serve.      *)
THEOREM NobodyEligibleWaits == Spec => []NoEligibleWaiter
<1>1. IInv => NoEligibleWaiter
  BY DEF IInv
<1> QED BY <1>1, Inductive, PTL

(* Whenever the lock is free, a waiter that was served has been notified.  *)
THEOREM WakeupsReachWaiters == Spec => []NoLostWakeup
<1>1. IInv => NoLostWakeup
  <2> SUFFICES ASSUME IInv, LockFree, NEW t \in Sleeping, t \in granted
               PROVE  t \in notified
    BY DEF NoLostWakeup
  <2> QED BY DEF IInv, WakeupInv, LockFree, Sleeping, Scheduling
<1> QED BY <1>1, Inductive, PTL
-----------------------------------------------------------------------------
(* The scheduler implements StreamAdmission, and a user that shares the    *)
(* streams is never given a second one.                                    *)

(* Which waiters a step adds to the queues or takes from them.             *)
LEMMA QueuedMoves ==
  ASSUME IInv, NEW t \in Threads
  PROVE  /\ Grant(t) => \A s \in Threads :
              Queued(s)' <=> Queued(s) /\ s # Head(queues[Head(rotation)])
         /\ Acquire(t) => \A s \in Threads : Queued(s)' <=> Queued(s) \/ s = t
         /\ GiveUp(t) => \A s \in Threads : Queued(s)' <=> Queued(s) /\ s # t
<1>. USE DEF IInv
<1>0. /\ UserOf \in [Threads -> Users]
      /\ queues \in [Users -> Seq(Threads)]
      /\ \A v \in Users : ToSet(queues[v]) \subseteq ThreadsOf(v)
  BY ThreadsAssumption DEF TypeInv, TypeOK, QueueInv, QueuedIffUnserved
<1>1. ASSUME Grant(t), NEW s \in Threads
      PROVE  Queued(s)' <=> Queued(s) /\ s # Head(queues[Head(rotation)])
  <2>. DEFINE u == Head(rotation)
              w == Head(queues[u])
  <2>1. /\ u \in Users /\ UserOf[w] = u
        /\ queues' = [queues EXCEPT ![u] = Tail(queues[u])]
        /\ ToSet(Tail(queues[u])) = ToSet(queues[u]) \ {w}
    BY <1>1, GrantFacts
  <2>. HIDE DEF u, w
  <2>2. ToSet(queues'[UserOf[s]]) = ToSet(queues[UserOf[s]]) \ {w}
    BY <1>0, <2>1 DEF ThreadsOf
  <2> QED BY <2>2 DEF Queued, u, w
<1>2. ASSUME Acquire(t), NEW s \in Threads
      PROVE  Queued(s)' <=> Queued(s) \/ s = t
  <2>. DEFINE u == UserOf[t]
  <2>1. /\ u \in Users /\ queues[u] \in Seq(Threads)
        /\ queues' = [queues EXCEPT ![u] = Append(queues[u], t)]
    BY <1>0, <1>2 DEF Acquire
  <2>2. ToSet(Append(queues[u], t)) = ToSet(queues[u]) \cup {t}
    BY <2>1, AppendElements
  <2>3. CASE UserOf[s] = u
    <3>1. queues'[UserOf[s]] = Append(queues[u], t)
      BY <1>0, <2>1, <2>3
    <3> QED BY <2>2, <2>3, <3>1 DEF Queued
  <2>4. CASE UserOf[s] # u
    <3>1. queues'[UserOf[s]] = queues[UserOf[s]]
      BY <1>0, <2>1, <2>4
    <3> QED BY <2>4, <3>1 DEF Queued
  <2> QED BY <2>3, <2>4
<1>3. ASSUME GiveUp(t), NEW s \in Threads
      PROVE  Queued(s)' <=> Queued(s) /\ s # t
  <2>. DEFINE u == UserOf[t]
              rest == Without(queues[u], t)
  <2>1. /\ u \in Users
        /\ queues' = [queues EXCEPT ![u] = rest]
        /\ ToSet(rest) = ToSet(queues[u]) \ {t}
    BY <1>3, GiveUpFacts
  <2>. HIDE DEF rest
  <2>2. ToSet(queues'[UserOf[s]]) = ToSet(queues[UserOf[s]]) \ {t}
    BY <1>0, <2>1 DEF ThreadsOf
  <2> QED BY <2>2 DEF Queued
<1> QED BY <1>1, <1>2, <1>3

(* What the counters say about who takes part.                             *)
LEMMA ActiveMeansLeased ==
  ASSUME IInv, NEW u \in Users
  PROVE  active[u] > 0 <=> \E s \in granted : UserOf[s] = u
<1>. DEFINE G == granted \cap ThreadsOf(u)
<1>1. granted \in SUBSET Threads /\ active[u] = Cardinality(G)
  BY DEF IInv, TypeInv, TypeOK, CountInv
<1>2. IsFiniteSet(G)
  BY <1>1, ThreadsAssumption, FS_Subset
<1>3. Cardinality(G) \in Nat /\ (Cardinality(G) = 0 <=> G = {})
  BY <1>2, FS_CardinalityType, FS_EmptySet
<1>4. G # {} <=> \E s \in granted : UserOf[s] = u
  BY <1>1 DEF ThreadsOf
<1>. HIDE DEF G
<1> QED BY <1>1, <1>3, <1>4

(* A grant obeys the rule of sharing.                                      *)
LEMMA GrantIsFair ==
  ASSUME IInv, NEW t \in Threads, Grant(t)
  PROVE  LET u == Head(rotation)
         IN  \/ active[u] = 0
             \/ \A v \in Users : active[v] > 0 \/ queues[v] # <<>> => v = u
<1>. DEFINE u == Head(rotation)
<1>1. u \in Users /\ queues[u] # <<>> /\ Eligible(u)
  BY GrantFacts DEF IInv, Grant, FrontIsNext
<1>. HIDE DEF u
<1>2. u \in Participants
  BY <1>1 DEF Participants
<1>3. CASE \A v, w \in Participants : v = w
  BY <1>2, <1>3 DEF Participants, u
<1>4. CASE active[u] = 0
  BY <1>4 DEF u
<1> QED BY <1>1, <1>3, <1>4 DEF Eligible

LEMMA AdmissionInit == Init => Admission!Init
<1> SUFFICES ASSUME Init PROVE Admission!Init
  OBVIOUS
<1>1. \A t \in Threads : ~Queued(t)
  <2>1. ToSet(<<>>) = {}
    BY DEF ToSet
  <2> QED BY <2>1, ThreadsAssumption DEF Init, Queued
<1> QED BY <1>1 DEF Init, Admission!Init

LEMMA AdmissionStep == IInv /\ [Next]_vars => [Admission!Next]_(Admission!vars)
<1> SUFFICES ASSUME IInv, [Next]_vars PROVE [Admission!Next]_(Admission!vars)
  OBVIOUS
<1>. DEFINE Waiting == {t \in Threads : Queued(t)}
<1>0. granted \in SUBSET Threads
  BY DEF IInv, TypeInv, TypeOK
<1>1. ASSUME NEW t \in Threads, Grant(t) PROVE Admission!Next
  <2>. DEFINE u == Head(rotation)
              w == Head(queues[u])
  <2>1. /\ u \in Users /\ w \in Threads /\ UserOf[w] = u /\ Queued(w) /\ w \notin granted
        /\ granted' = granted \cup {w}
    BY <1>1, GrantFacts DEF IInv
  <2>2. Waiting' = Waiting \ {w}
    BY <1>1, QueuedMoves
  <2>3. Cardinality(granted) < MaxStreams
    BY <1>1 DEF IInv, CountInv, Grant, Scanning
  <2>4. \/ \A s \in Waiting \cup granted : UserOf[s] = UserOf[w]
        \/ \A s \in granted : UserOf[s] # UserOf[w]
    <3>1. CASE active[u] = 0
      BY <2>1, <3>1, ActiveMeansLeased
    <3>2. CASE \A v \in Users : active[v] > 0 \/ queues[v] # <<>> => v = u
      <4>1. ASSUME NEW s \in Waiting PROVE UserOf[s] = u
        <5>1. UserOf[s] \in Users /\ queues[UserOf[s]] \in Seq(Threads)
          BY ThreadsAssumption DEF IInv, TypeInv, TypeOK
        <5>2. queues[UserOf[s]] # <<>>
          BY <5>1, NoElements DEF Queued
        <5> QED BY <3>2, <5>1, <5>2
      <4>2. ASSUME NEW s \in granted PROVE UserOf[s] = u
        <5>1. UserOf[s] \in Users /\ active[UserOf[s]] > 0
          BY <1>0, ThreadsAssumption, ActiveMeansLeased
        <5> QED BY <3>2, <5>1
      <4> QED BY <2>1, <4>1, <4>2
    <3> QED BY <1>1, <3>1, <3>2, GrantIsFair
  <2>. HIDE DEF u, w
  <2>5. w \in Waiting
    BY <2>1
  <2>. HIDE DEF Waiting
  <2>6. Admission!Admit(w)
    BY <2>1, <2>2, <2>3, <2>4, <2>5
       DEF Admission!Admit, Admission!Alone, Admission!HoldsNone, Waiting,
           Admission!Cardinality, Cardinality, Admission!IsFiniteSet, IsFiniteSet
  <2> QED BY <2>1, <2>6 DEF Admission!Next
<1>2. ASSUME NEW t \in Threads, Acquire(t) PROVE Admission!Next
  <2>1. pc[t] = "idle" /\ granted' = granted
    BY <1>2 DEF Acquire
  <2>2. t \notin granted /\ ~Queued(t)
    BY <2>1 DEF IInv, QueueInv, QueuedIffUnserved
  <2>3. Waiting' = Waiting \cup {t}
    BY <1>2, QueuedMoves
  <2>4. Admission!Request(t)
    BY <2>1, <2>2, <2>3 DEF Admission!Request
  <2> QED BY <2>4 DEF Admission!Next
<1>3. ASSUME NEW t \in Threads, GiveUp(t) PROVE Admission!Next
  <2>1. Queued(t) /\ granted' = granted
    BY <1>3, GiveUpFacts DEF IInv, GiveUp
  <2>2. Waiting' = Waiting \ {t}
    BY <1>3, QueuedMoves
  <2>3. Admission!GiveUp(t)
    BY <2>1, <2>2 DEF Admission!GiveUp
  <2> QED BY <2>3 DEF Admission!Next
<1>4. ASSUME queues' = queues PROVE Waiting' = Waiting
  BY <1>4 DEF Queued
<1>5. ASSUME NEW t \in Threads, Release(t) PROVE Admission!Next
  <2>1. t \in granted /\ granted' = granted \ {t} /\ queues' = queues
    BY <1>5 DEF IInv, QueueInv, Release
  <2>2. Admission!Return(t)
    BY <1>4, <2>1 DEF Admission!Return
  <2> QED BY <2>2 DEF Admission!Next
<1>6. ASSUME queues' = queues, granted' = granted PROVE UNCHANGED Admission!vars
  BY <1>4, <1>6 DEF Admission!vars
<1>7. ASSUME NEW t \in Threads, Wake(t) \/ Expire(t) \/ Rotate(t) PROVE UNCHANGED Admission!vars
  BY <1>6, <1>7 DEF Wake, Expire, Rotate
<1>8. ASSUME NEW t \in Threads,
             ReturnLease(t) \/ Sleep(t) \/ RaiseTimeout(t) \/ ReturnRelease(t)
      PROVE  UNCHANGED Admission!vars
  BY <1>6, <1>8 DEF ReturnLease, Sleep, RaiseTimeout, ReturnRelease
<1>9. CASE UNCHANGED vars
  BY <1>6, <1>9 DEF vars
<1> QED
  BY <1>1, <1>2, <1>3, <1>5, <1>7, <1>8, <1>9 DEF Next, Locked

(* The scheduler, with its queues, its rotation, its deadlines and its     *)
(* notifications, does nothing that the abstract admission forbids.        *)
THEOREM Refinement == Spec => RefinesAdmission
<1> QED BY AdmissionInit, AdmissionStep, Inductive, PTL DEF Spec, Admission!Spec, RefinesAdmission

(* A second stream goes only to a user that is alone.                      *)
THEOREM SecondStreamOnlyAlone == Spec => SharedMeansOne
<1>1. IInv /\ [Next]_vars =>
        [\A u \in Users :
           active'[u] > active[u] /\ active[u] > 0
             => \A v \in Users \ {u} : active[v] = 0 /\ queues[v] = <<>>]_vars
  <2> SUFFICES ASSUME IInv, Next,
                      NEW u \in Users, active'[u] > active[u], active[u] > 0,
                      NEW v \in Users \ {u}
               PROVE  active[v] = 0 /\ queues[v] = <<>>
    OBVIOUS
  <2>0. active \in [Users -> Nat]
    BY DEF IInv, TypeInv, TypeOK
  <2>1. ASSUME NEW t \in Threads, Grant(t) PROVE active[v] = 0 /\ queues[v] = <<>>
    <3>1. u = Head(rotation)
      BY <2>0, <2>1 DEF Grant
    <3> QED BY <2>0, <2>1, <3>1, GrantIsFair
  <2>2. ASSUME NEW t \in Threads, Release(t) PROVE FALSE
    BY <2>0, <2>2, ThreadsAssumption DEF Release
  <2>3. ASSUME NEW t \in Threads,
               \/ Acquire(t) \/ Wake(t) \/ Expire(t) \/ Rotate(t)
               \/ ReturnLease(t) \/ Sleep(t) \/ GiveUp(t)
               \/ RaiseTimeout(t) \/ ReturnRelease(t)
        PROVE  FALSE
    <3>1. active' = active
      BY <2>3 DEF Acquire, Wake, Expire, Rotate, ReturnLease, Sleep, GiveUp,
                  RaiseTimeout, ReturnRelease
    <3> QED BY <2>0, <3>1
  <2> QED BY <2>1, <2>2, <2>3 DEF Next, Locked
<1> QED BY <1>1, Inductive, PTL DEF Spec, SharedMeansOne
(* A user with all the streams that are out leaves none to others.         *)
LEMMA OneStreamOut ==
  ASSUME IInv, activeTotal < 2, NEW u \in Users, active[u] > 0
  PROVE  \A v \in Users \ {u} : active[v] = 0
<1>1. granted \in SUBSET Threads /\ IsFiniteSet(granted)
  <2>1. granted \in SUBSET Threads
    BY DEF IInv, TypeInv, TypeOK
  <2> QED BY <2>1, ThreadsAssumption, FS_Subset
<1>2. SUFFICES ASSUME NEW v \in Users \ {u}, active[v] # 0 PROVE FALSE
  OBVIOUS
<1>3. active[v] > 0
  BY <1>2 DEF IInv, TypeInv, TypeOK
<1>4. PICK s \in granted : UserOf[s] = u
  BY ActiveMeansLeased
<1>5. PICK t \in granted : UserOf[t] = v
  BY <1>3, ActiveMeansLeased
<1>6. {s, t} \in SUBSET granted /\ s # t
  BY <1>2, <1>4, <1>5
<1>7. Cardinality({s, t}) = 2
  <2>1. IsFiniteSet({s}) /\ Cardinality({s}) = 1
    BY FS_Singleton
  <2>2. Cardinality({s} \cup {t}) = 2
    <3>1. t \notin {s}
      BY <1>6
    <3>2. Cardinality({s} \cup {t}) = Cardinality({s}) + 1
      BY <2>1, <3>1, FS_AddElement
    <3> QED BY <2>1, <3>2
  <2>3. {s} \cup {t} = {s, t}
    OBVIOUS
  <2> QED BY <2>2, <2>3
<1>8. 2 <= Cardinality(granted)
  BY <1>1, <1>6, <1>7, FS_Subset
<1>9. activeTotal = Cardinality(granted) /\ Cardinality(granted) \in Nat
  BY <1>1, FS_CardinalityType DEF IInv, CountInv
<1> QED BY <1>8, <1>9

(* "Work-conserving", as the class says of itself: with the default of two *)
(* streams, no stream is free between two uses of the lock while somebody  *)
(* waits.  With more it can be: a second stream is lent to one user only.  *)
THEOREM TwoStreamsNeverIdle ==
  ASSUME MaxStreams <= 2
  PROVE  Spec => []WorkConserving
<1>1. IInv => WorkConserving
  <2>. SUFFICES ASSUME IInv, LockFree, activeTotal < MaxStreams,
                       NEW u \in Users, queues[u] # <<>>
                PROVE  FALSE
    BY DEF WorkConserving
  <2>1. activeTotal \in Int /\ activeTotal < 2 /\ active \in [Users -> Nat]
    BY LimitsAssumption DEF IInv, TypeInv, TypeOK
  <2>2. \A v \in Users : queues[v] # <<>> => ~Eligible(v)
    BY DEF IInv, NoEligibleWaiter
  <2>3. active[u] <= activeTotal
    <3>1. granted \in SUBSET Threads /\ IsFiniteSet(granted)
      <4>1. granted \in SUBSET Threads
        BY DEF IInv, TypeInv, TypeOK
      <4> QED BY <4>1, ThreadsAssumption, FS_Subset
    <3>2. Cardinality(granted \cap ThreadsOf(u)) <= Cardinality(granted)
      BY <3>1, FS_Subset
    <3> QED BY <3>2 DEF IInv, CountInv
  <2>4. CASE \A v, w \in Participants : v = w
    BY <2>1, <2>2, <2>3, <2>4, LimitsAssumption DEF Eligible
  <2>5. CASE \E v, w \in Participants : v # w
    <3>1. active[u] > 0
      BY <2>1, <2>2, <2>5 DEF Eligible
    <3>2. \A v \in Users \ {u} : active[v] = 0
      BY <2>1, <3>1, OneStreamOut
    <3>3. PICK v \in Participants : v # u
      BY <2>5
    <3>4. v \in Users /\ active[v] = 0 /\ queues[v] # <<>>
      BY <3>2, <3>3 DEF Participants
    <3> QED BY <2>2, <2>5, <3>4 DEF Eligible
  <2> QED BY <2>4, <2>5
<1> QED BY <1>1, Inductive, PTL
-----------------------------------------------------------------------------
(* The order in which users are served.                                    *)

HInv == IInv /\ PassedStandBehind

(* Pairs of passed' that are not new were passed before.                   *)
LEMMA NothingPassed ==
  ASSUME active \in [Users -> Nat], Remember, \A v \in Users : ~(active'[v] > active[v])
  PROVE  passed' \subseteq passed /\ \A p \in passed' : p[1] \in Starved'
<1>1. {v \in Users : active'[v] > active[v]} = {}
  OBVIOUS
<1> QED BY <1>1 DEF Remember

(* A change of the rotation that puts nobody ahead of a user that was      *)
(* passed, in a step that serves nobody.                                   *)
LEMMA StillBehind ==
  ASSUME HInv, Remember, \A v \in Users : ~(active'[v] > active[v]),
         \A u \in Starved, v \in Users : u \in Starved' /\ Ahead(v, u)' => Ahead(v, u)
  PROVE  PassedStandBehind'
<1>1. /\ active \in [Users -> Nat]
      /\ passed \subseteq Starved \X Users
      /\ \A p \in passed : ~Ahead(p[2], p[1])
  BY DEF HInv, IInv, TypeInv, TypeOK, PassedStandBehind
<1>2. passed' \subseteq passed /\ \A p \in passed' : p[1] \in Starved'
  BY <1>1, NothingPassed
<1>3. passed' \subseteq Starved' \X Users
  BY <1>1, <1>2
<1>4. ASSUME NEW p \in passed' PROVE ~Ahead(p[2], p[1])'
  <2>1. /\ p \in passed /\ p[1] \in Starved /\ p[2] \in Users /\ p[1] \in Starved'
        /\ ~Ahead(p[2], p[1])
    BY <1>1, <1>2
  <2> QED BY <2>1
<1> QED BY <1>3, <1>4 DEF PassedStandBehind

(* A user that waits without a stream would be served at the front, so the *)
(* scan never moves it to the back.                                        *)
LEMMA StarvedIsNext ==
  ASSUME TypeInv, Scanning, NEW u \in Starved
  PROVE  Eligible(u)
<1>1. /\ u \in Participants /\ active[u] = 0 /\ activeTotal < MaxStreams
      /\ active[u] < MaxStreams
  BY LimitsAssumption DEF Starved, Participants, Scanning
<1> QED BY <1>1 DEF Eligible

(* The order behind the front user, when that one goes to the back or      *)
(* leaves.                                                                 *)
LEMMA OrderBehindFront ==
  ASSUME rotation \in Seq(Users), rotation # <<>>,
         \/ rotation' = Tail(rotation)
         \/ rotation' = Append(Tail(rotation), Head(rotation))
  PROVE  \A i, j \in 1..Len(rotation') :
           i < j /\ rotation'[j] # Head(rotation)
             => /\ i + 1 \in 1..Len(rotation) /\ j + 1 \in 1..Len(rotation)
                /\ rotation[i + 1] = rotation'[i] /\ rotation[j + 1] = rotation'[j]
<1>. DEFINE n == Len(rotation)
            f == Head(rotation)
            T == Tail(rotation)
<1>1. /\ f \in Users /\ T \in Seq(Users) /\ n \in Nat /\ n >= 1 /\ Len(T) = n - 1
      /\ \A k \in 1..Len(T) : T[k] = rotation[k + 1]
  BY HeadAndTail
<1>2. \A k \in 1..(n - 1) : T[k] = rotation[k + 1]
  BY <1>1
<1>3. \/ Len(rotation') = n - 1
      \/ Len(rotation') = n /\ rotation'[n] = f
  <2>1. CASE rotation' = T
    BY <1>1, <2>1
  <2>2. CASE rotation' = Append(T, f)
    <3>1. Len(Append(T, f)) = Len(T) + 1 /\ Append(T, f)[Len(T) + 1] = f
      BY <1>1, AppendProperties
    <3>2. Len(T) + 1 = n
      BY <1>1
    <3>3. Len(rotation') = Len(T) + 1 /\ rotation'[Len(T) + 1] = f
      BY <2>2, <3>1
    <3>. HIDE DEF T, f, n
    <3> QED BY <3>2, <3>3
  <2> QED BY <2>1, <2>2
<1>4. \A k \in 1..(n - 1) : rotation'[k] = T[k]
  <2>1. \A k \in 1..Len(T) : Append(T, f)[k] = T[k]
    BY <1>1, AppendProperties
  <2>. HIDE DEF n
  <2> QED BY <1>1, <2>1
<1>. HIDE DEF n, f, T
<1>5. ASSUME NEW i \in 1..Len(rotation'), NEW j \in 1..Len(rotation'), i < j, rotation'[j] # f
      PROVE  /\ i + 1 \in 1..n /\ j + 1 \in 1..n
             /\ rotation[i + 1] = rotation'[i] /\ rotation[j + 1] = rotation'[j]
  <2>1. i \in 1..(n - 1) /\ j \in 1..(n - 1)
    BY <1>1, <1>3, <1>5
  <2> QED BY <1>1, <1>2, <1>4, <2>1
<1> QED BY <1>5 DEF n, f

(* The order of the others, when a user leaves.                            *)
LEMMA OrderWithout ==
  ASSUME rotation \in Seq(Users), NEW x,
         rotation' = rotation \/ rotation' = Without(rotation, x)
  PROVE  \A i, j \in 1..Len(rotation') :
           i < j => \E a, b \in 1..Len(rotation) :
                       a < b /\ rotation[a] = rotation'[i] /\ rotation[b] = rotation'[j]
<1> SUFFICES ASSUME NEW i \in 1..Len(rotation'), NEW j \in 1..Len(rotation'), i < j
             PROVE  \E a, b \in 1..Len(rotation) :
                       a < b /\ rotation[a] = rotation'[i] /\ rotation[b] = rotation'[j]
  OBVIOUS
<1>1. CASE rotation' = rotation
  BY <1>1
<1>2. CASE rotation' # rotation
  <2>0. \/ \E k \in 1..Len(rotation) : Without(rotation, x) = RemoveAt(rotation, k)
        \/ Without(rotation, x) = rotation
    BY WithoutCases
  <2>1. PICK k \in 1..Len(rotation) : rotation' = RemoveAt(rotation, k)
    BY <1>2, <2>0
  <2>2. /\ Len(rotation) \in Nat /\ Len(rotation') = Len(rotation) - 1
        /\ \A m \in 1..(Len(rotation) - 1) :
             rotation'[m] = IF m < k THEN rotation[m] ELSE rotation[m + 1]
    BY <2>1, RemoveAtProperties, LenProperties
  <2>. DEFINE a == IF i < k THEN i ELSE i + 1
              b == IF j < k THEN j ELSE j + 1
  <2>3. a \in 1..Len(rotation) /\ b \in 1..Len(rotation) /\ a < b
    BY <2>2
  <2>4. rotation[a] = rotation'[i] /\ rotation[b] = rotation'[j]
    BY <2>2
  <2>. HIDE DEF a, b
  <2> QED BY <2>3, <2>4
<1> QED BY <1>1, <1>2

LEMMA OrderInit == HInit => HInv
<1>1. HInit => passed = {} /\ IInv
  BY InductiveInit DEF HInit
<1> QED BY <1>1 DEF HInv, PassedStandBehind

LEMMA OrderStep == HInv /\ [HNext]_hvars => HInv'
<1> SUFFICES ASSUME HInv, [HNext]_hvars PROVE HInv'
  OBVIOUS
<1>a. IInv'
  BY InductiveStep DEF HInv, HNext, hvars
<1>b. /\ TypeInv /\ QueueInv /\ RotationHoldsWaitingUsers
      /\ active \in [Users -> Nat]
      /\ queues \in [Users -> Seq(Threads)]
      /\ rotation \in Seq(Users)
      /\ UserOf \in [Threads -> Users]
  BY ThreadsAssumption DEF HInv, IInv, TypeInv, TypeOK, RotationInv
<1>c. /\ Len(rotation) \in Nat /\ DOMAIN rotation = 1..Len(rotation)
      /\ \A i, j \in 1..Len(rotation) : rotation[i] = rotation[j] => i = j
      /\ \A x : x \in ToSet(rotation) <=> \E i \in 1..Len(rotation) : rotation[i] = x
  BY <1>b, Elements DEF RotationHoldsWaitingUsers
<1>d. rotation' \in Seq(Users)
  BY <1>a DEF IInv, TypeInv, TypeOK
<1>e. Len(rotation') \in Nat /\ DOMAIN rotation' = 1..Len(rotation')
  BY <1>d, LenProperties
<1>1. ASSUME NEW t \in Threads, Grant(t), Remember PROVE PassedStandBehind'
  <2>. DEFINE f == Head(rotation)
  <2>1. /\ rotation # <<>> /\ f \in Users
        /\ rotation' = Tail(rotation) \/ rotation' = Append(Tail(rotation), f)
        /\ active' = [active EXCEPT ![f] = active[f] + 1]
    BY <1>1, <1>b, GrantFacts DEF Grant, Rotated
  <2>o. \A i, j \in 1..Len(rotation') :
          i < j /\ rotation'[j] # f
            => /\ i + 1 \in 1..Len(rotation) /\ j + 1 \in 1..Len(rotation)
               /\ rotation[i + 1] = rotation'[i] /\ rotation[j + 1] = rotation'[j]
    BY <1>b, <2>1, OrderBehindFront
  <2>2. f = rotation[1] /\ 1 \in 1..Len(rotation)
    BY <1>b, <2>1, HeadAndTail
  <2>3. f \notin Starved' /\ \A v \in Users : active'[v] > active[v] => v = f
    <3>. HIDE DEF f
    <3>1. active[f] \in Nat /\ active'[f] = active[f] + 1
      BY <1>b, <2>1
    <3>2. f \notin Starved'
      BY <3>1 DEF Starved
    <3>3. \A v \in Users : v # f => active'[v] = active[v] /\ active[v] \in Nat
      BY <1>b, <2>1
    <3> QED BY <3>2, <3>3
  <2>4. passed' \subseteq Starved' \X Users
    <3> SUFFICES ASSUME NEW p \in passed' PROVE p \in Starved' \X Users
      OBVIOUS
    <3>1. p \in Starved \X Users
      BY <1>1 DEF Remember, HInv, PassedStandBehind
    <3>2. p[1] \in Starved'
      BY <1>1 DEF Remember
    <3> QED BY <3>1, <3>2
  <2>5. ASSUME NEW p \in passed', Ahead(p[2], p[1])' PROVE FALSE
    <3>1. p[1] \in Starved' /\ p[1] # f
      BY <1>1, <2>3 DEF Remember
    <3>2. p \in passed \/ p[2] = f
      BY <1>1, <2>3 DEF Remember
    <3>3. PICK i, j \in 1..Len(rotation') :
             i < j /\ rotation'[i] = p[2] /\ rotation'[j] = p[1]
      BY <1>e, <2>5 DEF Ahead
    <3>4. /\ i + 1 \in 1..Len(rotation) /\ j + 1 \in 1..Len(rotation)
          /\ rotation[i + 1] = p[2] /\ rotation[j + 1] = p[1] /\ i + 1 < j + 1
      BY <2>o, <3>1, <3>3
    <3>5. CASE p \in passed
      <4>1. Ahead(p[2], p[1])
        BY <1>c, <3>4 DEF Ahead
      <4> QED BY <3>5, <4>1 DEF HInv, PassedStandBehind
    <3>6. CASE p[2] = f
      <4>1. i + 1 = 1
        BY <1>c, <2>2, <3>4, <3>6
      <4> QED BY <3>3, <4>1
    <3> QED BY <3>2, <3>5, <3>6
  <2> QED BY <2>4, <2>5 DEF PassedStandBehind
<1>2. ASSUME NEW t \in Threads, Rotate(t), Remember PROVE PassedStandBehind'
  <2>. DEFINE f == Head(rotation)
  <2>1. /\ active' = active /\ Scanning /\ ~FrontIsNext
        /\ rotation' = Tail(rotation) \/ rotation' = Append(Tail(rotation), f)
    BY <1>2 DEF Rotate, Rotated
  <2>2. rotation # <<>>
    BY <1>b, <2>1, FrontExists
  <2>o. \A i, j \in 1..Len(rotation') :
          i < j /\ rotation'[j] # f
            => /\ i + 1 \in 1..Len(rotation) /\ j + 1 \in 1..Len(rotation)
               /\ rotation[i + 1] = rotation'[i] /\ rotation[j + 1] = rotation'[j]
    BY <1>b, <2>1, <2>2, OrderBehindFront
  <2>3. f \notin Starved
    BY <1>b, <2>1, StarvedIsNext DEF FrontIsNext, Starved
  <2>4. ASSUME NEW u \in Starved, NEW v \in Users, Ahead(v, u)' PROVE Ahead(v, u)
    <3>1. PICK i, j \in 1..Len(rotation') :
             i < j /\ rotation'[i] = v /\ rotation'[j] = u
      BY <1>e, <2>4 DEF Ahead
    <3>2. /\ i + 1 \in 1..Len(rotation) /\ j + 1 \in 1..Len(rotation)
          /\ rotation[i + 1] = v /\ rotation[j + 1] = u /\ i + 1 < j + 1
      BY <2>3, <2>o, <3>1
    <3> QED BY <1>c, <3>2 DEF Ahead
  <2>5. \A v \in Users : ~(active'[v] > active[v])
    BY <1>b, <2>1
  <2> QED BY <1>2, <2>4, <2>5, StillBehind
<1>3. ASSUME NEW t \in Threads, Acquire(t), Remember PROVE PassedStandBehind'
  <2>. DEFINE w == UserOf[t]
              n == Len(rotation)
  <2>1. /\ w \in Users /\ active' = active /\ rotation' = Joined(w)
    BY <1>3, <1>b DEF Acquire
  <2>2. ASSUME NEW u \in Starved, NEW v \in Users, Ahead(v, u)' PROVE Ahead(v, u)
    <3>1. PICK i, j \in 1..Len(rotation') :
             i < j /\ rotation'[i] = v /\ rotation'[j] = u
      BY <1>e, <2>2 DEF Ahead
    <3>2. CASE queues[w] # <<>>
      BY <1>c, <2>1, <3>1, <3>2 DEF Joined, Ahead
    <3>3. CASE queues[w] = <<>>
      <4>1. u # w
        BY <3>3 DEF Starved
      <4>2. /\ Len(rotation') = n + 1
            /\ \A k \in 1..n : rotation'[k] = rotation[k]
            /\ rotation'[n + 1] = w
        BY <1>b, <2>1, <3>3, AppendProperties DEF Joined
      <4>3. i \in 1..n /\ j \in 1..n
        BY <1>c, <3>1, <4>1, <4>2
      <4> QED BY <1>c, <3>1, <4>2, <4>3 DEF Ahead
    <3> QED BY <3>2, <3>3
  <2>3. \A v \in Users : ~(active'[v] > active[v])
    BY <1>b, <2>1
  <2> QED BY <1>3, <2>2, <2>3, StillBehind
<1>4. ASSUME NEW t \in Threads, GiveUp(t), Remember PROVE PassedStandBehind'
  <2>. DEFINE w == UserOf[t]
  <2>1. /\ active' = active
        /\ rotation' = rotation \/ rotation' = Without(rotation, w)
    BY <1>4 DEF GiveUp
  <2>o. \A i, j \in 1..Len(rotation') :
          i < j => \E a, b \in 1..Len(rotation) :
                      a < b /\ rotation[a] = rotation'[i] /\ rotation[b] = rotation'[j]
    BY <1>b, <2>1, OrderWithout
  <2>2. ASSUME NEW u \in Starved, NEW v \in Users, Ahead(v, u)' PROVE Ahead(v, u)
    <3>1. PICK i, j \in 1..Len(rotation') :
             i < j /\ rotation'[i] = v /\ rotation'[j] = u
      BY <1>e, <2>2 DEF Ahead
    <3>2. \E a, b \in 1..Len(rotation) : a < b /\ rotation[a] = v /\ rotation[b] = u
      BY <2>o, <3>1
    <3> QED BY <1>c, <3>2 DEF Ahead
  <2>3. \A v \in Users : ~(active'[v] > active[v])
    BY <1>b, <2>1
  <2> QED BY <1>4, <2>2, <2>3, StillBehind
<1>5. ASSUME rotation' = rotation, \A v \in Users : ~(active'[v] > active[v]), Remember
      PROVE  PassedStandBehind'
  BY <1>5, StillBehind DEF Ahead
<1>6. ASSUME NEW t \in Threads, Release(t), Remember PROVE PassedStandBehind'
  BY <1>b, <1>5, <1>6 DEF Release
<1>7. ASSUME NEW t \in Threads, Remember,
             \/ Wake(t) \/ Expire(t) \/ ReturnLease(t) \/ Sleep(t)
             \/ RaiseTimeout(t) \/ ReturnRelease(t)
      PROVE  PassedStandBehind'
  <2>1. rotation' = rotation /\ active' = active
    BY <1>7 DEF Wake, Expire, ReturnLease, Sleep, RaiseTimeout, ReturnRelease
  <2> QED BY <1>b, <1>5, <1>7, <2>1
<1>8. ASSUME UNCHANGED hvars PROVE PassedStandBehind'
  <2>1. passed' = passed /\ queues' = queues /\ active' = active /\ rotation' = rotation
    BY <1>8 DEF hvars, vars
  <2>2. PassedStandBehind
    BY DEF HInv
  <2> QED BY <2>1, <2>2 DEF PassedStandBehind, Starved, Ahead
<1>9. ASSUME HNext PROVE PassedStandBehind'
  BY <1>1, <1>2, <1>3, <1>4, <1>6, <1>7, <1>9 DEF HNext, Next, Locked
<1> QED BY <1>a, <1>8, <1>9 DEF HInv

LEMMA OrderInductive == HSpec => []HInv
<1> QED BY OrderInit, OrderStep, PTL DEF HSpec

(* A user that was served stands behind everyone it passed.                *)
THEOREM PassedUsersStandBehind == HSpec => []PassedStandBehind
<1>1. HInv => PassedStandBehind
  BY DEF HInv
<1> QED BY <1>1, OrderInductive, PTL

(* A user that waits without a stream is passed at most once by every      *)
(* other user.                                                             *)
THEOREM PassedAtMostOnce == HSpec => ServedOncePerTurn
<1>1. HInv /\ [HNext]_hvars =>
        [\A u \in Starved, v \in Users :
           active'[v] > active[v] /\ u # v => <<u, v>> \notin passed]_hvars
  <2> SUFFICES ASSUME HInv, HNext, NEW u \in Starved, NEW v \in Users,
                      active'[v] > active[v], u # v
               PROVE  <<u, v>> \notin passed
    OBVIOUS
  <2>0. /\ TypeInv /\ QueueInv /\ RotationHoldsWaitingUsers
        /\ active \in [Users -> Nat] /\ rotation \in Seq(Users)
        /\ UserOf \in [Threads -> Users]
    BY ThreadsAssumption DEF HInv, IInv, TypeInv, TypeOK, RotationInv
  <2>1. ASSUME NEW t \in Threads, Grant(t) PROVE Ahead(v, u)
    <3>1. v = Head(rotation) /\ rotation # <<>>
      BY <2>0, <2>1, GrantFacts DEF Grant
    <3>2. v = rotation[1] /\ 1 \in DOMAIN rotation /\ Len(rotation) \in Nat
      BY <2>0, <3>1, HeadAndTail, LenProperties
    <3>3. u \in ToSet(rotation)
      BY <2>0 DEF RotationHoldsWaitingUsers, Starved
    <3>4. PICK j \in 1..Len(rotation) : rotation[j] = u
      BY <2>0, <3>3, Elements
    <3>5. j > 1 /\ j \in DOMAIN rotation
      BY <2>0, <3>2, <3>4, LenProperties
    <3> QED BY <3>2, <3>4, <3>5 DEF Ahead
  <2>2. ASSUME NEW t \in Threads, Release(t) PROVE FALSE
    BY <2>0, <2>2 DEF Release
  <2>3. ASSUME NEW t \in Threads,
               \/ Acquire(t) \/ Wake(t) \/ Expire(t) \/ Rotate(t)
               \/ ReturnLease(t) \/ Sleep(t) \/ GiveUp(t)
               \/ RaiseTimeout(t) \/ ReturnRelease(t)
        PROVE  FALSE
    <3>1. active' = active
      BY <2>3 DEF Acquire, Wake, Expire, Rotate, ReturnLease, Sleep, GiveUp,
                  RaiseTimeout, ReturnRelease
    <3> QED BY <2>0, <3>1
  <2>4. Ahead(v, u)
    BY <2>1, <2>2, <2>3 DEF HNext, Next, Locked
  <2> QED BY <2>4 DEF HInv, PassedStandBehind
<1> QED BY <1>1, OrderInductive, PTL DEF HSpec, ServedOncePerTurn
=============================================================================
