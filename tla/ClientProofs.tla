---------------------------- MODULE ClientProofs ----------------------------
(***************************************************************************)
(* Theorems about GatewayClient, for any threads, connections, kinds of    *)
(* requests, numbers of objects and retries, and any buckets.  What the    *)
(* connections are known to be (link) only guards steps, and is not used.  *)
(***************************************************************************)
EXTENDS GatewayClient, SequencesExt, FiniteSetTheorems, SequenceTheorems,
        WellFoundedInduction, TLAPS

(* The head and the rest of a nonempty sequence.                           *)
LEMMA HeadAndTail ==
  ASSUME NEW S, NEW q \in Seq(S), q # <<>>
  PROVE  /\ Head(q) \in S
         /\ Head(q) = q[1]
         /\ Tail(q) \in Seq(S)
         /\ Len(q) \in Nat /\ Len(q) >= 1
         /\ Len(Tail(q)) = Len(q) - 1
         /\ \A i \in 1..Len(Tail(q)) : Tail(q)[i] = q[i + 1]
BY HeadTailProperties, EmptySeq, LenProperties

(* The elements of a sequence and its positions.                           *)
LEMMA Elements ==
  ASSUME NEW S, NEW q \in Seq(S)
  PROVE  /\ Len(q) \in Nat
         /\ DOMAIN q = 1..Len(q)
         /\ ToSet(q) \subseteq S
         /\ \A x : x \in ToSet(q) <=> \E i \in 1..Len(q) : q[i] = x
         /\ IsInjective(q) <=> \A i, j \in 1..Len(q) : q[i] = q[j] => i = j
<1>1. Len(q) \in Nat /\ DOMAIN q = 1..Len(q) /\ \A i \in 1..Len(q) : q[i] \in S
  BY LenProperties, ElementOfSeq
<1> QED BY <1>1 DEF ToSet, IsInjective

(* Appending a new element.                                                *)
LEMMA AppendElements ==
  ASSUME NEW S, NEW q \in Seq(S), NEW x \in S
  PROVE  /\ Append(q, x) \in Seq(S)
         /\ Append(q, x) # <<>>
         /\ ToSet(Append(q, x)) = ToSet(q) \cup {x}
         /\ IsInjective(q) /\ x \notin ToSet(q) => IsInjective(Append(q, x))
<1>1. /\ Append(q, x) \in Seq(S) /\ Append(q, x) # <<>>
      /\ Len(q) \in Nat
      /\ Len(Append(q, x)) = Len(q) + 1
      /\ \A i \in 1..Len(q) : Append(q, x)[i] = q[i]
      /\ Append(q, x)[Len(q) + 1] = x
  BY AppendProperties, LenProperties
<1>2. /\ \A y : y \in ToSet(q) <=> \E i \in 1..Len(q) : q[i] = y
      /\ \A y : y \in ToSet(Append(q, x)) <=>
               \E i \in 1..(Len(q) + 1) : Append(q, x)[i] = y
  <2>1. \A y : y \in ToSet(Append(q, x)) <=>
               \E i \in 1..Len(Append(q, x)) : Append(q, x)[i] = y
    BY <1>1, Elements
  <2> QED BY <1>1, <2>1, Elements
<1>3. ToSet(Append(q, x)) = ToSet(q) \cup {x}
  BY <1>1, <1>2
<1>4. ASSUME IsInjective(q), x \notin ToSet(q) PROVE IsInjective(Append(q, x))
  <2>1. \A i, j \in 1..Len(q) : q[i] = q[j] => i = j
    BY <1>4, Elements
  <2>. DEFINE r == Append(q, x)
  <2>2. ASSUME NEW i \in 1..(Len(q) + 1), NEW j \in 1..(Len(q) + 1), r[i] = r[j]
        PROVE  i = j
    <3>1. \A n \in 1..(Len(q) + 1) :
            \/ n \in 1..Len(q) /\ r[n] = q[n]
            \/ n = Len(q) + 1 /\ r[n] = x
      <4>1. \A n \in 1..(Len(q) + 1) : n \in 1..Len(q) \/ n = Len(q) + 1
        BY <1>1
      <4> QED BY <1>1, <4>1
    <3>2. \A n \in 1..Len(q) : q[n] # x
      BY <1>2, <1>4
    <3> QED BY <2>1, <2>2, <3>1, <3>2
  <2> QED BY <1>1, <2>2, Elements
<1> QED BY <1>1, <1>3, <1>4

(* Taking the last away.                                                   *)
LEMMA FrontElements ==
  ASSUME NEW S, NEW q \in Seq(S), q # <<>>, IsInjective(q)
  PROVE  LET f == SubSeq(q, 1, Len(q) - 1)
         IN /\ f \in Seq(S)
            /\ IsInjective(f)
            /\ q[Len(q)] \in ToSet(q)
            /\ ToSet(f) = ToSet(q) \ {q[Len(q)]}
<1>. DEFINE m == Len(q)
            f == SubSeq(q, 1, m - 1)
<1>1. /\ m \in Nat /\ m >= 1
      /\ \A i \in 1..m : q[i] \in S
      /\ \A i, j \in 1..m : q[i] = q[j] => i = j
      /\ \A x : x \in ToSet(q) <=> \E i \in 1..m : q[i] = x
  BY HeadAndTail, Elements, ElementOfSeq
<1>2. /\ f \in Seq(S)
      /\ Len(f) = IF 1 <= m - 1 THEN m - 1 - 1 + 1 ELSE 0
      /\ \A i \in 1..(m - 1 - 1 + 1) : f[i] = q[1 + i - 1]
  <2>1. 1 \in Int /\ m - 1 \in Int /\ \A i \in 1..(m - 1) : q[i] \in S
    BY <1>1
  <2>. HIDE DEF m
  <2> QED BY <2>1, SubSeqProperties
<1>. HIDE DEF m, f
<1>3. f \in Seq(S) /\ Len(f) = m - 1 /\ \A i \in 1..(m - 1) : f[i] = q[i]
  <2>1. \A i \in 1..(m - 1) : i \in 1..(m - 1 - 1 + 1) /\ 1 + i - 1 = i
    BY <1>1
  <2> QED BY <1>1, <1>2, <2>1
<1>4. \A x : x \in ToSet(f) <=> \E i \in 1..(m - 1) : q[i] = x
  <2>1. \A x : x \in ToSet(f) <=> \E i \in 1..Len(f) : f[i] = x
    BY <1>3, Elements
  <2> QED BY <1>3, <2>1
<1>5. IsInjective(f)
  <2>1. \A i, j \in 1..Len(f) : f[i] = f[j] => i = j
    BY <1>1, <1>3
  <2> QED BY <1>3, <2>1, Elements
<1>6. \A x : x \in ToSet(f) <=> x \in ToSet(q) /\ x # q[m]
  <2>1. ASSUME NEW x, x \in ToSet(f) PROVE x \in ToSet(q) /\ x # q[m]
    <3>1. PICK i \in 1..(m - 1) : q[i] = x
      BY <1>4, <2>1
    <3>2. i \in 1..m /\ m \in 1..m /\ i # m
      BY <1>1, <3>1
    <3> QED BY <1>1, <3>1, <3>2
  <2>2. ASSUME NEW x, x \in ToSet(q), x # q[m] PROVE x \in ToSet(f)
    <3>1. PICK i \in 1..m : q[i] = x
      BY <1>1, <2>2
    <3>2. i \in 1..(m - 1)
      BY <1>1, <2>2, <3>1
    <3> QED BY <1>4, <3>1, <3>2
  <2> QED BY <2>1, <2>2
<1>7. ToSet(f) = ToSet(q) \ {q[m]} /\ q[m] \in ToSet(q)
  BY <1>1, <1>6
<1> QED BY <1>3, <1>5, <1>7 DEF m, f
-----------------------------------------------------------------------------

Busy == {"request", "answer", "body"}

Request == [at : {"idle", "take", "done", "failed"} \cup Busy,
            kind : Kinds \cup {None}, connection : Connections \cup {None},
            got : Seq(Nat), asked : Nat, received : Nat, resent : BOOLEAN,
            attempts : Nat, reason : {None, "network", "unsent", "gateway", "content"}]

CountOf(r) == IF r.kind \in Several THEN Objects ELSE 1

Bounds == {0} \cup BucketEnds

(* What is true of each request: the next object is the one after those    *)
(* that have been received.                                                *)
Fits(r) ==
  /\ r.at \in Busy <=> r.connection # None
  /\ \A i \in 1..Len(r.got) : r.got[i] = i
  /\ Len(r.got) <= CountOf(r)
  /\ r.at = "idle" => r.got = <<>>
  /\ r.at = "take" /\ r.kind = "cache" => r.got = <<>>
  /\ r.at \in {"request", "answer"} => r.asked = Len(r.got) + 1 /\ r.received = 0
  /\ r.at = "body" => r.asked + r.received = Len(r.got) + 1
  /\ r.at = "done" => Len(r.got) = CountOf(r)
  /\ r.at = "failed" /\ r.kind = "cache" => Len(r.got) \in Bounds

Types == reader \in [Readers -> Request]

Fitting == \A t \in Readers : Fits(reader[t])

Pool == /\ pool \in Seq(Connections)
        /\ IsInjective(pool)
        /\ \A t \in Readers : reader[t].connection \notin ToSet(pool)
        /\ \A t, u \in Readers :
             reader[t].connection = reader[u].connection /\ reader[t].connection # None
               => t = u
        /\ \A c \in Connections :
             c \in ToSet(pool) \/ \E t \in Readers : reader[t].connection = c

Inv == Types /\ Fitting /\ Pool
-----------------------------------------------------------------------------
(* A set of numbers with a bound has a largest element.                    *)
LEMMA LargestElement ==
  ASSUME NEW S \in SUBSET Nat, S # {}, NEW n \in Nat, \A e \in S : e <= n
  PROVE  Max(S) \in S /\ \A e \in S : e <= Max(S)
<1>. DEFINE T == {n - e : e \in S}
            R == OpToRel(<, Nat)
<1>1. T \subseteq Nat
  BY SMT
<1>2. T # {}
  <2>1. PICK e \in S : TRUE
    OBVIOUS
  <2> QED BY <2>1
<1>3. PICK d \in T : \A f \in T : <<f, d>> \notin R
  <2>. HIDE DEF T
  <2> QED BY <1>1, <1>2, NatLessThanWellFounded, WFMin
<1>4. PICK m \in S : d = n - m
  BY <1>3
<1>5. ASSUME NEW e \in S PROVE e <= m
  <2>1. n - e \in T /\ n - e \in Nat /\ d \in Nat
    BY <1>1, <1>3
  <2>2. ~(n - e < d)
    BY <1>3, <2>1 DEF OpToRel
  <2> QED BY <1>4, <2>1, <2>2
<1> QED BY <1>4, <1>5 DEF Max

(* What is kept of what a request has received: all of it, or, in a cache  *)
(* download, the whole buckets.                                            *)
LEMMA KeptFacts ==
  ASSUME Types, Fitting, NEW t \in Readers
  PROVE  /\ Kept(t) \in Nat /\ Kept(t) <= Len(reader[t].got)
         /\ reader[t].kind = "cache" => Kept(t) \in Bounds
         /\ reader[t].kind # "cache" \/ Complete(t) => Kept(t) = Len(reader[t].got)
<1>. DEFINE r == reader[t]
            n == Len(r.got)
            S == {0} \cup {e \in BucketEnds : e <= n}
<1>1. r \in Request /\ r.got \in Seq(Nat) /\ n \in Nat
  <2>1. r \in Request
    BY DEF Types
  <2>2. r.got \in Seq(Nat)
    BY <2>1 DEF Request
  <2> QED BY <2>1, <2>2, LenProperties
<1>. HIDE DEF r, n
<1>2. CASE r.kind # "cache"
  BY <1>1, <1>2 DEF Kept, r, n
<1>3. CASE r.kind = "cache"
  <2>1. BucketEnds \subseteq Nat /\ Objects \in BucketEnds
    BY ClientAssumption
  <2>2. S \subseteq Nat /\ S # {} /\ \A e \in S : e <= n
    <3>1. 0 \in S /\ 0 <= n
      BY <1>1
    <3>2. \A e \in S : e = 0 \/ (e \in BucketEnds /\ e <= n)
      OBVIOUS
    <3>. HIDE DEF S
    <3>3. ASSUME NEW e \in S PROVE e \in Nat /\ e <= n
      <4>1. CASE e = 0
        BY <3>1, <4>1
      <4>2. CASE e # 0
        BY <2>1, <3>2, <4>2
      <4> QED BY <4>1, <4>2
    <3> QED BY <3>1, <3>3
  <2>. HIDE DEF S
  <2>3. Max(S) \in S /\ \A e \in S : e <= Max(S)
    BY <1>1, <2>2, LargestElement
  <2>4. Kept(t) = Max(S)
    BY <1>3 DEF Kept, S, r, n
  <2>5. Kept(t) \in Nat /\ Kept(t) <= n /\ Kept(t) \in Bounds
    BY <2>2, <2>3, <2>4 DEF S, Bounds
  <2>6. ASSUME Complete(t) PROVE Kept(t) = n
    <3>1. n = Objects
      BY <1>3, <2>6 DEF Complete, Count, Several, r, n
    <3>2. n \in S
      BY <1>1, <2>1, <3>1 DEF S
    <3> QED BY <1>1, <2>3, <2>4, <2>5, <3>2
  <2> QED BY <1>3, <2>5, <2>6 DEF r, n
<1> QED BY <1>2, <1>3

LEMMA ResetFacts ==
  ASSUME Types, Fitting, NEW t \in Readers
  PROVE  /\ Reset(t) \in Seq(Nat) /\ Len(Reset(t)) = Kept(t)
         /\ \A i \in 1..Kept(t) : Reset(t)[i] = i
<1>. DEFINE g == reader[t].got
            k == Kept(t)
<1>1. g \in Seq(Nat) /\ \A i \in 1..Len(g) : g[i] = i
  <2>1. reader[t] \in Request /\ Fits(reader[t])
    BY DEF Types, Fitting
  <2>2. g \in Seq(Nat)
    BY <2>1 DEF Request
  <2> QED BY <2>1, <2>2 DEF Fits
<1>2. k \in Nat /\ k <= Len(g) /\ Len(g) \in Nat
  BY <1>1, KeptFacts, LenProperties
<1>3. Reset(t) = SubSeq(g, 1, k)
  BY DEF Reset
<1>. HIDE DEF g, k
<1>4. 1 \in Int /\ k \in Int /\ \A i \in 1..k : g[i] \in Nat
  BY <1>1, <1>2
<1>5. /\ SubSeq(g, 1, k) \in Seq(Nat)
      /\ Len(SubSeq(g, 1, k)) = IF 1 <= k THEN k - 1 + 1 ELSE 0
      /\ \A i \in 1..(k - 1 + 1) : SubSeq(g, 1, k)[i] = g[1 + i - 1]
  BY <1>4, SubSeqProperties
<1>6. /\ SubSeq(g, 1, k) \in Seq(Nat) /\ Len(SubSeq(g, 1, k)) = k
      /\ \A i \in 1..k : SubSeq(g, 1, k)[i] = i
  <2>1. \A i \in 1..k : i \in 1..(k - 1 + 1) /\ 1 + i - 1 = i /\ i \in 1..Len(g)
    BY <1>2
  <2> QED BY <1>1, <1>2, <1>5, <2>1
<1> QED BY <1>3, <1>6 DEF k
-----------------------------------------------------------------------------
(* A request that gives its connection back is left with what it keeps.    *)
LEMMA ReleasedFits ==
  ASSUME Types, Fitting, NEW t \in Readers, NEW n \in Request,
         n.connection = None, n.got = Reset(t), n.kind = reader[t].kind,
         n.at \in {"take", "done", "failed"},
         n.at = "done" => Complete(t), n.at = "take" => n.kind # "cache"
  PROVE  Fits(n)
<1>1. Fits(reader[t]) /\ reader[t].got \in Seq(Nat) /\ Len(reader[t].got) \in Nat
  <2>1. reader[t] \in Request /\ Fits(reader[t])
    BY DEF Types, Fitting
  <2>2. reader[t].got \in Seq(Nat)
    BY <2>1 DEF Request
  <2> QED BY <2>1, <2>2, LenProperties
<1>2. /\ Len(n.got) = Kept(t) /\ Kept(t) \in Nat /\ Kept(t) <= Len(reader[t].got)
      /\ \A i \in 1..Kept(t) : n.got[i] = i
  BY KeptFacts, ResetFacts
<1>3. CountOf(n) = CountOf(reader[t]) /\ CountOf(n) = Count(t) /\ CountOf(n) \in Nat
  BY ClientAssumption DEF CountOf, Count
<1>4. Len(n.got) <= CountOf(n)
  <2>1. Len(reader[t].got) <= CountOf(n)
    BY <1>1, <1>3 DEF Fits
  <2> QED BY <1>1, <1>2, <1>3, <2>1
<1>5. n.at = "done" => Len(n.got) = CountOf(n)
  BY <1>2, <1>3, KeptFacts DEF Complete
<1>6. n.kind = "cache" => Len(n.got) \in Bounds
  BY <1>2, KeptFacts
<1>7. n.at \notin Busy /\ n.at # "idle"
  BY DEF Busy
<1>8. n.at \notin {"request", "answer"} /\ n.at # "body"
  BY <1>7 DEF Busy
<1> QED BY <1>2, <1>4, <1>5, <1>6, <1>7, <1>8 DEF Fits

(* One request changes, to one that fits.                                  *)
LEMMA Update ==
  ASSUME Types, Fitting, NEW t \in Readers, NEW n \in Request, Fits(n),
         reader' = [reader EXCEPT ![t] = n]
  PROVE  /\ Types' /\ Fitting'
         /\ reader'[t] = n /\ \A u \in Readers \ {t} : reader'[u] = reader[u]
<1>1. /\ reader' \in [Readers -> Request]
      /\ reader'[t] = n /\ \A u \in Readers \ {t} : reader'[u] = reader[u]
  BY DEF Types
<1>2. \A u \in Readers : Fits(reader'[u])
  BY <1>1 DEF Fitting
<1>3. Fitting' = \A u \in Readers : Fits(reader'[u])
  BY DEF Fitting, Fits, CountOf
<1> QED BY <1>1, <1>2, <1>3 DEF Types

(* Three ways of treating the pool: it is left alone, the connection goes  *)
(* on its top, the one on its top is taken.                                *)
LEMMA Keeps ==
  ASSUME Inv, NEW t \in Readers, NEW n \in Request, Fits(n),
         reader' = [reader EXCEPT ![t] = n], pool' = pool,
         n.connection = reader[t].connection
  PROVE  Inv'
<1>1. /\ Types' /\ Fitting'
      /\ reader'[t] = n /\ \A u \in Readers \ {t} : reader'[u] = reader[u]
  BY Update DEF Inv
<1>2. \A u \in Readers : reader'[u].connection = reader[u].connection
  BY <1>1
<1>3. Pool'
  BY <1>2 DEF Inv, Pool
<1> QED BY <1>1, <1>3 DEF Inv

LEMMA Gives ==
  ASSUME Inv, NEW t \in Readers, NEW n \in Request, Fits(n),
         reader' = [reader EXCEPT ![t] = n],
         reader[t].at \in Busy, pool' = Append(pool, reader[t].connection),
         n.connection = None
  PROVE  Inv'
<1>. DEFINE c == reader[t].connection
<1>1. /\ Types' /\ Fitting'
      /\ reader'[t] = n /\ \A u \in Readers \ {t} : reader'[u] = reader[u]
  BY Update DEF Inv
<1>2. c \in Connections /\ c # None
  <2>1. reader[t] \in Request /\ Fits(reader[t])
    BY DEF Inv, Types, Fitting
  <2>2. c \in Connections \cup {None}
    BY <2>1 DEF Request
  <2> QED BY <2>1, <2>2 DEF Fits
<1>3. /\ pool' \in Seq(Connections) /\ IsInjective(pool')
      /\ ToSet(pool') = ToSet(pool) \cup {c}
  BY <1>2, AppendElements DEF Inv, Pool
<1>4. reader'[t].connection = None
      /\ \A u \in Readers \ {t} : reader'[u].connection = reader[u].connection
  BY <1>1
<1>5. None \notin ToSet(pool')
  BY <1>3, Elements, ClientAssumption
<1>6. \A u \in Readers \ {t} : reader[u].connection # c
  BY <1>2 DEF Inv, Pool
<1>7. \A u \in Readers : reader'[u].connection \notin ToSet(pool')
  BY <1>3, <1>4, <1>5, <1>6 DEF Inv, Pool
<1>8. \A u, v \in Readers :
        reader'[u].connection = reader'[v].connection /\ reader'[u].connection # None
          => u = v
  BY <1>4 DEF Inv, Pool
<1>9. \A d \in Connections :
        d \in ToSet(pool') \/ \E u \in Readers : reader'[u].connection = d
  <2>1. SUFFICES ASSUME NEW d \in Connections, d \notin ToSet(pool')
                 PROVE  \E u \in Readers : reader'[u].connection = d
    OBVIOUS
  <2>2. PICK u \in Readers : reader[u].connection = d
    BY <1>3, <2>1 DEF Inv, Pool
  <2>3. u # t
    BY <1>3, <2>1, <2>2
  <2> QED BY <1>4, <2>2, <2>3
<1>10. Pool'
  BY <1>3, <1>7, <1>8, <1>9 DEF Pool
<1> QED BY <1>1, <1>10 DEF Inv

LEMMA Takes ==
  ASSUME Inv, NEW t \in Readers, NEW n \in Request, Fits(n),
         reader' = [reader EXCEPT ![t] = n],
         reader[t].at \notin Busy, pool # <<>>,
         pool' = SubSeq(pool, 1, Len(pool) - 1),
         n.connection = pool[Len(pool)]
  PROVE  Inv'
<1>. DEFINE c == pool[Len(pool)]
<1>1. /\ Types' /\ Fitting'
      /\ reader'[t] = n /\ \A u \in Readers \ {t} : reader'[u] = reader[u]
  BY Update DEF Inv
<1>2. reader[t].connection = None
  BY DEF Inv, Fitting, Fits
<1>3. /\ pool' \in Seq(Connections) /\ IsInjective(pool')
      /\ c \in ToSet(pool) /\ ToSet(pool') = ToSet(pool) \ {c}
  BY FrontElements DEF Inv, Pool
<1>4. c \in Connections /\ c # None
  BY <1>3, Elements, ClientAssumption DEF Inv, Pool
<1>5. n.connection = c
  OBVIOUS
<1>. HIDE DEF c
<1>6. /\ reader'[t].connection = c
      /\ \A u \in Readers \ {t} : reader'[u].connection = reader[u].connection
  BY <1>1, <1>5
<1>7. \A u \in Readers : reader[u].connection \notin ToSet(pool)
  BY DEF Inv, Pool
<1>8. \A u \in Readers : reader'[u].connection \notin ToSet(pool')
  BY <1>3, <1>6, <1>7
<1>9. \A u, v \in Readers :
        reader'[u].connection = reader'[v].connection /\ reader'[u].connection # None
          => u = v
  BY <1>3, <1>6, <1>7 DEF Inv, Pool
<1>10. \A d \in Connections :
         d \in ToSet(pool') \/ \E u \in Readers : reader'[u].connection = d
  <2>1. SUFFICES ASSUME NEW d \in Connections, d \notin ToSet(pool'), d # c
                 PROVE  \E u \in Readers : reader'[u].connection = d
    BY <1>6
  <2>2. d # None
    BY ClientAssumption
  <2>3. PICK u \in Readers : reader[u].connection = d
    BY <1>3, <2>1 DEF Inv, Pool
  <2> QED BY <1>2, <1>6, <2>2, <2>3
<1>11. Pool'
  BY <1>3, <1>8, <1>9, <1>10 DEF Pool
<1> QED BY <1>1, <1>11 DEF Inv
-----------------------------------------------------------------------------
LEMMA ReaderFacts ==
  ASSUME Inv, NEW t \in Readers
  PROVE  /\ reader[t] \in Request /\ Fits(reader[t])
         /\ reader[t].got \in Seq(Nat) /\ Len(reader[t].got) \in Nat
         /\ Reset(t) \in Seq(Nat) /\ Kept(t) \in Nat /\ FirstMissing(t) \in Nat
         /\ AttemptsUsed(t) \in Nat /\ Count(t) \in Nat
         /\ CountOf(reader[t]) = Count(t)
<1>1. reader[t] \in Request /\ Fits(reader[t])
  BY DEF Inv, Types, Fitting
<1>2. reader[t].got \in Seq(Nat) /\ reader[t].attempts \in Nat
  BY <1>1 DEF Request
<1>3. Kept(t) \in Nat /\ Reset(t) \in Seq(Nat)
  BY KeptFacts, ResetFacts DEF Inv
<1>4. FirstMissing(t) \in Nat
  BY <1>3 DEF FirstMissing
<1>5. AttemptsUsed(t) \in Nat
  BY <1>2 DEF AttemptsUsed
<1>6. Count(t) \in Nat /\ CountOf(reader[t]) = Count(t)
  BY ClientAssumption DEF Count, CountOf
<1> QED BY <1>1, <1>2, <1>3, <1>4, <1>5, <1>6, LenProperties

LEMMA ReleasedRecord ==
  ASSUME Inv, NEW t \in Readers, NEW a \in {"take", "done", "failed"}, NEW k \in Nat,
         NEW reason \in {None, "network", "unsent", "gateway", "content"},
         NEW n \in {[Released(t) EXCEPT !.at = a],
                    [Released(t) EXCEPT !.at = a, !.attempts = k],
                    [Raised(t, reason) EXCEPT !.attempts = k], Raised(t, reason)},
         n.at = "done" => Complete(t), n.at = "take" => reader[t].kind # "cache"
  PROVE  n \in Request /\ Fits(n) /\ n.connection = None
<1>. DEFINE r == reader[t]
            g == Reset(t)
<1>1. r \in Request /\ g \in Seq(Nat)
  BY ReaderFacts
<1>. DEFINE p == Released(t)
<1>2. p = [r EXCEPT !.connection = None, !.got = g, !.asked = 1,
                    !.received = 0, !.resent = FALSE]
  BY DEF Released
<1>3. n \in {[p EXCEPT !.at = a], [p EXCEPT !.at = a, !.attempts = k],
             [[p EXCEPT !.at = "failed", !.reason = reason] EXCEPT !.attempts = k],
             [p EXCEPT !.at = "failed", !.reason = reason]}
  BY DEF Raised
<1>. HIDE DEF r, g, p
<1>4. p \in Request /\ p.connection = None /\ p.got = g /\ p.kind = r.kind
  BY <1>1, <1>2 DEF Request
<1>5. /\ n \in Request /\ n.connection = None /\ n.got = g /\ n.kind = r.kind
      /\ n.at \in {"take", "done", "failed"}
  <2>1. CASE n = [p EXCEPT !.at = a]
    BY <1>4, <2>1 DEF Request
  <2>2. CASE n = [p EXCEPT !.at = a, !.attempts = k]
    BY <1>4, <2>2 DEF Request
  <2>3. CASE n = [[p EXCEPT !.at = "failed", !.reason = reason] EXCEPT !.attempts = k]
    BY <1>4, <2>3 DEF Request
  <2>4. CASE n = [p EXCEPT !.at = "failed", !.reason = reason]
    BY <1>4, <2>4 DEF Request
  <2> QED BY <1>3, <2>1, <2>2, <2>3, <2>4
<1>6. Fits(n)
  BY <1>5, ReleasedFits DEF Inv, r, g
<1> QED BY <1>5, <1>6

LEMMA Failing ==
  ASSUME Inv, NEW t \in Readers, reader[t].at \in Busy, NEW state,
         NEW reason \in {"unsent", "gateway", "content"}, Fails(t, state, reason)
  PROVE  Inv'
<1>. DEFINE n == Raised(t, reason)
<1>1. n.at = "failed"
  <2>1. reader[t] \in Request
    BY ReaderFacts
  <2> QED BY <2>1 DEF Raised, Released, Request
<1>2. reader' = [reader EXCEPT ![t] = n] /\ pool' = Append(pool, reader[t].connection)
  BY DEF Fails, GivenBack
<1>. HIDE DEF n
<1>3. n \in Request /\ Fits(n) /\ n.connection = None
  BY <1>1, ReleasedRecord DEF n
<1> QED BY <1>2, <1>3, Gives

LEMMA Succeeding ==
  ASSUME Inv, NEW t \in Readers, reader[t].at \in Busy, NEW state,
         Complete(t), Succeeds(t, state)
  PROVE  Inv'
<1>. DEFINE n == [Released(t) EXCEPT !.at = "done"]
<1>1. n.at = "done"
  <2>1. reader[t] \in Request
    BY ReaderFacts
  <2> QED BY <2>1 DEF Released, Request
<1>2. reader' = [reader EXCEPT ![t] = n] /\ pool' = Append(pool, reader[t].connection)
  BY DEF Succeeds, GivenBack
<1>. HIDE DEF n
<1>3. n \in Request /\ Fits(n) /\ n.connection = None
  BY <1>1, ReleasedRecord DEF n
<1> QED BY <1>2, <1>3, Gives

(* An error of the network ends the request, or repeats it with the same   *)
(* connection or with another.                                             *)
LEMMA Erring ==
  ASSUME Inv, NEW t \in Readers, reader[t].at \in Busy, NEW state,
         NetworkError(t, state)
  PROVE  Inv'
<1>. DEFINE r == reader[t]
            k == AttemptsUsed(t)
            g == Reset(t)
<1>1. /\ r \in Request /\ Fits(r) /\ k \in Nat /\ k + 1 \in Nat
      /\ g \in Seq(Nat) /\ FirstMissing(t) \in Nat
  BY ReaderFacts
<1>2. CASE Complete(t) /\ Succeeds(t, state)
  BY <1>2, Succeeding
<1>3. CASE /\ pool' = GivenBack(t)
           /\ reader' = [reader EXCEPT ![t] = [Raised(t, "network") EXCEPT !.attempts = k]]
  <2>. DEFINE n == [Raised(t, "network") EXCEPT !.attempts = k]
  <2>1. n.at = "failed"
    BY <1>1 DEF Raised, Released, Request
  <2>2. reader' = [reader EXCEPT ![t] = n] /\ pool' = Append(pool, reader[t].connection)
    BY <1>3 DEF GivenBack
  <2>. HIDE DEF n
  <2>3. n \in Request /\ Fits(n) /\ n.connection = None
    BY <1>1, <2>1, ReleasedRecord DEF n
  <2> QED BY <2>2, <2>3, Gives
<1>4. CASE /\ KeepsConnection(t)
           /\ reader' = [reader EXCEPT ![t].at = "request",
                           ![t].attempts = AttemptsUsed(t) + 1, ![t].got = Reset(t),
                           ![t].asked = FirstMissing(t), ![t].received = 0,
                           ![t].resent = FALSE]
           /\ pool' = pool
  <2>. DEFINE n == [r EXCEPT !.at = "request", !.attempts = k + 1, !.got = g,
                             !.asked = FirstMissing(t), !.received = 0, !.resent = FALSE]
  <2>1. reader' = [reader EXCEPT ![t] = n]
    BY <1>4
  <2>. HIDE DEF r, k, g
  <2>2. /\ n \in Request /\ n.at = "request" /\ n.got = g /\ n.asked = FirstMissing(t)
        /\ n.received = 0 /\ n.connection = r.connection /\ n.kind = r.kind
    BY <1>1 DEF Request, Busy
  <2>. HIDE DEF n
  <2>3. /\ Len(g) = Kept(t) /\ Kept(t) \in Nat /\ Kept(t) <= Len(r.got)
        /\ \A i \in 1..Len(g) : g[i] = i
    BY ResetFacts, KeptFacts DEF Inv, r, g
  <2>4. Len(n.got) <= CountOf(n)
    <3>1. CountOf(n) = CountOf(r) /\ CountOf(r) \in Nat /\ Len(r.got) \in Nat
      BY <2>2, ReaderFacts, ClientAssumption DEF CountOf, r
    <3>2. Len(r.got) <= CountOf(r)
      BY <1>1 DEF Fits
    <3> QED BY <2>2, <2>3, <3>1, <3>2
  <2>5. n.asked = Len(n.got) + 1
    BY <2>2, <2>3 DEF FirstMissing
  <2>6. n.connection # None
    BY <1>1, <2>2 DEF Fits, r
  <2>7. Fits(n)
    BY <2>2, <2>3, <2>4, <2>5, <2>6 DEF Fits, Busy
  <2> QED BY <1>4, <2>1, <2>2, <2>7, Keeps DEF r
<1>5. CASE /\ ~KeepsConnection(t)
           /\ reader' = [reader EXCEPT ![t] =
                           [Released(t) EXCEPT !.at = "take", !.attempts = k + 1]]
           /\ pool' = GivenBack(t)
  <2>. DEFINE n == [Released(t) EXCEPT !.at = "take", !.attempts = k + 1]
  <2>1. n.at = "take" /\ reader[t].kind # "cache"
    BY <1>1, <1>5 DEF KeepsConnection, Released, Request
  <2>2. reader' = [reader EXCEPT ![t] = n] /\ pool' = Append(pool, reader[t].connection)
    BY <1>5 DEF GivenBack
  <2>. DEFINE j == k + 1
  <2>3. n = [Released(t) EXCEPT !.at = "take", !.attempts = j]
    OBVIOUS
  <2>. HIDE DEF n, k, j
  <2>4. j \in Nat
    BY <1>1 DEF j
  <2>5. n \in Request /\ Fits(n) /\ n.connection = None
    BY <2>1, <2>3, <2>4, ReleasedRecord
  <2> QED BY <2>2, <2>5, Gives
<1> QED BY <1>2, <1>3, <1>4, <1>5 DEF NetworkError

(* The request is sent once more with its connection.                      *)
LEMMA SendingAgain ==
  ASSUME Inv, NEW t \in Readers, reader[t].at \in {"request", "answer"}, SendAgain(t)
  PROVE  Inv'
<1>. DEFINE r == reader[t]
            n == [r EXCEPT !.at = "request", !.resent = TRUE]
<1>1. r \in Request /\ Fits(r) /\ r.at \in Busy
  BY ReaderFacts DEF Busy
<1>2. reader' = [reader EXCEPT ![t] = n] /\ pool' = pool
  BY DEF SendAgain
<1>. HIDE DEF r
<1>3. /\ n \in Request /\ n.at = "request" /\ n.got = r.got /\ n.asked = r.asked
      /\ n.received = r.received /\ n.connection = r.connection /\ n.kind = r.kind
  BY <1>1 DEF Request, Busy
<1>. HIDE DEF n
<1>4. Fits(n)
  BY <1>1, <1>3 DEF Fits, Busy, CountOf, r
<1> QED BY <1>2, <1>3, <1>4, Keeps DEF r
-----------------------------------------------------------------------------
LEMMA Beginning ==
  ASSUME Inv, NEW t \in Readers, Begin(t)
  PROVE  Inv'
<1>. DEFINE r == reader[t]
<1>1. r \in Request /\ Fits(r) /\ r.at = "idle"
  BY ReaderFacts DEF Begin
<1>2. r.connection = None /\ r.got = <<>>
  BY <1>1 DEF Fits, Busy
<1>3. PICK k \in Kinds : reader' = [reader EXCEPT ![t].at = "take", ![t].kind = k]
  BY DEF Begin
<1>. DEFINE n == [r EXCEPT !.at = "take", !.kind = k]
<1>4. reader' = [reader EXCEPT ![t] = n] /\ pool' = pool
  BY <1>3 DEF Begin
<1>. HIDE DEF r
<1>5. /\ n \in Request /\ n.at = "take" /\ n.got = <<>>
      /\ n.connection = None /\ n.connection = r.connection
  BY <1>1, <1>2 DEF Request
<1>. HIDE DEF n
<1>6. Len(n.got) = 0 /\ CountOf(n) \in Nat
  BY <1>5, EmptySeq, ClientAssumption DEF CountOf
<1>7. Fits(n)
  BY <1>5, <1>6 DEF Fits, Busy
<1> QED BY <1>4, <1>5, <1>7, Keeps DEF r

LEMMA Taking ==
  ASSUME Inv, NEW t \in Readers, Take(t)
  PROVE  Inv'
<1>. DEFINE r == reader[t]
            c == pool[Len(pool)]
<1>1. /\ r \in Request /\ Fits(r) /\ r.at = "take" /\ FirstMissing(t) \in Nat
      /\ Len(r.got) \in Nat
  BY ReaderFacts DEF Take
<1>2. c \in Connections /\ c # None
  <2>1. c \in ToSet(pool)
    BY FrontElements DEF Inv, Pool, Take
  <2> QED BY <2>1, Elements, ClientAssumption DEF Inv, Pool
<1>3. Kept(t) = Len(r.got)
  <2>1. CASE r.kind # "cache"
    BY <2>1, KeptFacts DEF Inv
  <2>2. CASE r.kind = "cache"
    <3>1. Len(r.got) = 0
      BY <1>1, <2>2, EmptySeq DEF Fits
    <3> QED BY <3>1, KeptFacts DEF Inv
  <2> QED BY <2>1, <2>2
<1>. DEFINE n == [r EXCEPT !.at = "request", !.connection = c,
                           !.asked = FirstMissing(t), !.received = 0, !.resent = FALSE]
<1>4. /\ reader' = [reader EXCEPT ![t] = n]
      /\ pool # <<>> /\ pool' = SubSeq(pool, 1, Len(pool) - 1)
  BY DEF Take
<1>. HIDE DEF r, c
<1>5. /\ n \in Request /\ n.at = "request" /\ n.got = r.got /\ n.kind = r.kind
      /\ n.connection = c /\ n.asked = FirstMissing(t) /\ n.received = 0
  BY <1>1, <1>2 DEF Request, Busy
<1>. HIDE DEF n
<1>6. n.asked = Len(n.got) + 1
  BY <1>3, <1>5 DEF FirstMissing
<1>7. Fits(n)
  BY <1>1, <1>2, <1>5, <1>6 DEF Fits, Busy, CountOf
<1>8. reader[t].at \notin Busy
  BY <1>1 DEF Busy, r
<1> QED BY <1>4, <1>5, <1>7, <1>8, Takes DEF c

LEMMA Sending ==
  ASSUME Inv, NEW t \in Readers, Send(t)
  PROVE  Inv'
<1>. DEFINE r == reader[t]
            n == [r EXCEPT !.at = "answer"]
<1>1. r \in Request /\ Fits(r) /\ r.at = "request"
  BY ReaderFacts DEF Send
<1>2. reader' = [reader EXCEPT ![t] = n] /\ pool' = pool
  BY DEF Send
<1>. HIDE DEF r
<1>3. /\ n \in Request /\ n.at = "answer" /\ n.got = r.got /\ n.asked = r.asked
      /\ n.received = r.received /\ n.connection = r.connection /\ n.kind = r.kind
  BY <1>1 DEF Request, Busy
<1>. HIDE DEF n
<1>4. Fits(n)
  BY <1>1, <1>3 DEF Fits, Busy, CountOf
<1> QED BY <1>2, <1>3, <1>4, Keeps DEF r

LEMMA Answering ==
  ASSUME Inv, NEW t \in Readers, AnswerBegins(t)
  PROVE  Inv'
<1>. DEFINE r == reader[t]
            n == [r EXCEPT !.at = "body"]
<1>1. r \in Request /\ Fits(r) /\ r.at = "answer" /\ Len(r.got) \in Nat
  BY ReaderFacts DEF AnswerBegins
<1>2. reader' = [reader EXCEPT ![t] = n] /\ pool' = pool
  BY DEF AnswerBegins
<1>. HIDE DEF r
<1>3. /\ n \in Request /\ n.at = "body" /\ n.got = r.got /\ n.asked = r.asked
      /\ n.received = r.received /\ n.connection = r.connection /\ n.kind = r.kind
  BY <1>1 DEF Request, Busy
<1>. HIDE DEF n
<1>4. n.asked + n.received = Len(n.got) + 1
  BY <1>1, <1>3 DEF Fits
<1>5. Fits(n)
  BY <1>1, <1>3, <1>4 DEF Fits, Busy, CountOf
<1> QED BY <1>2, <1>3, <1>5, Keeps DEF r

LEMMA Receiving ==
  ASSUME Inv, NEW t \in Readers, Receive(t)
  PROVE  Inv'
<1>. DEFINE r == reader[t]
            x == r.asked + r.received
            g == Append(r.got, x)
            y == r.received + 1
            n == [r EXCEPT !.got = g, !.received = y]
<1>1. /\ r \in Request /\ Fits(r) /\ r.at = "body" /\ x <= Count(t)
      /\ r.got \in Seq(Nat) /\ Len(r.got) \in Nat
      /\ Count(t) \in Nat /\ CountOf(r) = Count(t)
  BY ReaderFacts DEF Receive
<1>2. r.asked \in Nat /\ r.received \in Nat
  BY <1>1 DEF Request
<1>3. x = Len(r.got) + 1
  BY <1>1 DEF Fits
<1>4. /\ g \in Seq(Nat) /\ Len(g) = Len(r.got) + 1
      /\ \A i \in 1..Len(r.got) : g[i] = r.got[i]
      /\ g[Len(r.got) + 1] = x
  BY <1>1, <1>2, AppendProperties
<1>5. reader' = [reader EXCEPT ![t] = n] /\ pool' = pool
  BY DEF Receive
<1>6. y \in Nat /\ r.asked + y = Len(g) + 1
  <2>. DEFINE a == r.asked
              b == r.received
              l == Len(r.got)
  <2>1. a \in Nat /\ b \in Nat /\ l \in Nat /\ a + b = l + 1 /\ Len(g) = l + 1
    BY <1>1, <1>2, <1>3, <1>4
  <2>2. y = b + 1
    OBVIOUS
  <2>. HIDE DEF a, b, l, g, y
  <2>3. y \in Nat /\ a + y = Len(g) + 1
    BY <2>1, <2>2
  <2> QED BY <2>3 DEF a
<1>. HIDE DEF r, x, g, y
<1>7. /\ n \in Request /\ n.at = "body" /\ n.got = g /\ n.asked = r.asked
      /\ n.received = y /\ n.connection = r.connection /\ n.kind = r.kind
  BY <1>1, <1>4, <1>6 DEF Request
<1>. HIDE DEF n
<1>8. \A i \in 1..Len(g) : g[i] = i
  <2>1. \A i \in 1..Len(g) : i \in 1..Len(r.got) \/ i = Len(r.got) + 1
    BY <1>1, <1>4
  <2>2. \A i \in 1..Len(r.got) : r.got[i] = i
    BY <1>1 DEF Fits
  <2> QED BY <1>3, <1>4, <2>1, <2>2
<1>9. Len(g) <= CountOf(n) /\ n.asked + n.received = Len(n.got) + 1
  BY <1>1, <1>3, <1>4, <1>6, <1>7 DEF CountOf
<1>10. n.connection # None
  BY <1>1, <1>7 DEF Fits, Busy
<1>11. Fits(n)
  BY <1>7, <1>8, <1>9, <1>10 DEF Fits, Busy
<1> QED BY <1>5, <1>7, <1>11, Keeps DEF r

LEMMA Finishing ==
  ASSUME Inv, NEW t \in Readers, EndOfBody(t)
  PROVE  Inv'
<1>1. /\ reader[t] \in Request /\ Fits(reader[t]) /\ reader[t].at = "body"
      /\ Len(reader[t].got) \in Nat /\ Count(t) \in Nat /\ CountOf(reader[t]) = Count(t)
  BY ReaderFacts DEF EndOfBody
<1>2. Len(reader[t].got) + 1 > Count(t) /\ Len(reader[t].got) <= Count(t)
  BY <1>1 DEF EndOfBody, Fits
<1>3. Complete(t)
  BY <1>1, <1>2 DEF Complete
<1>4. reader[t].at \in Busy
  BY <1>1 DEF Busy
<1> QED BY <1>3, <1>4, Succeeding DEF EndOfBody

LEMMA Ending ==
  ASSUME Inv, NEW t \in Readers, End(t)
  PROVE  Inv'
<1>1. NoRequest \in Request /\ NoRequest.connection = None
      /\ NoRequest.at = "idle" /\ NoRequest.got = <<>>
  BY EmptySeq DEF NoRequest, Request
<1>2. Len(NoRequest.got) = 0 /\ CountOf(NoRequest) \in Nat
  BY <1>1, EmptySeq, ClientAssumption DEF CountOf
<1>3. Fits(NoRequest)
  BY <1>1, <1>2 DEF Fits, Busy
<1>4. reader[t].connection = None
  <2>1. Fits(reader[t]) /\ reader[t].at \in {"done", "failed"}
    BY ReaderFacts DEF End
  <2> QED BY <2>1 DEF Fits, Busy
<1> QED BY <1>1, <1>3, <1>4, Keeps DEF End
-----------------------------------------------------------------------------
LEMMA InitInv == Init => Inv
<1>. SUFFICES ASSUME Init PROVE Inv
  OBVIOUS
<1>1. /\ NoRequest \in Request /\ NoRequest.connection = None
      /\ NoRequest.at = "idle" /\ NoRequest.got = <<>>
  BY EmptySeq DEF NoRequest, Request
<1>2. Len(NoRequest.got) = 0 /\ CountOf(NoRequest) \in Nat
  BY <1>1, EmptySeq, ClientAssumption DEF CountOf
<1>3. Fits(NoRequest)
  BY <1>1, <1>2 DEF Fits, Busy
<1>4. \A t \in Readers : reader[t] = NoRequest
  BY DEF Init
<1>5. Types /\ Fitting
  BY <1>1, <1>3, <1>4 DEF Types, Fitting, Init
<1>. DEFINE m == Cardinality(Connections)
<1>6. m \in Nat /\ pool \in Bijection(1..m, Connections)
  BY FS_CardinalityType, ClientAssumption DEF Init
<1>7. /\ pool \in [1..m -> Connections]
      /\ \A i, j \in 1..m : pool[i] = pool[j] => i = j
      /\ \A c \in Connections : \E i \in 1..m : pool[i] = c
  BY <1>6 DEF Bijection, Injection, Surjection, IsInjective
<1>8. pool \in Seq(Connections) /\ Len(pool) = m
  BY <1>6, <1>7, SeqDef
<1>9. IsInjective(pool) /\ \A c : c \in ToSet(pool) <=> \E i \in 1..m : pool[i] = c
  BY <1>7, <1>8, Elements
<1>10. None \notin ToSet(pool)
  BY <1>8, Elements, ClientAssumption
<1>11. Pool
  BY <1>1, <1>4, <1>7, <1>8, <1>9, <1>10 DEF Pool
<1> QED BY <1>5, <1>11 DEF Inv

LEMMA NextInv == Inv /\ [Next]_vars => Inv'
<1>. SUFFICES ASSUME Inv, [Next]_vars PROVE Inv'
  OBVIOUS
<1>1. CASE UNCHANGED vars
  BY <1>1 DEF vars, Inv, Types, Fitting, Fits, CountOf, Pool
<1>2. ASSUME NEW t \in Readers, Begin(t) \/ Take(t) \/ Step(t) PROVE Inv'
  <2>1. reader[t].at \in {"request", "answer", "body"} => reader[t].at \in Busy
    BY DEF Busy
  <2>2. CASE Begin(t)
    BY <2>2, Beginning
  <2>3. CASE Take(t)
    BY <2>3, Taking
  <2>4. CASE CannotSend(t)
    BY <2>1, <2>4, Failing DEF CannotSend
  <2>5. CASE Send(t)
    BY <2>5, Sending
  <2>6. CASE CannotConnect(t)
    BY <2>1, <2>6, Erring DEF CannotConnect
  <2>7. CASE ResetWhileSending(t)
    BY <2>1, <2>7, Erring, SendingAgain DEF ResetWhileSending
  <2>8. CASE ResetBeforeAnswer(t)
    BY <2>1, <2>8, Erring, SendingAgain DEF ResetBeforeAnswer
  <2>9. CASE NoAnswerInTime(t)
    BY <2>1, <2>9, Erring DEF NoAnswerInTime
  <2>10. CASE AnswerBegins(t)
    BY <2>10, Answering
  <2>11. CASE Refused(t)
    BY <2>1, <2>11, Erring, Failing DEF Refused
  <2>12. CASE Receive(t)
    BY <2>12, Receiving
  <2>13. CASE BreaksOff(t)
    BY <2>1, <2>13, Erring DEF BreaksOff
  <2>14. CASE DoesNotFit(t)
    BY <2>1, <2>14, Failing, Succeeding DEF DoesNotFit
  <2>15. CASE EndOfBody(t)
    BY <2>15, Finishing
  <2>16. CASE End(t)
    BY <2>16, Ending
  <2> QED BY <1>2, <2>2, <2>3, <2>4, <2>5, <2>6, <2>7, <2>8, <2>9, <2>10, <2>11, <2>12,
             <2>13, <2>14, <2>15, <2>16 DEF Step, Network
<1> QED BY <1>1, <1>2 DEF Next

(* Each thread's record of its request stays of its type.                  *)
THEOREM ClientTypes == Spec => []Types
<1>1. Inv => Types
  BY DEF Inv
<1> QED BY <1>1, InitInv, NextInv, PTL DEF Spec

(* Through all retries, repetitions and failures a connection of           *)
(* GatewayPool is either free, once, or used by one thread; with any       *)
(* number of threads and of connections none is lost or shared.            *)
THEOREM ConnectionsAreKept == Spec => []EveryConnectionOnce
<1>1. Inv => EveryConnectionOnce
  <2>. SUFFICES ASSUME Inv, NEW c \in Connections
                PROVE  Cardinality(Holders(c)) + Cardinality(Places(c)) = 1
    BY DEF EveryConnectionOnce
  <2>1. /\ \A i, j \in DOMAIN pool : pool[i] = pool[j] => i = j
        /\ \A x : x \in ToSet(pool) <=> \E i \in DOMAIN pool : pool[i] = x
    BY Elements DEF Inv, Pool
  <2>2. c # None
    BY ClientAssumption
  <2>3. Cardinality({}) = 0
    BY FS_EmptySet
  <2>4. CASE c \in ToSet(pool)
    <3>1. PICK i \in DOMAIN pool : pool[i] = c
      BY <2>1, <2>4
    <3>2. Places(c) = {i}
      BY <2>1, <3>1 DEF Places
    <3>3. Holders(c) = {}
      BY <2>4 DEF Holders, Inv, Pool
    <3>4. Cardinality({i}) = 1
      BY FS_Singleton
    <3> QED BY <2>3, <3>2, <3>3, <3>4
  <2>5. CASE c \notin ToSet(pool)
    <3>1. PICK t \in Readers : reader[t].connection = c
      BY <2>5 DEF Inv, Pool
    <3>2. Holders(c) = {t}
      BY <2>2, <3>1 DEF Holders, Inv, Pool
    <3>3. Places(c) = {}
      BY <2>1, <2>5 DEF Places
    <3>4. Cardinality({t}) = 1
      BY FS_Singleton
    <3> QED BY <2>3, <3>2, <3>3, <3>4
  <2> QED BY <2>4, <2>5
<1> QED BY <1>1, InitInv, NextInv, PTL DEF Spec

(* A request has received its objects in order, none twice and none left   *)
(* out, has all of them when it succeeds, and a cache download that fails  *)
(* leaves whole buckets, wherever its requests broke off.                  *)
THEOREM ObjectsArriveOnce == Spec => []EachObjectOnce
<1>1. Inv => EachObjectOnce
  <2>. SUFFICES ASSUME Inv, NEW t \in Readers
                PROVE  /\ \A i \in DOMAIN reader[t].got : reader[t].got[i] = i
                       /\ reader[t].at = "done" => Complete(t)
                       /\ reader[t].kind = "cache" /\ reader[t].at = "failed" =>
                            Len(reader[t].got) \in {0} \cup BucketEnds
    BY DEF EachObjectOnce
  <2>1. /\ Fits(reader[t]) /\ reader[t].got \in Seq(Nat)
        /\ CountOf(reader[t]) = Count(t)
    BY ReaderFacts
  <2>2. DOMAIN reader[t].got = 1..Len(reader[t].got)
    BY <2>1, LenProperties
  <2> QED BY <2>1, <2>2 DEF Fits, Complete, Bounds
<1> QED BY <1>1, InitInv, NextInv, PTL DEF Spec
=============================================================================
