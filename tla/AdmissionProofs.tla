-------------------------- MODULE AdmissionProofs --------------------------
(***************************************************************************)
(* What is proved about ReadAdmission, for all plans whose scripts are     *)
(* balanced: nothing leaks, nobody sleeps beside enough memory, and a      *)
(* script that is in order leaves somebody able to go on.                  *)
(***************************************************************************)
EXTENDS ReadAdmission, FiniteSetTheorems, SequenceTheorems, WellFoundedInduction, TLAPS

(* The invariant.  What a running request holds is what its script has got *)
(* and not put; what an unwinding one holds is on its way back.            *)
Scripts == {<<>>} \cup {p.script : p \in Plans}

Requests == [at      : {"idle", "running", "sleeping", "unwinding"},
             script  : Scripts,
             step    : Nat \ {0},
             weight  : 0..Capacity,
             has     : SUBSET Resources,
             woken   : BOOLEAN,
             expired : BOOLEAN]

TypeOK ==
  /\ slots \in Nat /\ available \in Nat /\ free \in Nat
  /\ owner \in Readers \cup {Nobody}
  /\ reader \in [Readers -> Requests]

Doing(q) ==
  /\ q.at = "idle" => q.has = {}
  /\ q.at \in {"running", "sleeping"} =>
       /\ Balanced(q.script)
       /\ q.step <= Len(q.script)
       /\ q.has = HeldBefore(q.script, q.step)
  /\ q.at = "sleeping" => q.script[q.step] = "get memory"
  /\ q.at = "unwinding" => q.has # {}
  /\ q.at # "sleeping" => ~q.woken /\ ~q.expired

Inv == /\ TypeOK
       /\ \A r \in Readers : Doing(reader[r])
       /\ NothingLeaks
       /\ NobodySleepsBesideEnough
-----------------------------------------------------------------------------
(* The scripts.                                                            *)

(* No step means two things.                                               *)
LEMMA Words ==
  /\ Gets("lock") = "get lock" /\ Gets("slot") = "get slot"
  /\ Gets("memory") = "get memory" /\ Gets("connection") = "get connection"
  /\ Puts("lock") = "put lock" /\ Puts("slot") = "put slot"
  /\ Puts("memory") = "put memory" /\ Puts("connection") = "put connection"
  /\ \A x, y \in Resources : /\ Gets(x) = Gets(y) => x = y
                             /\ Puts(x) = Puts(y) => x = y
                             /\ Gets(x) # Puts(y)
BY DEF Gets, Puts, Resources

(* Before its first step a script holds nothing.                           *)
LEMMA HoldsNothingFirst ==
  ASSUME NEW script
  PROVE  HeldBefore(script, 1) = {}
BY DEF HeldBefore

(* What getting and putting change.                                        *)
LEMMA AfterGet ==
  ASSUME NEW script, NEW i \in Nat \ {0}, NEW y \in Resources, script[i] = Gets(y)
  PROVE  HeldBefore(script, i + 1) = HeldBefore(script, i) \cup {y}
<1>1. \A x \in Resources : script[i] # Puts(x)
  BY Words
<1>2. ASSUME NEW x \in HeldBefore(script, i + 1), x # y PROVE x \in HeldBefore(script, i)
  <2>1. PICK g \in 1..i : /\ script[g] = Gets(x)
                          /\ \A k \in (g + 1)..i : script[k] # Puts(x)
    BY DEF HeldBefore
  <2>2. g # i
    BY <1>2, <2>1, Words DEF HeldBefore
  <2> QED BY <2>1, <2>2 DEF HeldBefore
<1>3. ASSUME NEW x \in HeldBefore(script, i) PROVE x \in HeldBefore(script, i + 1)
  <2>1. PICK g \in 1..(i - 1) : /\ script[g] = Gets(x)
                                /\ \A k \in (g + 1)..(i - 1) : script[k] # Puts(x)
    BY DEF HeldBefore
  <2>2. \A k \in (g + 1)..i : script[k] # Puts(x)
    BY <1>1, <2>1 DEF HeldBefore
  <2> QED BY <2>1, <2>2 DEF HeldBefore
<1>4. y \in HeldBefore(script, i + 1)
  <2>1. i \in 1..((i + 1) - 1) /\ (i + 1)..((i + 1) - 1) = {}
    OBVIOUS
  <2> QED BY <2>1 DEF HeldBefore
<1> QED BY <1>2, <1>3, <1>4

LEMMA AfterPut ==
  ASSUME NEW script, NEW i \in Nat \ {0}, NEW y \in Resources, script[i] = Puts(y)
  PROVE  HeldBefore(script, i + 1) = HeldBefore(script, i) \ {y}
<1>1. ASSUME NEW x \in HeldBefore(script, i + 1)
      PROVE  x \in HeldBefore(script, i) /\ x # y
  <2>1. PICK g \in 1..i : /\ script[g] = Gets(x)
                          /\ \A k \in (g + 1)..i : script[k] # Puts(x)
    BY DEF HeldBefore
  <2>2. g # i
    BY <2>1, Words DEF HeldBefore
  <2>3. i \in (g + 1)..i
    BY <2>2
  <2> QED BY <2>1, <2>2, <2>3 DEF HeldBefore
<1>2. ASSUME NEW x \in HeldBefore(script, i), x # y
      PROVE  x \in HeldBefore(script, i + 1)
  <2>1. PICK g \in 1..(i - 1) : /\ script[g] = Gets(x)
                                /\ \A k \in (g + 1)..(i - 1) : script[k] # Puts(x)
    BY DEF HeldBefore
  <2>2. script[i] # Puts(x)
    BY <1>2, Words DEF HeldBefore
  <2> QED BY <2>1, <2>2 DEF HeldBefore
<1> QED BY <1>1, <1>2

(* A balanced script gets only what it does not hold, and not at its end;  *)
(* and it puts only what it holds, at the end the last of it.              *)
LEMMA BalancedSteps ==
  ASSUME NEW script, Balanced(script), NEW i \in Nat \ {0}, i <= Len(script),
         NEW y \in Resources
  PROVE  /\ script[i] = Gets(y) => y \notin HeldBefore(script, i) /\ i + 1 <= Len(script)
         /\ script[i] = Puts(y) => /\ y \in HeldBefore(script, i)
                                   /\ i = Len(script) => HeldBefore(script, i) = {y}
                                   /\ i # Len(script) => i + 1 <= Len(script)
<1>1. Len(script) \in Nat
  BY LenProperties DEF Balanced
<1>2. i # Len(script) => i + 1 <= Len(script)
  BY <1>1
<1>3. i \in DOMAIN script
  BY <1>1, LenProperties DEF Balanced
<1>4. HeldBefore(script, Len(script) + 1) = {}
  BY DEF Balanced
<1>5. /\ script[i] = Gets(y) => y \notin HeldBefore(script, i)
      /\ script[i] = Puts(y) => y \in HeldBefore(script, i)
  BY <1>3 DEF Balanced
<1>6. ASSUME script[i] = Gets(y) PROVE y \notin HeldBefore(script, i) /\ i + 1 <= Len(script)
  <2>1. HeldBefore(script, i + 1) = HeldBefore(script, i) \cup {y}
    BY <1>6, AfterGet
  <2>2. i # Len(script)
    BY <1>4, <2>1
  <2>3. y \notin HeldBefore(script, i)
    BY <1>5, <1>6
  <2> QED BY <1>2, <2>2, <2>3
<1>7. ASSUME script[i] = Puts(y)
      PROVE  /\ y \in HeldBefore(script, i)
             /\ i = Len(script) => HeldBefore(script, i) = {y}
             /\ i # Len(script) => i + 1 <= Len(script)
  <2>1. y \in HeldBefore(script, i)
    BY <1>5, <1>7
  <2>2. HeldBefore(script, i + 1) = HeldBefore(script, i) \ {y}
    BY <1>7, AfterPut
  <2>3. i = Len(script) => HeldBefore(script, i) = {y}
    BY <1>4, <2>1, <2>2
  <2> QED BY <1>2, <2>1, <2>3
<1> QED BY <1>6, <1>7

(* Every request has a weight between one and the capacity.                *)
LEMMA WeightFits ==
  ASSUME NEW requested \in Nat
  PROVE  Weight(requested) \in 1..Capacity
<1>1. Max({1, requested}) \in Nat /\ Max({1, requested}) >= 1
  <2>1. \E m \in {1, requested} : \A n \in {1, requested} : m >= n
    <3>1. CASE requested >= 1
      BY <3>1
    <3>2. CASE ~(requested >= 1)
      BY <3>2
    <3> QED BY <3>1, <3>2
  <2> QED BY <2>1 DEF Max
<1>. DEFINE m == Max({1, requested})
<1>. HIDE DEF m
<1>2. m \in Nat /\ m >= 1 /\ Capacity \in Nat /\ Capacity >= 1
  BY <1>1, AdmissionAssumption DEF m
<1>3. \E k \in {m, Capacity} : \A n \in {m, Capacity} : k <= n
  <2>1. CASE m <= Capacity
    BY <1>2, <2>1
  <2>2. CASE ~(m <= Capacity)
    BY <1>2, <2>2
  <2> QED BY <2>1, <2>2
<1>4. Min({m, Capacity}) \in 1..Capacity
  BY <1>2, <1>3 DEF Min
<1> QED BY <1>4 DEF Weight, m
-----------------------------------------------------------------------------
(* Counting what is held, in any assignment of requests to readers.        *)

HoldersIn(f, x) == {r \in Readers : x \in f[r].has}

UnitsIn(f) == UNION {{r} \X (1..f[r].weight) : r \in HoldersIn(f, "memory")}

LEMMA ReadersHold ==
  /\ \A x : Having(x) = HoldersIn(reader, x)
  /\ \A x : Having(x)' = HoldersIn(reader', x)
  /\ Units = UnitsIn(reader)
  /\ Units' = UnitsIn(reader')
BY DEF Having, Units, HoldersIn, UnitsIn

LEMMA FiniteCounts ==
  ASSUME NEW f \in [Readers -> Requests]
  PROVE  /\ \A x : IsFiniteSet(HoldersIn(f, x)) /\ Cardinality(HoldersIn(f, x)) \in Nat
         /\ IsFiniteSet(UnitsIn(f)) /\ Cardinality(UnitsIn(f)) \in Nat
<1>1. ASSUME NEW x PROVE IsFiniteSet(HoldersIn(f, x)) /\ Cardinality(HoldersIn(f, x)) \in Nat
  <2>1. HoldersIn(f, x) \in SUBSET Readers
    BY DEF HoldersIn
  <2> QED BY <2>1, FS_Subset, FS_CardinalityType, AdmissionAssumption
<1>2. IsFiniteSet(Readers \X (1..Capacity))
  <2>1. IsFiniteSet(1..Capacity)
    BY FS_Interval, AdmissionAssumption
  <2> QED BY <2>1, FS_Product, AdmissionAssumption
<1>3. UnitsIn(f) \in SUBSET (Readers \X (1..Capacity))
  <2>1. ASSUME NEW r \in HoldersIn(f, "memory") 
        PROVE  {r} \X (1..f[r].weight) \subseteq Readers \X (1..Capacity)
    <3>1. r \in Readers /\ f[r].weight \in 0..Capacity
      BY DEF HoldersIn, Requests
    <3>2. 1..f[r].weight \subseteq 1..Capacity
      BY <3>1, AdmissionAssumption
    <3> QED BY <3>1, <3>2
  <2> QED BY <2>1 DEF UnitsIn
<1> QED BY <1>1, <1>2, <1>3, FS_Subset, FS_CardinalityType

(* As many units as the weight.                                            *)
LEMMA UnitsOfOne ==
  ASSUME NEW r, NEW w \in Nat
  PROVE  IsFiniteSet({r} \X (1..w)) /\ Cardinality({r} \X (1..w)) = w
<1>. DEFINE S == {r}
            T == 1..w
<1>1. IsFiniteSet(T) /\ Cardinality(T) = w
  BY FS_Interval
<1>2. IsFiniteSet(S) /\ Cardinality(S) = 1
  BY FS_Singleton
<1>. HIDE DEF S, T
<1>3. IsFiniteSet(S \X T) /\ Cardinality(S \X T) = Cardinality(S) * Cardinality(T)
  BY <1>1, <1>2, FS_Product
<1>4. IsFiniteSet(S \X T) /\ Cardinality(S \X T) = w
  BY <1>1, <1>2, <1>3
<1> QED BY <1>4 DEF S, T

(* One request holds one thing more.                                       *)
LEMMA OneMore ==
  ASSUME NEW f \in [Readers -> Requests], NEW g \in [Readers -> Requests],
         NEW r \in Readers, NEW y \in Resources,
         y \notin f[r].has, g[r].has = f[r].has \cup {y},
         "memory" \in g[r].has => f[r].weight = g[r].weight,
         \A x \in Readers \ {r} : g[x].has = f[x].has /\ g[x].weight = f[x].weight
  PROVE  /\ Cardinality(HoldersIn(g, y)) = Cardinality(HoldersIn(f, y)) + 1
         /\ \A x : x # y => HoldersIn(g, x) = HoldersIn(f, x)
         /\ IF y = "memory"
            THEN Cardinality(UnitsIn(g)) = Cardinality(UnitsIn(f)) + f[r].weight
            ELSE UnitsIn(g) = UnitsIn(f)
<1>1. r \notin HoldersIn(f, y) /\ HoldersIn(g, y) = HoldersIn(f, y) \cup {r}
  BY DEF HoldersIn
<1>2. Cardinality(HoldersIn(g, y)) = Cardinality(HoldersIn(f, y)) + 1
  BY <1>1, FiniteCounts, FS_AddElement
<1>3. ASSUME NEW x, x # y PROVE HoldersIn(g, x) = HoldersIn(f, x)
  BY <1>3 DEF HoldersIn
<1>4. ASSUME y = "memory"
      PROVE  Cardinality(UnitsIn(g)) = Cardinality(UnitsIn(f)) + f[r].weight
  <2>. DEFINE w == f[r].weight
              U == UnitsIn(f)
              V == {r} \X (1..w)
  <2>1. w \in Nat /\ g[r].weight = w
    BY <1>4 DEF Requests
  <2>2. \A x \in HoldersIn(f, "memory") : x \in Readers \ {r} /\ g[x].weight = f[x].weight
    BY <1>1, <1>4 DEF HoldersIn
  <2>3. U \cap V = {}
    <3>1. \A u \in V : u[1] = r
      OBVIOUS
    <3>2. \A u \in U : u[1] \in HoldersIn(f, "memory")
      BY DEF UnitsIn
    <3> QED BY <1>1, <1>4, <3>1, <3>2
  <2>4. UnitsIn(g) = U \cup V
    <3>1. \A u : u \in UnitsIn(g) <=>
                   \E x \in HoldersIn(f, "memory") \cup {r} : u \in {x} \X (1..g[x].weight)
      BY <1>1, <1>4 DEF UnitsIn
    <3>2. \A u : u \in UnitsIn(f) <=>
                   \E x \in HoldersIn(f, "memory") : u \in {x} \X (1..f[x].weight)
      BY DEF UnitsIn
    <3>3. ASSUME NEW u, u \in UnitsIn(g) PROVE u \in U \/ u \in V
      <4>1. PICK x \in HoldersIn(f, "memory") \cup {r} : u \in {x} \X (1..g[x].weight)
        BY <3>1, <3>3
      <4>2. CASE x = r
        BY <2>1, <4>1, <4>2
      <4>3. CASE x # r
        BY <2>2, <3>2, <4>1, <4>3
      <4> QED BY <4>2, <4>3
    <3>4. ASSUME NEW u, u \in U PROVE u \in UnitsIn(g)
      <4>1. PICK x \in HoldersIn(f, "memory") : u \in {x} \X (1..f[x].weight)
        BY <3>2, <3>4
      <4> QED BY <2>2, <3>1, <4>1
    <3>5. ASSUME NEW u, u \in V PROVE u \in UnitsIn(g)
      BY <2>1, <3>1, <3>5
    <3> QED BY <3>3, <3>4, <3>5
  <2>5. IsFiniteSet(V) /\ Cardinality(V) = w
    BY <2>1, UnitsOfOne
  <2>6. IsFiniteSet(U) /\ Cardinality(U) \in Nat
    BY FiniteCounts
  <2>. HIDE DEF U, V
  <2>7. Cardinality(U \cup V) = Cardinality(U) + Cardinality(V) - Cardinality(U \cap V)
    BY <2>5, <2>6, FS_Union
  <2>8. Cardinality(U \cap V) = 0
    BY <2>3, FS_EmptySet
  <2>9. Cardinality(U \cup V) = Cardinality(U) + w
    BY <2>1, <2>5, <2>6, <2>7, <2>8
  <2> QED BY <2>4, <2>9 DEF U
<1>5. ASSUME y # "memory" PROVE UnitsIn(g) = UnitsIn(f)
  <2>1. HoldersIn(g, "memory") = HoldersIn(f, "memory")
    BY <1>3, <1>5
  <2>2. \A x \in HoldersIn(f, "memory") : g[x].weight = f[x].weight
    BY <1>5 DEF HoldersIn
  <2> QED BY <2>1, <2>2 DEF UnitsIn
<1> QED BY <1>2, <1>3, <1>4, <1>5

(* All hold what they held.                                                *)
LEMMA SameHeld ==
  ASSUME NEW f, NEW g,
         \A x \in Readers : g[x].has = f[x].has,
         \A x \in Readers : "memory" \in f[x].has => g[x].weight = f[x].weight
  PROVE  (\A x : HoldersIn(g, x) = HoldersIn(f, x)) /\ UnitsIn(g) = UnitsIn(f)
<1>1. \A x : HoldersIn(g, x) = HoldersIn(f, x)
  BY DEF HoldersIn
<1>2. \A x \in HoldersIn(f, "memory") : g[x].weight = f[x].weight
  BY DEF HoldersIn
<1> QED BY <1>1, <1>2 DEF UnitsIn
-----------------------------------------------------------------------------
(* The three kinds of steps.                                               *)

(* A request takes something that is there.                                *)
LEMMA Takes ==
  ASSUME Inv, NEW r \in Readers, NEW y \in Resources, NEW q \in Requests,
         reader' = [reader EXCEPT ![r] = q],
         Doing(q), q.at # "sleeping",
         y \notin reader[r].has, q.has = reader[r].has \cup {y},
         q.weight = reader[r].weight,
         slots' = IF y = "slot" THEN slots - 1 ELSE slots,
         available' = IF y = "memory" THEN available - reader[r].weight ELSE available,
         free' = IF y = "connection" THEN free - 1 ELSE free,
         owner' = IF y = "lock" THEN r ELSE owner,
         y = "slot" => slots > 0,
         y = "memory" => available >= reader[r].weight,
         y = "connection" => free > 0,
         y = "lock" => owner = Nobody
  PROVE  Inv'
<1>1. /\ reader \in [Readers -> Requests] /\ reader' \in [Readers -> Requests]
      /\ reader'[r] = q
      /\ \A x \in Readers \ {r} : reader'[x] = reader[x]
  BY DEF Inv, TypeOK
<1>2. slots \in Nat /\ available \in Nat /\ free \in Nat /\ owner \in Readers \cup {Nobody}
  BY DEF Inv, TypeOK
<1>3. reader[r].weight \in Nat /\ Capacity \in Nat /\ Slots \in Nat /\ Connections \in Nat
  BY <1>1, AdmissionAssumption DEF Requests
<1>4. TypeOK'
  <2>1. slots' \in Nat
    BY <1>2
  <2>2. available' \in Nat
    BY <1>2, <1>3
  <2>3. free' \in Nat
    BY <1>2
  <2> QED BY <1>1, <1>2, <2>1, <2>2, <2>3 DEF TypeOK
<1>5. \A x \in Readers : Doing(reader[x])'
  BY <1>1 DEF Inv, Doing
<1>6. /\ Cardinality(HoldersIn(reader', y)) = Cardinality(HoldersIn(reader, y)) + 1
      /\ \A x : x # y => HoldersIn(reader', x) = HoldersIn(reader, x)
      /\ IF y = "memory"
         THEN Cardinality(UnitsIn(reader')) = Cardinality(UnitsIn(reader)) + reader[r].weight
         ELSE UnitsIn(reader') = UnitsIn(reader)
  <2>1. y \notin reader[r].has /\ reader'[r].has = reader[r].has \cup {y}
    BY <1>1
  <2>2. "memory" \in reader'[r].has => reader[r].weight = reader'[r].weight
    BY <1>1
  <2>3. \A x \in Readers \ {r} : /\ reader'[x].has = reader[x].has
                                /\ reader'[x].weight = reader[x].weight
    BY <1>1
  <2>. DEFINE f == reader
              g == reader'
  <2>4. f \in [Readers -> Requests] /\ g \in [Readers -> Requests]
    BY <1>1
  <2>. HIDE DEF f, g
  <2>5. /\ y \notin f[r].has /\ g[r].has = f[r].has \cup {y}
        /\ "memory" \in g[r].has => f[r].weight = g[r].weight
        /\ \A x \in Readers \ {r} : g[x].has = f[x].has /\ g[x].weight = f[x].weight
    BY <2>1, <2>2, <2>3 DEF f, g
  <2>6. /\ Cardinality(HoldersIn(g, y)) = Cardinality(HoldersIn(f, y)) + 1
        /\ \A x : x # y => HoldersIn(g, x) = HoldersIn(f, x)
        /\ IF y = "memory"
           THEN Cardinality(UnitsIn(g)) = Cardinality(UnitsIn(f)) + f[r].weight
           ELSE UnitsIn(g) = UnitsIn(f)
    BY <2>4, <2>5, OneMore
  <2> QED BY <2>6 DEF f, g
<1>7. /\ \A x : Cardinality(HoldersIn(reader, x)) \in Nat
      /\ Cardinality(UnitsIn(reader)) \in Nat
  BY <1>1, FiniteCounts
<1>8. NothingLeaks'
  <2>1. (slots + Cardinality(Having("slot")) = Slots)'
    <3>1. slots + Cardinality(HoldersIn(reader, "slot")) = Slots
      BY ReadersHold DEF Inv, NothingLeaks
    <3>2. slots' + Cardinality(HoldersIn(reader', "slot")) = Slots
      <4>1. CASE y = "slot"
        BY <1>2, <1>6, <1>7, <3>1, <4>1
      <4>2. CASE y # "slot"
        BY <1>6, <3>1, <4>2
      <4> QED BY <4>1, <4>2
    <3> QED BY <3>2, ReadersHold
  <2>2. (free + Cardinality(Having("connection")) = Connections)'
    <3>1. free + Cardinality(HoldersIn(reader, "connection")) = Connections
      BY ReadersHold DEF Inv, NothingLeaks
    <3>2. free' + Cardinality(HoldersIn(reader', "connection")) = Connections
      <4>1. CASE y = "connection"
        BY <1>2, <1>6, <1>7, <3>1, <4>1
      <4>2. CASE y # "connection"
        BY <1>6, <3>1, <4>2
      <4> QED BY <4>1, <4>2
    <3> QED BY <3>2, ReadersHold
  <2>3. (available + Cardinality(Units) = Capacity)'
    <3>1. available + Cardinality(UnitsIn(reader)) = Capacity
      BY ReadersHold DEF Inv, NothingLeaks
    <3>2. available' + Cardinality(UnitsIn(reader')) = Capacity
      BY <1>2, <1>3, <1>6, <1>7, <3>1
    <3> QED BY <3>2, ReadersHold
  <2>4. (\A x \in Readers : x \in Having("lock") <=> owner = x)'
    <3>1. \A x \in Readers : "lock" \in reader[x].has <=> owner = x
      BY DEF Inv, NothingLeaks, Having
    <3>2. \A x \in Readers : "lock" \in reader'[x].has <=> owner' = x
      BY <1>1, <3>1, AdmissionAssumption
    <3> QED BY <3>2 DEF Having
  <2>5. (available >= 0)'
    BY <1>4 DEF TypeOK
  <2> QED BY <2>1, <2>2, <2>3, <2>4, <2>5 DEF NothingLeaks
<1>9. NobodySleepsBesideEnough'
  <2>1. available' <= available /\ available' \in Nat
    BY <1>2, <1>3
  <2>2. ASSUME NEW x \in Readers, reader'[x].at = "sleeping", ~reader'[x].woken,
               ~reader'[x].expired
        PROVE  ~(available' >= reader'[x].weight)
    <3>1. x # r /\ reader'[x] = reader[x]
      BY <1>1, <2>2
    <3>2. ~(available >= reader[x].weight) /\ reader[x].weight \in Nat
      BY <1>1, <2>2, <3>1 DEF Inv, NobodySleepsBesideEnough, Sleeping, Enough, Requests
    <3> QED BY <1>2, <2>1, <3>1, <3>2
  <2> QED BY <2>2 DEF NobodySleepsBesideEnough, Sleeping, Enough
<1> QED BY <1>4, <1>5, <1>8, <1>9 DEF Inv

(* A request gives something back, and wakes those who wait for memory.    *)
LEMMA Gives ==
  ASSUME Inv, NEW r \in Readers, NEW y \in Resources, NEW q \in Requests,
         GiveBack(r, y, q),
         Doing(q), q.at # "sleeping",
         y \in reader[r].has, q.has = reader[r].has \ {y},
         "memory" \in q.has => q.weight = reader[r].weight
  PROVE  Inv'
<1>1. PICK awake \in (IF y = "memory" THEN {Sleeping} ELSE {{}}) :
        reader' = [x \in Readers |-> IF x = r THEN q
                                    ELSE [reader[x] EXCEPT !.woken = @ \/ x \in awake]]
  BY DEF GiveBack, NotifyAll
<1>2. /\ slots' = IF y = "slot" THEN slots + 1 ELSE slots
      /\ available' = IF y = "memory" THEN available + reader[r].weight ELSE available
      /\ free' = IF y = "connection" THEN free + 1 ELSE free
      /\ owner' = IF y = "lock" THEN Nobody ELSE owner
  BY DEF GiveBack
<1>3. slots \in Nat /\ available \in Nat /\ free \in Nat /\ owner \in Readers \cup {Nobody}
  BY DEF Inv, TypeOK
<1>4. reader \in [Readers -> Requests]
  BY DEF Inv, TypeOK
<1>5. reader[r].weight \in Nat /\ Capacity \in Nat /\ Slots \in Nat /\ Connections \in Nat
  BY <1>4, AdmissionAssumption DEF Requests
<1>6. ASSUME NEW x \in Readers \ {r}
      PROVE  /\ reader'[x] \in Requests
             /\ reader'[x].at = reader[x].at /\ reader'[x].script = reader[x].script
             /\ reader'[x].step = reader[x].step /\ reader'[x].weight = reader[x].weight
             /\ reader'[x].has = reader[x].has /\ reader'[x].expired = reader[x].expired
             /\ reader'[x].woken = (reader[x].woken \/ x \in awake)
  <2>. DEFINE b == reader[x].woken \/ x \in awake
              p == [reader[x] EXCEPT !.woken = b]
  <2>1. reader'[x] = p /\ reader[x] \in Requests
    BY <1>1, <1>4
  <2>2. b \in BOOLEAN
    OBVIOUS
  <2>. HIDE DEF b
  <2>3. /\ p \in Requests /\ p.woken = b
        /\ p.at = reader[x].at /\ p.script = reader[x].script /\ p.step = reader[x].step
        /\ p.weight = reader[x].weight /\ p.has = reader[x].has /\ p.expired = reader[x].expired
    BY <2>1, <2>2 DEF Requests
  <2>. HIDE DEF p
  <2> QED BY <2>1, <2>3 DEF b
<1>7. reader'[r] = q /\ reader' \in [Readers -> Requests]
  BY <1>1, <1>6
<1>8. TypeOK'
  <2>1. slots' \in Nat
    BY <1>2, <1>3
  <2>2. available' \in Nat
    BY <1>2, <1>3, <1>5
  <2>3. free' \in Nat
    BY <1>2, <1>3
  <2>4. owner' \in Readers \cup {Nobody}
    BY <1>2, <1>3
  <2> QED BY <1>7, <2>1, <2>2, <2>3, <2>4 DEF TypeOK
<1>9. awake \subseteq Sleeping
  BY <1>1
<1>10. ASSUME NEW x \in Readers PROVE Doing(reader[x])'
  <2>1. CASE x = r
    BY <1>7, <2>1 DEF Doing
  <2>2. CASE x # r
    <3>1. Doing(reader[x])
      BY DEF Inv
    <3>2. reader[x].at # "sleeping" => x \notin awake
      BY <1>9 DEF Sleeping
    <3> QED BY <1>6, <2>2, <3>1, <3>2 DEF Doing
  <2> QED BY <2>1, <2>2
<1>11. /\ Cardinality(HoldersIn(reader, y)) = Cardinality(HoldersIn(reader', y)) + 1
       /\ \A x : x # y => HoldersIn(reader, x) = HoldersIn(reader', x)
       /\ IF y = "memory"
          THEN Cardinality(UnitsIn(reader)) = Cardinality(UnitsIn(reader')) + reader[r].weight
          ELSE UnitsIn(reader) = UnitsIn(reader')
  <2>. DEFINE w == IF "memory" \in reader[r].has THEN reader[r].weight ELSE q.weight
              f == [reader' EXCEPT ![r] = [q EXCEPT !.weight = w]]
  <2>1. w \in 0..Capacity /\ ("memory" \in q.has => w = q.weight)
    BY <1>4 DEF Requests
  <2>2. /\ [q EXCEPT !.weight = w] \in Requests
        /\ [q EXCEPT !.weight = w].has = q.has /\ [q EXCEPT !.weight = w].weight = w
    BY <2>1 DEF Requests
  <2>3. /\ f \in [Readers -> Requests]
        /\ f[r].has = q.has /\ f[r].weight = w
        /\ \A x \in Readers \ {r} : f[x] = reader'[x]
    BY <1>7, <2>2
  <2>. HIDE DEF f
  <2>4. /\ Cardinality(HoldersIn(reader, y)) = Cardinality(HoldersIn(f, y)) + 1
        /\ \A x : x # y => HoldersIn(reader, x) = HoldersIn(f, x)
        /\ IF y = "memory"
           THEN Cardinality(UnitsIn(reader)) = Cardinality(UnitsIn(f)) + f[r].weight
           ELSE UnitsIn(reader) = UnitsIn(f)
    <3>1. y \notin f[r].has /\ reader[r].has = f[r].has \cup {y}
      BY <2>3
    <3>2. "memory" \in reader[r].has => f[r].weight = reader[r].weight
      BY <2>3
    <3>3. \A x \in Readers \ {r} : reader[x].has = f[x].has /\ reader[x].weight = f[x].weight
      BY <1>6, <2>3
    <3>. DEFINE g == reader
    <3>4. g \in [Readers -> Requests]
      BY <1>4
    <3>. HIDE DEF g
    <3>5. /\ y \notin f[r].has /\ g[r].has = f[r].has \cup {y}
          /\ "memory" \in g[r].has => f[r].weight = g[r].weight
          /\ \A x \in Readers \ {r} : g[x].has = f[x].has /\ g[x].weight = f[x].weight
      BY <3>1, <3>2, <3>3 DEF g
    <3>6. /\ Cardinality(HoldersIn(g, y)) = Cardinality(HoldersIn(f, y)) + 1
          /\ \A x : x # y => HoldersIn(g, x) = HoldersIn(f, x)
          /\ IF y = "memory"
             THEN Cardinality(UnitsIn(g)) = Cardinality(UnitsIn(f)) + f[r].weight
             ELSE UnitsIn(g) = UnitsIn(f)
      BY <2>3, <3>4, <3>5, OneMore
    <3> QED BY <3>6 DEF g
  <2>5. (\A x : HoldersIn(f, x) = HoldersIn(reader', x)) /\ UnitsIn(f) = UnitsIn(reader')
    <3>1. \A x \in Readers : f[x].has = reader'[x].has
      BY <1>7, <2>3
    <3>2. \A x \in Readers : "memory" \in reader'[x].has => f[x].weight = reader'[x].weight
      BY <1>7, <2>1, <2>3
    <3> QED BY <3>1, <3>2, SameHeld
  <2>6. y = "memory" => f[r].weight = reader[r].weight
    BY <2>3
  <2> QED BY <2>4, <2>5, <2>6
<1>12. /\ \A x : Cardinality(HoldersIn(reader', x)) \in Nat
       /\ Cardinality(UnitsIn(reader')) \in Nat
  BY <1>7, FiniteCounts
<1>13. NothingLeaks'
  <2>1. (slots + Cardinality(Having("slot")) = Slots)'
    <3>1. slots + Cardinality(HoldersIn(reader, "slot")) = Slots
      BY ReadersHold DEF Inv, NothingLeaks
    <3>2. slots' + Cardinality(HoldersIn(reader', "slot")) = Slots
      BY <1>2, <1>3, <1>11, <1>12, <3>1
    <3> QED BY <3>2, ReadersHold
  <2>2. (free + Cardinality(Having("connection")) = Connections)'
    <3>1. free + Cardinality(HoldersIn(reader, "connection")) = Connections
      BY ReadersHold DEF Inv, NothingLeaks
    <3>2. free' + Cardinality(HoldersIn(reader', "connection")) = Connections
      BY <1>2, <1>3, <1>11, <1>12, <3>1
    <3> QED BY <3>2, ReadersHold
  <2>3. (available + Cardinality(Units) = Capacity)'
    <3>1. available + Cardinality(UnitsIn(reader)) = Capacity
      BY ReadersHold DEF Inv, NothingLeaks
    <3>2. available' + Cardinality(UnitsIn(reader')) = Capacity
      BY <1>2, <1>3, <1>5, <1>11, <1>12, <3>1
    <3> QED BY <3>2, ReadersHold
  <2>4. (\A x \in Readers : x \in Having("lock") <=> owner = x)'
    <3>1. \A x \in Readers : "lock" \in reader[x].has <=> owner = x
      BY DEF Inv, NothingLeaks, Having
    <3>2. \A x \in Readers : "lock" \in reader'[x].has <=> owner' = x
      BY <1>2, <1>6, <1>7, <3>1, AdmissionAssumption
    <3> QED BY <3>2 DEF Having
  <2>5. (available >= 0)'
    BY <1>8 DEF TypeOK
  <2> QED BY <2>1, <2>2, <2>3, <2>4, <2>5 DEF NothingLeaks
<1>14. NobodySleepsBesideEnough'
  <2>1. ASSUME NEW x \in Readers, reader'[x].at = "sleeping", ~reader'[x].woken,
               ~reader'[x].expired
        PROVE  ~(available' >= reader'[x].weight)
    <3>1. x # r
      BY <1>7, <2>1
    <3>2. x \in Sleeping /\ x \notin awake /\ ~reader[x].expired
      BY <1>6, <2>1, <3>1 DEF Sleeping
    <3>3. y # "memory"
      BY <1>1, <3>2
    <3>4. ~(available >= reader[x].weight)
      BY <3>2 DEF Inv, NobodySleepsBesideEnough, Enough
    <3> QED BY <1>2, <1>6, <3>1, <3>3, <3>4
  <2> QED BY <2>1 DEF NobodySleepsBesideEnough, Sleeping, Enough
<1> QED BY <1>8, <1>10, <1>13, <1>14 DEF Inv

(* A request takes and gives nothing.                                      *)
LEMMA Stays ==
  ASSUME Inv, NEW r \in Readers, NEW q \in Requests,
         reader' = [reader EXCEPT ![r] = q], UNCHANGED <<slots, available, free, owner>>,
         Doing(q), q.has = reader[r].has,
         "memory" \in q.has => q.weight = reader[r].weight,
         q.at = "sleeping" /\ ~q.woken /\ ~q.expired => ~(available >= q.weight)
  PROVE  Inv'
<1>1. /\ reader \in [Readers -> Requests] /\ reader' \in [Readers -> Requests]
      /\ reader'[r] = q
      /\ \A x \in Readers \ {r} : reader'[x] = reader[x]
  BY DEF Inv, TypeOK
<1>2. TypeOK'
  BY <1>1 DEF Inv, TypeOK
<1>3. \A x \in Readers : Doing(reader[x])'
  BY <1>1 DEF Inv, Doing
<1>4. (\A x : HoldersIn(reader', x) = HoldersIn(reader, x)) /\ UnitsIn(reader') = UnitsIn(reader)
  <2>1. \A x \in Readers : reader'[x].has = reader[x].has
    BY <1>1
  <2>2. \A x \in Readers : "memory" \in reader[x].has => reader'[x].weight = reader[x].weight
    BY <1>1
  <2> QED BY <2>1, <2>2, SameHeld
<1>5. NothingLeaks'
  <2>1. \A x : Having(x)' = Having(x)
    BY <1>4, ReadersHold
  <2>2. Units' = Units
    BY <1>4, ReadersHold
  <2> QED BY <2>1, <2>2 DEF Inv, NothingLeaks
<1>6. NobodySleepsBesideEnough'
  <2>1. ASSUME NEW x \in Readers, reader'[x].at = "sleeping", ~reader'[x].woken,
               ~reader'[x].expired
        PROVE  ~(available' >= reader'[x].weight)
    <3>1. CASE x = r
      BY <1>1, <2>1, <3>1
    <3>2. CASE x # r
      BY <1>1, <2>1, <3>2 DEF Inv, NobodySleepsBesideEnough, Sleeping, Enough
    <3> QED BY <3>1, <3>2
  <2> QED BY <2>1 DEF NobodySleepsBesideEnough, Sleeping, Enough
<1> QED BY <1>2, <1>3, <1>5, <1>6 DEF Inv
-----------------------------------------------------------------------------
(* What a request has become is right.                                     *)

LEMMA RequestFacts ==
  ASSUME Inv, NEW r \in Readers
  PROVE  /\ reader \in [Readers -> Requests] /\ reader[r] \in Requests
         /\ reader[r].step \in Nat \ {0}
         /\ Doing(reader[r])
         /\ reader[r].has \subseteq Resources
BY DEF Inv, TypeOK, Requests

LEMMA NoRequestIsRight ==
  /\ NoRequest \in Requests /\ Doing(NoRequest)
  /\ NoRequest.has = {} /\ NoRequest.at = "idle" /\ NoRequest.step = 1
  /\ ~NoRequest.woken /\ ~NoRequest.expired
<1>1. 0 \in 0..Capacity /\ <<>> \in Scripts
  BY AdmissionAssumption DEF Scripts
<1> QED BY <1>1 DEF NoRequest, Requests, Doing

(* One that has got something.                                             *)
LEMMA HasGot ==
  ASSUME Inv, NEW r \in Readers, NEW y \in Resources, NEW q \in Requests,
         reader[r].at \in {"running", "sleeping"},
         reader[r].script[reader[r].step] = Gets(y),
         q.at = "running", q.script = reader[r].script, q.step = reader[r].step + 1,
         q.has = reader[r].has \cup {y}, ~q.woken, ~q.expired
  PROVE  Doing(q) /\ y \notin reader[r].has
<1>. DEFINE s == reader[r].script
            i == reader[r].step
<1>1. /\ Balanced(s) /\ i \in Nat \ {0} /\ i <= Len(s)
      /\ reader[r].has = HeldBefore(s, i)
  BY RequestFacts DEF Doing
<1>2. s[i] = Gets(y)
  OBVIOUS
<1>3. q.script = s /\ q.step = i + 1 /\ q.has = reader[r].has \cup {y}
  OBVIOUS
<1>. HIDE DEF s, i
<1>4. y \notin HeldBefore(s, i) /\ i + 1 <= Len(s)
  BY <1>1, <1>2, BalancedSteps
<1>5. HeldBefore(s, i + 1) = HeldBefore(s, i) \cup {y}
  BY <1>1, <1>2, AfterGet
<1>6. q.has = HeldBefore(q.script, q.step) /\ q.step <= Len(q.script)
  BY <1>1, <1>3, <1>4, <1>5
<1>7. Doing(q)
  BY <1>1, <1>3, <1>6 DEF Doing
<1> QED BY <1>1, <1>4, <1>7

(* One that has put something back and goes on.                            *)
LEMMA HasPut ==
  ASSUME Inv, NEW r \in Readers, NEW y \in Resources, NEW q \in Requests,
         reader[r].at = "running",
         reader[r].script[reader[r].step] = Puts(y)
  PROVE  /\ y \in reader[r].has
         /\ Finished(r) => reader[r].has = {y}
         /\ /\ ~Finished(r)
            /\ q.at = "running" /\ q.script = reader[r].script
            /\ q.step = reader[r].step + 1
            /\ q.has = reader[r].has \ {y} /\ ~q.woken /\ ~q.expired
            => Doing(q)
<1>. DEFINE s == reader[r].script
            i == reader[r].step
<1>1. /\ Balanced(s) /\ i \in Nat \ {0} /\ i <= Len(s)
      /\ reader[r].has = HeldBefore(s, i)
  BY RequestFacts DEF Doing
<1>2. s[i] = Puts(y) /\ (Finished(r) <=> i = Len(s))
  BY DEF Finished
<1>3. /\ q.script = reader[r].script => q.script = s
      /\ q.step = reader[r].step + 1 => q.step = i + 1
  OBVIOUS
<1>. HIDE DEF s, i
<1>4. /\ y \in HeldBefore(s, i)
      /\ i = Len(s) => HeldBefore(s, i) = {y}
      /\ i # Len(s) => i + 1 <= Len(s)
  BY <1>1, <1>2, BalancedSteps
<1>5. HeldBefore(s, i + 1) = HeldBefore(s, i) \ {y}
  BY <1>1, <1>2, AfterPut
<1>6. y \in reader[r].has /\ (Finished(r) => reader[r].has = {y})
  BY <1>1, <1>2, <1>4
<1>7. ASSUME ~Finished(r), q.at = "running", q.script = reader[r].script,
             q.step = reader[r].step + 1, q.has = reader[r].has \ {y}, ~q.woken, ~q.expired
      PROVE  Doing(q)
  <2>1. q.script = s /\ q.step = i + 1 /\ i + 1 <= Len(s)
    BY <1>2, <1>3, <1>4, <1>7
  <2>2. q.has = HeldBefore(s, i + 1)
    BY <1>1, <1>5, <1>7
  <2> QED BY <1>1, <1>7, <2>1, <2>2 DEF Doing
<1> QED BY <1>6, <1>7

(* A request that fails has everything still to give back.                 *)
LEMMA FailsKeeps ==
  ASSUME Inv, NEW r \in Readers, Fails(r), UNCHANGED <<slots, available, free, owner>>
  PROVE  Inv'
<1>. DEFINE q == Unwinding(r)
<1>1. q \in Requests /\ q.has = reader[r].has /\ q.at # "sleeping" /\ Doing(q)
  <2>1. CASE reader[r].has = {}
    BY <2>1, NoRequestIsRight DEF Unwinding, Held
  <2>2. CASE reader[r].has # {}
    <3>. DEFINE w == IF "memory" \in reader[r].has THEN reader[r].weight ELSE 0
    <3>1. w \in 0..Capacity
      BY RequestFacts, AdmissionAssumption DEF Requests
    <3>2. q = [NoRequest EXCEPT !.at = "unwinding", !.has = reader[r].has, !.weight = w]
      BY <2>2 DEF Unwinding, Held
    <3>. HIDE DEF w, q
    <3>3. /\ q \in Requests /\ q.has = reader[r].has /\ q.at = "unwinding"
          /\ ~q.woken /\ ~q.expired
      BY <3>1, <3>2, RequestFacts, NoRequestIsRight DEF NoRequest, Requests
    <3> QED BY <2>2, <3>3 DEF Doing
  <2> QED BY <2>1, <2>2
<1>2. "memory" \in q.has => q.weight = reader[r].weight
  <2>1. ASSUME "memory" \in reader[r].has PROVE q.weight = reader[r].weight
    <3>1. q = [NoRequest EXCEPT !.at = "unwinding", !.has = reader[r].has,
                                !.weight = reader[r].weight]
      BY <2>1 DEF Unwinding, Held
    <3> QED BY <3>1 DEF NoRequest
  <2> QED BY <1>1, <2>1
<1>3. reader' = [reader EXCEPT ![r] = q]
  BY DEF Fails
<1>. HIDE DEF q
<1> QED BY <1>1, <1>2, <1>3, Stays
-----------------------------------------------------------------------------
(* Every step keeps the invariant.                                         *)

LEMMA BeginKeeps ==
  ASSUME Inv, NEW r \in Readers, Begin(r)
  PROVE  Inv'
<1>1. PICK p \in Plans :
        reader' = [reader EXCEPT ![r] = [NoRequest EXCEPT !.at = "running",
                                          !.script = p.script, !.weight = Weight(p.memory)]]
  BY DEF Begin
<1>. DEFINE w == Weight(p.memory)
            s == p.script
            q == [NoRequest EXCEPT !.at = "running", !.script = s, !.weight = w]
<1>2. Balanced(s) /\ s \in Scripts /\ w \in 0..Capacity
  <2>1. p.memory \in Nat /\ Balanced(p.script)
    BY PlansAssumption
  <2>2. s \in Scripts
    BY DEF Scripts
  <2> QED BY <2>1, <2>2, WeightFits, AdmissionAssumption
<1>. HIDE DEF w, s
<1>3. /\ q \in Requests /\ q.at = "running" /\ q.script = s /\ q.step = 1
      /\ q.has = {} /\ ~q.woken /\ ~q.expired
  BY <1>2, NoRequestIsRight DEF Requests
<1>4. reader' = [reader EXCEPT ![r] = q] /\ reader[r].at = "idle"
  BY <1>1 DEF w, s, Begin
<1>. HIDE DEF q
<1>5. Doing(q)
  <2>1. 1 <= Len(s)
    BY <1>2, LenProperties, EmptySeq DEF Balanced
  <2> QED BY <1>2, <1>3, <2>1, HoldsNothingFirst DEF Doing
<1>6. reader[r].has = {}
  BY <1>4, RequestFacts DEF Doing
<1>7. UNCHANGED <<slots, available, free, owner>>
  BY DEF Begin
<1> QED BY <1>3, <1>4, <1>5, <1>6, <1>7, Stays

(* Getting y leads to q.                                                   *)
Got(r, y) == [reader[r] EXCEPT !.at = "running", !.step = @ + 1, !.woken = FALSE,
                               !.expired = FALSE, !.has = @ \cup {y}]

LEMMA GotFacts ==
  ASSUME Inv, NEW r \in Readers, NEW y \in Resources,
         reader[r].at \in {"running", "sleeping"},
         reader[r].script[reader[r].step] = Gets(y)
  PROVE  /\ Got(r, y) \in Requests /\ Got(r, y).at = "running"
         /\ Got(r, y).has = reader[r].has \cup {y}
         /\ Got(r, y).weight = reader[r].weight
         /\ Doing(Got(r, y)) /\ y \notin reader[r].has
         /\ reader[r].at = "running" => Got(r, y) = [Goes(r) EXCEPT !.has = @ \cup {y}]
<1>. DEFINE q == Got(r, y)
            n == reader[r].step + 1
            h == reader[r].has \cup {y}
<1>1. n \in Nat \ {0} /\ h \in SUBSET Resources
  BY RequestFacts
<1>2. q = [reader[r] EXCEPT !.at = "running", !.step = n, !.woken = FALSE,
                            !.expired = FALSE, !.has = h]
  BY RequestFacts DEF Got, Requests
<1>. HIDE DEF q, n, h
<1>3. /\ q \in Requests /\ q.at = "running" /\ q.script = reader[r].script /\ q.step = n
      /\ q.has = h /\ q.weight = reader[r].weight /\ ~q.woken /\ ~q.expired
  BY <1>1, <1>2, RequestFacts DEF Requests
<1>4. q.step = reader[r].step + 1 /\ q.has = reader[r].has \cup {y}
  BY <1>3 DEF n, h
<1>5. Doing(q) /\ y \notin reader[r].has
  BY <1>3, <1>4, HasGot
<1>6. ASSUME reader[r].at = "running" PROVE q = [Goes(r) EXCEPT !.has = @ \cup {y}]
  <2>1. reader[r].woken = FALSE /\ reader[r].expired = FALSE
    BY <1>6, RequestFacts DEF Doing, Requests
  <2>2. [Goes(r) EXCEPT !.has = @ \cup {y}] = [reader[r] EXCEPT !.step = n, !.has = h]
    BY RequestFacts DEF Goes, Requests, n, h
  <2>3. PICK p \in Requests : p = reader[r]
    BY RequestFacts
  <2>4. [p EXCEPT !.at = "running", !.step = n, !.woken = FALSE, !.expired = FALSE, !.has = h]
          = [p EXCEPT !.step = n, !.has = h]
    BY <1>6, <2>1, <2>3 DEF Requests
  <2> QED BY <1>2, <2>2, <2>3, <2>4
<1> QED BY <1>3, <1>4, <1>5, <1>6 DEF q

LEMMA GetConnectionKeeps ==
  ASSUME Inv, NEW r \in Readers, GetConnection(r)
  PROVE  Inv'
<1>1. reader[r].at = "running" /\ reader[r].script[reader[r].step] = Gets("connection")
  BY Words DEF GetConnection, At
<1>. DEFINE q == Got(r, "connection")
<1>2. /\ q \in Requests /\ q.at # "sleeping" /\ q.has = reader[r].has \cup {"connection"}
      /\ q.weight = reader[r].weight /\ Doing(q) /\ "connection" \notin reader[r].has
      /\ q = [Goes(r) EXCEPT !.has = @ \cup {"connection"}]
  BY <1>1, GotFacts DEF Resources
<1>3. reader' = [reader EXCEPT ![r] = q]
  BY <1>2 DEF GetConnection
<1>4. /\ slots' = slots /\ available' = available /\ owner' = owner
      /\ free' = free - 1 /\ free > 0 /\ "connection" \in Resources
  BY DEF GetConnection, Resources
<1>. HIDE DEF q
<1> QED BY <1>2, <1>3, <1>4, Takes

LEMMA GetLockKeeps ==
  ASSUME Inv, NEW r \in Readers, GetLock(r)
  PROVE  Inv'
<1>1. reader[r].at = "running" /\ reader[r].script[reader[r].step] = Gets("lock")
  BY Words DEF GetLock, At
<1>. DEFINE q == Got(r, "lock")
<1>2. /\ q \in Requests /\ q.at # "sleeping" /\ q.has = reader[r].has \cup {"lock"}
      /\ q.weight = reader[r].weight /\ Doing(q) /\ "lock" \notin reader[r].has
      /\ q = [Goes(r) EXCEPT !.has = @ \cup {"lock"}]
  BY <1>1, GotFacts DEF Resources
<1>3. reader' = [reader EXCEPT ![r] = q]
  BY <1>2 DEF GetLock
<1>4. /\ slots' = slots /\ available' = available /\ free' = free
      /\ owner' = r /\ owner = Nobody /\ "lock" \in Resources
  BY DEF GetLock, Resources
<1>. HIDE DEF q
<1> QED BY <1>2, <1>3, <1>4, Takes

LEMMA GetSlotKeeps ==
  ASSUME Inv, NEW r \in Readers, GetSlot(r)
  PROVE  Inv'
<1>1. reader[r].at = "running" /\ reader[r].script[reader[r].step] = Gets("slot")
  BY Words DEF GetSlot, At
<1>. DEFINE q == Got(r, "slot")
<1>2. /\ q \in Requests /\ q.at # "sleeping" /\ q.has = reader[r].has \cup {"slot"}
      /\ q.weight = reader[r].weight /\ Doing(q) /\ "slot" \notin reader[r].has
      /\ q = [Goes(r) EXCEPT !.has = @ \cup {"slot"}]
  BY <1>1, GotFacts DEF Resources
<1>3. reader' = [reader EXCEPT ![r] = q]
  BY <1>2 DEF GetSlot
<1>4. /\ slots' = slots - 1 /\ slots > 0 /\ available' = available /\ free' = free
      /\ owner' = owner /\ "slot" \in Resources
  BY DEF GetSlot, Resources
<1>. HIDE DEF q
<1> QED BY <1>2, <1>3, <1>4, Takes

LEMMA TakeMemoryKeeps ==
  ASSUME Inv, NEW r \in Readers, TakeMemory(r)
  PROVE  Inv'
<1>1. /\ reader[r].at \in {"running", "sleeping"}
      /\ reader[r].script[reader[r].step] = Gets("memory")
  BY Words, RequestFacts DEF TakeMemory, At, Doing
<1>. DEFINE q == Got(r, "memory")
<1>2. /\ q \in Requests /\ q.at # "sleeping" /\ q.has = reader[r].has \cup {"memory"}
      /\ q.weight = reader[r].weight /\ Doing(q) /\ "memory" \notin reader[r].has
  BY <1>1, GotFacts DEF Resources
<1>3. q = [Goes(r) EXCEPT !.at = "running", !.woken = FALSE, !.expired = FALSE,
                          !.has = @ \cup {"memory"}]
  BY RequestFacts DEF Got, Goes, Requests
<1>4. reader' = [reader EXCEPT ![r] = q]
  BY <1>3 DEF TakeMemory
<1>5. /\ slots' = slots /\ available' = available - reader[r].weight /\ free' = free
      /\ owner' = owner /\ available >= reader[r].weight /\ "memory" \in Resources
  BY DEF TakeMemory, Enough, Resources
<1>. HIDE DEF q
<1> QED BY <1>2, <1>4, <1>5, Takes

(* It waits on, or its time is over.                                       *)
LEMMA WaitsOn ==
  ASSUME Inv, NEW r \in Readers, Sleep(r) \/ Expire(r)
  PROVE  Inv'
<1>1. UNCHANGED <<slots, available, free, owner>>
  BY DEF Sleep, Expire
<1>2. CASE Sleep(r)
  <2>. DEFINE q == [reader[r] EXCEPT !.at = "sleeping", !.woken = FALSE]
  <2>1. reader' = [reader EXCEPT ![r] = q]
    BY <1>2, RequestFacts DEF Sleep
  <2>2. /\ q \in Requests /\ q.at = "sleeping" /\ q.script = reader[r].script
        /\ q.step = reader[r].step /\ q.has = reader[r].has /\ q.weight = reader[r].weight
    BY RequestFacts DEF Requests
  <2>3. /\ reader[r].at \in {"running", "sleeping"}
        /\ reader[r].script[reader[r].step] = "get memory"
    BY <1>2, RequestFacts DEF Sleep, At, Doing
  <2>4. ~(available >= reader[r].weight)
    BY <1>2 DEF Sleep, Enough
  <2>. HIDE DEF q
  <2>5. Doing(q)
    BY <2>2, <2>3, RequestFacts DEF Doing
  <2> QED BY <1>1, <2>1, <2>2, <2>4, <2>5, Stays
<1>3. CASE Expire(r)
  <2>. DEFINE q == [reader[r] EXCEPT !.expired = TRUE]
  <2>1. reader' = [reader EXCEPT ![r] = q] /\ reader[r].at = "sleeping"
    BY <1>3, RequestFacts DEF Expire
  <2>2. /\ q \in Requests /\ q.at = "sleeping" /\ q.script = reader[r].script /\ q.expired
        /\ q.step = reader[r].step /\ q.has = reader[r].has /\ q.weight = reader[r].weight
    BY <2>1, RequestFacts DEF Requests
  <2>. HIDE DEF q
  <2>3. Doing(q)
    BY <2>1, <2>2, RequestFacts DEF Doing
  <2> QED BY <1>1, <2>1, <2>2, <2>3, Stays
<1> QED BY <1>2, <1>3

LEMMA PutKeeps ==
  ASSUME Inv, NEW r \in Readers, Put(r)
  PROVE  Inv'
<1>. DEFINE q(y) == IF Finished(r) THEN NoRequest ELSE [Less(r, y) EXCEPT !.step = @ + 1]
<1>1. PICK y \in Resources : At(r, Puts(y)) /\ GiveBack(r, y, q(y))
  BY DEF Put
<1>2. reader[r].at = "running" /\ reader[r].script[reader[r].step] = Puts(y)
  BY <1>1 DEF At
<1>3. y \in reader[r].has /\ (Finished(r) => reader[r].has = {y})
  BY <1>2, HasPut, NoRequestIsRight
<1>4. CASE Finished(r)
  <2>1. q(y) = NoRequest /\ NoRequest.has = reader[r].has \ {y}
    BY <1>3, <1>4, NoRequestIsRight
  <2>2. NoRequest.at # "sleeping" /\ ~("memory" \in NoRequest.has)
    BY NoRequestIsRight
  <2>3. GiveBack(r, y, NoRequest)
    BY <1>1, <2>1
  <2> QED BY <1>3, <2>1, <2>2, <2>3, NoRequestIsRight, Gives
<1>5. CASE ~Finished(r)
  <2>. DEFINE n == reader[r].step + 1
              h == reader[r].has \ {y}
              p == [reader[r] EXCEPT !.step = n, !.has = h]
  <2>1. q(y) = p
    BY <1>5, RequestFacts DEF Less, Requests
  <2>2. n \in Nat \ {0} /\ h \in SUBSET Resources
    BY RequestFacts
  <2>. HIDE DEF n, h
  <2>3. /\ p \in Requests /\ p.at = "running" /\ p.script = reader[r].script /\ p.step = n
        /\ p.has = h /\ p.weight = reader[r].weight
        /\ p.woken = reader[r].woken /\ p.expired = reader[r].expired
    BY <1>2, <2>2, RequestFacts DEF Requests
  <2>4. GiveBack(r, y, p)
    BY <1>1, <2>1
  <2>. HIDE DEF p
  <2>5. p.step = reader[r].step + 1 /\ p.has = reader[r].has \ {y}
    BY <2>3 DEF n, h
  <2>6. ~p.woken /\ ~p.expired
    BY <1>2, <2>3, RequestFacts DEF Doing
  <2>7. Doing(p)
    BY <1>2, <1>5, <2>3, <2>5, <2>6, HasPut
  <2> QED BY <1>3, <2>3, <2>4, <2>5, <2>7, Gives
<1> QED BY <1>4, <1>5

LEMMA UnwindKeeps ==
  ASSUME Inv, NEW r \in Readers, Unwind(r)
  PROVE  Inv'
<1>. DEFINE y == Inner(r)
            q == IF Left(r) = {} THEN NoRequest ELSE Less(r, y)
<1>1. reader[r].at = "unwinding" /\ GiveBack(r, y, q)
  BY DEF Unwind
<1>2. y \in reader[r].has /\ y \in Resources
  <2>1. reader[r].has # {} /\ reader[r].has \subseteq Resources
    BY <1>1, RequestFacts DEF Doing
  <2>2. CASE "connection" \in reader[r].has
    BY <2>2 DEF Inner, Resources
  <2>3. CASE "connection" \notin reader[r].has /\ "memory" \in reader[r].has
    BY <2>3 DEF Inner, Resources
  <2>4. CASE "connection" \notin reader[r].has /\ "memory" \notin reader[r].has
             /\ "slot" \in reader[r].has
    BY <2>4 DEF Inner, Resources
  <2>5. CASE "connection" \notin reader[r].has /\ "memory" \notin reader[r].has
             /\ "slot" \notin reader[r].has
    BY <2>1, <2>5 DEF Inner, Resources
  <2> QED BY <2>2, <2>3, <2>4, <2>5
<1>. HIDE DEF y
<1>3. CASE Left(r) = {}
  <2>1. q = NoRequest /\ NoRequest.has = reader[r].has \ {y}
    BY <1>3, NoRequestIsRight DEF Left, y
  <2>2. NoRequest.at # "sleeping" /\ ~("memory" \in NoRequest.has)
    BY NoRequestIsRight
  <2>3. GiveBack(r, y, NoRequest)
    BY <1>1, <2>1
  <2> QED BY <1>2, <2>1, <2>2, <2>3, NoRequestIsRight, Gives
<1>4. CASE Left(r) # {}
  <2>. DEFINE h == reader[r].has \ {y}
              p == [reader[r] EXCEPT !.has = h]
  <2>1. q = p /\ h # {}
    BY <1>4, RequestFacts DEF Less, Left, Requests, y
  <2>2. h \in SUBSET Resources
    BY RequestFacts
  <2>. HIDE DEF h
  <2>3. /\ p \in Requests /\ p.at = "unwinding" /\ p.has = h /\ p.weight = reader[r].weight
        /\ p.woken = reader[r].woken /\ p.expired = reader[r].expired
    BY <1>1, <2>2, RequestFacts DEF Requests
  <2>4. GiveBack(r, y, p)
    BY <1>1, <2>1
  <2>. HIDE DEF p
  <2>5. Doing(p)
    BY <1>1, <2>1, <2>3, RequestFacts DEF Doing
  <2>6. p.has = reader[r].has \ {y}
    BY <2>3 DEF h
  <2> QED BY <1>2, <2>3, <2>4, <2>5, <2>6, Gives
<1> QED BY <1>3, <1>4

LEMMA InvStart ==
  ASSUME Init
  PROVE  Inv
<1>1. TypeOK
  BY AdmissionAssumption, NoRequestIsRight DEF Init, TypeOK
<1>2. \A r \in Readers : reader[r] = NoRequest
  BY DEF Init
<1>3. NothingLeaks
  <2>1. \A x : Having(x) = {}
    BY <1>2, NoRequestIsRight DEF Having
  <2>2. Units = {}
    BY <2>1 DEF Units
  <2> QED BY <2>1, <2>2, AdmissionAssumption, FS_EmptySet DEF Init, NothingLeaks
<1>4. NobodySleepsBesideEnough
  BY <1>2, NoRequestIsRight DEF NobodySleepsBesideEnough, Sleeping
<1> QED BY <1>1, <1>2, <1>3, <1>4, NoRequestIsRight DEF Inv

LEMMA InvStep ==
  ASSUME Inv, [Next]_vars
  PROVE  Inv'
<1>1. CASE UNCHANGED vars
  <2>1. reader' = reader /\ UNCHANGED <<slots, available, free, owner>>
    BY <1>1 DEF vars
  <2>2. TypeOK' /\ (\A r \in Readers : Doing(reader[r]))'
    BY <2>1 DEF Inv, TypeOK
  <2>3. Units' = Units /\ \A x : Having(x)' = Having(x)
    BY <2>1, ReadersHold
  <2>4. NothingLeaks'
    BY <2>1, <2>3 DEF Inv, NothingLeaks
  <2>5. NobodySleepsBesideEnough'
    BY <2>1 DEF Inv, NobodySleepsBesideEnough, Sleeping, Enough
  <2> QED BY <2>2, <2>4, <2>5 DEF Inv
<1>2. CASE Next
  <2>1. PICK r \in Readers : Begin(r) \/ Runs(r) \/ Fail(r) \/ Rejected(r)
    BY <1>2 DEF Next
  <2>2. ASSUME SlotTimesOut(r) \/ MemoryTimesOut(r) \/ Fail(r) \/ Rejected(r)
        PROVE  Inv'
    <3>1. Fails(r) /\ UNCHANGED <<slots, available, free, owner>>
      BY <2>2 DEF SlotTimesOut, MemoryTimesOut, Fail, Rejected
    <3> QED BY <3>1, FailsKeeps
  <2> QED BY <2>1, <2>2, BeginKeeps, GetConnectionKeeps, GetLockKeeps, GetSlotKeeps,
             TakeMemoryKeeps, WaitsOn, PutKeeps, UnwindKeeps DEF Runs
<1> QED BY <1>1, <1>2

LEMMA InvHolds == Spec => []Inv
BY InvStart, InvStep, PTL DEF Spec

(* Through time-outs, failures and closed generators, what is held and     *)
(* what is free is all there is: WeightedMemoryGate, its slots, the pool   *)
(* and the fill lock get back whatever a request took.                     *)
THEOREM ReadsLeakNothing == Spec => []NothingLeaks
<1>1. Inv => NothingLeaks
  BY DEF Inv
<1> QED BY <1>1, InvHolds, PTL

(* Nobody sleeps on while there is enough memory for it: release of        *)
(* WeightedMemoryGate wakes everybody, and what a sleeper asks for does    *)
(* not change.                                                             *)
THEOREM SleepersNeedMore == Spec => []NobodySleepsBesideEnough
<1>1. Inv => NobodySleepsBesideEnough
  BY DEF Inv
<1> QED BY <1>1, InvHolds, PTL
-----------------------------------------------------------------------------
(* No circle of waiting.  Requests take what they hold at once in one      *)
(* order: the lock, the slot, the memory, the connection.                  *)

Rank(resource) == CASE resource = "lock" -> 1
                    [] resource = "slot" -> 2
                    [] resource = "memory" -> 3
                    [] resource = "connection" -> 4

InOrder(script) ==
  \A i \in 1..Len(script) : \A x \in Resources :
    script[i] = Gets(x) => \A y \in HeldBefore(script, i) : Rank(y) < Rank(x)

(* r has something to do other than wait: it gets or gives back.           *)
GoesOn(r) ==
  \/ At(r, "get connection") /\ free > 0
  \/ At(r, "get lock") /\ owner = Nobody
  \/ At(r, "get slot") /\ slots > 0
  \/ At(r, "get memory") /\ Enough(r)
  \/ reader[r].at = "sleeping" /\ (reader[r].woken \/ reader[r].expired) /\ Enough(r)
  \/ \E x \in Resources : At(r, Puts(x))
  \/ reader[r].at = "unwinding"

NobodyIsStuck ==
  (\E r \in Readers : reader[r].at # "idle") => \E r \in Readers : GoesOn(r)

(* Who is stuck waits for something and holds only what comes before it.   *)
WaitsFor(r, y) ==
  /\ reader[r].at \in {"running", "sleeping"}
  /\ reader[r].script[reader[r].step] = Gets(y)
  /\ \A x \in reader[r].has : Rank(x) < Rank(y)

LEMMA Ranks ==
  Rank("lock") = 1 /\ Rank("slot") = 2 /\ Rank("memory") = 3 /\ Rank("connection") = 4
BY DEF Rank

LEMMA StuckWaits ==
  ASSUME Inv, \A p \in Plans : InOrder(p.script),
         NEW r \in Readers, reader[r].at # "idle", ~GoesOn(r)
  PROVE  \E y \in Resources : WaitsFor(r, y)
<1>. DEFINE s == reader[r].script
            i == reader[r].step
<1>1. reader[r].at \in {"running", "sleeping"}
  BY RequestFacts DEF GoesOn, Requests
<1>2. /\ Balanced(s) /\ i \in Nat \ {0} /\ i <= Len(s)
      /\ reader[r].has = HeldBefore(s, i) /\ s \in Scripts
      /\ reader[r].at = "sleeping" => s[i] = Gets("memory")
  BY <1>1, RequestFacts, Words DEF Doing, Requests
<1>3. ASSUME NEW x \in Resources, s[i] = Puts(x) PROVE FALSE
  <2>1. reader[r].at = "running"
    BY <1>1, <1>2, <1>3, Words DEF Resources
  <2> QED BY <1>3, <2>1 DEF GoesOn, At
<1>. HIDE DEF s, i
<1>4. i \in 1..Len(s) /\ i \in DOMAIN s
  <2>1. Len(s) \in Nat /\ DOMAIN s = 1..Len(s)
    BY <1>2, LenProperties DEF Balanced
  <2> QED BY <1>2, <2>1
<1>5. PICK y \in Resources : s[i] = Gets(y)
  <2>1. s[i] \in Steps
    BY <1>2, <1>4, ElementOfSeq DEF Balanced
  <2> QED BY <1>3, <2>1 DEF Steps, s, i
<1>6. InOrder(s)
  <2>1. s # <<>>
    BY <1>2 DEF Balanced
  <2> QED BY <1>2, <2>1 DEF Scripts
<1>7. \A x \in reader[r].has : Rank(x) < Rank(y)
  BY <1>2, <1>4, <1>5, <1>6 DEF InOrder
<1> QED BY <1>1, <1>5, <1>7 DEF WaitsFor, s, i

(* Who waits for y waits for someone that holds y.                         *)
LEMMA SomebodyHolds ==
  ASSUME Inv, NEW r \in Readers, NEW y \in Resources, WaitsFor(r, y), ~GoesOn(r)
  PROVE  \E h \in Readers : y \in reader[h].has
<1>1. reader[r].script[reader[r].step] = Gets(y)
      /\ reader[r].at \in {"running", "sleeping"}
      /\ (reader[r].at = "sleeping" => y = "memory")
  BY RequestFacts, Words DEF WaitsFor, Doing, Resources
<1>2. slots \in Nat /\ available \in Nat /\ free \in Nat /\ owner \in Readers \cup {Nobody}
  BY DEF Inv, TypeOK
<1>3. /\ slots + Cardinality(Having("slot")) = Slots
      /\ free + Cardinality(Having("connection")) = Connections
      /\ available + Cardinality(Units) = Capacity
      /\ \A x \in Readers : x \in Having("lock") <=> owner = x
  BY DEF Inv, NothingLeaks
<1>4. CASE y = "connection"
  <2>1. free = 0
    <3>1. ~(free > 0)
      BY <1>1, <1>4, Words DEF GoesOn, At
    <3> QED BY <1>2, <3>1
  <2>2. Cardinality(Having("connection")) # 0
    BY <1>3, <2>1, AdmissionAssumption
  <2>3. Having("connection") # {}
    BY <2>2, FS_EmptySet
  <2> QED BY <1>4, <2>3 DEF Having
<1>5. CASE y = "slot"
  <2>1. slots = 0
    <3>1. ~(slots > 0)
      BY <1>1, <1>5, Words DEF GoesOn, At
    <3> QED BY <1>2, <3>1
  <2>2. Cardinality(Having("slot")) # 0
    BY <1>3, <2>1, AdmissionAssumption
  <2>3. Having("slot") # {}
    BY <2>2, FS_EmptySet
  <2> QED BY <1>5, <2>3 DEF Having
<1>6. CASE y = "lock"
  <2>1. owner # Nobody
    BY <1>1, <1>6, Words DEF GoesOn, At
  <2> QED BY <1>2, <1>3, <1>6, <2>1 DEF Having
<1>7. CASE y = "memory"
  <2>1. ~Enough(r)
    <3>1. CASE reader[r].at = "running"
      BY <1>1, <1>7, <3>1, Words DEF GoesOn, At
    <3>2. CASE reader[r].at = "sleeping" /\ (reader[r].woken \/ reader[r].expired)
      BY <3>2 DEF GoesOn
    <3>3. CASE reader[r].at = "sleeping" /\ ~reader[r].woken /\ ~reader[r].expired
      BY <3>3 DEF Inv, NobodySleepsBesideEnough, Sleeping
    <3> QED BY <1>1, <3>1, <3>2, <3>3
  <2>2. reader[r].weight \in 0..Capacity /\ Capacity \in Nat
    BY RequestFacts, AdmissionAssumption DEF Requests
  <2>3. available < Capacity
    BY <1>2, <2>1, <2>2 DEF Enough
  <2>4. Cardinality(Units) # 0
    BY <1>2, <1>3, <2>2, <2>3
  <2>5. Units # {}
    BY <2>4, FS_EmptySet
  <2> QED BY <1>7, <2>5 DEF Units, Having
<1> QED BY <1>4, <1>5, <1>6, <1>7 DEF Resources

LEMMA InvUnsticks ==
  ASSUME Inv, \A p \in Plans : InOrder(p.script)
  PROVE  NobodyIsStuck
<1>1. SUFFICES ASSUME NEW r \in Readers, reader[r].at # "idle",
                      \A x \in Readers : ~GoesOn(x)
               PROVE  FALSE
  BY DEF NobodyIsStuck
<1>2. ASSUME NEW y \in Resources, NEW x \in Readers, WaitsFor(x, y)
      PROVE  \E z \in Resources : \E h \in Readers : WaitsFor(h, z) /\ Rank(y) < Rank(z)
  <2>1. PICK h \in Readers : y \in reader[h].has
    BY <1>1, <1>2, SomebodyHolds
  <2>2. reader[h].at # "idle"
    BY <2>1, RequestFacts DEF Doing
  <2>3. PICK z \in Resources : WaitsFor(h, z)
    BY <1>1, <2>2, StuckWaits
  <2>4. Rank(y) < Rank(z)
    BY <2>1, <2>3 DEF WaitsFor
  <2> QED BY <2>3, <2>4
<1>. DEFINE Waited(y) == \E x \in Readers : WaitsFor(x, y)
<1>3. \A y \in Resources : Waited(y) => \E z \in Resources : Waited(z) /\ Rank(y) < Rank(z)
  BY <1>2
<1>4. \E y \in Resources : Waited(y)
  BY <1>1, StuckWaits
<1>. HIDE DEF Waited
<1>5. ~Waited("connection")
  BY <1>3, Ranks DEF Resources
<1>6. ~Waited("memory")
  BY <1>3, <1>5, Ranks DEF Resources
<1>7. ~Waited("slot")
  BY <1>3, <1>5, <1>6, Ranks DEF Resources
<1>8. ~Waited("lock")
  BY <1>3, <1>5, <1>6, <1>7, Ranks DEF Resources
<1> QED BY <1>4, <1>5, <1>6, <1>7, <1>8 DEF Resources

(* As long as there are requests, one of them can get what it waits for or *)
(* give something back, without any time-out: as all of them take the lock *)
(* of cache fills, slot, memory and connection in this order, which none   *)
(* of the four scripts of DataService breaks.                              *)
THEOREM SomebodyGoesOn ==
  ASSUME \A p \in Plans : InOrder(p.script)
  PROVE  Spec => []NobodyIsStuck
<1>1. Inv => NobodyIsStuck
  BY InvUnsticks
<1> QED BY <1>1, InvHolds, PTL
-----------------------------------------------------------------------------
(* The scripts of DataService are balanced and in order: what a part of a  *)
(* script makes of what is held, step by step.                             *)

Changes(step, before, after) ==
  \E x \in Resources :
    \/ /\ step = Gets(x) /\ x \notin before /\ after = before \cup {x}
       /\ \A y \in before : Rank(y) < Rank(x)
    \/ step = Puts(x) /\ x \in before /\ after = before \ {x}

Leads(part, before, after) ==
  /\ part \in Seq(Steps)
  /\ \E h \in [1..(Len(part) + 1) -> SUBSET Resources] :
       /\ h[1] = before /\ h[Len(part) + 1] = after
       /\ \A i \in 1..Len(part) : Changes(part[i], h[i], h[i + 1])

(* One part after the other.                                               *)
LEMMA LeadsOn ==
  ASSUME NEW a, NEW b, NEW S, NEW T, NEW U, Leads(a, S, T), Leads(b, T, U)
  PROVE  Leads(a \o b, S, U)
<1>. DEFINE m == Len(a)
            n == Len(b)
            c == a \o b
<1>1. a \in Seq(Steps) /\ b \in Seq(Steps) /\ m \in Nat /\ n \in Nat
  BY LenProperties DEF Leads
<1>2. PICK f \in [1..(m + 1) -> SUBSET Resources] :
        f[1] = S /\ f[m + 1] = T /\ \A i \in 1..m : Changes(a[i], f[i], f[i + 1])
  BY DEF Leads
<1>3. PICK g \in [1..(n + 1) -> SUBSET Resources] :
        g[1] = T /\ g[n + 1] = U /\ \A i \in 1..n : Changes(b[i], g[i], g[i + 1])
  BY DEF Leads
<1>4. /\ c \in Seq(Steps) /\ Len(c) = m + n
      /\ \A i \in 1..(m + n) : c[i] = IF i <= m THEN a[i] ELSE b[i - m]
  BY <1>1, ConcatProperties
<1>. HIDE DEF m, n, c
<1>. DEFINE h == [i \in 1..((m + n) + 1) |-> IF i <= m THEN f[i] ELSE g[i - m]]
<1>5. h \in [1..((m + n) + 1) -> SUBSET Resources]
  <2>1. ASSUME NEW i \in 1..((m + n) + 1)
        PROVE  (IF i <= m THEN f[i] ELSE g[i - m]) \in SUBSET Resources
    <3>1. CASE i <= m
      <4>1. i \in 1..(m + 1)
        BY <1>1, <3>1
      <4> QED BY <1>2, <3>1, <4>1
    <3>2. CASE ~(i <= m)
      <4>1. i - m \in 1..(n + 1)
        BY <1>1, <3>2
      <4> QED BY <1>3, <3>2, <4>1
    <3> QED BY <3>1, <3>2
  <2> QED BY <2>1
<1>6. ASSUME NEW i \in 1..((m + n) + 1)
      PROVE  /\ i <= m + 1 => h[i] = f[i]
             /\ i > m => h[i] = g[i - m]
  <2>1. h[i] = IF i <= m THEN f[i] ELSE g[i - m]
    OBVIOUS
  <2>2. i = m + 1 => i - m = 1 /\ ~(i <= m)
    BY <1>1
  <2>3. i = m + 1 => h[i] = f[i]
    BY <1>2, <1>3, <2>1, <2>2
  <2>4. i <= m => h[i] = f[i]
    BY <2>1
  <2>5. i <= m + 1 => i <= m \/ i = m + 1
    BY <1>1
  <2>6. i > m => h[i] = g[i - m]
    BY <1>1, <2>1
  <2> QED BY <2>3, <2>4, <2>5, <2>6
<1>7. h[1] = S /\ h[Len(c) + 1] = U
  <2>1. 1 \in 1..((m + n) + 1) /\ 1 <= m + 1
    BY <1>1
  <2>2. (m + n) + 1 \in 1..((m + n) + 1) /\ (m + n) + 1 > m /\ ((m + n) + 1) - m = n + 1
    BY <1>1
  <2>3. h[1] = f[1]
    BY <1>6, <2>1
  <2>4. h[(m + n) + 1] = g[n + 1]
    BY <1>6, <2>2
  <2> QED BY <1>2, <1>3, <1>4, <2>3, <2>4
<1>. HIDE DEF h
<1>8. ASSUME NEW i \in 1..Len(c) PROVE Changes(c[i], h[i], h[i + 1])
  <2>1. i \in 1..(m + n) /\ i \in 1..((m + n) + 1) /\ i + 1 \in 1..((m + n) + 1)
    BY <1>1, <1>4
  <2>2. c[i] = IF i <= m THEN a[i] ELSE b[i - m]
    BY <1>4, <2>1
  <2>3. CASE i <= m
    <3>1. i \in 1..m /\ i <= m + 1 /\ i + 1 <= m + 1
      BY <1>1, <2>1, <2>3
    <3>2. h[i] = f[i] /\ h[i + 1] = f[i + 1] /\ c[i] = a[i]
      BY <1>6, <2>1, <2>2, <2>3, <3>1
    <3> QED BY <1>2, <3>1, <3>2
  <2>4. CASE ~(i <= m)
    <3>1. i - m \in 1..n /\ i > m /\ i + 1 > m /\ (i + 1) - m = (i - m) + 1
      BY <1>1, <2>1, <2>4
    <3>2. h[i] = g[i - m] /\ h[i + 1] = g[(i - m) + 1] /\ c[i] = b[i - m]
      BY <1>6, <2>1, <2>2, <2>4, <3>1
    <3> QED BY <1>3, <3>1, <3>2
  <2> QED BY <2>3, <2>4
<1> QED BY <1>4, <1>5, <1>7, <1>8 DEF Leads, c

(* A script that leads from nothing to nothing.                            *)
LEMMA LeadsBack ==
  ASSUME NEW s, s # <<>>, Leads(s, {}, {})
  PROVE  Balanced(s) /\ InOrder(s)
<1>. DEFINE n == Len(s)
<1>1. s \in Seq(Steps) /\ n \in Nat /\ DOMAIN s = 1..n
  BY LenProperties DEF Leads
<1>2. PICK h \in [1..(n + 1) -> SUBSET Resources] :
        h[1] = {} /\ h[n + 1] = {} /\ \A i \in 1..n : Changes(s[i], h[i], h[i + 1])
  BY DEF Leads
<1>. HIDE DEF n
<1>3. ASSUME NEW i \in 1..n, HeldBefore(s, i) = h[i]
      PROVE  /\ HeldBefore(s, i + 1) = h[i + 1]
             /\ \A x \in Resources :
                  /\ s[i] = Gets(x) => /\ x \notin h[i]
                                       /\ \A y \in h[i] : Rank(y) < Rank(x)
                  /\ s[i] = Puts(x) => x \in h[i]
  <2>1. i \in Nat \ {0}
    BY <1>1
  <2>2. PICK x \in Resources :
          \/ /\ s[i] = Gets(x) /\ x \notin h[i] /\ h[i + 1] = h[i] \cup {x}
             /\ \A y \in h[i] : Rank(y) < Rank(x)
          \/ s[i] = Puts(x) /\ x \in h[i] /\ h[i + 1] = h[i] \ {x}
    BY <1>2 DEF Changes
  <2>3. HeldBefore(s, i + 1) = h[i + 1]
    <3>1. s[i] = Gets(x) => HeldBefore(s, i + 1) = HeldBefore(s, i) \cup {x}
      BY <2>1, AfterGet
    <3>2. s[i] = Puts(x) => HeldBefore(s, i + 1) = HeldBefore(s, i) \ {x}
      BY <2>1, AfterPut
    <3> QED BY <1>3, <2>2, <3>1, <3>2
  <2>4. ASSUME NEW z \in Resources
        PROVE  /\ s[i] = Gets(z) => z = x /\ s[i] = Gets(x)
               /\ s[i] = Puts(z) => z = x /\ s[i] = Puts(x)
    BY <2>2, <2>4, Words
  <2>5. ~(s[i] = Gets(x) /\ s[i] = Puts(x))
    BY Words
  <2> QED BY <2>2, <2>3, <2>4, <2>5
<1>. DEFINE Wrong == {i \in 1..(n + 1) : HeldBefore(s, i) # h[i]}
<1>4. Wrong = {}
  <2>1. SUFFICES ASSUME Wrong # {} PROVE FALSE
    OBVIOUS
  <2>2. Wrong \in SUBSET Nat
    BY <1>1
  <2>3. PICK k \in Wrong : \A i \in Wrong : ~(<<i, k>> \in OpToRel(<, Nat))
    BY <2>1, <2>2, NatLessThanWellFounded, WFMin
  <2>4. k \in 1..(n + 1) /\ HeldBefore(s, k) # h[k]
    OBVIOUS
  <2>5. k # 1
    BY <1>2, <2>4, HoldsNothingFirst
  <2>6. k - 1 \in 1..n /\ k - 1 \in 1..(n + 1) /\ (k - 1) + 1 = k /\ k - 1 \in Nat
    BY <1>1, <2>4, <2>5
  <2>7. k - 1 \notin Wrong
    <3>1. k \in Nat /\ k - 1 < k
      BY <2>6, <1>1
    <3>2. <<k - 1, k>> \in OpToRel(<, Nat)
      BY <2>6, <3>1 DEF OpToRel
    <3> QED BY <2>3, <3>2
  <2>8. HeldBefore(s, k - 1) = h[k - 1]
    BY <2>6, <2>7
  <2>9. HeldBefore(s, (k - 1) + 1) = h[(k - 1) + 1]
    BY <1>3, <2>6, <2>8
  <2> QED BY <2>4, <2>6, <2>9
<1>5. \A i \in 1..(n + 1) : HeldBefore(s, i) = h[i]
  BY <1>4
<1>6. HeldBefore(s, n + 1) = {}
  <2>1. n + 1 \in 1..(n + 1)
    BY <1>1
  <2> QED BY <1>2, <1>5, <2>1
<1>7. ASSUME NEW i \in 1..n
      PROVE  \A x \in Resources :
               /\ s[i] = Gets(x) => /\ x \notin HeldBefore(s, i)
                                    /\ \A y \in HeldBefore(s, i) : Rank(y) < Rank(x)
               /\ s[i] = Puts(x) => x \in HeldBefore(s, i)
  <2>1. HeldBefore(s, i) = h[i]
    BY <1>1, <1>5
  <2> QED BY <1>3, <2>1
<1>8. Balanced(s)
  BY <1>1, <1>6, <1>7 DEF Balanced, n
<1>9. InOrder(s)
  BY <1>7 DEF InOrder, n
<1> QED BY <1>8, <1>9

(* The steps, and the parts that the scripts are made of.                  *)
LEMMA StepsChange ==
  /\ \A x \in Resources : Gets(x) \in Steps /\ Puts(x) \in Steps
  /\ \A x \in Resources : \A A \in SUBSET Resources :
       x \notin A =>
         /\ (\A y \in A : Rank(y) < Rank(x)) => Changes(Gets(x), A, A \cup {x})
         /\ Changes(Puts(x), A \cup {x}, A)
<1>1. \A x \in Resources : Gets(x) \in Steps /\ Puts(x) \in Steps
  BY DEF Steps
<1>2. ASSUME NEW x \in Resources, NEW A \in SUBSET Resources, x \notin A
      PROVE  /\ (\A y \in A : Rank(y) < Rank(x)) => Changes(Gets(x), A, A \cup {x})
             /\ Changes(Puts(x), A \cup {x}, A)
  <2>1. (A \cup {x}) \ {x} = A /\ x \in A \cup {x}
    BY <1>2
  <2> QED BY <1>2, <2>1 DEF Changes
<1> QED BY <1>1, <1>2

LEMMA OneStep ==
  ASSUME NEW a \in Steps, NEW S \in SUBSET Resources, NEW T \in SUBSET Resources,
         Changes(a, S, T)
  PROVE  Leads(<<a>>, S, T)
<1>. DEFINE s == <<a>>
            h == <<S, T>>
<1>1. s \in Seq(Steps) /\ Len(s) = 1 /\ s[1] = a
  OBVIOUS
<1>2. h \in [1..(1 + 1) -> SUBSET Resources] /\ h[1] = S /\ h[2] = T
  OBVIOUS
<1>. HIDE DEF s, h
<1>3. \A i \in 1..1 : Changes(s[i], h[i], h[i + 1])
  BY <1>1, <1>2
<1> QED BY <1>1, <1>2, <1>3 DEF Leads, s

LEMMA TwoSteps ==
  ASSUME NEW a \in Steps, NEW b \in Steps, NEW S \in SUBSET Resources,
         NEW T \in SUBSET Resources, NEW U \in SUBSET Resources,
         Changes(a, S, T), Changes(b, T, U)
  PROVE  Leads(<<a, b>>, S, U)
<1>. DEFINE s == <<a, b>>
            h == <<S, T, U>>
<1>1. s \in Seq(Steps) /\ Len(s) = 2 /\ s[1] = a /\ s[2] = b
  OBVIOUS
<1>2. h \in [1..(2 + 1) -> SUBSET Resources] /\ h[1] = S /\ h[2] = T /\ h[3] = U
  OBVIOUS
<1>. HIDE DEF s, h
<1>3. \A i \in 1..2 : Changes(s[i], h[i], h[i + 1])
  BY <1>1, <1>2
<1> QED BY <1>1, <1>2, <1>3 DEF Leads, s

LEMMA FourSteps ==
  ASSUME NEW a \in Steps, NEW b \in Steps, NEW c \in Steps, NEW d \in Steps,
         NEW S \in SUBSET Resources, NEW T \in SUBSET Resources,
         NEW U \in SUBSET Resources, NEW V \in SUBSET Resources,
         NEW W \in SUBSET Resources,
         Changes(a, S, T), Changes(b, T, U),
         Changes(c, U, V), Changes(d, V, W)
  PROVE  Leads(<<a, b, c, d>>, S, W)
<1>. DEFINE s == <<a, b, c, d>>
            held == <<S, T, U, V, W>>
<1>1. s \in Seq(Steps) /\ Len(s) = 4
  OBVIOUS
<1>2. /\ s[1] = a /\ s[2] = b /\ s[3] = c /\ s[4] = d
  OBVIOUS
<1>3. held \in [1..(4 + 1) -> SUBSET Resources]
  OBVIOUS
<1>4. /\ held[1] = S /\ held[2] = T /\ held[3] = U /\ held[4] = V /\ held[5] = W
  OBVIOUS
<1>. HIDE DEF s, held
<1>5. \A i \in 1..4 : Changes(s[i], held[i], held[i + 1])
  BY <1>2, <1>4
<1> QED BY <1>1, <1>3, <1>4, <1>5 DEF Leads, s

LEMMA SixSteps ==
  ASSUME NEW a \in Steps, NEW b \in Steps, NEW c \in Steps, NEW d \in Steps,
         NEW e \in Steps, NEW f \in Steps,
         NEW S \in SUBSET Resources, NEW T \in SUBSET Resources,
         NEW U \in SUBSET Resources, NEW V \in SUBSET Resources,
         NEW W \in SUBSET Resources, NEW X \in SUBSET Resources,
         NEW Y \in SUBSET Resources,
         Changes(a, S, T), Changes(b, T, U),
         Changes(c, U, V), Changes(d, V, W),
         Changes(e, W, X), Changes(f, X, Y)
  PROVE  Leads(<<a, b, c, d, e, f>>, S, Y)
<1>. DEFINE s == <<a, b, c, d, e, f>>
            held == <<S, T, U, V, W, X, Y>>
<1>1. s \in Seq(Steps) /\ Len(s) = 6
  OBVIOUS
<1>2. /\ s[1] = a /\ s[2] = b /\ s[3] = c /\ s[4] = d
      /\ s[5] = e /\ s[6] = f
  OBVIOUS
<1>3. held \in [1..(6 + 1) -> SUBSET Resources]
  OBVIOUS
<1>4. /\ held[1] = S /\ held[2] = T /\ held[3] = U /\ held[4] = V /\ held[5] = W
      /\ held[6] = X /\ held[7] = Y
  OBVIOUS
<1>. HIDE DEF s, held
<1>5. \A i \in 1..6 : Changes(s[i], held[i], held[i + 1])
  BY <1>2, <1>4
<1> QED BY <1>1, <1>3, <1>4, <1>5 DEF Leads, s

LEMMA EightSteps ==
  ASSUME NEW a \in Steps, NEW b \in Steps, NEW c \in Steps, NEW d \in Steps,
         NEW e \in Steps, NEW f \in Steps, NEW g \in Steps, NEW h \in Steps,
         NEW S \in SUBSET Resources, NEW T \in SUBSET Resources,
         NEW U \in SUBSET Resources, NEW V \in SUBSET Resources,
         NEW W \in SUBSET Resources, NEW X \in SUBSET Resources,
         NEW Y \in SUBSET Resources, NEW Z \in SUBSET Resources,
         NEW A \in SUBSET Resources,
         Changes(a, S, T), Changes(b, T, U),
         Changes(c, U, V), Changes(d, V, W),
         Changes(e, W, X), Changes(f, X, Y),
         Changes(g, Y, Z), Changes(h, Z, A)
  PROVE  Leads(<<a, b, c, d, e, f, g, h>>, S, A)
<1>. DEFINE s == <<a, b, c, d, e, f, g, h>>
            held == <<S, T, U, V, W, X, Y, Z, A>>
<1>1. s \in Seq(Steps) /\ Len(s) = 8
  OBVIOUS
<1>2. /\ s[1] = a /\ s[2] = b /\ s[3] = c /\ s[4] = d
      /\ s[5] = e /\ s[6] = f /\ s[7] = g /\ s[8] = h
  OBVIOUS
<1>3. held \in [1..(8 + 1) -> SUBSET Resources]
  OBVIOUS
<1>4. /\ held[1] = S /\ held[2] = T /\ held[3] = U /\ held[4] = V /\ held[5] = W
      /\ held[6] = X /\ held[7] = Y /\ held[8] = Z /\ held[9] = A
  OBVIOUS
<1>. HIDE DEF s, held
<1>5. \A i \in 1..8 : Changes(s[i], held[i], held[i + 1])
  BY <1>2, <1>4
<1> QED BY <1>1, <1>3, <1>4, <1>5 DEF Leads, s

(* The parts.                                                              *)
LEMMA PartsFit ==
  /\ Leads(Manifest, {}, {})
  /\ Leads(ReadCache, {}, {})
  /\ \A A \in SUBSET {"lock"} : Leads(Fill, A, A)
  /\ Leads(<<"get slot", "get memory", "get connection",
             "put connection", "put memory", "put slot">>, {}, {})
  /\ Leads(Window, {}, {})
  /\ Leads(<<"get lock">>, {}, {"lock"})
  /\ Leads(<<"put lock">>, {"lock"}, {})
  /\ Leads(<<"get lock", "put lock">>, {}, {})
<1>. DEFINE B == {"slot"}
            C == {"slot", "memory"}
            D == {"slot", "memory", "connection"}
<1>1. /\ "get lock" \in Steps /\ "put lock" \in Steps
      /\ "get slot" \in Steps /\ "put slot" \in Steps
      /\ "get memory" \in Steps /\ "put memory" \in Steps
      /\ "get connection" \in Steps /\ "put connection" \in Steps
  BY StepsChange, Words DEF Resources
<1>2. ASSUME NEW x \in Resources, NEW A \in SUBSET Resources, x \notin A,
             \A y \in A : Rank(y) < Rank(x)
      PROVE  Changes(Gets(x), A, A \cup {x}) /\ Changes(Puts(x), A \cup {x}, A)
  BY <1>2, StepsChange
<1>3. ASSUME NEW A \in SUBSET {"lock"}
      PROVE  /\ A \in SUBSET Resources /\ A \cup B \in SUBSET Resources
             /\ A \cup C \in SUBSET Resources /\ A \cup D \in SUBSET Resources
             /\ Changes("get slot", A, A \cup B) /\ Changes("put slot", A \cup B, A)
             /\ Changes("get memory", A \cup B, A \cup C)
             /\ Changes("put memory", A \cup C, A \cup B)
             /\ Changes("get connection", A \cup C, A \cup D)
             /\ Changes("put connection", A \cup D, A \cup C)
  <2>1. /\ A \in SUBSET Resources /\ A \cup B \in SUBSET Resources
        /\ A \cup C \in SUBSET Resources /\ A \cup D \in SUBSET Resources
    BY DEF Resources
  <2>2. Changes("get slot", A, A \cup B) /\ Changes("put slot", A \cup B, A)
    <3>1. "slot" \in Resources /\ "slot" \notin A /\ \A y \in A : Rank(y) < Rank("slot")
      BY Ranks DEF Resources
    <3> QED BY <1>2, <2>1, <3>1, Words
  <2>3. /\ Changes("get memory", A \cup B, A \cup C)
        /\ Changes("put memory", A \cup C, A \cup B)
    <3>1. /\ "memory" \in Resources /\ "memory" \notin A \cup B
          /\ \A y \in A \cup B : Rank(y) < Rank("memory")
      BY Ranks DEF Resources
    <3>2. (A \cup B) \cup {"memory"} = A \cup C
      OBVIOUS
    <3>3. /\ Changes(Gets("memory"), A \cup B, (A \cup B) \cup {"memory"})
          /\ Changes(Puts("memory"), (A \cup B) \cup {"memory"}, A \cup B)
      <4>1. A \cup B \in SUBSET Resources
        BY <2>1
      <4> QED BY <1>2, <3>1, <4>1
    <3> QED BY <3>2, <3>3, Words
  <2>4. /\ Changes("get connection", A \cup C, A \cup D)
        /\ Changes("put connection", A \cup D, A \cup C)
    <3>1. /\ "connection" \in Resources /\ "connection" \notin A \cup C
          /\ \A y \in A \cup C : Rank(y) < Rank("connection")
      BY Ranks DEF Resources
    <3>2. (A \cup C) \cup {"connection"} = A \cup D
      OBVIOUS
    <3>3. /\ Changes(Gets("connection"), A \cup C, (A \cup C) \cup {"connection"})
          /\ Changes(Puts("connection"), (A \cup C) \cup {"connection"}, A \cup C)
      <4>1. A \cup C \in SUBSET Resources
        BY <2>1
      <4> QED BY <1>2, <3>1, <4>1
    <3> QED BY <3>2, <3>3, Words
  <2> QED BY <2>1, <2>2, <2>3, <2>4
<1>4. /\ {} \in SUBSET Resources /\ {"connection"} \in SUBSET Resources
      /\ Changes("get connection", {}, {"connection"})
      /\ Changes("put connection", {"connection"}, {})
  <2>1. "connection" \in Resources /\ {} \cup {"connection"} = {"connection"}
    BY DEF Resources
  <2> QED BY <1>2, <2>1, Words
<1>5. /\ {"lock"} \in SUBSET Resources
      /\ Changes("get lock", {}, {"lock"}) /\ Changes("put lock", {"lock"}, {})
  <2>1. "lock" \in Resources /\ {} \cup {"lock"} = {"lock"}
    BY DEF Resources
  <2> QED BY <1>2, <2>1, Words
<1>6. /\ B \in SUBSET Resources /\ C \in SUBSET Resources /\ D \in SUBSET Resources
      /\ Changes("get slot", {}, B) /\ Changes("put slot", B, {})
      /\ Changes("get memory", B, C) /\ Changes("put memory", C, B)
      /\ Changes("get connection", C, D) /\ Changes("put connection", D, C)
  <2>1. {} \cup B = B /\ {} \cup C = C /\ {} \cup D = D /\ {} \in SUBSET {"lock"}
    OBVIOUS
  <2>. HIDE DEF B, C, D
  <2> QED BY <1>3, <2>1
<1>. HIDE DEF B, C, D
<1>7. Leads(Manifest, {}, {})
  BY <1>1, <1>4, TwoSteps DEF Manifest
<1>8. Leads(ReadCache, {}, {})
  BY <1>1, <1>4, <1>6, FourSteps DEF ReadCache
<1>9. \A A \in SUBSET {"lock"} :
        Leads(<<"get slot", "get memory", "get connection",
                "put connection", "put memory", "put slot">>, A, A)
  BY <1>1, <1>3, SixSteps
<1>10. Leads(Window, {}, {})
  BY <1>1, <1>4, <1>6, EightSteps DEF Window
<1>11. Leads(<<"get lock">>, {}, {"lock"}) /\ Leads(<<"put lock">>, {"lock"}, {})
  BY <1>1, <1>4, <1>5, OneStep
<1>12. Leads(<<"get lock", "put lock">>, {}, {})
  BY <1>1, <1>4, <1>5, TwoSteps
<1>13. {} \in SUBSET {"lock"}
  OBVIOUS
<1> QED BY <1>7, <1>8, <1>9, <1>10, <1>11, <1>12, <1>13 DEF Fill

(* The four scripts of DataService, service.py: a request gives back all   *)
(* that it gets, and it gets the lock before a slot, a slot before memory  *)
(* and memory before a connection, so that the two theorems above are      *)
(* about them.                                                             *)
THEOREM ScriptsFit ==
  \A script \in {Direct, Selective, Cached, Missing} : Balanced(script) /\ InOrder(script)
<1>1. Leads(Direct, {}, {})
  BY PartsFit, LeadsOn DEF Direct
<1>2. Leads(Selective, {}, {})
  BY PartsFit, LeadsOn DEF Selective
<1>3. Leads(Cached, {}, {})
  <2>1. Leads(Manifest \o <<"get lock", "put lock">>, {}, {})
    BY PartsFit, LeadsOn
  <2> QED BY <2>1, PartsFit, LeadsOn DEF Cached
<1>4. Leads(Missing, {}, {})
  <2>1. Leads(Manifest \o <<"get lock">>, {}, {"lock"})
    BY PartsFit, LeadsOn
  <2>2. Leads(Fill, {"lock"}, {"lock"})
    BY PartsFit
  <2>3. Leads(Manifest \o <<"get lock">> \o Fill, {}, {"lock"})
    BY <2>1, <2>2, LeadsOn
  <2>4. Leads(Manifest \o <<"get lock">> \o Fill \o <<"put lock">>, {}, {})
    BY <2>3, PartsFit, LeadsOn
  <2> QED BY <2>4, PartsFit, LeadsOn DEF Missing
<1>5. Direct # <<>> /\ Selective # <<>> /\ Cached # <<>> /\ Missing # <<>>
  <2>1. Manifest \in Seq(Steps) /\ Len(Manifest) = 2
    <3>1. Manifest \in Seq(Steps)
      BY PartsFit DEF Leads
    <3>2. Len(Manifest) = 2
      BY DEF Manifest
    <3> QED BY <3>1, <3>2
  <2>2. ASSUME NEW s \in Seq(Steps), NEW t \in Seq(Steps), s # <<>>
        PROVE  s \o t \in Seq(Steps) /\ s \o t # <<>>
    <3>1. /\ s \o t \in Seq(Steps) /\ Len(s \o t) = Len(s) + Len(t)
          /\ Len(s) \in Nat /\ Len(t) \in Nat
      BY ConcatProperties, LenProperties
    <3>2. Len(s) \in Nat \ {0}
      BY <2>2, EmptySeq
    <3>3. Len(<<>>) = 0
      OBVIOUS
    <3> QED BY <3>1, <3>2, <3>3
  <2>3. Manifest # <<>>
    <3>1. Len(<<>>) = 0
      OBVIOUS
    <3>2. 0 # 2
      OBVIOUS
    <3> QED BY <2>1, <3>1, <3>2, Zenon
  <2>4. /\ ReadCache \in Seq(Steps) /\ Fill \in Seq(Steps) /\ Window \in Seq(Steps)
        /\ <<"get slot", "get memory", "get connection",
             "put connection", "put memory", "put slot">> \in Seq(Steps)
        /\ <<"get lock">> \in Seq(Steps) /\ <<"put lock">> \in Seq(Steps)
        /\ <<"get lock", "put lock">> \in Seq(Steps)
    <3>1. {} \in SUBSET {"lock"}
      OBVIOUS
    <3> QED BY <3>1, PartsFit DEF Leads
  <2>5. Direct # <<>>
    BY <2>1, <2>2, <2>3, <2>4 DEF Direct
  <2>6. Selective # <<>>
    BY <2>1, <2>2, <2>3, <2>4 DEF Selective
  <2>7. Cached # <<>>
    BY <2>1, <2>2, <2>3, <2>4 DEF Cached
  <2>8. Missing # <<>>
    BY <2>1, <2>2, <2>3, <2>4 DEF Missing
  <2> QED BY <2>5, <2>6, <2>7, <2>8
<1> QED BY <1>1, <1>2, <1>3, <1>4, <1>5, LeadsBack

(* ... so that it holds of any requests made of the four scripts.          *)
THEOREM ServiceGoesOn ==
  ASSUME \A p \in Plans : p.script \in {Direct, Selective, Cached, Missing}
  PROVE  Spec => []NobodyIsStuck
<1>1. \A p \in Plans : InOrder(p.script)
  BY ScriptsFit
<1> QED BY <1>1, SomebodyGoesOn
=============================================================================
