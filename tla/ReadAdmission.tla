--------------------------- MODULE ReadAdmission ---------------------------
(***************************************************************************)
(* What a request of DataService waits for, in its order: connections of   *)
(* the pool, the lock of cache fills, a slot and its share of memory (both *)
(* of WeightedMemoryGate).  A generator that is suspended at a yield keeps *)
(* what it holds.  The gate gives up after 300 seconds; the pool and the   *)
(* lock do not.                                                            *)
(*                                                                         *)
(* The steps of a request are a script; what happens on the network and to *)
(* the data is in GatewayClient, DirectStream and CacheFill.               *)
(***************************************************************************)
EXTENDS Naturals, Sequences, FiniteSets, FiniteSetsExt

CONSTANTS Readers,      \* threads that make requests
          Plans,        \* the requests: a script and the estimated working memory
          Slots,        \* local_workers
          Capacity,     \* working_memory_limit
          Connections,  \* how many connections the pool has
          Nobody

ASSUME AdmissionAssumption ==
  /\ IsFiniteSet(Readers)
  /\ Slots \in Nat \ {0} /\ Capacity \in Nat \ {0} /\ Connections \in Nat \ {0}
  /\ Nobody \notin Readers

VARIABLES
  slots,      \* the value of the semaphore
  available,  \* _available
  free,       \* free connections of the pool
  owner,      \* who has _cache_fill_lock
  reader      \* what each thread does

vars == <<slots, available, free, owner, reader>>

Resources == {"lock", "slot", "memory", "connection"}

NoRequest == [at |-> "idle", script |-> <<>>, step |-> 1, weight |-> 0,
              has |-> {}, woken |-> FALSE, expired |-> FALSE]

Init == /\ slots = Slots
        /\ available = Capacity
        /\ free = Connections
        /\ owner = Nobody
        /\ reader = [r \in Readers |-> NoRequest]
-----------------------------------------------------------------------------
(* The scripts.  "get x" waits for x and "put x" gives it back; all the    *)
(* work, the tests of the memory monitor and the yields are between a get  *)
(* and the next step, where Fail may end it.                               *)

Manifest == <<"get connection", "put connection">>

(* iter_remote_batches holds the connection as long as it lives.           *)
Direct == Manifest \o
  <<"get slot", "get memory", "get connection", "put connection", "put memory", "put slot">>

(* One window of iter_selective_batches: footers, then one bundle.         *)
Window == <<"get connection", "put connection",
            "get slot", "get memory", "get connection", "put connection",
            "put memory", "put slot">>

Selective == Manifest \o Window

ReadCache == <<"get slot", "get memory", "put memory", "put slot">>

Fill == <<"get slot", "get memory", "get connection",
          "put connection", "put memory", "put slot">>

(* Cache mode, when the cache has everything and when it has not.          *)
Cached == Manifest \o <<"get lock", "put lock">> \o ReadCache

KeepsConnection == <<"get connection", "get lock", "put connection">> \o Fill \o <<"put lock">>
                     \o ReadCache

Missing == Manifest \o <<"get lock">> \o Fill \o <<"put lock">> \o ReadCache

Gets(resource) == CASE resource = "lock" -> "get lock"
                    [] resource = "slot" -> "get slot"
                    [] resource = "memory" -> "get memory"
                    [] resource = "connection" -> "get connection"

Puts(resource) == CASE resource = "lock" -> "put lock"
                    [] resource = "slot" -> "put slot"
                    [] resource = "memory" -> "put memory"
                    [] resource = "connection" -> "put connection"

(* What a script holds before step i.                                      *)
HeldBefore(script, i) ==
  {x \in Resources : \E g \in 1..(i - 1) :
     script[g] = Gets(x) /\ \A k \in (g + 1)..(i - 1) : script[k] # Puts(x)}

Steps == {Gets(x) : x \in Resources} \cup {Puts(x) : x \in Resources}

(* A script gets what it does not hold, gives back what it holds, and ends *)
(* with nothing: the with and finally of the code.                         *)
Balanced(script) ==
  /\ script \in Seq(Steps) /\ script # <<>>
  /\ \A i \in DOMAIN script : \A x \in Resources :
       /\ script[i] = Gets(x) => x \notin HeldBefore(script, i)
       /\ script[i] = Puts(x) => x \in HeldBefore(script, i)
  /\ HeldBefore(script, Len(script) + 1) = {}

ASSUME PlansAssumption == \A p \in Plans : p.memory \in Nat /\ Balanced(p.script)

(* The weight of a request never exceeds the capacity.                     *)
Weight(requested) == Min({Max({1, requested}), Capacity})

Begin(r) ==
  /\ reader[r].at = "idle"
  /\ \E p \in Plans :
       reader' = [reader EXCEPT ![r] = [NoRequest EXCEPT !.at = "running", !.script = p.script,
                                                         !.weight = Weight(p.memory)]]
  /\ UNCHANGED <<slots, available, free, owner>>

At(r, step) == reader[r].at = "running" /\ reader[r].script[reader[r].step] = step

Goes(r) == [reader[r] EXCEPT !.step = @ + 1]

(* An exception: what is held is given back, the last thing first.         *)
HeldInside(r) == reader[r].has \ {"slot"}

Held(r) == reader[r].has

Unwinding(r) ==
  IF Held(r) = {} THEN NoRequest
  ELSE [NoRequest EXCEPT !.at = "unwinding", !.has = Held(r),
                         !.weight = IF "memory" \in Held(r) THEN reader[r].weight ELSE 0]

Fails(r) == reader' = [reader EXCEPT ![r] = Unwinding(r)]
-----------------------------------------------------------------------------
(* Waiting. *)

GetConnection(r) ==
  /\ At(r, "get connection")
  /\ free > 0
  /\ free' = free - 1
  /\ reader' = [reader EXCEPT ![r] = [Goes(r) EXCEPT !.has = @ \cup {"connection"}]]
  /\ UNCHANGED <<slots, available, owner>>

GetLock(r) ==
  /\ At(r, "get lock")
  /\ owner = Nobody
  /\ owner' = r
  /\ reader' = [reader EXCEPT ![r] = [Goes(r) EXCEPT !.has = @ \cup {"lock"}]]
  /\ UNCHANGED <<slots, available, free>>

GetSlot(r) ==
  /\ At(r, "get slot")
  /\ slots > 0
  /\ slots' = slots - 1
  /\ reader' = [reader EXCEPT ![r] = [Goes(r) EXCEPT !.has = @ \cup {"slot"}]]
  /\ UNCHANGED <<available, free, owner>>

(* The semaphore looks at its value before it gives up.                    *)
SlotTimesOut(r) ==
  /\ At(r, "get slot")
  /\ slots = 0
  /\ Fails(r)
  /\ UNCHANGED <<slots, available, free, owner>>

Enough(r) == available >= reader[r].weight

(* wait_for() finds enough, at once or when it wakes.                      *)
TakeMemory(r) ==
  /\ \/ At(r, "get memory")
     \/ reader[r].at = "sleeping" /\ (reader[r].woken \/ reader[r].expired)
  /\ Enough(r)
  /\ available' = available - reader[r].weight
  /\ reader' = [reader EXCEPT ![r] = [Goes(r) EXCEPT !.at = "running", !.woken = FALSE,
                                       !.expired = FALSE, !.has = @ \cup {"memory"}]]
  /\ UNCHANGED <<slots, free, owner>>

(* ... or not, with time left. *)
Sleep(r) ==
  /\ At(r, "get memory") \/ (reader[r].at = "sleeping" /\ reader[r].woken)
  /\ ~reader[r].expired
  /\ ~Enough(r)
  /\ reader' = [reader EXCEPT ![r].at = "sleeping", ![r].woken = FALSE]
  /\ UNCHANGED <<slots, available, free, owner>>

Expire(r) ==
  /\ reader[r].at = "sleeping"
  /\ ~reader[r].expired
  /\ reader' = [reader EXCEPT ![r].expired = TRUE]
  /\ UNCHANGED <<slots, available, free, owner>>

(* wait_for() tests its predicate again when the time is over.             *)
MustGiveUp(r) == reader[r].expired /\ ~Enough(r)

MemoryTimesOut(r) ==
  /\ reader[r].at = "sleeping"
  /\ MustGiveUp(r)
  /\ Fails(r)
  /\ UNCHANGED <<slots, available, free, owner>>
-----------------------------------------------------------------------------
(* Giving back.                                                            *)

Sleeping == {r \in Readers : reader[r].at = "sleeping" /\ ~reader[r].woken}

NotifyNobody == {{}}

(* Who wakes: notify_all().                                                *)
NotifyAll == {Sleeping}

(* r gives back one resource and becomes after.                            *)
GiveBack(r, resource, after) ==
  /\ slots' = IF resource = "slot" THEN slots + 1 ELSE slots
  /\ available' = IF resource = "memory" THEN available + reader[r].weight ELSE available
  /\ free' = IF resource = "connection" THEN free + 1 ELSE free
  /\ owner' = IF resource = "lock" THEN Nobody ELSE owner
  /\ \E awake \in IF resource = "memory" THEN NotifyAll ELSE {{}} :
       reader' = [x \in Readers |-> IF x = r THEN after
                                   ELSE [reader[x] EXCEPT !.woken = @ \/ x \in awake]]

Less(r, resource) == [reader[r] EXCEPT !.has = @ \ {resource}]

Finished(r) == reader[r].step = Len(reader[r].script)

Put(r) ==
  \E x \in Resources :
    /\ At(r, Puts(x))
    /\ GiveBack(r, x, IF Finished(r) THEN NoRequest
                      ELSE [Less(r, x) EXCEPT !.step = @ + 1])

(* The order in which the finally clauses run.                             *)
Inner(r) == CASE "connection" \in reader[r].has -> "connection"
              [] "memory" \in reader[r].has -> "memory"
              [] "slot" \in reader[r].has -> "slot"
              [] OTHER -> "lock"

Left(r) == reader[r].has \ {Inner(r)}

Unwind(r) ==
  /\ reader[r].at = "unwinding"
  /\ GiveBack(r, Inner(r), IF Left(r) = {} THEN NoRequest ELSE Less(r, Inner(r)))

(* RuntimeMemoryMonitor, the network or the cache fails, the consumer      *)
(* closes the generator.  With a slot alone a request only waits.            *)
Fail(r) ==
  /\ reader[r].at = "running"
  /\ reader[r].has # {}
  /\ "slot" \in reader[r].has => "memory" \in reader[r].has
  /\ Fails(r)
  /\ UNCHANGED <<slots, available, free, owner>>

(* preflight finds no data, or too little memory or disk for the request;  *)
(* _claim_scan_memory too little memory for a bundle.                      *)
Rejected(r) ==
  /\ reader[r].at = "running"
  /\ reader[r].has = {}
  /\ \/ reader[r].step = Len(Manifest) + 1
     \/ reader[r].script = Selective /\ At(r, "get slot")
  /\ Fails(r)
  /\ UNCHANGED <<slots, available, free, owner>>
-----------------------------------------------------------------------------
(* What a request does by itself.                                          *)
Runs(r) == \/ GetConnection(r)
           \/ GetLock(r)
           \/ GetSlot(r)
           \/ SlotTimesOut(r)
           \/ TakeMemory(r)
           \/ Sleep(r)
           \/ Expire(r)
           \/ MemoryTimesOut(r)
           \/ Put(r)
           \/ Unwind(r)

Next == \E r \in Readers : Begin(r) \/ Runs(r) \/ Fail(r) \/ Rejected(r)

Spec == Init /\ [][Next]_vars

(* Threads run, consumers go on or close, time passes; and a connection or *)
(* a lock that is free again and again is not withheld from a thread.      *)
FairSpec == Spec /\ \A r \in Readers : SF_vars(Runs(r)) /\ WF_vars(Expire(r))
-----------------------------------------------------------------------------
(* Properties.                                                             *)

Having(x) == {r \in Readers : x \in reader[r].has}

(* The units of memory that are held.                                      *)
Units == UNION {{r} \X (1..reader[r].weight) : r \in Having("memory")}

(* Through time-outs, failures and closed generators, what is held and     *)
(* what is free is all there is: no slot, memory or connection leaks, and  *)
(* requests never work with more memory than the limit.                    *)
NothingLeaks ==
  /\ slots + Cardinality(Having("slot")) = Slots
  /\ free + Cardinality(Having("connection")) = Connections
  /\ available + Cardinality(Units) = Capacity
  /\ available >= 0
  /\ \A r \in Readers : r \in Having("lock") <=> owner = r

(* Nobody sleeps on while there is enough memory for it, whoever gave it   *)
(* back and in which order: release wakes everybody, for the one that it   *)
(* would wake may need more than there is.                                 *)
NobodySleepsBesideEnough ==
  \A r \in Sleeping : ~reader[r].expired => ~Enough(r)

(* Every request ends, served or with an error, although requests hold one *)
(* thing and wait for another and neither the pool nor the fill lock gives *)
(* up: as long as consumers go on or close.                                *)
RequestsEnd == \A r \in Readers : reader[r].at # "idle" ~> reader[r].at = "idle"
=============================================================================
