------------------------------ MODULE FairShare ------------------------------
(***************************************************************************)
(* The order in which FairStreamScheduler serves users.  A history         *)
(* variable remembers who was served while somebody without a stream       *)
(* waited; it never restricts the scheduler.                               *)
(***************************************************************************)
EXTENDS FairStreamScheduler

VARIABLE passed   \* <<u, v>>: v was served since u waits without a stream

hvars == <<vars, passed>>

(* Users that wait and hold no stream. *)
Starved == {u \in Users : queues[u] # <<>> /\ active[u] = 0}

Remember ==
  passed' = {p \in passed \cup (Starved \X {v \in Users : active'[v] > active[v]}) :
               p[1] \in Starved'}

HInit == Init /\ passed = {}

HNext == Next /\ Remember

HSpec == HInit /\ [][HNext]_hvars

(* "Opening many connections cannot move one user ahead of everybody       *)
(* else": while u waits without a stream, another user is served at most   *)
(* once, however many requests it queues, abandons and repeats.            *)
ServedOncePerTurn ==
  [][\A u \in Starved, v \in Users :
       active'[v] > active[v] /\ u # v => <<u, v>> \notin passed]_hvars

(* Where a user stands in the rotation. *)
Ahead(v, u) ==
  \E i, j \in DOMAIN rotation : i < j /\ rotation[i] = v /\ rotation[j] = u

(* Why: a user that was served stands behind everyone it passed.           *)
PassedStandBehind ==
  /\ passed \subseteq Starved \X Users
  /\ \A p \in passed : ~Ahead(p[2], p[1])
FairHSpec == HSpec /\ LockFairness
=============================================================================
