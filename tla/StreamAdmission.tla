--------------------------- MODULE StreamAdmission ---------------------------
(***************************************************************************)
(* What FairStreamScheduler promises to the handler threads of the         *)
(* gateway, without its queues, its rotation, its lock or its condition    *)
(* variable.  A request waits; it is admitted when a stream is free and    *)
(* the share of its user allows it; it may give up while it waits; a       *)
(* finished stream goes back.                                              *)
(***************************************************************************)
EXTENDS Integers, FiniteSets

CONSTANTS Threads,     \* the handler threads that ask for streams
          Users,       \* the authenticated user ids
          UserOf,      \* the user a thread serves
          MaxStreams   \* max_streams

VARIABLES pending,     \* threads that wait for a stream
          leased       \* threads that were given a stream

vars == <<pending, leased>>

Init == pending = {} /\ leased = {}

(* The user of t is the only one that waits or holds a stream. *)
Alone(t) == \A s \in pending \cup leased : UserOf[s] = UserOf[t]

(* The user of t holds no stream. *)
HoldsNone(t) == \A s \in leased : UserOf[s] # UserOf[t]

Request(t) == /\ t \notin pending \cup leased
              /\ pending' = pending \cup {t}
              /\ UNCHANGED leased

Admit(t) == /\ t \in pending
            /\ Cardinality(leased) < MaxStreams
            /\ Alone(t) \/ HoldsNone(t)
            /\ pending' = pending \ {t}
            /\ leased' = leased \cup {t}

GiveUp(t) == /\ t \in pending
             /\ pending' = pending \ {t}
             /\ UNCHANGED leased

Return(t) == /\ t \in leased
             /\ leased' = leased \ {t}
             /\ UNCHANGED pending

Next == \E t \in Threads : Request(t) \/ Admit(t) \/ GiveUp(t) \/ Return(t)

Spec == Init /\ [][Next]_vars
=============================================================================
