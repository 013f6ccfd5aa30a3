------------------------- MODULE FairStreamScheduler -------------------------
(***************************************************************************)
(* FairStreamScheduler of scheduler.py: the object through which every     *)
(* handler thread of the gateway must pass before it may read the disk.    *)
(*                                                                         *)
(* The lock of the condition variable is held by the one thread whose pc   *)
(* is in Scheduling.  _schedule_locked runs one iteration of its loops per *)
(* step, and while it runs no other thread takes a step that needs the     *)
(* lock, so the steps in between are invisible to the other threads but    *)
(* not to the proofs.                                                      *)
(*                                                                         *)
(* snapshot() only reads, and an acquire() that is refused because a       *)
(* queue is full raises before it changes anything: neither is an action.  *)
(***************************************************************************)
EXTENDS Integers, SequencesExt, FiniteSetsExt

CONSTANTS Threads,             \* the handler threads
          Users,               \* the authenticated user ids
          UserOf,              \* the user each thread serves
          MaxStreams,          \* max_streams
          MaxPendingPerUser,   \* max_pending_per_user
          MaxPending           \* max_pending

ASSUME ThreadsAssumption == /\ IsFiniteSet(Threads)
                            /\ UserOf \in [Threads -> Users]

ASSUME LimitsAssumption == /\ MaxStreams \in Nat \ {0}
                           /\ MaxPendingPerUser \in Nat
                           /\ MaxPending \in Nat

VARIABLES
  queues,       \* _queues: the waiters of each user, oldest first (absent = empty)
  rotation,     \* _rotation: the users with waiters, next to be served first
  active,       \* _active: how many streams each user holds
  activeTotal,  \* _active_total
  granted,      \* threads whose waiter has granted_at set and is not released
  borrowed,     \* those of them whose waiter has borrowed = True
  pc,           \* where each thread is
  scan,         \* iterations that the for loop of _next_user_locked has left
  changed,      \* the local of _schedule_locked
  notified,     \* threads in wait() that a notify_all() has reached
  expired       \* threads in acquire() whose deadline has passed

vars == <<queues, rotation, active, activeTotal, granted, borrowed, pc,
          scan, changed, notified, expired>>

(* The places where a thread executes _schedule_locked, under the lock:    *)
(* inside acquire(), when it gave up its wait, and inside release().       *)
Scheduling == {"acquiring", "givingUp", "releasing"}

Places == Scheduling \cup {"idle", "waiting", "holding"}

LockFree == \A t \in Threads : pc[t] \notin Scheduling

Sleeping == {t \in Threads : pc[t] = "waiting"}

ThreadsOf(u) == {t \in Threads : UserOf[t] = u}

QueuedTotal == MapThenSumSet(LAMBDA u : Len(queues[u]), Users)

Init == /\ queues = [u \in Users |-> <<>>]
        /\ rotation = <<>>
        /\ active = [u \in Users |-> 0]
        /\ activeTotal = 0
        /\ granted = {}
        /\ borrowed = {}
        /\ pc = [t \in Threads |-> "idle"]
        /\ scan = 0
        /\ changed = FALSE
        /\ notified = {}
        /\ expired = {}
-----------------------------------------------------------------------------
(* Who may be served.                                                      *)

Participants == {u \in Users : active[u] > 0 \/ queues[u] # <<>>}

Eligible(u) ==
  /\ activeTotal < MaxStreams
  /\ \/ /\ \A v, w \in Participants : v = w
        /\ active[u] < MaxStreams
     \/ /\ \E v, w \in Participants : v # w
        /\ active[u] = 0

(* One of the two loops of _schedule_locked still has something to try.    *)
Scanning == activeTotal < MaxStreams /\ scan > 0

(* The user at the front is the one that _next_user_locked returns.        *)
NeverLends == queues[Head(rotation)] # <<>> /\ active[Head(rotation)] = 0

FrontIsNext == queues[Head(rotation)] # <<>> /\ Eligible(Head(rotation))

(* The caller of _schedule_locked starts it, with rotation' in place.      *)
LooksAtFrontOnly ==
  scan' = (IF rotation' = <<>> THEN 0 ELSE 1) /\ changed' = FALSE

StartSchedule == scan' = Len(rotation') /\ changed' = FALSE

NotifyOne == \/ \E t \in Sleeping : notified' = notified \cup {t}
             \/ Sleeping = {} /\ UNCHANGED notified

(* notify_all() of the condition variable.                                 *)
NotifyAll == notified' = Sleeping

(* The end of _schedule_locked: notify_all() if anyone was served.         *)
NotifyIfChanged == IF changed THEN NotifyAll ELSE UNCHANGED notified

ForgetsServed(u, waiters) == Tail(rotation)

(* The rotation once its front user u is done: u goes to the back if it    *)
(* has waiters left.                                                       *)
Rotated(u, waiters) ==
  IF waiters = <<>> THEN Tail(rotation) ELSE Append(Tail(rotation), u)

(* The front user is served: its oldest waiter gets a stream.              *)
Grant(t) ==
  LET u == Head(rotation)
      w == Head(queues[u])
  IN /\ pc[t] \in Scheduling
     /\ Scanning
     /\ FrontIsNext
     /\ queues' = [queues EXCEPT ![u] = Tail(@)]
     /\ rotation' = Rotated(u, Tail(queues[u]))
     /\ borrowed' = IF active[u] > 0 THEN borrowed \cup {w} ELSE borrowed
     /\ active' = [active EXCEPT ![u] = @ + 1]
     /\ activeTotal' = activeTotal + 1
     /\ granted' = granted \cup {w}
     /\ changed' = TRUE
     /\ scan' = Len(rotation')
     /\ UNCHANGED <<pc, notified, expired>>

(* The front user may not be served now: the scan goes on behind it.       *)
Rotate(t) ==
  LET u == Head(rotation)
  IN /\ pc[t] \in Scheduling
     /\ Scanning
     /\ ~FrontIsNext
     /\ rotation' = Rotated(u, queues[u])
     /\ scan' = scan - 1
     /\ UNCHANGED <<queues, active, activeTotal, granted, borrowed, pc,
                    changed, notified, expired>>
-----------------------------------------------------------------------------
(* acquire().                                                              *)

JumpsIn(u) == IF queues[u] = <<>> THEN <<u>> \o rotation ELSE rotation

(* A user without waiters joins the rotation at the back.                  *)
Joined(u) == IF queues[u] = <<>> THEN Append(rotation, u) ELSE rotation

Acquire(t) ==
  LET u == UserOf[t]
  IN /\ pc[t] = "idle"
     /\ LockFree
     /\ Len(queues[u]) < MaxPendingPerUser
     /\ QueuedTotal < MaxPending
     /\ queues' = [queues EXCEPT ![u] = Append(@, t)]
     /\ rotation' = Joined(u)
     /\ pc' = [pc EXCEPT ![t] = "acquiring"]
     /\ StartSchedule
     /\ UNCHANGED <<active, activeTotal, granted, borrowed, notified, expired>>

(* The loop condition finds granted_at set: acquire() returns the lease.   *)
ReturnLease(t) ==
  /\ pc[t] = "acquiring"
  /\ ~Scanning
  /\ t \in granted
  /\ pc' = [pc EXCEPT ![t] = "holding"]
  /\ expired' = expired \ {t}
  /\ NotifyIfChanged
  /\ UNCHANGED <<queues, rotation, active, activeTotal, granted, borrowed,
                 scan, changed>>

(* Time is left: wait(remaining) puts the thread to sleep, lock released.  *)
Sleep(t) ==
  /\ pc[t] = "acquiring"
  /\ ~Scanning
  /\ t \notin granted \cup expired
  /\ pc' = [pc EXCEPT ![t] = "waiting"]
  /\ NotifyIfChanged
  /\ UNCHANGED <<queues, rotation, active, activeTotal, granted, borrowed,
                 scan, changed, expired>>

WokenByNotifyOnly(t) == t \in notified

(* wait() has a reason to return: a notification or its timeout.           *)
Woken(t) == t \in notified \cup expired

(* wait() returns once the lock is free again.                             *)
Wake(t) ==
  /\ pc[t] = "waiting"
  /\ LockFree
  /\ Woken(t)
  /\ pc' = [pc EXCEPT ![t] = "acquiring"]
  /\ notified' = notified \ {t}
  /\ rotation' = rotation
  /\ StartSchedule
  /\ UNCHANGED <<queues, active, activeTotal, granted, borrowed, expired>>

(* The clock passes the deadline of a thread inside acquire().             *)
Expire(t) ==
  /\ pc[t] \in {"acquiring", "waiting"}
  /\ t \notin expired
  /\ expired' = expired \cup {t}
  /\ UNCHANGED <<queues, rotation, active, activeTotal, granted, borrowed, pc,
                 scan, changed, notified>>

WithoutOldest(q, x) == Tail(q)

(* q without x: deque.remove, for an x that occurs at most once.           *)
Without(q, x) ==
  IF \E i \in DOMAIN q : q[i] = x
  THEN RemoveAt(q, CHOOSE i \in DOMAIN q : q[i] = x)
  ELSE q

DeadlineFirst(t) == t \in expired

(* The loop in acquire() tests granted_at before it tests the deadline.    *)
MustGiveUp(t) == t \in expired \ granted

(* No time is left: _remove_waiter_locked, then _schedule_locked again.    *)
GiveUp(t) ==
  LET u == UserOf[t]
      rest == Without(queues[u], t)
  IN /\ pc[t] = "acquiring"
     /\ ~Scanning
     /\ MustGiveUp(t)
     /\ queues' = [queues EXCEPT ![u] = rest]
     /\ rotation' = IF rest = <<>> THEN Without(rotation, u) ELSE rotation
     /\ pc' = [pc EXCEPT ![t] = "givingUp"]
     /\ NotifyIfChanged
     /\ StartSchedule
     /\ UNCHANGED <<active, activeTotal, granted, borrowed, expired>>

(* acquire() raises StreamQueueTimeout and leaves the lock.                *)
RaiseTimeout(t) ==
  /\ pc[t] = "givingUp"
  /\ ~Scanning
  /\ pc' = [pc EXCEPT ![t] = "idle"]
  /\ expired' = expired \ {t}
  /\ NotifyIfChanged
  /\ UNCHANGED <<queues, rotation, active, activeTotal, granted, borrowed,
                 scan, changed>>
-----------------------------------------------------------------------------
(* release(): called by the finally clause of lease(), by the holder only. *)
(* The RuntimeError for a user without active streams is the negation of   *)
(* the second guard; HolderIsCounted says that it is never raised.         *)

HolderIsCounted(t) == active[UserOf[t]] >= 1

Release(t) ==
  LET u == UserOf[t]
  IN /\ pc[t] = "holding"
     /\ LockFree
     /\ HolderIsCounted(t)
     /\ active' = [active EXCEPT ![u] = @ - 1]
     /\ activeTotal' = activeTotal - 1
     /\ granted' = granted \ {t}
     /\ borrowed' = borrowed \ {t}
     /\ pc' = [pc EXCEPT ![t] = "releasing"]
     /\ rotation' = rotation
     /\ StartSchedule
     /\ UNCHANGED <<queues, notified, expired>>

(* The unconditional notify_all() at the end of release().                 *)
ReturnRelease(t) ==
  /\ pc[t] = "releasing"
  /\ ~Scanning
  /\ pc' = [pc EXCEPT ![t] = "idle"]
  /\ NotifyAll
  /\ UNCHANGED <<queues, rotation, active, activeTotal, granted, borrowed,
                 scan, changed, expired>>
-----------------------------------------------------------------------------
(* What a thread does once it has the lock.                                *)
Locked(t) == \/ Grant(t)
             \/ Rotate(t)
             \/ ReturnLease(t)
             \/ Sleep(t)
             \/ GiveUp(t)
             \/ RaiseTimeout(t)
             \/ ReturnRelease(t)

Next == \E t \in Threads : \/ Acquire(t)
                           \/ Wake(t)
                           \/ Expire(t)
                           \/ Release(t)
                           \/ Locked(t)

Spec == Init /\ [][Next]_vars

(* A thread that has the lock keeps running, and a thread that asks for a  *)
(* lock that is free again and again gets it.                              *)
LockFairness == \A t \in Threads : WF_vars(Locked(t)) /\ SF_vars(Wake(t))

(* A stream ends: the handler runs with a socket timeout.                  *)
StreamsEnd == \A t \in Threads : SF_vars(Release(t))

(* Time passes. *)
TimePasses == \A t \in Threads : WF_vars(Expire(t))

(* Streams may last for ever, and deadlines may never pass: a property     *)
(* names the one of the two that it needs.                                 *)
FairSpec == Spec /\ LockFairness
-----------------------------------------------------------------------------
(* Properties.                                                             *)

TypeOK ==
  /\ queues \in [Users -> Seq(Threads)]
  /\ rotation \in Seq(Users)
  /\ active \in [Users -> Nat]
  /\ activeTotal \in Int
  /\ granted \in SUBSET Threads
  /\ borrowed \in SUBSET Threads
  /\ pc \in [Threads -> Places]
  /\ scan \in Nat
  /\ changed \in BOOLEAN
  /\ notified \in SUBSET Threads
  /\ expired \in SUBSET Threads

(* The two counters count the leases that exist, so no slot leaks when a   *)
(* grant, a timeout and a release meet, no more than max_streams streams   *)
(* run, release() never finds a holder that is not counted, and nobody     *)
(* leaves acquire() by its exception with a stream.                        *)
LeasesAccounted ==
  /\ \A u \in Users : active[u] = Cardinality(granted \cap ThreadsOf(u))
  /\ activeTotal = Cardinality(granted)
  /\ activeTotal <= MaxStreams
  /\ \A t \in granted : pc[t] \in {"acquiring", "waiting", "holding"}
  /\ \A t \in Threads : pc[t] = "holding" => t \in granted /\ HolderIsCounted(t)

(* t is one of the waiters queued for its user. *)
Queued(t) == t \in ToSet(queues[UserOf[t]])

(* A thread is queued from the moment it asks until it is served or gives  *)
(* up: no waiter is lost, none stays behind after its thread has left,     *)
(* and none is queued twice or for a user that is not its own.             *)
QueuedIffUnserved ==
  /\ \A t \in Threads :
        Queued(t) <=> pc[t] \in {"acquiring", "waiting"} /\ t \notin granted
  /\ \A u \in Users : /\ IsInjective(queues[u])
                       /\ ToSet(queues[u]) \subseteq ThreadsOf(u)

(* The rotation holds every user with waiters, once, and nobody else:      *)
(* rotating, serving, enqueueing and giving up never drop a user that      *)
(* still waits, which nothing would ever put back.                         *)
RotationHoldsWaitingUsers ==
  /\ ToSet(rotation) = {u \in Users : queues[u] # <<>>}
  /\ IsInjective(rotation)

(* When the lock is free, nobody waits whom the rule would serve: every    *)
(* event that can make a waiter eligible (a request that joins, a stream   *)
(* that ends, a rival that gives up) is followed by the schedule that      *)
(* serves it before the lock is released.                                  *)
NoEligibleWaiter ==
  LockFree => \A u \in Users : queues[u] # <<>> => ~Eligible(u)

(* A waiter that was served while it slept has been notified, so it does   *)
(* not hold a stream until its deadline without knowing it.                *)
NoLostWakeup ==
  LockFree => \A t \in Sleeping : t \in granted => t \in notified

(* A second stream goes to a user only when it is the only participant,    *)
(* whatever the queues did between its requests.                           *)
SharedMeansOne ==
  [][\A u \in Users :
       active'[u] > active[u] /\ active[u] > 0
         => \A v \in Users \ {u} : active[v] = 0 /\ queues[v] = <<>>]_vars

(* What the class comment and BENCHMARK_0_4.md call work-conserving: no    *)
(* stream idles while somebody waits.                                      *)
WorkConserving ==
  LockFree /\ activeTotal < MaxStreams => \A u \in Users : queues[u] = <<>>

(* If streams end, a waiter is served unless its deadline passes first.    *)
WaiterIsServed ==
  StreamsEnd => \A t \in Threads : pc[t] = "waiting" ~> t \in granted \cup expired

(* A lease that was given to a sleeping thread reaches it, even if its     *)
(* deadline never passes and no other stream ends: acquire() returns it.   *)
LeaseReachesHolder ==
  \A t \in Threads : t \in granted /\ pc[t] # "holding" ~> pc[t] = "holding"

(* acquire() returns or raises, even if no stream ever ends, as long as    *)
(* time passes.                                                            *)
AcquireEnds ==
  TimePasses => \A t \in Threads : pc[t] = "waiting" ~> pc[t] \in {"holding", "idle"}

(* The queues, the rotation and the notifications implement the abstract   *)
(* admission: threads in the queues are pending, granted ones are leased.  *)
Admission == INSTANCE StreamAdmission WITH
  pending <- {t \in Threads : Queued(t)}, leased <- granted

RefinesAdmission == Admission!Spec
=============================================================================
