--------------------------- MODULE GatewayClient ---------------------------
(***************************************************************************)
(* The client side of the gateway: GatewayPool, GatewayConnection and the  *)
(* five kinds of requests that use them, each with its own way of retrying:*)
(*   manifest   GatewayConnection.manifest                                 *)
(*   metadata   load_metadata                                              *)
(*   ranges     _fetch_plans                                               *)
(*   objects    the producer of iter_remote_batches                        *)
(*   cache      fetch_cache_objects, which publishes bucket after bucket   *)
(* The network may refuse, reset, stall or break off anything at any time. *)
(*                                                                         *)
(* A connection wraps an http.client.HTTPConnection.  That library is not  *)
(* in the repository; of its protocol states the model keeps               *)
(*   closed   no socket, ready to connect                                  *)
(*   idle     connected, ready for a request                               *)
(*   sent     a request was begun, and its answer has not come             *)
(* and that it accepts a request in the first two only.                    *)
(*                                                                         *)
(* Left out: the grouping of objects into requests, and what the content   *)
(* of an answer is checked for.                                            *)
(***************************************************************************)
EXTENDS Naturals, Sequences, FiniteSetsExt, Functions

CONSTANTS Readers,      \* threads that read through the pool
          Connections,
          Kinds,        \* the kinds of requests that they make
          Objects,      \* how many objects a request of several is for
          BucketEnds,   \* the last objects of the buckets among them
          Retries,      \* network_retries
          None

ASSUME ClientAssumption ==
  /\ Kinds \subseteq {"manifest", "metadata", "ranges", "objects", "cache"}
  /\ Objects \in Nat \ {0} /\ Retries \in Nat
  /\ BucketEnds \subseteq 1..Objects /\ Objects \in BucketEnds
  /\ IsFiniteSet(Connections) /\ Connections # {} /\ None \notin Connections

VARIABLES
  pool,   \* the LIFO queue of free connections, the top last
  link,   \* the state of each connection
  reader  \* what each thread does

vars == <<pool, link, reader>>

NoRequest == [at |-> "idle", kind |-> None, connection |-> None,
              got |-> <<>>,        \* the objects that have been received
              asked |-> 1,         \* the first object of the current request
              received |-> 0,      \* how many the current request has brought
              resent |-> FALSE,    \* _response is at its second request
              attempts |-> 0, reason |-> None]

Init == /\ \E order \in Bijection(1..Cardinality(Connections), Connections) : pool = order
        /\ link = [c \in Connections |-> "closed"]
        /\ reader = [t \in Readers |-> NoRequest]

Several == {"ranges", "objects", "cache"}

Count(t) == IF reader[t].kind \in Several THEN Objects ELSE 1

Budget(t) == IF reader[t].kind = "manifest" THEN 0 ELSE Retries

Begin(t) == /\ reader[t].at = "idle"
            /\ \E k \in Kinds : reader' = [reader EXCEPT ![t].at = "take", ![t].kind = k]
            /\ UNCHANGED <<pool, link>>

(* What a failed request leaves: whole buckets have been published, and    *)
(* the files of the others are removed.                                    *)
KeepsPartials(t) == Len(reader[t].got)

Kept(t) ==
  IF reader[t].kind = "cache"
  THEN Max({0} \cup {e \in BucketEnds : e <= Len(reader[t].got)})
  ELSE Len(reader[t].got)

(* A repeated request is for the objects that have not been received.      *)
FirstMissing(t) == Kept(t) + 1

(* The generator holds the connection from here on.                        *)
Take(t) == /\ reader[t].at = "take"
           /\ pool # <<>>
           /\ pool' = SubSeq(pool, 1, Len(pool) - 1)
           /\ reader' = [reader EXCEPT ![t].at = "request",
                           ![t].connection = pool[Len(pool)],
                           ![t].asked = FirstMissing(t), ![t].received = 0,
                           ![t].resent = FALSE]
           /\ UNCHANGED link
-----------------------------------------------------------------------------
(* How a request goes on after an exception, with its connection in state  *)
(* state.  An error is one of                                              *)
(*   network   what _is_retryable_transfer_error names                     *)
(*   unsent    http.client.CannotSendRequest                               *)
(*   gateway   a status of 400 or more                                     *)
(*   content   an answer that does not fit the request                     *)

NotGivenBack(t) == pool

GivenBack(t) == Append(pool, reader[t].connection)

AlwaysRestored(t) == 0

(* Progress restores the budget. *)
AttemptsUsed(t) ==
  IF reader[t].kind \in Several /\ Kept(t) >= reader[t].asked THEN 0 ELSE reader[t].attempts

Complete(t) == Len(reader[t].got) = Count(t)

Reset(t) == SubSeq(reader[t].got, 1, Kept(t))

(* Direct batches and cache downloads keep their connection through the    *)
(* retries, and close it before each.                                      *)
KeepsConnection(t) == reader[t].kind \in {"objects", "cache"}

AfterNetworkError(t, state) == IF KeepsConnection(t) THEN "closed" ELSE state

(* Between requests. *)
Released(t) == [reader[t] EXCEPT !.connection = None, !.got = Reset(t), !.asked = 1,
                                 !.received = 0, !.resent = FALSE]

Raised(t, reason) == [Released(t) EXCEPT !.at = "failed", !.reason = reason]

(* An error that is not retried. *)
Fails(t, state, reason) ==
  /\ link' = [link EXCEPT ![reader[t].connection] = state]
  /\ pool' = GivenBack(t)
  /\ reader' = [reader EXCEPT ![t] = Raised(t, reason)]

Succeeds(t, state) ==
  /\ link' = [link EXCEPT ![reader[t].connection] = state]
  /\ pool' = GivenBack(t)
  /\ reader' = [reader EXCEPT ![t] = [Released(t) EXCEPT !.at = "done"]]

Spent(t) == AttemptsUsed(t) >= Budget(t)

(* An error after the last object does not matter any more.                *)
NetworkError(t, state) ==
  LET r == reader[t]
      c == r.connection
  IN \/ /\ Complete(t)
        /\ r.kind \in Several
        /\ Succeeds(t, state)
     \/ /\ ~Complete(t)
        /\ Spent(t)
        /\ link' = [link EXCEPT ![c] = AfterNetworkError(t, state)]
        /\ pool' = GivenBack(t)
        /\ reader' = [reader EXCEPT ![t] =
                        [Raised(t, "network") EXCEPT !.attempts = AttemptsUsed(t)]]
     \/ /\ ~Complete(t)
        /\ ~Spent(t)
        /\ link' = [link EXCEPT ![c] = AfterNetworkError(t, state)]
        /\ IF KeepsConnection(t)
           THEN /\ reader' = [reader EXCEPT ![t].at = "request",
                                ![t].attempts = AttemptsUsed(t) + 1, ![t].got = Reset(t),
                                ![t].asked = FirstMissing(t), ![t].received = 0,
                                ![t].resent = FALSE]
                /\ UNCHANGED pool
           ELSE /\ reader' = [reader EXCEPT ![t] =
                                [Released(t) EXCEPT !.at = "take", !.attempts = AttemptsUsed(t) + 1]]
                /\ pool' = GivenBack(t)
-----------------------------------------------------------------------------
(* _response: the request. *)

State(t) == link[reader[t].connection]

Send(t) ==
  /\ reader[t].at = "request"
  /\ State(t) \in {"closed", "idle"}
  /\ link' = [link EXCEPT ![reader[t].connection] = "sent"]
  /\ reader' = [reader EXCEPT ![t].at = "answer"]
  /\ UNCHANGED pool

(* http.client does not begin a request before the last one is answered.   *)
CannotSend(t) ==
  /\ reader[t].at = "request"
  /\ State(t) = "sent"
  /\ Fails(t, "sent", "unsent")

(* Refused, unreachable or timed out while it connects: http.client has    *)
(* noted the request as sent, and _response does not catch the exception.  *)
CannotConnect(t) ==
  /\ reader[t].at = "request"
  /\ State(t) = "closed"
  /\ NetworkError(t, "sent")

(* A reset or a broken pipe: _response closes and sends again, once.       *)
SendAgain(t) ==
  /\ ~reader[t].resent
  /\ link' = [link EXCEPT ![reader[t].connection] = "closed"]
  /\ reader' = [reader EXCEPT ![t].at = "request", ![t].resent = TRUE]
  /\ UNCHANGED pool

ResetWhileSending(t) ==
  /\ reader[t].at = "request"
  /\ State(t) \in {"closed", "idle"}
  /\ \/ SendAgain(t)
     \/ reader[t].resent /\ NetworkError(t, "sent")

(* _response: the answer.  http.client itself closes on a reset, but not   *)
(* when the time runs out.                                                 *)
ResetBeforeAnswer(t) ==
  /\ reader[t].at = "answer"
  /\ \/ SendAgain(t)
     \/ reader[t].resent /\ NetworkError(t, "closed")

NoAnswerInTime(t) ==
  /\ reader[t].at = "answer"
  /\ NetworkError(t, "sent")

AnswerBegins(t) ==
  /\ reader[t].at = "answer"
  /\ link' = [link EXCEPT ![reader[t].connection] = "idle"]
  /\ reader' = [reader EXCEPT ![t].at = "body"]
  /\ UNCHANGED pool

(* A status of 400 or more, whose explanation may break off. *)
Refused(t) ==
  /\ reader[t].at = "answer"
  /\ Fails(t, "idle", "gateway") \/ NetworkError(t, "idle")
-----------------------------------------------------------------------------
(* The body: _consume_response and its consumers, or read().               *)

Receive(t) ==
  LET r == reader[t]
  IN /\ r.at = "body"
     /\ r.asked + r.received <= Count(t)
     /\ reader' = [reader EXCEPT ![t].got = Append(@, r.asked + r.received),
                                 ![t].received = @ + 1]
     /\ UNCHANGED <<pool, link>>

EndOfBody(t) ==
  /\ reader[t].at = "body"
  /\ reader[t].asked + reader[t].received > Count(t)
  /\ Succeeds(t, "idle")

(* All but manifest close a connection whose answer broke off.  Without    *)
(* that, http.client is ready again if the answer ended too early, but not *)
(* if the time ran out.  A single document has not brought anything then.  *)
BreaksOff(t) ==
  /\ reader[t].at = "body"
  /\ reader[t].kind \in {"manifest", "metadata"} => ~Complete(t)
  /\ \E state \in IF reader[t].kind = "manifest" THEN {"idle", "sent"} ELSE {"closed"} :
       NetworkError(t, state)

(* Documents are checked when they have been read, metadata in part before *)
(* the connection is given up.  The producer of direct batches and the     *)
(* cache download do not look at an error that comes after the last object.*)
DoesNotFit(t) ==
  /\ reader[t].at = "body"
  /\ IF KeepsConnection(t) /\ Complete(t)
     THEN Succeeds(t, "closed")
     ELSE \E state \in CASE reader[t].kind = "manifest" -> {"idle"}
                         [] reader[t].kind = "metadata" -> {"idle", "closed"}
                         [] OTHER -> {"closed"} : Fails(t, state, "content")

End(t) == /\ reader[t].at \in {"done", "failed"}
          /\ reader' = [reader EXCEPT ![t] = NoRequest]
          /\ UNCHANGED <<pool, link>>
-----------------------------------------------------------------------------
Network(t) == \/ Send(t)
              \/ CannotConnect(t)
              \/ ResetWhileSending(t)
              \/ ResetBeforeAnswer(t)
              \/ NoAnswerInTime(t)
              \/ AnswerBegins(t)
              \/ Refused(t)
              \/ Receive(t)
              \/ BreaksOff(t)
              \/ DoesNotFit(t)

Step(t) == CannotSend(t) \/ Network(t) \/ EndOfBody(t) \/ End(t)

Next == \E t \in Readers : Begin(t) \/ Take(t) \/ Step(t)

Spec == Init /\ [][Next]_vars

(* Every wait for the network ends, by an answer, an error or a timeout,   *)
(* and a thread that waits for a free connection is not passed for ever.   *)
FairSpec == Spec /\ \A t \in Readers : WF_vars(Step(t)) /\ SF_vars(Take(t))
-----------------------------------------------------------------------------
(* Properties.                                                             *)

Holders(c) == {t \in Readers : reader[t].connection = c}

Places(c) == {i \in DOMAIN pool : pool[i] = c}

(* Through all retries and failures a connection is either free, once, or  *)
(* used by one thread, and none is lost.                                   *)
EveryConnectionOnce ==
  \A c \in Connections : Cardinality(Holders(c)) + Cardinality(Places(c)) = 1

(* What a request has received are its objects in order, none twice and    *)
(* none left out, and a request that succeeds has received all ("objects   *)
(* that were received are not returned again"); the cache is left with     *)
(* whole buckets.                                                          *)
EachObjectOnce ==
  \A t \in Readers :
    /\ \A i \in DOMAIN reader[t].got : reader[t].got[i] = i
    /\ reader[t].at = "done" => Complete(t)
    /\ reader[t].kind = "cache" /\ reader[t].at = "failed" =>
         Len(reader[t].got) \in {0} \cup BucketEnds

(* A request that fails because of the network alone has used its budget   *)
(* ("recoverable interruptions are retried ... an explicit error when the  *)
(* retry budget is used up").                                              *)
RetriesUntilSpent ==
  \A t \in Readers :
    reader[t].reason \in {"network", "unsent"} => reader[t].attempts = Budget(t)

(* Every request ends, whatever the network does. *)
RequestsEnd == \A t \in Readers : reader[t].at # "idle" ~> reader[t].at = "idle"
=============================================================================
