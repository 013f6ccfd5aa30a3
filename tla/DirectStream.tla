---------------------------- MODULE DirectStream ----------------------------
(***************************************************************************)
(* iter_remote_batches: a generator whose producer thread requests objects *)
(* from the gateway and hands them over in a bounded queue.  The consumer  *)
(* may close the generator at any yield.  It then stops the producer,      *)
(* closes the connection under it, waits for it 5 seconds and gives the    *)
(* connection back to the pool, for the next stream to use, whether or not *)
(* the producer has ended.                                                 *)
(*                                                                         *)
(* A GatewayConnection wraps an http.client.HTTPConnection and makes a new *)
(* one when it was closed.  link says which stream began its last request  *)
(* (user) and where that is (state).  A producer whose connection is       *)
(* closed under it keeps its own HTTPConnection: while it waits for an     *)
(* answer it goes on waiting, while it reads a body the body ends.  A      *)
(* request may be sent while a body is read, but never answered: the link  *)
(* is then crossed, and when the body has ended it can send nothing more.  *)
(*                                                                         *)
(* Left out: the contents of objects, their sizes (a request takes any     *)
(* number of objects up to the limit), and the wait between retries.       *)
(***************************************************************************)
EXTENDS Naturals, Sequences

CONSTANTS Streams,      \* calls of iter_remote_batches, a thread and a producer each
          Connections,
          Objects,      \* how many objects a stream is for
          RequestSize,  \* object_request_size
          QueueParts,   \* queue_parts
          Retries,      \* network_retries
          None

ASSUME StreamAssumption ==
  /\ Objects \in Nat \ {0} /\ RequestSize \in Nat \ {0}
  /\ QueueParts \in Nat \ {0} /\ Retries \in Nat
  /\ None \notin Streams \cup Connections

VARIABLES
  free,      \* the connections in the pool
  link,      \* the HTTPConnection in each GatewayConnection
  cut,       \* the producers whose response was closed under them
  producer,  \* the producer thread of each stream
  output,    \* the queue between producer and consumer
  stopped,   \* the streams whose event is set
  consumer,  \* the generator of each stream
  late       \* history: the streams whose join() timed out, or whose producer
             \* sent a request after their connection had been closed

svars == <<free, link, cut, producer, output, stopped, consumer, late>>

Closed == [user |-> None, state |-> "closed"]

Idle == [user |-> None, state |-> "idle"]

Done == [kind |-> "done", object |-> 0]

Exception == [kind |-> "error", object |-> 0]

NoProducer == [at |-> "new", connection |-> None,
               next |-> 0,         \* next_index
               asked |-> 0,        \* len(request_entries)
               back |-> 0,         \* expected_index
               retries |-> 0,      \* retries_used
               resent |-> FALSE,   \* _response is at its second request
               item |-> Done,      \* what is being put
               foreign |-> FALSE]  \* history: an error that was not its own

Init == /\ free = Connections
        /\ link = [c \in Connections |-> Closed]
        /\ cut = {}
        /\ producer = [s \in Streams |-> NoProducer]
        /\ output = [s \in Streams |-> <<>>]
        /\ stopped = {}
        /\ consumer = [s \in Streams |-> [at |-> "new", got |-> <<>>, result |-> "none"]]
        /\ late = {}

(* The generator runs for the first time, with a connection of the pool.   *)
Start(s) ==
  /\ consumer[s].at = "new"
  /\ \E c \in free :
       /\ free' = free \ {c}
       /\ producer' = [producer EXCEPT ![s].at = "check", ![s].connection = c]
  /\ consumer' = [consumer EXCEPT ![s].at = "reading"]
  /\ UNCHANGED <<link, cut, output, stopped, late>>

Conn(s) == producer[s].connection

Attached(s) == link[Conn(s)].user = s

BodyOf(r) == {[user |-> r, state |-> "body"], [user |-> r, state |-> "crossed"]}

BeingRead(s) == {r \in Streams : link[Conn(s)] \in BodyOf(r)}

(* GatewayConnection.close(): a response that is being read ends.          *)
CloseLink(s) == /\ link' = [link EXCEPT ![Conn(s)] = Closed]
                /\ cut' = cut \cup BeingRead(s)
-----------------------------------------------------------------------------
(* The producer.                                                           *)

(* Progress restores the budget. *)
RetriesUsed(s) == IF producer[s].back > 0 THEN 0 ELSE producer[s].retries

(* The last items of a stream, which end what the producer remembers.      *)
Closing(s, at, item) ==
  [NoProducer EXCEPT !.at = at, !.item = item, !.connection = Conn(s),
                     !.foreign = producer[s].foreign]

AsksAgain(s) == producer[s].next - producer[s].back

(* next_index: what was handed over is not asked for again.                *)
FirstMissing(s) == producer[s].next

(* The loop again. *)
Again(s, retries) ==
  [producer[s] EXCEPT !.at = "check", !.next = FirstMissing(s), !.asked = 0, !.back = 0,
                      !.resent = FALSE, !.retries = retries]

(* What the handler of BaseException makes of an error.  One that comes    *)
(* after the last object does not matter.                                  *)
AfterError(s, retryable) ==
  IF s \in stopped \/ producer[s].next = Objects THEN Closing(s, "put", Done)
  ELSE IF retryable /\ RetriesUsed(s) < Retries
       THEN Again(s, RetriesUsed(s) + 1)
       ELSE Closing(s, "put", Exception)

(* The handler closes the connection for an error that can be retried.     *)
Handles(s) == s \notin stopped /\ producer[s].next < Objects

(* The head of the loop, and the objects of the next request.              *)
Check(s) ==
  LET p == producer[s]
  IN /\ p.at = "check"
     /\ producer' \in
          IF p.next < Objects /\ s \notin stopped
          THEN {[producer EXCEPT ![s] = [p EXCEPT !.at = "request", !.asked = n]] :
                  n \in {m \in 1..RequestSize : p.next + m <= Objects}}
          ELSE {[producer EXCEPT ![s] = Closing(s, "put", Done)]}
     /\ UNCHANGED <<free, link, cut, output, stopped, consumer, late>>

ConnectionClosed(s) == consumer[s].at \in {"joining", "closed"}

Send(s) ==
  /\ producer[s].at = "request"
  /\ link[Conn(s)].state \in {"closed", "idle"}
  /\ link' = [link EXCEPT ![Conn(s)] = [user |-> s, state |-> "sent"]]
  /\ late' = IF ConnectionClosed(s) THEN late \cup {s} ELSE late
  /\ producer' = [producer EXCEPT ![s].at = "answer"]
  /\ UNCHANGED <<free, cut, output, stopped, consumer>>

(* http.client notes a request as sent, also beside a body.                *)
Noted(s) ==
  IF link[Conn(s)].state = "body" THEN [link[Conn(s)] EXCEPT !.state = "crossed"]
  ELSE [user |-> s, state |-> "sent"]

(* Another request is under way.  request() raises CannotSendRequest, and  *)
(* changes nothing; beside a body it sends, and getresponse() raises       *)
(* ResponseNotReady.                                                       *)
FindsItBusy(s) ==
  /\ producer[s].at = "request"
  /\ \/ link[Conn(s)].state \in {"sent", "crossed"} /\ UNCHANGED link
     \/ link[Conn(s)].state = "body" /\ link' = [link EXCEPT ![Conn(s)] = Noted(s)]
  /\ producer' = [producer EXCEPT ![s] =
                    [AfterError(s, FALSE) EXCEPT !.foreign = s \notin stopped \/ @]]
  /\ UNCHANGED <<free, cut, output, stopped, consumer, late>>

Asking(s) == \/ producer[s].at = "request" /\ link[Conn(s)].state \in {"closed", "idle", "body"}
             \/ producer[s].at = "answer"

(* Refused, reset twice, or no answer in time.  http.client has noted the  *)
(* request as sent.                                                        *)
NoAnswer(s) ==
  /\ Asking(s)
  /\ IF Handles(s) THEN CloseLink(s)
     ELSE /\ link' = IF producer[s].at = "request"
                     THEN [link EXCEPT ![Conn(s)] = Noted(s)] ELSE link
          /\ UNCHANGED cut
  /\ late' = IF producer[s].at = "request" /\ ConnectionClosed(s) THEN late \cup {s} ELSE late
  /\ producer' = [producer EXCEPT ![s] = AfterError(s, TRUE)]
  /\ UNCHANGED <<free, output, stopped, consumer>>

(* A reset or a broken pipe: _response closes and sends again, once.       *)
SendAgain(s) ==
  /\ Asking(s)
  /\ ~producer[s].resent
  /\ CloseLink(s)
  /\ producer' = [producer EXCEPT ![s].at = "request", ![s].resent = TRUE]
  /\ UNCHANGED <<free, output, stopped, consumer, late>>

AnswerBegins(s) ==
  /\ producer[s].at = "answer"
  /\ link' = IF Attached(s) THEN [link EXCEPT ![Conn(s)].state = "body"] ELSE link
  /\ producer' = [producer EXCEPT ![s].at = "body", ![s].resent = FALSE]
  /\ UNCHANGED <<free, cut, output, stopped, consumer, late>>

(* A status of 400 or more. *)
Refused(s) ==
  /\ producer[s].at = "answer"
  /\ link' = IF Attached(s) THEN [link EXCEPT ![Conn(s)] = Idle] ELSE link
  /\ producer' = [producer EXCEPT ![s] = AfterError(s, FALSE)]
  /\ UNCHANGED <<free, cut, output, stopped, consumer, late>>

Reading(s) == producer[s].at = "body" /\ s \notin cut

(* consume(): an object has arrived and was copied.                        *)
Receive(s) ==
  LET p == producer[s]
  IN /\ Reading(s)
     /\ p.back < p.asked
     /\ s \notin stopped
     /\ producer' = [producer EXCEPT ![s].at = "put",
                                     ![s].item = [kind |-> "object", object |-> p.next + 1]]
     /\ UNCHANGED <<free, link, cut, output, stopped, consumer, late>>

AfterBody(l) == IF l.state = "crossed" THEN [l EXCEPT !.state = "sent"] ELSE Idle

EndOfBody(s) ==
  /\ Reading(s)
  /\ producer[s].back = producer[s].asked
  /\ link' = IF Attached(s) THEN [link EXCEPT ![Conn(s)] = AfterBody(@)] ELSE link
  /\ producer' = [producer EXCEPT ![s] = Again(s, 0)]
  /\ UNCHANGED <<free, cut, output, stopped, consumer, late>>

(* An exception in the body: _consume_response closes whatever the         *)
(* GatewayConnection holds by now.                                         *)
BodyFails(s, retryable, foreign) ==
  /\ link' = [link EXCEPT ![Conn(s)] = Closed]
  /\ cut' = (cut \cup BeingRead(s)) \ {s}
  /\ producer' = [producer EXCEPT ![s] =
                    [AfterError(s, retryable) EXCEPT !.foreign = foreign \/ @]]
  /\ UNCHANGED <<free, output, stopped, consumer, late>>

(* The network breaks off; the answer does not fit; memory runs out; or    *)
(* the consumer has stopped.                                               *)
BreaksOff(s) == /\ Reading(s)
                /\ \E retryable \in BOOLEAN : BodyFails(s, retryable, FALSE)

(* The response was closed by another thread: the read finds the end, or   *)
(* no file at all.                                                         *)
IsCutOff(s) == /\ producer[s].at = "body" /\ s \in cut
               /\ \E retryable \in BOOLEAN : BodyFails(s, retryable, s \notin stopped)

(* After the exception follows the end; after an object the next part.     *)
AfterPut(s) ==
  LET p == producer[s]
  IN CASE p.item.kind = "object" -> [p EXCEPT !.at = "body", !.next = @ + 1, !.back = @ + 1,
                                                    !.item = Done]
       [] p.item.kind = "error" -> Closing(s, "put", Done)
       [] p.item.kind = "done" -> Closing(s, "ended", Done)

RoomForOneMore(s) == Len(output[s]) <= QueueParts

HasRoom(s) == Len(output[s]) < QueueParts

(* put() waits for room; it may have tested the event just before it was   *)
(* set.                                                                    *)
Put(s) == /\ producer[s].at = "put"
          /\ HasRoom(s)
          /\ output' = [output EXCEPT ![s] = Append(@, producer[s].item)]
          /\ producer' = [producer EXCEPT ![s] = AfterPut(s)]
          /\ UNCHANGED <<free, link, cut, stopped, consumer, late>>

(* put() finds the event set, within a quarter of a second. *)
PutRefused(s) == producer[s].at = "put" /\ s \in stopped

GiveUpObject(s) == /\ PutRefused(s)
                   /\ producer[s].item.kind = "object"
                   /\ BodyFails(s, FALSE, FALSE)

GiveUpItem(s) == /\ PutRefused(s)
                 /\ producer[s].item.kind # "object"
                 /\ producer' = [producer EXCEPT ![s] = AfterPut(s)]
                 /\ UNCHANGED <<free, link, cut, output, stopped, consumer, late>>
-----------------------------------------------------------------------------
(* The generator, in the thread of the consumer.                           *)

Ends(s, result) == [consumer EXCEPT ![s].at = "stopping", ![s].result = result]

(* The rows of an object, or an empty batch if none is within the request, *)
(* are yielded; one batch stands for them.  Or the object is not readable. *)
GetObject(s) ==
  /\ consumer[s].at = "reading"
  /\ output[s] # <<>> /\ Head(output[s]).kind = "object"
  /\ output' = [output EXCEPT ![s] = Tail(@)]
  /\ \/ consumer' = [consumer EXCEPT ![s].at = "suspended",
                                      ![s].got = Append(@, Head(output[s]).object)]
     \/ consumer' = Ends(s, "error")
  /\ UNCHANGED <<free, link, cut, producer, stopped, late>>

GetEnd(s) ==
  /\ consumer[s].at = "reading"
  /\ output[s] # <<>> /\ Head(output[s]).kind # "object"
  /\ output' = [output EXCEPT ![s] = Tail(@)]
  /\ consumer' = Ends(s, IF Head(output[s]) = Done THEN "complete" ELSE "error")
  /\ UNCHANGED <<free, link, cut, producer, stopped, late>>

Resume(s) == /\ consumer[s].at = "suspended"
             /\ consumer' = [consumer EXCEPT ![s].at = "reading"]
             /\ UNCHANGED <<free, link, cut, producer, output, stopped, late>>

CloseEarly(s) == /\ consumer[s].at = "suspended"
                 /\ consumer' = Ends(s, "early")
                 /\ UNCHANGED <<free, link, cut, producer, output, stopped, late>>

NeverStops(s) == UNCHANGED stopped

SetStopped(s) == stopped' = stopped \cup {s}

(* The finally clause. *)
Stop(s) ==
  /\ consumer[s].at = "stopping"
  /\ SetStopped(s)
  /\ consumer' = [consumer EXCEPT ![s].at =
                    IF consumer[s].result = "complete" THEN "joining" ELSE "closing"]
  /\ UNCHANGED <<free, link, cut, producer, output, late>>

CloseConnection(s) ==
  /\ consumer[s].at = "closing"
  /\ CloseLink(s)
  /\ consumer' = [consumer EXCEPT ![s].at = "joining"]
  /\ UNCHANGED <<free, producer, output, stopped, late>>

(* The generator ends, and the connection goes back to the pool.           *)
Leave(s) ==
  /\ consumer[s].at = "joining"
  /\ consumer' = [consumer EXCEPT ![s].at = "closed"]
  /\ free' = free \cup {Conn(s)}
  /\ UNCHANGED <<link, cut, producer, output, stopped>>

DoesNotWait(s) == TRUE

HasEnded(s) == producer[s].at = "ended"

Join(s) == /\ HasEnded(s)
           /\ Leave(s)
           /\ UNCHANGED late

(* A producer that waits for the network, or to try again, may outlast     *)
(* the 5 seconds; put() looks at the event four times a second.            *)
JoinTimesOut(s) == /\ producer[s].at \in {"check", "request", "answer", "body"}
                   /\ Leave(s)
                   /\ late' = late \cup {s}
-----------------------------------------------------------------------------
Producing(s) == \/ Check(s)
                \/ Send(s)
                \/ FindsItBusy(s)
                \/ NoAnswer(s)
                \/ SendAgain(s)
                \/ AnswerBegins(s)
                \/ Refused(s)
                \/ Receive(s)
                \/ EndOfBody(s)
                \/ BreaksOff(s)
                \/ IsCutOff(s)
                \/ Put(s)
                \/ GiveUpObject(s)
                \/ GiveUpItem(s)

Generating(s) == \/ GetObject(s)
                 \/ GetEnd(s)
                 \/ Stop(s)
                 \/ CloseConnection(s)
                 \/ Join(s)
                 \/ JoinTimesOut(s)

Consuming(s) == Resume(s) \/ CloseEarly(s)
=============================================================================
