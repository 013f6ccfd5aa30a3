---------------------------- MODULE StreamProofs ----------------------------
(***************************************************************************)
(* Theorems about direct streams and their pipes, for any streams, numbers *)
(* of objects, request sizes, queues, retries, connections and pipes.      *)
(*                                                                         *)
(* As long as a consumer reads, what it has got and what is in its queue   *)
(* are the objects that its producer has handed over, in order.  As long   *)
(* as no producer was late, the request on a connection is its holder's.   *)
(***************************************************************************)
EXTENDS ArrowStream, SequenceTheorems, TLAPS

(* The head and the rest of a nonempty sequence.                           *)
LEMMA HeadAndTail ==
  ASSUME NEW S, NEW q \in Seq(S), q # <<>>
  PROVE  /\ Head(q) \in S
         /\ Head(q) = q[1]
         /\ Tail(q) \in Seq(S)
         /\ Len(q) \in Nat /\ Len(q) >= 1
         /\ Len(Tail(q)) = Len(q) - 1
         /\ \A i \in 1..Len(Tail(q)) : Tail(q)[i] = q[i + 1]
BY HeadTailProperties, EmptySeq, LenProperties
-----------------------------------------------------------------------------

ProducerSteps == {"new", "check", "request", "answer", "body", "put", "ended"}

ConsumerSteps == {"new", "reading", "suspended", "stopping", "closing", "joining", "closed"}

Item == [kind : {"object", "error", "done"}, object : Nat]

Producer == [at : ProducerSteps, connection : Connections \cup {None}, next : Nat, asked : Nat,
             back : Nat, retries : Nat, resent : BOOLEAN, item : Item, foreign : BOOLEAN]

Consumer == [at : ConsumerSteps, got : Seq(Nat), result : {"none", "complete", "error", "early"}]

StreamTypes ==
  /\ free \subseteq Connections \cup {None}
  /\ producer \in [Streams -> Producer]
  /\ output \in [Streams -> Seq(Item)]
  /\ stopped \subseteq Streams
  /\ consumer \in [Streams -> Consumer]

(* The consumer may still get objects. *)
Active(c) == c.at \in {"new", "reading", "suspended"}

Handed(c, q) == Len(c.got) + Len(q)

(* The request of a producer is for objects of the stream.                 *)
RequestFits(p) ==
  /\ p.next + p.asked <= Objects + p.back /\ p.back <= p.asked
  /\ p.at \in {"new", "check"} => p.back = 0 /\ p.asked = 0
  /\ p.at = "put" /\ p.item.kind = "object" => p.back < p.asked /\ p.item.object = p.next + 1

InLoop(p) == p.at \notin {"put", "ended"} \/ (p.at = "put" /\ p.item.kind = "object")

(* A producer p, whose consumer is c, with q in the queue between them.    *)
ProducerFits(p, c, q) ==
  Active(c) =>
    /\ InLoop(p) => /\ \A i \in 1..Len(q) : q[i].kind = "object"
                    /\ p.next = Handed(c, q)
    /\ p.at = "put" /\ p.item.kind = "done" =>
         Handed(c, q) = Objects \/ \E i \in 1..Len(q) : q[i].kind = "error"

QueueFits(c, q) ==
  Active(c) =>
    \A i \in 1..Len(q) :
      /\ q[i].kind = "object" => q[i].object = Len(c.got) + i
      /\ q[i].kind = "done" => \/ Len(c.got) + i = Objects + 1
                               \/ \E j \in 1..(i - 1) : q[j].kind = "error"

ConsumerFits(c) ==
  /\ \A i \in 1..Len(c.got) : c.got[i] = i
  /\ c.result = "complete" => Len(c.got) = Objects /\ ~Active(c)

Fits(p, c, q) ==
  /\ RequestFits(p) /\ ProducerFits(p, c, q) /\ QueueFits(c, q) /\ ConsumerFits(c)
  /\ c.at = "new" => p.at = "new"

StreamFits(s) ==
  /\ Fits(producer[s], consumer[s], output[s])
  /\ s \in stopped => ~Active(consumer[s])

SInv == StreamTypes /\ \A s \in Streams : StreamFits(s)

(* The end marker, and an end without an error, follow a complete stream.  *)
PipeFits(s) ==
  \/ consumer[s].result = "complete"
  \/ /\ \A i \in 1..Len(pipe[s]) : pipe[s][i] # "end"
     /\ ~reader[s].end
     /\ reader[s].result # "whole"
     /\ writer[s].at = "closed" => writer[s].error

Writer == [at : {"writing", "failed", "closed"}, error : BOOLEAN]

Reader == [at : {"reading", "ended"}, end : BOOLEAN, result : {"none", "whole", "error", "early"}]

PipeTypes ==
  /\ pipe \in [Piped -> Seq({"batch", "end"})]
  /\ writer \in [Piped -> Writer]
  /\ reader \in [Piped -> Reader]

IInv == SInv /\ PipeTypes /\ \A s \in Piped : PipeFits(s)
-----------------------------------------------------------------------------
(* What is known of one stream.                                            *)
LEMMA StreamFacts ==
  ASSUME SInv, NEW s \in Streams
  PROVE  /\ StreamFits(s)
         /\ producer[s] \in Producer /\ consumer[s] \in Consumer
         /\ output[s] \in Seq(Item) /\ consumer[s].got \in Seq(Nat)
         /\ Len(output[s]) \in Nat /\ Len(consumer[s].got) \in Nat
<1>1. producer[s] \in Producer /\ consumer[s] \in Consumer /\ output[s] \in Seq(Item)
  BY DEF SInv, StreamTypes
<1>2. consumer[s].got \in Seq(Nat)
  BY <1>1 DEF Consumer
<1> QED BY <1>1, <1>2, LenProperties DEF SInv

(* A step of a producer that puts nothing into the queue.                  *)
LEMMA ProducerMoves ==
  ASSUME SInv, NEW s \in Streams, NEW p \in Producer, producer' = [producer EXCEPT ![s] = p],
         UNCHANGED <<free, output, stopped, consumer>>, producer[s].at # "new",
         RequestFits(p), ProducerFits(p, consumer[s], output[s])
  PROVE  SInv'
<1>1. StreamTypes'
  BY DEF SInv, StreamTypes
<1>2. \A r \in Streams : producer'[r] = IF r = s THEN p ELSE producer[r]
  BY DEF SInv, StreamTypes
<1>3. ASSUME NEW r \in Streams PROVE StreamFits(r)'
  <2>1. StreamFits(r) /\ StreamFits(s)
    BY DEF SInv
  <2>2. Fits(producer'[r], consumer[r], output[r])
    BY <1>2, <2>1 DEF StreamFits, Fits
  <2> QED BY <2>1, <2>2 DEF StreamFits
<1> QED BY <1>1, <1>3 DEF SInv

(* A step of a consumer, after which it waits, or does not read any more.  *)
LEMMA ConsumerMoves ==
  ASSUME SInv, NEW s \in Streams, NEW c \in Consumer, NEW q \in Seq(Item),
         consumer' = [consumer EXCEPT ![s] = c], output' = [output EXCEPT ![s] = q],
         UNCHANGED producer, free' \subseteq Connections \cup {None},
         stopped' = stopped \/ (stopped' = stopped \cup {s} /\ ~Active(c)),
         s \in stopped => ~Active(c), c.at # "new",
         ProducerFits(producer[s], c, q), QueueFits(c, q), ConsumerFits(c)
  PROVE  SInv'
<1>1. StreamTypes'
  BY DEF SInv, StreamTypes
<1>2. /\ \A r \in Streams : consumer'[r] = IF r = s THEN c ELSE consumer[r]
      /\ \A r \in Streams : output'[r] = IF r = s THEN q ELSE output[r]
  BY DEF SInv, StreamTypes
<1>3. ASSUME NEW r \in Streams PROVE StreamFits(r)'
  <2>1. StreamFits(r) /\ StreamFits(s)
    BY DEF SInv
  <2>2. Fits(producer[r], consumer'[r], output'[r])
    BY <1>2, <2>1 DEF StreamFits, Fits
  <2>3. r \in stopped' => ~Active(consumer'[r])
    BY <1>2, <2>1 DEF StreamFits
  <2> QED BY <2>2, <2>3 DEF StreamFits
<1> QED BY <1>1, <1>3 DEF SInv
-----------------------------------------------------------------------------
(* The steps of a producer.                                                *)

(* The producer waits in an iteration of its loop.                         *)
InRequest(s) == InLoop(producer[s]) /\ producer[s].at # "new"

(* What the end of a producer's memory leaves.                             *)
LEMMA ClosingIs ==
  ASSUME SInv, NEW s \in Streams, NEW at \in {"put", "ended"}, NEW item \in {Done, Exception}
  PROVE  /\ Closing(s, at, item) \in Producer
         /\ Closing(s, at, item).at = at /\ Closing(s, at, item).item = item
         /\ RequestFits(Closing(s, at, item)) /\ ~InLoop(Closing(s, at, item))
<1>1. producer[s] \in Producer
  BY StreamFacts
<1>2. item \in Item /\ item.kind \in {"done", "error"}
  BY DEF Done, Exception, Item
<1>3. NoProducer \in Producer /\ NoProducer.next = 0 /\ NoProducer.asked = 0 /\ NoProducer.back = 0
  BY DEF NoProducer, Producer, ProducerSteps, Done, Item
<1>. DEFINE r == Closing(s, at, item)
<1>4. /\ r \in Producer /\ r.at = at /\ r.item = item
      /\ r.next = 0 /\ r.asked = 0 /\ r.back = 0
  BY <1>1, <1>2, <1>3 DEF Closing, Conn, Producer, ProducerSteps
<1>. HIDE DEF r
<1>5. RequestFits(r)
  BY <1>2, <1>4, StreamAssumption DEF RequestFits
<1>6. ~InLoop(r)
  BY <1>2, <1>4 DEF InLoop
<1> QED BY <1>4, <1>5, <1>6 DEF r

(* Where the loop begins again, nothing is asked for.                      *)
LEMMA AgainFits ==
  ASSUME SInv, NEW s \in Streams, InRequest(s), NEW retries \in Nat
  PROVE  /\ Again(s, retries) \in Producer /\ RequestFits(Again(s, retries))
         /\ ProducerFits(Again(s, retries), consumer[s], output[s])
<1>1. producer[s] \in Producer /\ StreamFits(s)
  BY StreamFacts
<1>. DEFINE r == Again(s, retries)
<1>2. /\ r \in Producer /\ r.at = "check" /\ r.next = producer[s].next
      /\ r.asked = 0 /\ r.back = 0
  BY <1>1 DEF Again, FirstMissing, Producer, ProducerSteps
<1>. HIDE DEF r
<1>3. RequestFits(r)
  <2>1. producer[s].next + producer[s].asked <= Objects + producer[s].back
        /\ producer[s].back <= producer[s].asked
    BY <1>1 DEF StreamFits, Fits, RequestFits
  <2>2. producer[s].next <= Objects
    BY <1>1, <2>1, StreamAssumption DEF Producer
  <2> QED BY <1>1, <1>2, <2>2, StreamAssumption DEF RequestFits, Producer
<1>4. ProducerFits(r, consumer[s], output[s])
  <2>1. ProducerFits(producer[s], consumer[s], output[s]) /\ InLoop(producer[s])
    BY <1>1 DEF StreamFits, Fits, InRequest
  <2> QED BY <1>2, <2>1 DEF ProducerFits
<1> QED BY <1>2, <1>3, <1>4 DEF r

(* Whatever the handler of BaseException does fits the stream.             *)
LEMMA AfterErrorFits ==
  ASSUME SInv, NEW s \in Streams, InRequest(s), NEW retryable \in BOOLEAN
  PROVE  /\ AfterError(s, retryable) \in Producer /\ RequestFits(AfterError(s, retryable))
         /\ ProducerFits(AfterError(s, retryable), consumer[s], output[s])
<1>1. producer[s] \in Producer /\ StreamFits(s)
  BY StreamFacts
<1>2. CASE s \in stopped \/ producer[s].next = Objects
  <2>1. AfterError(s, retryable) = Closing(s, "put", Done)
    BY <1>2 DEF AfterError
  <2>2. Active(consumer[s]) => Handed(consumer[s], output[s]) = Objects
    BY <1>1, <1>2 DEF StreamFits, Fits, ProducerFits, InRequest
  <2> QED BY <2>1, <2>2, ClosingIs DEF ProducerFits
<1>3. CASE ~(s \in stopped \/ producer[s].next = Objects)
           /\ retryable /\ RetriesUsed(s) < Retries
  <2>1. AfterError(s, retryable) = Again(s, RetriesUsed(s) + 1)
    BY <1>3 DEF AfterError
  <2>2. RetriesUsed(s) + 1 \in Nat
    BY <1>1 DEF RetriesUsed, Producer
  <2> QED BY <2>1, <2>2, AgainFits
<1>4. CASE ~(s \in stopped \/ producer[s].next = Objects)
           /\ ~(retryable /\ RetriesUsed(s) < Retries)
  <2>1. AfterError(s, retryable) = Closing(s, "put", Exception)
    BY <1>4 DEF AfterError
  <2>2. Exception.kind = "error"
    BY DEF Exception
  <2> QED BY <2>1, <2>2, ClosingIs DEF ProducerFits
<1> QED BY <1>2, <1>3, <1>4

(* The mark of a foreign error changes nothing else.                       *)
LEMMA ForeignFits ==
  ASSUME NEW p \in Producer, NEW f \in BOOLEAN, NEW c, NEW q, RequestFits(p), ProducerFits(p, c, q)
  PROVE  /\ [p EXCEPT !.foreign = f] \in Producer /\ RequestFits([p EXCEPT !.foreign = f])
         /\ ProducerFits([p EXCEPT !.foreign = f], c, q)
<1>. DEFINE r == [p EXCEPT !.foreign = f]
<1>1. /\ r \in Producer /\ r.at = p.at /\ r.next = p.next /\ r.asked = p.asked
      /\ r.back = p.back /\ r.item = p.item
  BY DEF Producer
<1>. HIDE DEF r
<1>2. RequestFits(r)
  BY <1>1 DEF RequestFits
<1>3. ProducerFits(r, c, q)
  BY <1>1 DEF ProducerFits, InLoop
<1> QED BY <1>1, <1>2, <1>3 DEF r

(* A step within an iteration.                                             *)
LEMMA LoopMoves ==
  ASSUME SInv, NEW s \in Streams, InRequest(s), NEW p \in Producer,
         producer' = [producer EXCEPT ![s] = p],
         UNCHANGED <<free, output, stopped, consumer>>,
         p.next = producer[s].next, InLoop(p), RequestFits(p)
  PROVE  SInv'
<1>1. ProducerFits(producer[s], consumer[s], output[s]) /\ InLoop(producer[s])
  BY StreamFacts DEF StreamFits, Fits, InRequest
<1>2. ProducerFits(p, consumer[s], output[s])
  <2>1. ~(p.at = "put" /\ p.item.kind = "done")
    BY DEF InLoop
  <2> QED BY <1>1, <2>1 DEF ProducerFits
<1> QED BY <1>2, ProducerMoves DEF InRequest

(* A step that ends in the handler of BaseException.                       *)
LEMMA ErrorMoves ==
  ASSUME SInv, NEW s \in Streams, InRequest(s), NEW retryable \in BOOLEAN, NEW f \in BOOLEAN,
         \/ producer' = [producer EXCEPT ![s] = AfterError(s, retryable)]
         \/ producer' = [producer EXCEPT ![s] = [AfterError(s, retryable) EXCEPT !.foreign = f]],
         UNCHANGED <<free, output, stopped, consumer>>
  PROVE  SInv'
<1>. DEFINE e == AfterError(s, retryable)
<1>1. e \in Producer /\ RequestFits(e) /\ ProducerFits(e, consumer[s], output[s])
  BY AfterErrorFits
<1>. HIDE DEF e
<1>2. CASE producer' = [producer EXCEPT ![s] = e]
  BY <1>1, <1>2, ProducerMoves DEF InRequest
<1>3. CASE producer' = [producer EXCEPT ![s] = [e EXCEPT !.foreign = f]]
  <2>. DEFINE p == [e EXCEPT !.foreign = f]
  <2>1. p \in Producer /\ RequestFits(p) /\ ProducerFits(p, consumer[s], output[s])
    BY <1>1, ForeignFits
  <2>. HIDE DEF p
  <2>2. producer' = [producer EXCEPT ![s] = p]
    BY <1>3 DEF p
  <2> QED BY <2>1, <2>2, ProducerMoves DEF InRequest
<1> QED BY <1>2, <1>3 DEF e

LEMMA CheckStep ==
  ASSUME SInv, NEW s \in Streams, Check(s)
  PROVE  SInv'
<1>1. producer[s] \in Producer /\ StreamFits(s) /\ producer[s].at = "check"
      /\ UNCHANGED <<free, output, stopped, consumer>>
  BY StreamFacts DEF Check
<1>2. InRequest(s)
  BY <1>1 DEF InRequest, InLoop
<1>3. RequestFits(producer[s]) /\ ProducerFits(producer[s], consumer[s], output[s])
  BY <1>1 DEF StreamFits, Fits
<1>4. CASE producer[s].next < Objects /\ s \notin stopped
  <2>1. PICK n \in {m \in 1..RequestSize : producer[s].next + m <= Objects} :
          producer' = [producer EXCEPT ![s] = [producer[s] EXCEPT !.at = "request", !.asked = n]]
    BY <1>4 DEF Check
  <2>. DEFINE p == [producer[s] EXCEPT !.at = "request", !.asked = n]
  <2>2. n \in Nat /\ producer[s].next + n <= Objects
    BY <2>1, StreamAssumption
  <2>3. p \in Producer /\ p.at = "request" /\ p.asked = n /\ p.next = producer[s].next
        /\ p.back = producer[s].back
    BY <1>1, <2>2 DEF Producer, ProducerSteps
  <2>. HIDE DEF p
  <2>4. RequestFits(p)
    BY <1>1, <1>3, <2>2, <2>3, StreamAssumption DEF RequestFits
  <2>5. InLoop(p) /\ producer' = [producer EXCEPT ![s] = p]
    BY <2>1, <2>3 DEF InLoop, p
  <2> QED BY <1>1, <1>2, <2>3, <2>4, <2>5, LoopMoves
<1>5. CASE ~(producer[s].next < Objects /\ s \notin stopped)
  <2>1. producer' = [producer EXCEPT ![s] = Closing(s, "put", Done)]
    BY <1>5 DEF Check
  <2>2. s \in stopped \/ producer[s].next = Objects
    BY <1>1, <1>3, <1>5, StreamAssumption DEF RequestFits, Producer
  <2>3. Active(consumer[s]) => Handed(consumer[s], output[s]) = Objects
    BY <1>1, <1>2, <1>3, <2>2 DEF StreamFits, ProducerFits, InRequest
  <2>4. ProducerFits(Closing(s, "put", Done), consumer[s], output[s])
    BY <2>3, ClosingIs DEF ProducerFits
  <2> QED BY <1>1, <2>1, <2>4, ClosingIs, ProducerMoves
<1> QED BY <1>4, <1>5

(* Requests, answers and what is read of them.                             *)
LEMMA NetworkStep ==
  ASSUME SInv, NEW s \in Streams,
         Send(s) \/ SendAgain(s) \/ AnswerBegins(s) \/ Receive(s) \/ EndOfBody(s)
  PROVE  SInv'
<1>1. /\ producer[s] \in Producer /\ producer[s].at \in {"request", "answer", "body"}
      /\ UNCHANGED <<free, output, stopped, consumer>>
  BY StreamFacts DEF Send, SendAgain, Asking, AnswerBegins, Receive, EndOfBody, Reading
<1>2. InRequest(s)
  BY <1>1 DEF InRequest, InLoop
<1>3. RequestFits(producer[s])
  BY StreamFacts DEF StreamFits, Fits
<1>4. CASE Send(s)
  <2>. DEFINE p == [producer[s] EXCEPT !.at = "answer"]
  <2>1. producer' = [producer EXCEPT ![s] = p]
    BY <1>4 DEF Send
  <2>2. p \in Producer /\ p.at = "answer" /\ p.next = producer[s].next
        /\ p.asked = producer[s].asked /\ p.back = producer[s].back
    BY <1>1 DEF Producer, ProducerSteps
  <2>. HIDE DEF p
  <2>3. RequestFits(p) /\ InLoop(p)
    BY <1>3, <2>2 DEF RequestFits, InLoop
  <2> QED BY <1>1, <1>2, <2>1, <2>2, <2>3, LoopMoves
<1>5. CASE SendAgain(s)
  <2>. DEFINE p == [producer[s] EXCEPT !.at = "request", !.resent = TRUE]
  <2>1. producer' = [producer EXCEPT ![s] = p]
    BY <1>5 DEF SendAgain
  <2>2. p \in Producer /\ p.at = "request" /\ p.next = producer[s].next
        /\ p.asked = producer[s].asked /\ p.back = producer[s].back
    BY <1>1 DEF Producer, ProducerSteps
  <2>. HIDE DEF p
  <2>3. RequestFits(p) /\ InLoop(p)
    BY <1>3, <2>2 DEF RequestFits, InLoop
  <2> QED BY <1>1, <1>2, <2>1, <2>2, <2>3, LoopMoves
<1>6. CASE AnswerBegins(s)
  <2>. DEFINE p == [producer[s] EXCEPT !.at = "body", !.resent = FALSE]
  <2>1. producer' = [producer EXCEPT ![s] = p]
    BY <1>6 DEF AnswerBegins
  <2>2. p \in Producer /\ p.at = "body" /\ p.next = producer[s].next
        /\ p.asked = producer[s].asked /\ p.back = producer[s].back
    BY <1>1 DEF Producer, ProducerSteps
  <2>. HIDE DEF p
  <2>3. RequestFits(p) /\ InLoop(p)
    BY <1>3, <2>2 DEF RequestFits, InLoop
  <2> QED BY <1>1, <1>2, <2>1, <2>2, <2>3, LoopMoves
<1>7. CASE Receive(s)
  <2>. DEFINE i == [kind |-> "object", object |-> producer[s].next + 1]
              p == [producer[s] EXCEPT !.at = "put", !.item = i]
  <2>1. producer' = [producer EXCEPT ![s] = p] /\ producer[s].back < producer[s].asked
    BY <1>7 DEF Receive
  <2>2. i \in Item /\ i.kind = "object" /\ i.object = producer[s].next + 1
    BY <1>1 DEF Item, Producer
  <2>. HIDE DEF i
  <2>3. p \in Producer /\ p.at = "put" /\ p.item = i /\ p.next = producer[s].next
        /\ p.asked = producer[s].asked /\ p.back = producer[s].back
    BY <1>1, <2>2 DEF Producer, ProducerSteps
  <2>. HIDE DEF p
  <2>4. RequestFits(p) /\ InLoop(p)
    BY <1>3, <2>1, <2>2, <2>3 DEF RequestFits, InLoop
  <2> QED BY <1>1, <1>2, <2>1, <2>3, <2>4, LoopMoves
<1>8. CASE EndOfBody(s)
  <2>1. producer' = [producer EXCEPT ![s] = Again(s, 0)]
    BY <1>8 DEF EndOfBody
  <2> QED BY <1>1, <1>2, <2>1, AgainFits, ProducerMoves
<1> QED BY <1>4, <1>5, <1>6, <1>7, <1>8

(* Everything that goes wrong.                                             *)
LEMMA ErrorStep ==
  ASSUME SInv, NEW s \in Streams,
         \/ FindsItBusy(s) \/ NoAnswer(s) \/ Refused(s)
         \/ BreaksOff(s) \/ IsCutOff(s) \/ GiveUpObject(s)
  PROVE  SInv'
<1>1. producer[s] \in Producer
  BY StreamFacts
<1>2. UNCHANGED <<free, output, stopped, consumer>>
  BY DEF FindsItBusy, NoAnswer, Refused, BreaksOff, IsCutOff, GiveUpObject, BodyFails
<1>3. InRequest(s)
  BY <1>1 DEF FindsItBusy, NoAnswer, Asking, Refused, BreaksOff, IsCutOff, GiveUpObject,
              PutRefused, Reading, InRequest, InLoop
<1>4. \A f \in BOOLEAN, retryable \in BOOLEAN :
        (f \/ AfterError(s, retryable).foreign) \in BOOLEAN
  BY <1>3, AfterErrorFits DEF Producer
<1>5. ASSUME NEW retryable \in BOOLEAN, NEW f \in BOOLEAN, BodyFails(s, retryable, f)
      PROVE  SInv'
  <2>. DEFINE g == f \/ AfterError(s, retryable).foreign
  <2>1. producer' = [producer EXCEPT ![s] = [AfterError(s, retryable) EXCEPT !.foreign = g]]
    BY <1>5 DEF BodyFails
  <2>2. g \in BOOLEAN
    BY <1>4
  <2>. HIDE DEF g
  <2> QED BY <1>2, <1>3, <2>1, <2>2, ErrorMoves
<1>6. CASE FindsItBusy(s)
  <2>. DEFINE g == s \notin stopped \/ AfterError(s, FALSE).foreign
  <2>1. producer' = [producer EXCEPT ![s] = [AfterError(s, FALSE) EXCEPT !.foreign = g]]
    BY <1>6 DEF FindsItBusy
  <2>2. g \in BOOLEAN
    BY <1>4
  <2>. HIDE DEF g
  <2> QED BY <1>2, <1>3, <2>1, <2>2, ErrorMoves
<1>7. CASE NoAnswer(s)
  BY <1>2, <1>3, <1>7, ErrorMoves DEF NoAnswer
<1>8. CASE Refused(s)
  BY <1>2, <1>3, <1>8, ErrorMoves DEF Refused
<1>9. CASE BreaksOff(s) \/ IsCutOff(s) \/ GiveUpObject(s)
  BY <1>5, <1>9 DEF BreaksOff, IsCutOff, GiveUpObject
<1> QED BY <1>6, <1>7, <1>8, <1>9

LEMMA GiveUpItemStep ==
  ASSUME SInv, NEW s \in Streams, GiveUpItem(s)
  PROVE  SInv'
<1>1. producer[s] \in Producer /\ StreamFits(s) /\ s \in stopped /\ producer[s].at = "put"
      /\ UNCHANGED <<free, output, stopped, consumer>>
  BY StreamFacts DEF GiveUpItem, PutRefused
<1>2. PICK at \in {"put", "ended"} : producer' = [producer EXCEPT ![s] = Closing(s, at, Done)]
  <2>1. producer[s].item.kind \in {"error", "done"}
    BY <1>1 DEF GiveUpItem, Producer, Item
  <2> QED BY <2>1 DEF GiveUpItem, AfterPut
<1>3. ~Active(consumer[s])
  BY <1>1 DEF StreamFits
<1> QED BY <1>1, <1>2, <1>3, ClosingIs, ProducerMoves DEF ProducerFits

LEMMA PlusOne ==
  ASSUME NEW a \in Nat, NEW b \in Nat
  PROVE  /\ a + (b + 1) = (a + b) + 1
         /\ \A i : i = b + 1 => a + i = (a + b) + 1
OBVIOUS

(* What is put fits behind what is in the queue.                           *)
LEMMA PutFits ==
  ASSUME NEW p \in Producer, NEW c \in Consumer, NEW q \in Seq(Item), p.at = "put",
         RequestFits(p), ProducerFits(p, c, q), QueueFits(c, q)
  PROVE  QueueFits(c, Append(q, p.item))
<1>. DEFINE n == Append(q, p.item)
<1>1. c.got \in Seq(Nat) /\ Len(c.got) \in Nat /\ Len(q) \in Nat /\ p.item \in Item
  BY LenProperties DEF Consumer, Producer
<1>2. Len(n) = Len(q) + 1 /\ n[Len(q) + 1] = p.item /\ \A i \in 1..Len(q) : n[i] = q[i]
  BY <1>1, AppendProperties
<1>. HIDE DEF n
<1>a. Len(c.got) \in Nat /\ Len(q) \in Nat
  BY <1>1
<1>3. ASSUME Active(c), NEW i \in 1..Len(n)
      PROVE  /\ n[i].kind = "object" => n[i].object = Len(c.got) + i
             /\ n[i].kind = "done" => \/ Len(c.got) + i = Objects + 1
                                      \/ \E j \in 1..(i - 1) : n[j].kind = "error"
  <2>1. CASE i \in 1..Len(q)
    <3>1. n[i] = q[i] /\ \A j \in 1..(i - 1) : n[j] = q[j]
      BY <1>1, <1>2, <2>1
    <3> QED BY <1>1, <1>3, <2>1, <3>1 DEF QueueFits
  <2>2. CASE i = Len(q) + 1
    <3>1. n[i] = p.item
      BY <1>2, <2>2
    <3>2. ASSUME p.item.kind = "object" PROVE p.item.object = Len(c.got) + i
      <4>1. p.item.object = p.next + 1
        BY <3>2 DEF RequestFits
      <4>2. p.next = Len(c.got) + Len(q)
        BY <1>3, <3>2 DEF ProducerFits, InLoop, Handed
      <4> QED BY <1>a, <2>2, <4>1, <4>2, PlusOne, Zenon
    <3>3. ASSUME p.item.kind = "done"
          PROVE  Len(c.got) + i = Objects + 1 \/ \E j \in 1..(i - 1) : n[j].kind = "error"
      <4>1. Handed(c, q) = Objects \/ \E j \in 1..Len(q) : q[j].kind = "error"
        BY <1>3, <3>3 DEF ProducerFits
      <4>2. CASE Handed(c, q) = Objects
        <5>1. Len(c.got) + Len(q) = Objects
          BY <4>2 DEF Handed
        <5> QED BY <1>a, <2>2, <5>1, PlusOne, Zenon
      <4>3. CASE \E j \in 1..Len(q) : q[j].kind = "error"
        <5>1. i - 1 = Len(q)
          BY <1>1, <2>2
        <5> QED BY <1>2, <4>3, <5>1
      <4> QED BY <4>1, <4>2, <4>3
    <3> QED BY <3>1, <3>2, <3>3
  <2> QED BY <1>1, <1>2, <2>1, <2>2
<1> QED BY <1>3 DEF QueueFits, n

LEMMA PutStep ==
  ASSUME SInv, NEW s \in Streams, Put(s)
  PROVE  SInv'
<1>. DEFINE p == producer[s]
            q == output[s]
            c == consumer[s]
            n == Append(q, p.item)
            m == AfterPut(s)
<1>1. p \in Producer /\ c \in Consumer /\ q \in Seq(Item) /\ StreamFits(s)
      /\ Len(q) \in Nat /\ Len(c.got) \in Nat
  BY StreamFacts
<1>a. Len(c.got) \in Nat /\ Len(q) \in Nat
  BY <1>1
<1>2. /\ p.at = "put" /\ UNCHANGED <<free, stopped, consumer>>
      /\ producer' = [producer EXCEPT ![s] = m] /\ output' = [output EXCEPT ![s] = n]
  BY DEF Put
<1>3. RequestFits(p) /\ ProducerFits(p, c, q) /\ QueueFits(c, q) /\ ConsumerFits(c) /\ c.at # "new"
  BY <1>1, <1>2 DEF StreamFits, Fits
<1>4. QueueFits(c, n)
  BY <1>1, <1>2, <1>3, PutFits
<1>5. n \in Seq(Item) /\ Len(n) = Len(q) + 1 /\ n[Len(q) + 1] = p.item
      /\ \A i \in 1..Len(q) : n[i] = q[i]
  BY <1>1, AppendProperties DEF Producer
<1>6. p.item.kind \in {"object", "error", "done"} /\ p.item \in Item
  BY <1>1 DEF Producer, Item
<1>7. m \in Producer /\ RequestFits(m) /\ ProducerFits(m, c, n)
  <2>1. CASE p.item.kind = "object"
    <3>1. m = [p EXCEPT !.at = "body", !.next = @ + 1, !.back = @ + 1, !.item = Done]
      BY <2>1 DEF AfterPut
    <3>2. /\ m \in Producer /\ m.at = "body" /\ m.next = p.next + 1 /\ m.back = p.back + 1
          /\ m.asked = p.asked
      <4>1. Done \in Item
        BY DEF Done, Item
      <4>2. p.next + 1 \in Nat /\ p.back + 1 \in Nat
        BY <1>1 DEF Producer
      <4>. HIDE DEF p
      <4> QED BY <1>1, <3>1, <4>1, <4>2 DEF Producer, ProducerSteps
    <3>. HIDE DEF m
    <3>3. RequestFits(m)
      BY <1>1, <1>2, <1>3, <2>1, <3>2, StreamAssumption DEF RequestFits, Producer
    <3>4. ASSUME Active(c)
          PROVE  (\A i \in 1..Len(n) : n[i].kind = "object") /\ m.next = Handed(c, n)
      <4>1. (\A i \in 1..Len(q) : q[i].kind = "object") /\ p.next = Handed(c, q)
        BY <1>2, <1>3, <2>1, <3>4 DEF ProducerFits, InLoop
      <4>2. ASSUME NEW i \in 1..Len(n) PROVE n[i].kind = "object"
        <5>1. i \in 1..Len(q) \/ i = Len(q) + 1
          BY <1>1, <1>5
        <5> QED BY <1>5, <2>1, <4>1, <5>1
      <4>3. m.next = Handed(c, n)
        <5>1. p.next = Len(c.got) + Len(q)
          BY <4>1 DEF Handed
        <5>. Len(n) = Len(q) + 1
          BY <1>5
        <5>2. Len(c.got) + Len(n) = p.next + 1
          BY <1>a, <5>1, PlusOne, Zenon
        <5> QED BY <3>2, <5>2 DEF Handed
      <4> QED BY <4>2, <4>3
    <3>5. ProducerFits(m, c, n)
      BY <3>2, <3>4 DEF ProducerFits
    <3> QED BY <3>2, <3>3, <3>5
  <2>2. CASE p.item.kind = "error"
    <3>1. m = Closing(s, "put", Done)
      BY <2>2 DEF AfterPut
    <3>2. \E i \in 1..Len(n) : n[i].kind = "error"
      <4>1. Len(q) + 1 \in 1..Len(n)
        BY <1>1, <1>5
      <4> QED BY <1>5, <2>2, <4>1
    <3> QED BY <3>1, <3>2, ClosingIs DEF ProducerFits
  <2>3. CASE p.item.kind = "done"
    <3>1. m = Closing(s, "ended", Done)
      BY <2>3 DEF AfterPut
    <3> QED BY <3>1, ClosingIs DEF ProducerFits
  <2> QED BY <1>6, <2>1, <2>2, <2>3
<1>. HIDE DEF m, n
<1>8. StreamTypes'
  BY <1>2, <1>5, <1>7 DEF SInv, StreamTypes
<1>9. ASSUME NEW r \in Streams PROVE StreamFits(r)'
  <2>1. StreamFits(r)
    BY DEF SInv
  <2>2. /\ producer'[r] = IF r = s THEN m ELSE producer[r]
        /\ output'[r] = IF r = s THEN n ELSE output[r]
    BY <1>2 DEF SInv, StreamTypes
  <2>3. Fits(producer'[r], consumer[r], output'[r])
    BY <1>3, <1>4, <1>7, <2>1, <2>2 DEF StreamFits, Fits
  <2> QED BY <1>2, <2>1, <2>3 DEF StreamFits
<1> QED BY <1>8, <1>9 DEF SInv

(* Every step of a producer.                                               *)
LEMMA ProducingStep ==
  ASSUME SInv, NEW s \in Streams, Producing(s)
  PROVE  SInv'
BY CheckStep, NetworkStep, ErrorStep, PutStep, GiveUpItemStep DEF Producing
-----------------------------------------------------------------------------
(* The steps of a consumer.                                                *)

LEMMA StartStep ==
  ASSUME SInv, NEW s \in Streams, Start(s)
  PROVE  SInv'
<1>1. PICK x \in free :
        /\ free' = free \ {x}
        /\ producer' = [producer EXCEPT ![s].at = "check", ![s].connection = x]
  BY DEF Start
<1>2. /\ consumer[s].at = "new" /\ consumer' = [consumer EXCEPT ![s].at = "reading"]
      /\ UNCHANGED <<output, stopped>>
  BY DEF Start
<1>3. producer[s] \in Producer /\ consumer[s] \in Consumer /\ StreamFits(s)
      /\ output[s] \in Seq(Item)
  BY StreamFacts
<1>. DEFINE p == [producer[s] EXCEPT !.at = "check", !.connection = x]
            c == [consumer[s] EXCEPT !.at = "reading"]
<1>4. producer' = [producer EXCEPT ![s] = p] /\ consumer' = [consumer EXCEPT ![s] = c]
  BY <1>1, <1>2
<1>5. /\ p \in Producer /\ p.at = "check" /\ p.next = producer[s].next
      /\ p.asked = producer[s].asked /\ p.back = producer[s].back
  BY <1>1, <1>3 DEF SInv, StreamTypes, Producer, ProducerSteps
<1>6. c \in Consumer /\ c.at = "reading" /\ c.got = consumer[s].got
      /\ c.result = consumer[s].result
  BY <1>3 DEF Consumer, ConsumerSteps
<1>. HIDE DEF p, c
<1>7. /\ RequestFits(producer[s]) /\ ProducerFits(producer[s], consumer[s], output[s])
      /\ QueueFits(consumer[s], output[s]) /\ ConsumerFits(consumer[s])
      /\ producer[s].at = "new"
  BY <1>2, <1>3 DEF StreamFits, Fits
<1>8. RequestFits(p)
  BY <1>5, <1>7 DEF RequestFits
<1>9. Active(consumer[s]) /\ Active(c)
  BY <1>2, <1>6 DEF Active
<1>10. ProducerFits(p, c, output[s])
  BY <1>5, <1>6, <1>7, <1>9 DEF ProducerFits, InLoop, Handed
<1>11. QueueFits(c, output[s]) /\ ConsumerFits(c)
  BY <1>6, <1>7, <1>9 DEF QueueFits, ConsumerFits
<1>12. StreamTypes'
  BY <1>1, <1>2, <1>4, <1>5, <1>6 DEF SInv, StreamTypes
<1>13. ASSUME NEW r \in Streams PROVE StreamFits(r)'
  <2>1. StreamFits(r)
    BY DEF SInv
  <2>2. /\ producer'[r] = IF r = s THEN p ELSE producer[r]
        /\ consumer'[r] = IF r = s THEN c ELSE consumer[r]
    BY <1>4 DEF SInv, StreamTypes
  <2>3. Fits(producer'[r], consumer'[r], output[r])
    BY <1>6, <1>8, <1>10, <1>11, <2>1, <2>2 DEF StreamFits, Fits
  <2>4. r \in stopped => ~Active(consumer'[r])
    BY <1>9, <2>1, <2>2 DEF StreamFits
  <2> QED BY <1>2, <2>3, <2>4 DEF StreamFits
<1> QED BY <1>12, <1>13 DEF SInv

(* A step after which the consumer does not read any more, and which keeps *)
(* what it has got.                                                        *)
LEMMA ConsumerLeaves ==
  ASSUME SInv, NEW s \in Streams, NEW c \in Consumer, NEW q \in Seq(Item),
         consumer' = [consumer EXCEPT ![s] = c], output' = [output EXCEPT ![s] = q],
         UNCHANGED producer, free' \subseteq Connections \cup {None},
         stopped' = stopped \/ stopped' = stopped \cup {s},
         ~Active(c), c.at # "new", c.got = consumer[s].got,
         c.result = "complete" => Len(c.got) = Objects
  PROVE  SInv'
<1>1. ConsumerFits(c)
  BY StreamFacts DEF StreamFits, Fits, ConsumerFits
<1> QED BY <1>1, ConsumerMoves DEF ProducerFits, QueueFits

(* The next item of the queue is gone.                                     *)
LEMMA TailFits ==
  ASSUME NEW p \in Producer, NEW c \in Consumer, NEW d \in Consumer, NEW q \in Seq(Item),
         q # <<>>, Head(q).kind = "object", ProducerFits(p, c, q), QueueFits(c, q), ConsumerFits(c),
         c.at = "reading", d.at = "suspended", d.result = c.result,
         d.got = Append(c.got, Head(q).object)
  PROVE  ProducerFits(p, d, Tail(q)) /\ QueueFits(d, Tail(q)) /\ ConsumerFits(d)
<1>. DEFINE g == c.got
            r == Tail(q)
<1>1. g \in Seq(Nat) /\ Len(g) \in Nat
  BY LenProperties DEF Consumer
<1>2. /\ Head(q) = q[1] /\ Len(q) \in Nat /\ Len(q) >= 1 /\ Len(r) = Len(q) - 1
      /\ \A i \in 1..Len(r) : r[i] = q[i + 1]
  BY HeadAndTail
<1>3. Active(c) /\ Active(d)
  BY DEF Active
<1>4. Head(q).object = Len(g) + 1
  BY <1>2, <1>3 DEF QueueFits
<1>5. /\ Len(d.got) = Len(g) + 1 /\ d.got[Len(g) + 1] = Len(g) + 1
      /\ \A i \in 1..Len(g) : d.got[i] = g[i]
  BY <1>1, <1>4, AppendProperties
<1>. HIDE DEF g, r
<1>6. ConsumerFits(d)
  <2>1. (\A i \in 1..Len(g) : g[i] = i) /\ c.result # "complete"
    BY <1>3 DEF ConsumerFits, g
  <2>2. ASSUME NEW i \in 1..(Len(g) + 1) PROVE d.got[i] = i
    <3>1. i \in 1..Len(g) \/ i = Len(g) + 1
      BY <1>1
    <3> QED BY <1>5, <2>1, <3>1
  <2> QED BY <1>5, <2>1, <2>2 DEF ConsumerFits
<1>7. Handed(d, r) = Handed(c, q)
  <2>1. (Len(g) + 1) + (Len(q) - 1) = Len(g) + Len(q)
    BY <1>1, <1>2
  <2> QED BY <1>2, <1>5, <2>1 DEF Handed, g
<1>8. ASSUME NEW i \in 1..Len(q), q[i].kind = "error"
      PROVE  i - 1 \in 1..Len(r) /\ r[i - 1].kind = "error"
  <2>1. i # 1
    BY <1>2, <1>8
  <2>2. i - 1 \in 1..Len(r) /\ (i - 1) + 1 = i
    BY <1>2, <2>1
  <2> QED BY <1>2, <1>8, <2>2
<1>9. ProducerFits(p, d, r)
  <2>1. InLoop(p) => /\ \A i \in 1..Len(q) : q[i].kind = "object"
                     /\ p.next = Handed(c, q)
    BY <1>3 DEF ProducerFits
  <2>2. p.at = "put" /\ p.item.kind = "done" =>
          Handed(c, q) = Objects \/ \E i \in 1..Len(q) : q[i].kind = "error"
    BY <1>3 DEF ProducerFits
  <2>3. ASSUME NEW i \in 1..Len(r) PROVE i + 1 \in 1..Len(q) /\ r[i] = q[i + 1]
    BY <1>2
  <2> QED BY <1>7, <1>8, <2>1, <2>2, <2>3 DEF ProducerFits
<1>10. QueueFits(d, r)
  <2>1. ASSUME NEW i \in 1..Len(r)
        PROVE  /\ r[i].kind = "object" => r[i].object = Len(d.got) + i
               /\ r[i].kind = "done" => \/ Len(d.got) + i = Objects + 1
                                        \/ \E j \in 1..(i - 1) : r[j].kind = "error"
    <3>1. i + 1 \in 1..Len(q) /\ r[i] = q[i + 1] /\ Len(g) + (i + 1) = Len(d.got) + i
      <4>1. i + 1 \in 1..Len(q) /\ r[i] = q[i + 1]
        BY <1>2
      <4>2. Len(g) + (i + 1) = (Len(g) + 1) + i
        BY <1>1
      <4> QED BY <1>5, <4>1, <4>2, Zenon
    <3>2. /\ q[i + 1].kind = "object" => q[i + 1].object = Len(g) + (i + 1)
          /\ q[i + 1].kind = "done" => \/ Len(g) + (i + 1) = Objects + 1
                                        \/ \E j \in 1..((i + 1) - 1) : q[j].kind = "error"
      BY <1>3, <3>1 DEF QueueFits, g
    <3>3. ASSUME NEW j \in 1..((i + 1) - 1), q[j].kind = "error"
          PROVE  j - 1 \in 1..(i - 1) /\ r[j - 1].kind = "error"
      <4>1. j \in 1..Len(q)
        BY <1>2, <3>1
      <4>2. j - 1 \in 1..Len(r) /\ r[j - 1].kind = "error"
        BY <1>8, <3>3, <4>1
      <4> QED BY <1>2, <4>2
    <3> QED BY <3>1, <3>2, <3>3
  <2> QED BY <2>1 DEF QueueFits
<1> QED BY <1>6, <1>9, <1>10 DEF r

LEMMA GetStep ==
  ASSUME SInv, NEW s \in Streams, GetObject(s) \/ GetEnd(s)
  PROVE  SInv'
<1>. DEFINE c == consumer[s]
            q == output[s]
<1>1. c \in Consumer /\ producer[s] \in Producer /\ q \in Seq(Item) /\ StreamFits(s)
  BY StreamFacts
<1>2. /\ c.at = "reading" /\ q # <<>> /\ output' = [output EXCEPT ![s] = Tail(q)]
      /\ UNCHANGED <<free, producer, stopped>>
  BY DEF GetObject, GetEnd
<1>3. Head(q) \in Item /\ Head(q) = q[1] /\ Tail(q) \in Seq(Item) /\ Len(q) \in Nat /\ Len(q) >= 1
  BY <1>1, <1>2, HeadAndTail
<1>4. /\ ProducerFits(producer[s], c, q) /\ QueueFits(c, q) /\ ConsumerFits(c)
      /\ Active(c) /\ s \notin stopped
  BY <1>1, <1>2 DEF StreamFits, Fits, Active
<1>5. free \subseteq Connections \cup {None}
  BY DEF SInv, StreamTypes
<1>6. ASSUME NEW result \in {"complete", "error"}, consumer' = Ends(s, result),
             result = "complete" => Len(c.got) = Objects
      PROVE  SInv'
  <2>. DEFINE d == [c EXCEPT !.at = "stopping", !.result = result]
  <2>1. consumer' = [consumer EXCEPT ![s] = d]
    BY <1>6 DEF Ends
  <2>2. d \in Consumer /\ d.at = "stopping" /\ d.result = result /\ d.got = c.got
    BY <1>1 DEF Consumer, ConsumerSteps
  <2>. HIDE DEF d
  <2>3. ~Active(d)
    BY <2>2 DEF Active
  <2> QED BY <1>2, <1>3, <1>5, <1>6, <2>1, <2>2, <2>3, ConsumerLeaves
<1>7. CASE GetObject(s) /\ consumer' = Ends(s, "error")
  BY <1>6, <1>7
<1>8. CASE GetObject(s) /\ consumer' # Ends(s, "error")
  <2>. DEFINE d == [c EXCEPT !.at = "suspended", !.got = Append(@, Head(q).object)]
  <2>1. consumer' = [consumer EXCEPT ![s] = d] /\ Head(q).kind = "object"
    BY <1>8 DEF GetObject
  <2>2. Append(c.got, Head(q).object) \in Seq(Nat)
    BY <1>1, <1>3, AppendProperties DEF Consumer, Item
  <2>3. /\ d \in Consumer /\ d.at = "suspended" /\ d.result = c.result
        /\ d.got = Append(c.got, Head(q).object)
    BY <1>1, <2>2 DEF Consumer, ConsumerSteps
  <2>. HIDE DEF d
  <2>4. ProducerFits(producer[s], d, Tail(q)) /\ QueueFits(d, Tail(q)) /\ ConsumerFits(d)
    BY <1>1, <1>2, <1>4, <2>1, <2>3, TailFits
  <2> QED BY <1>2, <1>3, <1>4, <1>5, <2>1, <2>3, <2>4, ConsumerMoves
<1>9. CASE GetEnd(s)
  <2>1. consumer' = Ends(s, IF Head(q) = Done THEN "complete" ELSE "error")
    BY <1>9 DEF GetEnd
  <2>2. Head(q) = Done => Len(c.got) = Objects
    <3>1. Done.kind = "done"
      BY DEF Done
    <3>2. q[1].kind = "done" =>
            Len(c.got) + 1 = Objects + 1 \/ \E j \in 1..(1 - 1) : q[j].kind = "error"
      BY <1>3, <1>4 DEF QueueFits
    <3>3. Len(c.got) \in Nat
      BY StreamFacts
    <3> QED BY <1>3, <3>1, <3>2, <3>3, StreamAssumption
  <2> QED BY <1>6, <2>1, <2>2
<1> QED BY <1>7, <1>8, <1>9

(* The finally clause, and what goes before it.                            *)
LEMMA CloseStep ==
  ASSUME SInv, NEW s \in Streams,
         \/ Resume(s) \/ CloseEarly(s) \/ Stop(s) \/ CloseConnection(s)
         \/ Join(s) \/ JoinTimesOut(s)
  PROVE  SInv'
<1>. DEFINE c == consumer[s]
            q == output[s]
<1>1. c \in Consumer /\ producer[s] \in Producer /\ q \in Seq(Item) /\ StreamFits(s)
  BY StreamFacts
<1>2. /\ UNCHANGED producer /\ output' = [output EXCEPT ![s] = q]
      /\ stopped' = stopped \/ stopped' = stopped \cup {s}
  BY DEF Resume, CloseEarly, Stop, SetStopped, CloseConnection, Join, JoinTimesOut, Leave,
         SInv, StreamTypes
<1>3. free' \subseteq Connections \cup {None}
  BY <1>1 DEF Resume, CloseEarly, Stop, CloseConnection, Join, JoinTimesOut, Leave, Conn,
              SInv, StreamTypes, Producer
<1>4. ConsumerFits(c) /\ ProducerFits(producer[s], c, q) /\ QueueFits(c, q)
  BY <1>1 DEF StreamFits, Fits
<1>5. CASE Resume(s)
  <2>. DEFINE d == [c EXCEPT !.at = "reading"]
  <2>1. consumer' = [consumer EXCEPT ![s] = d] /\ c.at = "suspended" /\ stopped' = stopped
    BY <1>5 DEF Resume
  <2>2. d \in Consumer /\ d.at = "reading" /\ d.got = c.got /\ d.result = c.result
    BY <1>1 DEF Consumer, ConsumerSteps
  <2>. HIDE DEF d
  <2>3. Active(c) /\ Active(d) /\ s \notin stopped
    BY <1>1, <2>1, <2>2 DEF Active, StreamFits
  <2>4. ProducerFits(producer[s], d, q) /\ QueueFits(d, q) /\ ConsumerFits(d)
    BY <1>4, <2>2, <2>3 DEF ProducerFits, QueueFits, ConsumerFits, Handed
  <2> QED BY <1>1, <1>2, <1>3, <2>1, <2>2, <2>3, <2>4, ConsumerMoves
<1>6. CASE CloseEarly(s)
  <2>. DEFINE d == [c EXCEPT !.at = "stopping", !.result = "early"]
  <2>1. consumer' = [consumer EXCEPT ![s] = d]
    BY <1>6 DEF CloseEarly, Ends
  <2>2. d \in Consumer /\ d.at = "stopping" /\ d.got = c.got /\ d.result = "early"
    BY <1>1 DEF Consumer, ConsumerSteps
  <2>. HIDE DEF d
  <2>3. ~Active(d)
    BY <2>2 DEF Active
  <2> QED BY <1>1, <1>2, <1>3, <2>1, <2>2, <2>3, ConsumerLeaves
<1>7. ASSUME NEW at \in {"closing", "joining", "closed"},
             consumer' = [consumer EXCEPT ![s].at = at]
      PROVE  SInv'
  <2>. DEFINE d == [c EXCEPT !.at = at]
  <2>1. consumer' = [consumer EXCEPT ![s] = d]
    BY <1>7
  <2>2. d \in Consumer /\ d.at = at /\ d.got = c.got /\ d.result = c.result
    BY <1>1 DEF Consumer, ConsumerSteps
  <2>. HIDE DEF d
  <2>3. ~Active(d)
    BY <2>2 DEF Active
  <2>4. d.result = "complete" => Len(d.got) = Objects
    BY <1>4, <2>2 DEF ConsumerFits
  <2> QED BY <1>1, <1>2, <1>3, <2>1, <2>2, <2>3, <2>4, ConsumerLeaves
<1> QED BY <1>5, <1>6, <1>7 DEF Stop, CloseConnection, Join, JoinTimesOut, Leave
-----------------------------------------------------------------------------
(* Streams and pipes together.                                             *)

(* A stream that is complete stays so, with what it has got.               *)
LEMMA CompleteStays ==
  ASSUME SInv, NEW s \in Streams, consumer[s].result = "complete",
         \/ \E r \in Streams : Producing(r) \/ Start(r) \/ Generating(r) \/ Consuming(r)
         \/ UNCHANGED consumer
  PROVE  consumer'[s].result = "complete"
<1>1. ~Active(consumer[s]) /\ consumer[s] \in Consumer /\ consumer \in [Streams -> Consumer]
  BY StreamFacts DEF StreamFits, Fits, ConsumerFits, SInv, StreamTypes
<1>2. ASSUME NEW r \in Streams, Start(r) \/ GetObject(r) \/ GetEnd(r) \/ Resume(r) \/ CloseEarly(r)
      PROVE  consumer'[s] = consumer[s]
  <2>1. r # s
    BY <1>1, <1>2 DEF Active, Start, GetObject, GetEnd, Resume, CloseEarly
  <2> QED BY <1>1, <1>2, <2>1 DEF Start, GetObject, GetEnd, Resume, CloseEarly, Ends
<1>3. ASSUME NEW r \in Streams, NEW at, consumer' = [consumer EXCEPT ![r].at = at]
      PROVE  consumer'[s].result = "complete"
  BY <1>1, <1>3 DEF Consumer
<1>4. ASSUME NEW r \in Streams, Stop(r) \/ CloseConnection(r) \/ Join(r) \/ JoinTimesOut(r)
      PROVE  consumer'[s].result = "complete"
  BY <1>3, <1>4 DEF Stop, CloseConnection, Join, JoinTimesOut, Leave
<1>5. ASSUME NEW r \in Streams, Producing(r)
      PROVE  UNCHANGED consumer
  BY <1>5 DEF Producing, Check, Send, FindsItBusy, NoAnswer, SendAgain, AnswerBegins, Refused,
       Receive, EndOfBody, BreaksOff, IsCutOff, Put, GiveUpObject, GiveUpItem, BodyFails
<1> QED BY <1>2, <1>4, <1>5 DEF Generating, Consuming

(* A pipe whose writer and reader do nothing.                              *)
LEMMA PipeRests ==
  ASSUME IInv, SInv', UNCHANGED avars,
         \/ \E r \in Streams : Producing(r) \/ Start(r) \/ Generating(r) \/ Consuming(r)
         \/ UNCHANGED consumer
  PROVE  IInv'
<1>1. ASSUME NEW s \in Piped PROVE PipeFits(s)'
  <2>1. s \in Streams /\ PipeFits(s)
    BY PipeAssumption DEF IInv
  <2>2. consumer[s].result = "complete" => consumer'[s].result = "complete"
    BY <2>1, CompleteStays DEF IInv
  <2> QED BY <2>1, <2>2 DEF PipeFits, avars
<1> QED BY <1>1 DEF IInv, PipeTypes, avars

(* A step of one pipe.                                                     *)
LEMMA PipeMoves ==
  ASSUME IInv, SInv', PipeTypes', NEW s \in Piped, PipeFits(s)',
         \A r \in Piped \ {s} : /\ pipe'[r] = pipe[r] /\ writer'[r] = writer[r]
                                /\ reader'[r] = reader[r],
         \/ \E r \in Streams : Producing(r) \/ Start(r) \/ Generating(r) \/ Consuming(r)
         \/ UNCHANGED consumer
  PROVE  IInv'
<1>1. ASSUME NEW r \in Piped \ {s} PROVE PipeFits(r)'
  <2>1. r \in Streams /\ PipeFits(r)
    BY PipeAssumption DEF IInv
  <2>2. consumer[r].result = "complete" => consumer'[r].result = "complete"
    BY <2>1, CompleteStays DEF IInv
  <2> QED BY <2>1, <2>2 DEF PipeFits
<1> QED BY <1>1 DEF IInv

LEMMA WritingStep ==
  ASSUME IInv, NEW s \in Piped, Writing(s)
  PROVE  IInv'
<1>1. /\ s \in Streams /\ SInv /\ PipeTypes /\ PipeFits(s)
      /\ pipe[s] \in Seq({"batch", "end"})
  BY PipeAssumption DEF IInv, PipeTypes
<1>2. ASSUME NEW r \in Piped \ {s}
      PROVE  /\ pipe'[r] = pipe[r] /\ writer'[r] = writer[r] /\ reader'[r] = reader[r]
  BY <1>1 DEF PipeTypes, Writing, WriteBatch, BrokenPipe, WriteEndMarker, CloseWithoutMarker, NoteError
<1>3. CASE WriteBatch(s)
  <2>1. SInv' /\ consumer[s].result = "complete" => consumer'[s].result = "complete"
    BY <1>1, <1>3, CloseStep, CompleteStays DEF WriteBatch, Consuming
  <2>2. SInv'
    BY <1>1, <1>3, CloseStep DEF WriteBatch
  <2>3. /\ Append(pipe[s], "batch") \in Seq({"batch", "end"})
        /\ \A i \in 1..Len(Append(pipe[s], "batch")) :
             Append(pipe[s], "batch")[i] = "batch" \/ (i \in 1..Len(pipe[s]) /\ Append(pipe[s], "batch")[i] = pipe[s][i])
    BY <1>1, AppendProperties, LenProperties
  <2>4. pipe'[s] = Append(pipe[s], "batch") /\ UNCHANGED <<writer, reader>>
    BY <1>1, <1>3 DEF WriteBatch, PipeTypes
  <2>5. PipeTypes'
    BY <1>1, <1>3, <2>3 DEF WriteBatch, PipeTypes
  <2>6. PipeFits(s)'
    BY <1>1, <2>1, <2>2, <2>3, <2>4 DEF PipeFits
  <2> QED BY <1>1, <1>2, <1>3, <2>2, <2>5, <2>6, PipeMoves DEF WriteBatch, Consuming
<1>4. CASE BrokenPipe(s)
  <2>1. SInv'
    BY <1>1, <1>4, CloseStep DEF BrokenPipe
  <2>2. PipeTypes'
    BY <1>1, <1>4 DEF BrokenPipe, PipeTypes, Writer
  <2>3. PipeFits(s)'
    <3>1. ~(consumer[s].result = "complete")
      BY <1>1, <1>4, StreamFacts DEF StreamFits, Fits, ConsumerFits, Active, BrokenPipe, HasBatch
    <3> QED BY <1>1, <1>4, <3>1 DEF BrokenPipe, PipeFits, PipeTypes, Writer
  <2> QED BY <1>1, <1>2, <1>4, <2>1, <2>2, <2>3, PipeMoves DEF BrokenPipe, Consuming
<1>5. CASE WriteEndMarker(s) \/ CloseWithoutMarker(s) \/ NoteError(s)
  <2>1. UNCHANGED svars
    BY <1>5 DEF WriteEndMarker, CloseWithoutMarker, NoteError
  <2>2. SInv'
    BY <1>1, <2>1 DEF SInv, StreamTypes, StreamFits, svars
  <2>3. PipeTypes'
    <3>1. Append(pipe[s], "end") \in Seq({"batch", "end"})
      BY <1>1, AppendProperties
    <3>2. pipe' \in [Piped -> Seq({"batch", "end"})] /\ reader' = reader
      BY <1>1, <1>5, <3>1 DEF WriteEndMarker, CloseWithoutMarker, NoteError, PipeTypes
    <3>3. \E d \in Writer : writer' = [writer EXCEPT ![s] = d]
      <4>1. writer[s] \in Writer /\ Gone(s) \in BOOLEAN
        BY <1>1 DEF PipeTypes, Gone
      <4>2. ASSUME NEW e \in BOOLEAN, NEW at \in {"failed", "closed"}
            PROVE  /\ [writer[s] EXCEPT !.at = at] \in Writer
                   /\ [writer[s] EXCEPT !.at = at, !.error = e] \in Writer
        BY <4>1 DEF Writer
      <4>3. \/ writer' = [writer EXCEPT ![s] = [writer[s] EXCEPT !.at = "closed", !.error = Gone(s)]]
            \/ writer' = [writer EXCEPT ![s] = [writer[s] EXCEPT !.at = "failed"]]
            \/ writer' = [writer EXCEPT ![s] = [writer[s] EXCEPT !.at = "closed", !.error = TRUE]]
        BY <1>5 DEF WriteEndMarker, CloseWithoutMarker, NoteError
      <4> QED BY <4>1, <4>2, <4>3
    <3> QED BY <1>1, <3>2, <3>3 DEF PipeTypes
  <2>4. PipeFits(s)'
    <3>1. CASE WriteEndMarker(s)
      BY <2>1, <3>1 DEF WriteEndMarker, Complete, PipeFits, svars
    <3>2. CASE CloseWithoutMarker(s) \/ NoteError(s)
      BY <1>1, <2>1, <3>2 DEF CloseWithoutMarker, NoteError, PipeFits, PipeTypes, Writer, svars
    <3> QED BY <1>5, <3>1, <3>2
  <2> QED BY <1>1, <1>2, <2>1, <2>2, <2>3, <2>4, PipeMoves DEF svars
<1> QED BY <1>3, <1>4, <1>5 DEF Writing

LEMMA ReadingStep ==
  ASSUME IInv, NEW s \in Piped, ReadingPipe(s)
  PROVE  IInv'
<1>1. /\ s \in Streams /\ SInv /\ PipeTypes /\ PipeFits(s)
      /\ pipe[s] \in Seq({"batch", "end"})
  BY PipeAssumption DEF IInv, PipeTypes
<1>2. UNCHANGED svars
  BY DEF ReadingPipe, ReadChunk, ReadEnd, ReaderStops
<1>3. SInv'
  BY <1>1, <1>2 DEF SInv, StreamTypes, StreamFits, svars
<1>4. ASSUME NEW r \in Piped \ {s}
      PROVE  /\ pipe'[r] = pipe[r] /\ writer'[r] = writer[r] /\ reader'[r] = reader[r]
  BY <1>1 DEF PipeTypes, ReadingPipe, ReadChunk, ReadEnd, ReaderStops
<1>5. PipeTypes' /\ PipeFits(s)'
  <2>1. CASE ReadChunk(s)
    <3>1. /\ Head(pipe[s]) = pipe[s][1] /\ Tail(pipe[s]) \in Seq({"batch", "end"})
          /\ Len(pipe[s]) \in Nat /\ Len(pipe[s]) >= 1 /\ Len(Tail(pipe[s])) = Len(pipe[s]) - 1
          /\ \A i \in 1..Len(Tail(pipe[s])) : Tail(pipe[s])[i] = pipe[s][i + 1]
      BY <1>1, <2>1, HeadAndTail DEF ReadChunk
    <3>2. /\ pipe' = [pipe EXCEPT ![s] = Tail(@)]
          /\ reader' = [reader EXCEPT ![s].end = @ \/ Head(pipe[s]) = "end"]
          /\ UNCHANGED writer
      BY <2>1 DEF ReadChunk
    <3>. DEFINE e == reader[s].end \/ Head(pipe[s]) = "end"
                d == [reader[s] EXCEPT !.end = e]
    <3>3. reader[s] \in Reader /\ e \in BOOLEAN /\ reader' = [reader EXCEPT ![s] = d]
      BY <1>1, <3>2 DEF PipeTypes
    <3>. HIDE DEF e
    <3>a. d \in Reader /\ d.end = e /\ d.result = reader[s].result
      BY <3>3 DEF Reader
    <3>. HIDE DEF d
    <3>4. PipeTypes'
      BY <1>1, <3>1, <3>2, <3>3, <3>a DEF PipeTypes
    <3>5. CASE consumer[s].result = "complete"
      BY <1>2, <3>4, <3>5 DEF PipeFits, svars
    <3>6. CASE consumer[s].result # "complete"
      <4>1. Head(pipe[s]) # "end" /\ \A i \in 1..Len(Tail(pipe[s])) : Tail(pipe[s])[i] # "end"
        BY <1>1, <3>1, <3>6 DEF PipeFits
      <4>2. pipe'[s] = Tail(pipe[s]) /\ reader'[s] = d
        BY <1>1, <3>2, <3>3 DEF PipeTypes
      <4>3. ~e
        BY <1>1, <3>6, <4>1 DEF PipeFits, e
      <4> QED BY <1>1, <3>2, <3>4, <3>6, <3>a, <4>1, <4>2, <4>3 DEF PipeFits
    <3> QED BY <3>4, <3>5, <3>6
  <2>2. CASE ReadEnd(s)
    <3>1. PipeTypes'
      <4>1. \E d \in Reader : reader' = [reader EXCEPT ![s] = d]
        <5>1. reader[s] \in Reader
          BY <1>1 DEF PipeTypes
        <5>2. \A r \in {"error", "whole"} :
                [reader[s] EXCEPT !.at = "ended", !.result = r] \in Reader
          BY <5>1 DEF Reader
        <5> QED BY <2>2, <5>2 DEF ReadEnd
      <4> QED BY <1>1, <2>2, <4>1 DEF PipeTypes, ReadEnd
    <3> QED BY <1>1, <1>2, <2>2, <3>1 DEF PipeFits, PipeTypes, Writer, Reader, ReadEnd, Ended, svars
  <2>3. CASE ReaderStops(s)
    <3>1. <<>> \in Seq({"batch", "end"}) /\ Len(<<>>) = 0
      BY EmptySeq
    <3>2. PipeTypes'
      BY <1>1, <2>3, <3>1 DEF PipeTypes, Reader, ReaderStops
    <3> QED BY <1>1, <1>2, <2>3, <3>1, <3>2 DEF PipeFits, PipeTypes, Reader, ReaderStops, svars
  <2> QED BY <2>1, <2>2, <2>3 DEF ReadingPipe
<1> QED BY <1>1, <1>2, <1>3, <1>4, <1>5, PipeMoves DEF svars
-----------------------------------------------------------------------------
LEMMA InitFits == AInit => IInv
<1>. SUFFICES ASSUME AInit PROVE IInv
  OBVIOUS
<1>1. NoProducer \in Producer /\ NoProducer.at = "new" /\ NoProducer.next = 0
      /\ NoProducer.asked = 0 /\ NoProducer.back = 0
  BY DEF NoProducer, Producer, ProducerSteps, Item, Done
<1>2. <<>> \in Seq(Nat) /\ <<>> \in Seq(Item) /\ <<>> \in Seq({"batch", "end"}) /\ Len(<<>>) = 0
  BY EmptySeq
<1>3. StreamTypes
  BY <1>1, <1>2 DEF AInit, Init, StreamTypes, Consumer, ConsumerSteps
<1>4. ASSUME NEW s \in Streams PROVE StreamFits(s)
  <2>1. producer[s] = NoProducer /\ output[s] = <<>> /\ s \notin stopped
        /\ consumer[s].at = "new" /\ consumer[s].got = <<>> /\ consumer[s].result = "none"
    BY DEF AInit, Init
  <2>2. RequestFits(producer[s])
    BY <1>1, <2>1, StreamAssumption DEF RequestFits
  <2>3. ProducerFits(producer[s], consumer[s], output[s])
    BY <1>1, <1>2, <2>1 DEF ProducerFits, Handed
  <2> QED BY <1>1, <1>2, <2>1, <2>2, <2>3 DEF StreamFits, Fits, QueueFits, ConsumerFits
<1>5. PipeTypes /\ \A s \in Piped : PipeFits(s)
  BY <1>2 DEF AInit, PipeTypes, PipeFits, Writer, Reader
<1> QED BY <1>3, <1>4, <1>5 DEF IInv, SInv

LEMMA StepFits == IInv /\ [Next]_vars => IInv'
<1>. SUFFICES ASSUME IInv, [Next]_vars PROVE IInv'
  OBVIOUS
<1>1. SInv
  BY DEF IInv
<1>2. ASSUME NEW s \in Streams, ProducerThread(s) PROVE IInv'
  BY <1>1, <1>2, ProducingStep, PipeRests DEF ProducerThread
<1>3. ASSUME NEW s \in Streams, Start(s) \/ Generating(s) \/ Consuming(s), UNCHANGED avars
      PROVE  IInv'
  <2>1. SInv'
    BY <1>1, <1>3, StartStep, GetStep, CloseStep DEF Generating, Consuming
  <2> QED BY <1>3, <2>1, PipeRests
<1>4. ASSUME NEW s \in Streams, ConsumerThread(s) PROVE IInv'
  BY <1>3, <1>4, WritingStep DEF ConsumerThread, Plain
<1>5. CASE UNCHANGED vars
  <2>1. SInv'
    BY <1>1, <1>5 DEF SInv, StreamTypes, StreamFits, vars, svars
  <2> QED BY <1>5, <2>1, PipeRests DEF vars, svars, avars
<1> QED BY <1>2, <1>4, <1>5, ReadingStep DEF Next
-----------------------------------------------------------------------------
(* Whatever goes wrong on the network, and whoever closes a connection     *)
(* under a producer, a consumer of iter_remote_batches gets the objects of *)
(* its stream in order, none twice and none left out, and a stream that    *)
(* ends normally has given all of them.                                    *)
THEOREM StreamsInOrder == Spec => []ObjectsInOrder
<1>1. IInv => ObjectsInOrder
  <2>. SUFFICES ASSUME IInv, NEW s \in Streams
                PROVE  /\ \A i \in DOMAIN consumer[s].got : consumer[s].got[i] = i
                       /\ consumer[s].result = "complete" => Len(consumer[s].got) = Objects
    BY DEF ObjectsInOrder
  <2>1. ConsumerFits(consumer[s]) /\ consumer[s].got \in Seq(Nat)
    BY StreamFacts DEF IInv, StreamFits, Fits
  <2> QED BY <2>1, LenProperties DEF ConsumerFits
<1> QED BY <1>1, InitFits, StepFits, PTL DEF Spec

(* A client of the pipe of _arrow_ipc_pipe that meets the end marker, or   *)
(* the end of the file without an error, belongs to a stream that has      *)
(* given every object.                                                     *)
THEOREM MarkedStreamsAreWhole == Spec => []SuccessIsWhole
<1>1. IInv => SuccessIsWhole
  <2>. SUFFICES ASSUME IInv, NEW s \in Piped, reader[s].end \/ reader[s].result = "whole"
                PROVE  Len(consumer[s].got) = Objects
    BY DEF SuccessIsWhole
  <2>1. s \in Streams /\ PipeFits(s)
    BY PipeAssumption DEF IInv
  <2>2. consumer[s].result = "complete"
    BY <2>1 DEF PipeFits
  <2> QED BY <2>1, <2>2, StreamFacts DEF IInv, StreamFits, Fits, ConsumerFits
<1> QED BY <1>1, InitFits, StepFits, PTL DEF Spec
-----------------------------------------------------------------------------
(* The connections.                                                        *)

LinkStates ==
  [user : Streams \cup {None}, state : {"closed", "idle", "sent", "body", "crossed"}]

(* The consumer has a connection of the pool.                              *)
Holding(s) == consumer[s].at \in {"reading", "suspended", "stopping", "closing", "joining"}

(* Every connection is in the pool or with one stream at most.             *)
Pool ==
  /\ free \subseteq Connections /\ link \in [Connections -> LinkStates] /\ cut \subseteq Streams
  /\ \A s \in Streams :
       /\ producer[s].at # "new" => Conn(s) \in Connections
       /\ Holding(s) => producer[s].at # "new" /\ Conn(s) \notin free
       /\ \A r \in Streams \ {s} : Holding(s) /\ Holding(r) => Conn(r) # Conn(s)

ProducerWithin(p) ==
  /\ p.asked <= RequestSize /\ p.retries <= Retries
  /\ p.at \in {"request", "answer"} => p.back = 0 /\ p.asked > 0
  /\ p.item.kind = "object" => p.item.object \in 1..Objects

QueueWithin(q) ==
  /\ Len(q) <= QueueParts
  /\ \A i \in 1..Len(q) : q[i].kind = "object" => q[i].object \in 1..Objects

Within(s) ==
  /\ ProducerWithin(producer[s]) /\ QueueWithin(output[s])
  /\ consumer[s].got \in Seq(1..Objects)

(* Whoever meets the end of a stream, its producer has ended.              *)
EndIsLast(s) ==
  consumer[s].result = "complete" \/ (\E i \in 1..Len(output[s]) : output[s][i].kind = "done") =>
    producer[s].at = "ended"

Warned(s) ==
  /\ s \in stopped <=> consumer[s].at \in {"closing", "joining", "closed"}
  /\ s \in late => s \in stopped
  /\ producer[s].foreign => late \ {s} # {}

InBody(p) == p.at = "body" \/ (p.at = "put" /\ p.item.kind = "object")

NoRequest == {"closed", "idle"}

(* The connection l of a stream with a producer p, whose consumer is at a  *)
(* step: the request on it is the producer's own.                          *)
LinkFits(s, p, at, l) ==
  /\ p.at = "answer" => l = IF at = "joining" THEN Closed ELSE [user |-> s, state |-> "sent"]
  /\ InBody(p) => l = IF at = "joining" THEN Closed ELSE [user |-> s, state |-> "body"]
  /\ p.at # "answer" /\ ~InBody(p) =>
       l.state \in NoRequest \/ (~InLoop(p) /\ at = "closing" /\ l = [user |-> s, state |-> "sent"])

QuietStream(s) ==
  /\ consumer[s].at = "closed" => producer[s].at = "ended"
  /\ s \in cut => consumer[s].at \in {"joining", "closed"}
  /\ Holding(s) => LinkFits(s, producer[s], consumer[s].at, link[Conn(s)])

(* As long as no producer was late. *)
Quiet ==
  late = {} => /\ \A c \in free : link[c].state \in NoRequest
               /\ \A s \in Streams : QuietStream(s)

Connected ==
  /\ Pool
  /\ \A s \in Streams : Within(s) /\ EndIsLast(s) /\ Warned(s)
  /\ Quiet

PipesWithin == \A s \in Piped : Len(pipe[s]) <= PipeSize
-----------------------------------------------------------------------------
(* What the producer of s becomes in a step.                               *)
Turns(s, p) ==
  /\ p \in Producer /\ p.connection = Conn(s) /\ p.at # "new" /\ ProducerWithin(p)
  /\ p.foreign = producer[s].foreign

(* It has no request. *)
Clear(p) == p.at # "answer" /\ ~InBody(p)

(* What the end of its memory leaves.                                      *)
LEMMA ClosingTurns ==
  ASSUME SInv, NEW s \in Streams, NEW at \in {"put", "ended"}, NEW item \in {Done, Exception}
  PROVE  /\ Turns(s, Closing(s, at, item)) /\ Clear(Closing(s, at, item))
         /\ Closing(s, at, item).at = at /\ Closing(s, at, item).item = item
         /\ ~InLoop(Closing(s, at, item))
<1>. DEFINE r == Closing(s, at, item)
<1>1. r \in Producer /\ r.at = at /\ r.item = item /\ ~InLoop(r)
  BY ClosingIs
<1>2. item.kind \in {"done", "error"}
  BY DEF Done, Exception
<1>3. producer[s] \in Producer
  BY StreamFacts
<1>4. NoProducer \in Producer /\ NoProducer.asked = 0 /\ NoProducer.retries = 0
  BY DEF NoProducer, Producer, ProducerSteps, Done, Item
<1>5. r.connection = Conn(s) /\ r.asked = 0 /\ r.retries = 0
  BY <1>3, <1>4 DEF Closing, Producer
<1>6. r.foreign = producer[s].foreign
  BY <1>3, <1>4 DEF Closing, Producer
<1>. HIDE DEF r
<1>7. ProducerWithin(r) /\ Clear(r)
  BY <1>1, <1>2, <1>5, StreamAssumption DEF ProducerWithin, Clear, InBody
<1> QED BY <1>1, <1>5, <1>6, <1>7 DEF Turns, r

LEMMA AgainTurns ==
  ASSUME SInv, NEW s \in Streams, InRequest(s), ProducerWithin(producer[s]), NEW retries \in 0..Retries
  PROVE  /\ Turns(s, Again(s, retries)) /\ Clear(Again(s, retries)) /\ Again(s, retries).at = "check"
<1>. DEFINE r == Again(s, retries)
<1>1. r \in Producer
  BY AgainFits
<1>2. producer[s] \in Producer
  BY StreamFacts
<1>3. r.at = "check" /\ r.asked = 0 /\ r.retries = retries /\ r.item = producer[s].item
      /\ r.connection = Conn(s)
  BY <1>2 DEF Again, Producer, Conn
<1>4. r.foreign = producer[s].foreign
  BY <1>2 DEF Again, Producer
<1>. HIDE DEF r
<1>5. ProducerWithin(r) /\ Clear(r)
  BY <1>3, StreamAssumption DEF ProducerWithin, Clear, InBody
<1> QED BY <1>1, <1>3, <1>4, <1>5 DEF Turns, r

(* The handler of BaseException leaves no request; the loop goes on only   *)
(* where the connection was closed.                                        *)
LEMMA ErrorTurns ==
  ASSUME SInv, NEW s \in Streams, InRequest(s), ProducerWithin(producer[s]),
         NEW retryable \in BOOLEAN
  PROVE  LET p == AfterError(s, retryable)
         IN /\ Turns(s, p) /\ Clear(p)
            /\ p.at \in {"check", "put"} /\ (Handles(s) \/ ~InLoop(p))
<1>1. producer[s] \in Producer /\ RequestFits(producer[s])
  BY StreamFacts DEF StreamFits, Fits
<1>2. CASE s \in stopped \/ producer[s].next = Objects
  BY <1>2, ClosingTurns DEF AfterError
<1>3. CASE ~(s \in stopped \/ producer[s].next = Objects)
           /\ retryable /\ RetriesUsed(s) < Retries
  <2>1. AfterError(s, retryable) = Again(s, RetriesUsed(s) + 1)
    BY <1>3 DEF AfterError
  <2>2. RetriesUsed(s) + 1 \in 0..Retries
    BY <1>1, <1>3, StreamAssumption DEF RetriesUsed, Producer
  <2>3. producer[s].next <= Objects
    BY <1>1, StreamAssumption DEF RequestFits, Producer
  <2>4. Handles(s)
    BY <1>1, <1>3, <2>3, StreamAssumption DEF Handles, Producer
  <2> QED BY <2>1, <2>2, <2>4, AgainTurns
<1>4. CASE ~(s \in stopped \/ producer[s].next = Objects)
           /\ ~(retryable /\ RetriesUsed(s) < Retries)
  BY <1>4, ClosingTurns DEF AfterError
<1> QED BY <1>2, <1>3, <1>4

-----------------------------------------------------------------------------
(* What is known of a producer that is in its loop.                        *)
Busy(p) == p.at \notin {"new", "ended"}

(* Whose body is read on a connection.                                     *)
LEMMA ReaderIs ==
  ASSUME NEW s, NEW r \in BeingRead(s)
  PROVE  link[Conn(s)].user = r /\ link[Conn(s)].state \in {"body", "crossed"}
<1>1. link[Conn(s)] \in BodyOf(r)
  BY DEF BeingRead
<1> QED BY <1>1 DEF BodyOf

LEMMA QuietLink ==
  ASSUME IInv, Connected, NEW s \in Streams, Holding(s), late = {}
  PROVE  /\ LinkFits(s, producer[s], consumer[s].at, link[Conn(s)])
         /\ BeingRead(s) \subseteq {s}
<1>1. LinkFits(s, producer[s], consumer[s].at, link[Conn(s)])
  BY DEF Connected, Quiet, QuietStream
<1>2. link[Conn(s)] \in LinkStates
  <2>1. Conn(s) \in Connections
    BY DEF Connected, Pool
  <2> QED BY <2>1 DEF Connected, Pool
<1>3. BeingRead(s) \subseteq {s}
  <2>1. SUFFICES ASSUME NEW r \in BeingRead(s) PROVE r = s
    OBVIOUS
  <2>2. link[Conn(s)].user = r /\ link[Conn(s)].state \in {"body", "crossed"}
    BY ReaderIs
  <2> QED BY <1>1, <2>2 DEF LinkFits, Closed, NoRequest
<1> QED BY <1>1, <1>3

LEMMA QuietFacts ==
  ASSUME IInv, Connected, NEW s \in Streams, Busy(producer[s]), late = {}
  PROVE  /\ Holding(s) /\ (ConnectionClosed(s) <=> consumer[s].at = "joining")
         /\ LinkFits(s, producer[s], consumer[s].at, link[Conn(s)])
         /\ BeingRead(s) \subseteq {s}
         /\ s \in cut => consumer[s].at = "joining"
<1>1. QuietStream(s) /\ consumer[s] \in Consumer /\ Fits(producer[s], consumer[s], output[s])
  BY StreamFacts DEF IInv, Connected, Quiet, StreamFits
<1>2. Holding(s)
  BY <1>1 DEF Busy, QuietStream, Holding, Consumer, ConsumerSteps, Fits
<1>3. consumer[s].at # "closed"
  BY <1>2 DEF Holding
<1> QED BY <1>1, <1>2, <1>3, QuietLink DEF ConnectionClosed, QuietStream

LEMMA QuietUnread ==
  ASSUME IInv, Connected, NEW s \in Streams, Busy(producer[s]), late = {}, ~InBody(producer[s])
  PROVE  BeingRead(s) = {}
<1>1. LinkFits(s, producer[s], consumer[s].at, link[Conn(s)])
  BY QuietFacts
<1>2. link[Conn(s)].state \notin {"body", "crossed"}
  BY <1>1 DEF LinkFits, Closed, NoRequest
<1> QED BY <1>2, ReaderIs

(* What a step of the producer of s may do: p is the producer afterwards,  *)
(* l its connection, q its queue.                                          *)
ProducerEffect(s, p, l, q) ==
  /\ Busy(producer[s])
  /\ p \in Producer /\ p.connection = Conn(s) /\ p.at # "new" /\ ProducerWithin(p)
  /\ producer' = [producer EXCEPT ![s] = p]
  /\ l \in LinkStates /\ link' = [link EXCEPT ![Conn(s)] = l]
  /\ cut' \subseteq Streams
  /\ late' = late \/ (late' = late \cup {s} /\ s \in stopped)
  /\ p.foreign => producer[s].foreign \/ late \ {s} # {}
  /\ late' = {} => cut' \subseteq cut /\ LinkFits(s, p, consumer[s].at, l)
  /\ q \in Seq(Item) /\ output' = [output EXCEPT ![s] = q] /\ QueueWithin(q)
  /\ (\E i \in 1..Len(q) : q[i].kind = "done") => p.at = "ended"
  /\ UNCHANGED <<free, stopped, consumer>>

LEMMA ProducerKeeps ==
  ASSUME IInv, Connected, NEW s \in Streams, NEW p, NEW l, NEW q, ProducerEffect(s, p, l, q)
  PROVE  Connected'
<1>1. /\ producer \in [Streams -> Producer] /\ output \in [Streams -> Seq(Item)]
      /\ link \in [Connections -> LinkStates] /\ cut \subseteq Streams
      /\ Conn(s) \in Connections
  BY DEF IInv, SInv, StreamTypes, Connected, Pool, ProducerEffect, Busy
<1>2. /\ \A r \in Streams : /\ producer'[r] = IF r = s THEN p ELSE producer[r]
                            /\ output'[r] = IF r = s THEN q ELSE output[r]
      /\ \A c \in Connections : link'[c] = IF c = Conn(s) THEN l ELSE link[c]
  BY <1>1 DEF ProducerEffect
<1>3. /\ UNCHANGED <<free, stopped, consumer>> /\ p.connection = Conn(s)
      /\ producer[s].at \notin {"new", "ended"} /\ p.at # "new"
  BY DEF ProducerEffect, Busy
<1>4. \A r \in Streams : Conn(r)' = Conn(r) /\ Holding(r)' = Holding(r)
  BY <1>2, <1>3 DEF Conn, Holding
<1>5. Pool'
  <2>1. link' \in [Connections -> LinkStates] /\ cut' \subseteq Streams
    BY <1>1 DEF ProducerEffect, BeingRead
  <2>2. \A r \in Streams : producer'[r].at # "new" <=> producer[r].at # "new"
    BY <1>2, <1>3
  <2> QED BY <1>3, <1>4, <2>1, <2>2 DEF Connected, Pool
<1>6. ASSUME NEW r \in Streams PROVE Within(r)' /\ EndIsLast(r)' /\ Warned(r)'
  <2>1. Within(r) /\ EndIsLast(r) /\ Warned(r) /\ Warned(s)
    BY DEF Connected
  <2>2. Within(r)'
    BY <1>2, <1>3, <2>1 DEF Within, ProducerEffect
  <2>3. EndIsLast(r)'
    BY <1>2, <1>3, <2>1 DEF EndIsLast, ProducerEffect
  <2>4. Warned(r)'
    BY <1>2, <1>3, <2>1 DEF Warned, ProducerEffect
  <2> QED BY <2>2, <2>3, <2>4
<1>7. Quiet'
  <2>. SUFFICES ASSUME late' = {}
                PROVE  /\ \A c \in free' : link'[c].state \in NoRequest
                       /\ \A r \in Streams : QuietStream(r)'
    BY DEF Quiet
  <2>1. late = {}
    BY DEF ProducerEffect
  <2>2. Holding(s)
    BY <2>1, QuietFacts DEF ProducerEffect
  <2>3. ASSUME NEW c \in free' PROVE link'[c].state \in NoRequest
    <3>1. c # Conn(s) /\ c \in Connections /\ link[c].state \in NoRequest
      BY <1>3, <2>1, <2>2, <2>3 DEF Connected, Pool, Quiet
    <3> QED BY <1>2, <3>1
  <2>4. ASSUME NEW r \in Streams PROVE QuietStream(r)'
    <3>1. QuietStream(r)
      BY <2>1 DEF Connected, Quiet
    <3>2. CASE r = s
      <4>1. Conn(s)' = Conn(s)
        BY <1>4
      <4>2. link'[Conn(s)] = l /\ producer'[s] = p /\ consumer[s].at # "closed"
        BY <1>1, <1>2, <2>2 DEF Holding
      <4>3. LinkFits(s, p, consumer[s].at, l) /\ cut' \subseteq cut
        BY DEF ProducerEffect
      <4> QED BY <1>3, <3>1, <3>2, <4>1, <4>2, <4>3 DEF QuietStream
    <3>3. CASE r # s
      <4>1. producer'[r] = producer[r] /\ Conn(r)' = Conn(r) /\ cut' \subseteq cut
        BY <1>2, <1>4, <3>3 DEF ProducerEffect
      <4>2. Holding(r) => link'[Conn(r)] = link[Conn(r)]
        BY <1>2, <2>2, <3>3 DEF Connected, Pool, Holding
      <4> QED BY <1>3, <1>4, <3>1, <4>1, <4>2 DEF QuietStream
    <3> QED BY <3>2, <3>3
  <2> QED BY <2>3, <2>4
<1> QED BY <1>3, <1>5, <1>6, <1>7 DEF Connected

(* A step of a producer that puts nothing into the queue.                  *)
LEMMA ProducerGoesOn ==
  ASSUME IInv, Connected, NEW s \in Streams, Busy(producer[s]),
         NEW p \in Producer, producer' = [producer EXCEPT ![s] = p],
         p.connection = Conn(s), p.at # "new", ProducerWithin(p),
         NEW l \in LinkStates, link' = [link EXCEPT ![Conn(s)] = l], cut' \subseteq Streams,
         late' = late \/ (late' = late \cup {s} /\ s \in stopped),
         p.foreign => producer[s].foreign \/ late \ {s} # {},
         late' = {} => cut' \subseteq cut /\ LinkFits(s, p, consumer[s].at, l),
         UNCHANGED <<free, output, stopped, consumer>>
  PROVE  Connected'
<1>1. output[s] \in Seq(Item) /\ output \in [Streams -> Seq(Item)]
  BY StreamFacts DEF IInv, SInv, StreamTypes
<1>2. QueueWithin(output[s]) /\ EndIsLast(s)
  BY DEF Connected, Within
<1>3. ProducerEffect(s, p, l, output[s])
  BY <1>1, <1>2 DEF ProducerEffect, Busy, EndIsLast
<1> QED BY <1>3, ProducerKeeps

(* What every step of a producer finds.                                    *)
LEMMA ProducerFinds ==
  ASSUME IInv, Connected, NEW s \in Streams, Busy(producer[s])
  PROVE  /\ SInv /\ producer[s] \in Producer /\ RequestFits(producer[s])
         /\ ProducerWithin(producer[s]) /\ Warned(s) /\ cut \subseteq Streams
         /\ Conn(s) \in Connections /\ link \in [Connections -> LinkStates]
         /\ link[Conn(s)] \in LinkStates /\ link = [link EXCEPT ![Conn(s)] = link[Conn(s)]]
         /\ BeingRead(s) \subseteq Streams
         /\ Closed \in LinkStates /\ Idle \in LinkStates
         /\ \A st \in {"sent", "body"} : [user |-> s, state |-> st] \in LinkStates
<1>1. SInv /\ producer[s] \in Producer /\ RequestFits(producer[s])
  BY StreamFacts DEF IInv, StreamFits, Fits
<1>2. ProducerWithin(producer[s]) /\ Warned(s)
  BY DEF Connected, Within
<1>3. cut \subseteq Streams /\ Conn(s) \in Connections /\ link \in [Connections -> LinkStates]
  BY DEF Connected, Pool, Busy
<1>4. BeingRead(s) \subseteq Streams
  BY DEF BeingRead
<1>5. Closed \in LinkStates /\ Idle \in LinkStates
      /\ \A st \in {"sent", "body"} : [user |-> s, state |-> st] \in LinkStates
  BY DEF Closed, Idle, LinkStates
<1> QED BY <1>1, <1>2, <1>3, <1>4, <1>5

LEMMA NotedIs ==
  ASSUME IInv, Connected, NEW s \in Streams, Busy(producer[s])
  PROVE  Noted(s) \in LinkStates
<1>1. link[Conn(s)] \in LinkStates /\ [user |-> s, state |-> "sent"] \in LinkStates
  BY ProducerFinds
<1> QED BY <1>1 DEF Noted, LinkStates

LEMMA CheckConnects ==
  ASSUME IInv, Connected, NEW s \in Streams, Check(s)
  PROVE  Connected'
<1>1. producer[s].at = "check" /\ UNCHANGED <<free, link, cut, output, stopped, consumer, late>>
  BY DEF Check
<1>2. Busy(producer[s]) /\ Clear(producer[s]) /\ InLoop(producer[s])
  BY <1>1 DEF Busy, Clear, InBody, InLoop
<1>. DEFINE l == link[Conn(s)]
<1>3. late = {} => l.state \in NoRequest
  BY <1>2, QuietFacts DEF LinkFits, Clear
<1>4. ASSUME NEW p \in Producer, producer' = [producer EXCEPT ![s] = p], p.connection = Conn(s),
             p.at # "new", ProducerWithin(p), Clear(p), p.foreign = producer[s].foreign
      PROVE  Connected'
  <2>1. late' = {} => cut' \subseteq cut /\ LinkFits(s, p, consumer[s].at, l)
    BY <1>1, <1>3, <1>4 DEF LinkFits, Clear
  <2>2. l \in LinkStates /\ link' = [link EXCEPT ![Conn(s)] = l] /\ cut' \subseteq Streams
    BY <1>1, <1>2, ProducerFinds
  <2>. HIDE DEF l
  <2> QED BY <1>1, <1>2, <1>4, <2>1, <2>2, ProducerGoesOn
<1>5. producer[s] \in Producer /\ ProducerWithin(producer[s]) /\ RequestFits(producer[s]) /\ SInv
  BY <1>2, ProducerFinds
<1>6. CASE producer[s].next < Objects /\ s \notin stopped
  <2>1. PICK n \in {m \in 1..RequestSize : producer[s].next + m <= Objects} :
          producer' = [producer EXCEPT ![s] = [producer[s] EXCEPT !.at = "request", !.asked = n]]
    BY <1>6 DEF Check
  <2>. DEFINE p == [producer[s] EXCEPT !.at = "request", !.asked = n]
  <2>2. n \in Nat /\ n > 0 /\ n <= RequestSize
    BY <2>1, StreamAssumption
  <2>3. p \in Producer /\ p.at = "request" /\ p.asked = n /\ p.back = 0 /\ p.item = producer[s].item
        /\ p.connection = Conn(s) /\ p.retries = producer[s].retries
    BY <1>1, <1>5, <2>2 DEF Producer, ProducerSteps, RequestFits, Conn
  <2>4. p.foreign = producer[s].foreign
    BY <1>5 DEF Producer
  <2>. HIDE DEF p
  <2>5. ProducerWithin(p) /\ Clear(p)
    BY <1>5, <2>2, <2>3 DEF ProducerWithin, Clear, InBody
  <2> QED BY <1>4, <2>1, <2>3, <2>4, <2>5 DEF p
<1>7. CASE ~(producer[s].next < Objects /\ s \notin stopped)
  <2>. DEFINE p == Closing(s, "put", Done)
  <2>1. Turns(s, p) /\ Clear(p) /\ producer' = [producer EXCEPT ![s] = p]
    BY <1>5, <1>7, ClosingTurns DEF Check
  <2>. HIDE DEF p
  <2> QED BY <1>4, <2>1 DEF Turns
<1> QED BY <1>6, <1>7

LEMMA SendConnects ==
  ASSUME IInv, Connected, NEW s \in Streams, Send(s)
  PROVE  Connected'
<1>1. producer[s].at = "request" /\ UNCHANGED <<free, cut, output, stopped, consumer>>
  BY DEF Send
<1>2. Busy(producer[s])
  BY <1>1 DEF Busy
<1>3. producer[s] \in Producer /\ ProducerWithin(producer[s]) /\ Warned(s)
  BY <1>2, ProducerFinds
<1>. DEFINE p == [producer[s] EXCEPT !.at = "answer"]
            l == [user |-> s, state |-> "sent"]
<1>4. producer' = [producer EXCEPT ![s] = p] /\ link' = [link EXCEPT ![Conn(s)] = l]
  BY DEF Send
<1>5. p \in Producer /\ p.at = "answer" /\ p.asked = producer[s].asked /\ p.back = producer[s].back
      /\ p.item = producer[s].item /\ p.connection = Conn(s) /\ p.retries = producer[s].retries
  BY <1>3 DEF Producer, ProducerSteps, Conn
<1>6. p.foreign = producer[s].foreign
  BY <1>3 DEF Producer
<1>7. l \in LinkStates /\ cut' \subseteq Streams
  BY <1>1, <1>2, ProducerFinds
<1>. HIDE DEF p
<1>8. ProducerWithin(p) /\ ~InBody(p)
  BY <1>1, <1>3, <1>5 DEF ProducerWithin, InBody
<1>9. late' = late \/ (late' = late \cup {s} /\ s \in stopped)
  BY <1>3 DEF Send, ConnectionClosed, Warned
<1>10. late' = {} => cut' \subseteq cut /\ LinkFits(s, p, consumer[s].at, l)
  <2>1. late' = {} => consumer[s].at # "joining"
    BY DEF Send, ConnectionClosed
  <2> QED BY <1>1, <1>5, <1>8, <2>1 DEF LinkFits
<1>. HIDE DEF l
<1> QED BY <1>1, <1>2, <1>4, <1>5, <1>6, <1>7, <1>8, <1>9, <1>10, ProducerGoesOn

LEMMA SendAgainConnects ==
  ASSUME IInv, Connected, NEW s \in Streams, SendAgain(s)
  PROVE  Connected'
<1>1. producer[s].at \in {"request", "answer"}
      /\ UNCHANGED <<free, output, stopped, consumer, late>>
  BY DEF SendAgain, Asking
<1>2. Busy(producer[s])
  BY <1>1 DEF Busy
<1>3. producer[s] \in Producer /\ ProducerWithin(producer[s])
  BY <1>2, ProducerFinds
<1>. DEFINE p == [producer[s] EXCEPT !.at = "request", !.resent = TRUE]
<1>4. producer' = [producer EXCEPT ![s] = p] /\ link' = [link EXCEPT ![Conn(s)] = Closed]
  BY DEF SendAgain, CloseLink
<1>5. p \in Producer /\ p.at = "request" /\ p.asked = producer[s].asked /\ p.back = producer[s].back
      /\ p.item = producer[s].item /\ p.connection = Conn(s) /\ p.retries = producer[s].retries
  BY <1>3 DEF Producer, ProducerSteps, Conn
<1>6. p.foreign = producer[s].foreign
  BY <1>3 DEF Producer
<1>. HIDE DEF p
<1>7. Closed \in LinkStates /\ cut' \subseteq Streams
  BY <1>1, <1>2, ProducerFinds DEF SendAgain, CloseLink
<1>8. ProducerWithin(p) /\ Clear(p)
  BY <1>1, <1>3, <1>5 DEF ProducerWithin, Clear, InBody
<1>9. late' = {} => cut' \subseteq cut /\ LinkFits(s, p, consumer[s].at, Closed)
  <2>1. late = {} => BeingRead(s) = {}
    BY <1>1, <1>2, QuietUnread DEF InBody
  <2> QED BY <1>1, <1>8, <2>1 DEF LinkFits, Clear, Closed, NoRequest, SendAgain, CloseLink
<1> QED BY <1>1, <1>2, <1>4, <1>5, <1>6, <1>7, <1>8, <1>9, ProducerGoesOn

LEMMA AnswerConnects ==
  ASSUME IInv, Connected, NEW s \in Streams, AnswerBegins(s)
  PROVE  Connected'
<1>1. producer[s].at = "answer" /\ UNCHANGED <<free, cut, output, stopped, consumer, late>>
  BY DEF AnswerBegins
<1>2. Busy(producer[s])
  BY <1>1 DEF Busy
<1>3. producer[s] \in Producer /\ ProducerWithin(producer[s]) /\ link[Conn(s)] \in LinkStates
      /\ Conn(s) \in Connections /\ link \in [Connections -> LinkStates]
  BY <1>2, ProducerFinds
<1>. DEFINE p == [producer[s] EXCEPT !.at = "body", !.resent = FALSE]
            o == link[Conn(s)]
            l == IF Attached(s) THEN [o EXCEPT !.state = "body"] ELSE o
<1>4. producer' = [producer EXCEPT ![s] = p] /\ link' = [link EXCEPT ![Conn(s)] = l]
  BY <1>2, ProducerFinds DEF AnswerBegins
<1>5. p \in Producer /\ p.at = "body" /\ p.asked = producer[s].asked /\ p.back = producer[s].back
      /\ p.item = producer[s].item /\ p.connection = Conn(s) /\ p.retries = producer[s].retries
  BY <1>3 DEF Producer, ProducerSteps, Conn
<1>6. p.foreign = producer[s].foreign
  BY <1>3 DEF Producer
<1>. HIDE DEF p
<1>7. l \in LinkStates /\ cut' \subseteq Streams
  BY <1>1, <1>2, <1>3, ProducerFinds DEF LinkStates
<1>8. ProducerWithin(p) /\ InBody(p)
  BY <1>1, <1>3, <1>5 DEF ProducerWithin, InBody
<1>9. late' = {} => cut' \subseteq cut /\ LinkFits(s, p, consumer[s].at, l)
  <2>. SUFFICES ASSUME late = {} PROVE LinkFits(s, p, consumer[s].at, l)
    BY <1>1
  <2>1. o = IF consumer[s].at = "joining" THEN Closed ELSE [user |-> s, state |-> "sent"]
    BY <1>1, <1>2, QuietFacts DEF LinkFits
  <2>2. l = IF consumer[s].at = "joining" THEN Closed ELSE [user |-> s, state |-> "body"]
    <3>1. CASE consumer[s].at = "joining"
      <4>1. ~Attached(s)
        BY <2>1, <3>1, StreamAssumption DEF Attached, Closed
      <4> QED BY <2>1, <3>1, <4>1
    <3>2. CASE consumer[s].at # "joining"
      BY <2>1, <3>2 DEF Attached
    <3> QED BY <3>1, <3>2
  <2> QED BY <1>5, <1>8, <2>2 DEF LinkFits
<1>. HIDE DEF l
<1> QED BY <1>1, <1>2, <1>4, <1>5, <1>6, <1>7, <1>8, <1>9, ProducerGoesOn

LEMMA ReceiveConnects ==
  ASSUME IInv, Connected, NEW s \in Streams, Receive(s)
  PROVE  Connected'
<1>1. producer[s].at = "body" /\ producer[s].back < producer[s].asked
      /\ UNCHANGED <<free, link, cut, output, stopped, consumer, late>>
  BY DEF Receive, Reading
<1>2. Busy(producer[s]) /\ InBody(producer[s])
  BY <1>1 DEF Busy, InBody
<1>3. producer[s] \in Producer /\ ProducerWithin(producer[s]) /\ RequestFits(producer[s])
  BY <1>2, ProducerFinds
<1>. DEFINE i == [kind |-> "object", object |-> producer[s].next + 1]
            p == [producer[s] EXCEPT !.at = "put", !.item = i]
            l == link[Conn(s)]
<1>4. producer' = [producer EXCEPT ![s] = p]
  BY DEF Receive
<1>5. i \in Item /\ i.kind = "object" /\ i.object \in 1..Objects
  <2>1. producer[s].next + 1 \in 1..Objects
    BY <1>1, <1>3, StreamAssumption DEF RequestFits, Producer
  <2> QED BY <2>1 DEF Item
<1>. HIDE DEF i
<1>6. p \in Producer /\ p.at = "put" /\ p.asked = producer[s].asked /\ p.back = producer[s].back
      /\ p.item = i /\ p.connection = Conn(s) /\ p.retries = producer[s].retries
  BY <1>3, <1>5 DEF Producer, ProducerSteps, Conn
<1>7. p.foreign = producer[s].foreign
  BY <1>3, <1>5 DEF Producer
<1>. HIDE DEF p
<1>8. ProducerWithin(p) /\ InBody(p)
  BY <1>3, <1>5, <1>6 DEF ProducerWithin, InBody
<1>9. l \in LinkStates /\ link' = [link EXCEPT ![Conn(s)] = l] /\ cut' \subseteq Streams
  BY <1>1, <1>2, ProducerFinds
<1>10. late' = {} => cut' \subseteq cut /\ LinkFits(s, p, consumer[s].at, l)
  BY <1>1, <1>2, <1>6, <1>8, QuietFacts DEF LinkFits
<1>. HIDE DEF l
<1> QED BY <1>1, <1>2, <1>4, <1>6, <1>7, <1>8, <1>9, <1>10, ProducerGoesOn

LEMMA EndConnects ==
  ASSUME IInv, Connected, NEW s \in Streams, EndOfBody(s) \/ Refused(s)
  PROVE  Connected'
<1>1. producer[s].at \in {"answer", "body"}
      /\ UNCHANGED <<free, cut, output, stopped, consumer, late>>
  BY DEF EndOfBody, Reading, Refused
<1>2. Busy(producer[s]) /\ InRequest(s)
  BY <1>1 DEF Busy, InRequest, InLoop
<1>3. SInv /\ ProducerWithin(producer[s]) /\ link[Conn(s)] \in LinkStates
      /\ Conn(s) \in Connections /\ link \in [Connections -> LinkStates]
  BY <1>2, ProducerFinds
<1>. DEFINE o == link[Conn(s)]
            l == IF ~Attached(s) THEN o
                 ELSE IF producer[s].at = "body" THEN AfterBody(o) ELSE Idle
<1>4. link' = [link EXCEPT ![Conn(s)] = l]
  <2>1. CASE EndOfBody(s)
    BY <1>2, <2>1, ProducerFinds DEF EndOfBody, Reading
  <2>2. CASE Refused(s)
    BY <1>2, <2>2, ProducerFinds DEF Refused
  <2> QED BY <2>1, <2>2
<1>5. \E p : Turns(s, p) /\ Clear(p) /\ producer' = [producer EXCEPT ![s] = p]
  <2>1. CASE EndOfBody(s)
    <3>. DEFINE p == Again(s, 0)
    <3>1. 0 \in 0..Retries
      BY StreamAssumption
    <3>2. Turns(s, p) /\ Clear(p)
      BY <1>2, <1>3, <3>1, AgainTurns
    <3>3. producer' = [producer EXCEPT ![s] = p]
      BY <2>1 DEF EndOfBody
    <3>. HIDE DEF p
    <3> QED BY <3>2, <3>3
  <2>2. CASE Refused(s)
    <3>. DEFINE p == AfterError(s, FALSE)
    <3>1. Turns(s, p) /\ Clear(p)
      BY <1>2, <1>3, ErrorTurns
    <3>2. producer' = [producer EXCEPT ![s] = p]
      BY <2>2 DEF Refused
    <3>. HIDE DEF p
    <3> QED BY <3>1, <3>2
  <2> QED BY <2>1, <2>2
<1>6. PICK p : Turns(s, p) /\ Clear(p) /\ producer' = [producer EXCEPT ![s] = p]
  BY <1>5
<1>7. l \in LinkStates /\ cut' \subseteq Streams
  <2>1. AfterBody(o) \in LinkStates
    BY <1>3 DEF AfterBody, Idle, LinkStates
  <2> QED BY <1>1, <1>2, <2>1, ProducerFinds
<1>8. late' = {} => cut' \subseteq cut /\ LinkFits(s, p, consumer[s].at, l)
  <2>. SUFFICES ASSUME late = {} PROVE LinkFits(s, p, consumer[s].at, l)
    BY <1>1
  <2>1. o \in {Closed, [user |-> s, state |-> "sent"], [user |-> s, state |-> "body"]}
    <3>1. LinkFits(s, producer[s], consumer[s].at, o)
      BY <1>2, QuietFacts
    <3> QED BY <1>1, <3>1 DEF LinkFits, InBody
  <2>2. l.state \in NoRequest
    <3>1. ~Attached(s) => o = Closed
      BY <2>1 DEF Attached
    <3>2. o.state # "crossed"
      BY <2>1 DEF Closed
    <3> QED BY <3>1, <3>2 DEF AfterBody, Closed, Idle, NoRequest
  <2> QED BY <1>6, <2>2 DEF LinkFits, Clear
<1>. HIDE DEF l
<1> QED BY <1>1, <1>2, <1>4, <1>6, <1>7, <1>8, ProducerGoesOn DEF Turns

LEMMA NoAnswerConnects ==
  ASSUME IInv, Connected, NEW s \in Streams, NoAnswer(s)
  PROVE  Connected'
<1>1. producer[s].at \in {"request", "answer"} /\ UNCHANGED <<free, output, stopped, consumer>>
  BY DEF NoAnswer, Asking
<1>2. Busy(producer[s]) /\ InRequest(s) /\ ~InBody(producer[s]) /\ InLoop(producer[s])
  BY <1>1 DEF Busy, InRequest, InLoop, InBody
<1>3. SInv /\ ProducerWithin(producer[s]) /\ Warned(s) /\ RequestFits(producer[s])
      /\ producer[s] \in Producer
  BY <1>2, ProducerFinds
<1>. DEFINE p == AfterError(s, TRUE)
            o == link[Conn(s)]
<1>4. Turns(s, p) /\ Clear(p) /\ (Handles(s) \/ ~InLoop(p))
  BY <1>2, <1>3, ErrorTurns
<1>5. producer' = [producer EXCEPT ![s] = p]
  BY DEF NoAnswer
<1>. HIDE DEF p
<1>6. late' = late \/ (late' = late \cup {s} /\ s \in stopped)
  BY <1>3 DEF NoAnswer, ConnectionClosed, Warned
<1>7. CASE Handles(s)
  <2>1. link' = [link EXCEPT ![Conn(s)] = Closed] /\ cut' = cut \cup BeingRead(s)
    BY <1>7 DEF NoAnswer, CloseLink
  <2>2. cut' \subseteq Streams /\ Closed \in LinkStates
    BY <1>2, <2>1, ProducerFinds
  <2>3. late' = {} => cut' \subseteq cut /\ LinkFits(s, p, consumer[s].at, Closed)
    BY <1>2, <1>4, <1>6, <2>1, QuietUnread DEF LinkFits, Clear, Closed, NoRequest
  <2> QED BY <1>1, <1>2, <1>4, <1>5, <1>6, <2>1, <2>2, <2>3, ProducerGoesOn DEF Turns
<1>8. CASE ~Handles(s)
  <2>1. s \in stopped
    <3>1. producer[s].next < Objects
      BY <1>1, <1>3, StreamAssumption DEF ProducerWithin, RequestFits, Producer
    <3> QED BY <1>8, <3>1 DEF Handles
  <2>. DEFINE sent == [user |-> s, state |-> "sent"]
              l == IF producer[s].at = "request" THEN Noted(s) ELSE o
  <2>2. link' = [link EXCEPT ![Conn(s)] = l] /\ cut' = cut
    BY <1>2, <1>8, ProducerFinds DEF NoAnswer
  <2>3. l \in LinkStates /\ cut' \subseteq Streams
    BY <1>2, <2>2, ProducerFinds, NotedIs
  <2>4. ASSUME late' = {} PROVE LinkFits(s, p, consumer[s].at, l)
    <3>1. late = {} /\ (producer[s].at = "request" => ~ConnectionClosed(s))
      BY <2>4 DEF NoAnswer
    <3>2. /\ Holding(s) /\ (ConnectionClosed(s) <=> consumer[s].at = "joining")
          /\ LinkFits(s, producer[s], consumer[s].at, o)
      BY <1>2, <3>1, QuietFacts
    <3>3. consumer[s].at \in {"closing", "joining"}
      BY <1>3, <2>1, <3>2 DEF Warned, Holding
    <3>4. producer[s].at = "request" => o.state \in NoRequest
      BY <1>2, <3>2 DEF LinkFits
    <3>5. producer[s].at = "request" => Noted(s) = sent
      BY <3>4 DEF Noted, NoRequest
    <3>6. \/ consumer[s].at = "closing" /\ l = sent
          \/ l = Closed
      BY <1>1, <3>1, <3>2, <3>3, <3>5 DEF LinkFits
    <3> QED BY <1>4, <1>8, <3>6 DEF LinkFits, Clear, Closed, NoRequest
  <2>. HIDE DEF l
  <2> QED BY <1>1, <1>2, <1>4, <1>5, <1>6, <2>2, <2>3, <2>4, ProducerGoesOn DEF Turns
<1> QED BY <1>7, <1>8

(* The mark of an error that was not its own changes nothing else.         *)
LEMMA ForeignTurns ==
  ASSUME NEW s \in Streams, NEW e, Turns(s, e), NEW f \in BOOLEAN
  PROVE  LET p == [e EXCEPT !.foreign = f]
         IN /\ p \in Producer /\ p.connection = Conn(s) /\ p.at # "new" /\ ProducerWithin(p)
            /\ p.foreign = f
            /\ Clear(e) => Clear(p)
<1>. DEFINE p == [e EXCEPT !.foreign = f]
<1>1. /\ p \in Producer /\ p.at = e.at /\ p.asked = e.asked /\ p.back = e.back
      /\ p.retries = e.retries /\ p.item = e.item /\ p.connection = e.connection
  BY DEF Turns, Producer
<1>2. p.foreign = f
  BY DEF Turns, Producer
<1>. HIDE DEF p
<1>3. ProducerWithin(p) /\ (Clear(e) => Clear(p))
  BY <1>1 DEF Turns, ProducerWithin, Clear, InBody
<1> QED BY <1>1, <1>2, <1>3 DEF Turns, p

LEMMA BusyConnects ==
  ASSUME IInv, Connected, NEW s \in Streams, FindsItBusy(s)
  PROVE  Connected'
<1>1. producer[s].at = "request" /\ UNCHANGED <<free, cut, output, stopped, consumer, late>>
      /\ link[Conn(s)].state \in {"sent", "body", "crossed"}
  BY DEF FindsItBusy
<1>2. Busy(producer[s]) /\ InRequest(s) /\ Clear(producer[s]) /\ InLoop(producer[s])
  BY <1>1 DEF Busy, InRequest, InLoop, InBody, Clear
<1>3. SInv /\ ProducerWithin(producer[s]) /\ Warned(s) /\ producer[s] \in Producer
  BY <1>2, ProducerFinds
<1>4. late # {}
  <2>1. ASSUME late = {} PROVE FALSE
    <3>1. link[Conn(s)].state \in NoRequest
      BY <1>2, <2>1, QuietFacts DEF LinkFits, Clear
    <3> QED BY <1>1, <3>1 DEF NoRequest
  <2> QED BY <2>1
<1>. DEFINE e == AfterError(s, FALSE)
            f == s \notin stopped \/ e.foreign
            p == [e EXCEPT !.foreign = f]
            o == link[Conn(s)]
            l == IF o.state = "body" THEN Noted(s) ELSE o
<1>5. Turns(s, e)
  BY <1>2, <1>3, ErrorTurns
<1>6. producer' = [producer EXCEPT ![s] = p]
  BY DEF FindsItBusy
<1>. HIDE DEF e
<1>7. f \in BOOLEAN /\ (f => producer[s].foreign \/ late \ {s} # {})
  BY <1>3, <1>4, <1>5 DEF Turns, Producer, Warned
<1>. HIDE DEF f
<1>8. /\ p \in Producer /\ p.connection = Conn(s) /\ p.at # "new"
      /\ ProducerWithin(p) /\ p.foreign = f
  BY <1>5, <1>7, ForeignTurns
<1>9. l \in LinkStates /\ link' = [link EXCEPT ![Conn(s)] = l] /\ cut' \subseteq Streams
  BY <1>1, <1>2, ProducerFinds, NotedIs DEF FindsItBusy
<1>. HIDE DEF p, l
<1> QED BY <1>1, <1>2, <1>4, <1>6, <1>7, <1>8, <1>9, ProducerGoesOn

LEMMA BodyFailsConnects ==
  ASSUME IInv, Connected, NEW s \in Streams, InBody(producer[s]), 
         NEW retryable \in BOOLEAN, NEW f \in BOOLEAN, BodyFails(s, retryable, f),
         f => s \in cut /\ s \notin stopped
  PROVE  Connected'
<1>1. UNCHANGED <<free, output, stopped, consumer, late>>
  BY DEF BodyFails
<1>2. Busy(producer[s]) /\ InRequest(s)
  BY DEF Busy, InRequest, InLoop, InBody
<1>3. SInv /\ ProducerWithin(producer[s]) /\ Warned(s) /\ producer[s] \in Producer
  BY <1>2, ProducerFinds
<1>. DEFINE e == AfterError(s, retryable)
            g == f \/ e.foreign
            p == [e EXCEPT !.foreign = g]
<1>4. Turns(s, e) /\ Clear(e)
  BY <1>2, <1>3, ErrorTurns
<1>5. producer' = [producer EXCEPT ![s] = p]
  BY DEF BodyFails
<1>. HIDE DEF e
<1>6. f => late # {}
  BY <1>2, <1>3, QuietFacts DEF Warned
<1>7. g \in BOOLEAN /\ (g => producer[s].foreign \/ late \ {s} # {})
  BY <1>3, <1>4, <1>6 DEF Turns, Producer, Warned
<1>. HIDE DEF g
<1>8. p \in Producer /\ p.connection = Conn(s) /\ p.at # "new" /\ ProducerWithin(p)
      /\ p.foreign = g /\ Clear(p)
  BY <1>4, <1>7, ForeignTurns
<1>. HIDE DEF p
<1>9. link' = [link EXCEPT ![Conn(s)] = Closed] /\ Closed \in LinkStates /\ cut' \subseteq Streams
  BY <1>2, ProducerFinds DEF BodyFails
<1>10. late' = {} => cut' \subseteq cut /\ LinkFits(s, p, consumer[s].at, Closed)
  BY <1>1, <1>2, <1>8, QuietFacts DEF LinkFits, Clear, Closed, NoRequest, BodyFails
<1> QED BY <1>1, <1>2, <1>5, <1>7, <1>8, <1>9, <1>10, ProducerGoesOn

(* What a producer becomes that has put its item, or given it up: one that *)
(* put an object goes on in the body, any other has no request.            *)
LEMMA AfterPutTurns ==
  ASSUME IInv, Connected, NEW s \in Streams, producer[s].at = "put"
  PROVE  LET p == AfterPut(s)
         IN /\ Turns(s, p)
            /\ producer[s].item.kind = "object" => InBody(p) /\ p.at = "body"
            /\ producer[s].item.kind # "object" => Clear(p) /\ ~InLoop(p)
            /\ producer[s].item.kind = "done" => p.at = "ended"
<1>1. SInv /\ producer[s] \in Producer /\ ProducerWithin(producer[s])
  BY ProducerFinds DEF Busy
<1>2. producer[s].item.kind \in {"object", "error", "done"}
  BY <1>1 DEF Producer, Item
<1>3. CASE producer[s].item.kind = "object"
  <2>. DEFINE n == producer[s].next + 1
              b == producer[s].back + 1
              p == [producer[s] EXCEPT !.at = "body", !.next = n, !.back = b, !.item = Done]
  <2>1. AfterPut(s) = p /\ n \in Nat /\ b \in Nat
    BY <1>1, <1>3 DEF AfterPut, Producer
  <2>. HIDE DEF n, b
  <2>2. Done \in Item /\ Done.kind = "done"
    BY DEF Done, Item
  <2>3. p \in Producer /\ p.at = "body" /\ p.item = Done /\ p.asked = producer[s].asked
        /\ p.retries = producer[s].retries /\ p.connection = Conn(s)
    BY <1>1, <2>1, <2>2 DEF Producer, ProducerSteps, Conn
  <2>4. p.foreign = producer[s].foreign
    BY <1>1, <2>1 DEF Producer
  <2>. HIDE DEF p
  <2>5. ProducerWithin(p) /\ InBody(p)
    BY <1>1, <2>2, <2>3 DEF ProducerWithin, InBody
  <2> QED BY <1>3, <2>1, <2>3, <2>4, <2>5 DEF Turns
<1>4. CASE producer[s].item.kind = "error"
  <2>1. AfterPut(s) = Closing(s, "put", Done)
    BY <1>4 DEF AfterPut
  <2> QED BY <1>1, <1>4, <2>1, ClosingTurns
<1>5. CASE producer[s].item.kind = "done"
  <2>1. AfterPut(s) = Closing(s, "ended", Done)
    BY <1>5 DEF AfterPut
  <2> QED BY <1>1, <1>5, <2>1, ClosingTurns
<1> QED BY <1>2, <1>3, <1>4, <1>5

(* The connection fits it still. *)
LEMMA AfterPutFits ==
  ASSUME IInv, Connected, NEW s \in Streams, producer[s].at = "put", late = {}
  PROVE  LinkFits(s, AfterPut(s), consumer[s].at, link[Conn(s)])
<1>. DEFINE p == AfterPut(s)
<1>1. LinkFits(s, producer[s], consumer[s].at, link[Conn(s)])
  BY QuietFacts DEF Busy
<1>2. /\ producer[s].item.kind = "object" => InBody(p) /\ p.at = "body"
      /\ producer[s].item.kind # "object" => Clear(p) /\ ~InLoop(p)
  BY AfterPutTurns
<1>. HIDE DEF p
<1>3. LinkFits(s, p, consumer[s].at, link[Conn(s)])
  BY <1>1, <1>2 DEF LinkFits, Clear, InBody, InLoop
<1> QED BY <1>3 DEF p

LEMMA PutConnects ==
  ASSUME IInv, Connected, NEW s \in Streams, Put(s) \/ GiveUpItem(s)
  PROVE  Connected'
<1>. DEFINE p == AfterPut(s)
            l == link[Conn(s)]
            i == producer[s].item
            q == Append(output[s], i)
<1>1. producer[s].at = "put" /\ UNCHANGED <<free, link, cut, stopped, consumer, late>>
      /\ producer' = [producer EXCEPT ![s] = p]
  BY DEF Put, GiveUpItem, PutRefused
<1>2. Busy(producer[s])
  BY <1>1 DEF Busy
<1>3. /\ Turns(s, p)
      /\ i.kind = "done" => p.at = "ended"
  BY <1>1, AfterPutTurns
<1>4. late' = {} => cut' \subseteq cut /\ LinkFits(s, p, consumer[s].at, l)
  BY <1>1, AfterPutFits
<1>. HIDE DEF p
<1>5. l \in LinkStates /\ link' = [link EXCEPT ![Conn(s)] = l] /\ cut' \subseteq Streams
  BY <1>1, <1>2, ProducerFinds
<1>. HIDE DEF l
<1>6. CASE GiveUpItem(s)
  BY <1>1, <1>2, <1>3, <1>4, <1>5, <1>6, ProducerGoesOn DEF Turns, GiveUpItem
<1>7. CASE Put(s)
  <2>1. producer[s] \in Producer /\ ProducerWithin(producer[s])
    BY <1>2, ProducerFinds
  <2>2. output[s] \in Seq(Item) /\ Len(output[s]) \in Nat /\ i \in Item
    BY <2>1, StreamFacts DEF IInv, Producer
  <2>3. /\ q \in Seq(Item) /\ Len(q) = Len(output[s]) + 1 /\ q[Len(output[s]) + 1] = i
        /\ \A k \in 1..Len(output[s]) : q[k] = output[s][k]
    BY <2>2, AppendProperties
  <2>4. output' = [output EXCEPT ![s] = q] /\ Len(output[s]) < QueueParts
    BY <1>7 DEF Put, HasRoom
  <2>. HIDE DEF q
  <2>5. QueueWithin(output[s]) /\ EndIsLast(s)
    BY DEF Connected, Within
  <2>6. \A k \in 1..Len(q) : k \in 1..Len(output[s]) \/ k = Len(output[s]) + 1
    BY <2>2, <2>3
  <2>7. QueueWithin(q)
    <3>1. Len(q) <= QueueParts
      BY <2>2, <2>3, <2>4, StreamAssumption
    <3> QED BY <2>1, <2>3, <2>5, <2>6, <3>1 DEF QueueWithin, ProducerWithin
  <2>8. (\E k \in 1..Len(q) : q[k].kind = "done") => p.at = "ended"
    <3>1. \A k \in 1..Len(output[s]) : output[s][k].kind # "done"
      BY <1>1, <2>5 DEF EndIsLast
    <3> QED BY <1>3, <2>3, <2>6, <3>1
  <2>9. ProducerEffect(s, p, l, q)
    BY <1>1, <1>2, <1>3, <1>4, <1>5, <2>3, <2>4, <2>7, <2>8 DEF ProducerEffect, Turns
  <2> QED BY <2>9, ProducerKeeps
<1> QED BY <1>6, <1>7

LEMMA ProducingConnects ==
  ASSUME IInv, Connected, NEW s \in Streams, Producing(s)
  PROVE  Connected'
<1>1. CASE BreaksOff(s) \/ IsCutOff(s) \/ GiveUpObject(s)
  <2>1. InBody(producer[s])
    BY <1>1 DEF BreaksOff, Reading, IsCutOff, GiveUpObject, PutRefused, InBody
  <2>2. \E retryable \in BOOLEAN, f \in BOOLEAN :
          BodyFails(s, retryable, f) /\ (f => s \in cut /\ s \notin stopped)
    BY <1>1 DEF BreaksOff, IsCutOff, GiveUpObject
  <2> QED BY <2>1, <2>2, BodyFailsConnects
<1> QED BY <1>1, CheckConnects, SendConnects, BusyConnects, NoAnswerConnects, SendAgainConnects,
           AnswerConnects, EndConnects, ReceiveConnects, PutConnects DEF Producing

-----------------------------------------------------------------------------
(* What a step of the consumer of s may do: c is the consumer afterwards,  *)
(* q its queue, l the connection.                                          *)
ConsumerEffect(s, c, q, l) ==
  /\ Holding(s)
  /\ c \in Consumer /\ consumer' = [consumer EXCEPT ![s] = c] /\ c.got \in Seq(1..Objects)
  /\ q \in Seq(Item) /\ output' = [output EXCEPT ![s] = q] /\ QueueWithin(q)
  /\ c.result = "complete" \/ (\E i \in 1..Len(q) : q[i].kind = "done") => producer[s].at = "ended"
  /\ l \in LinkStates /\ link' = [link EXCEPT ![Conn(s)] = l] /\ cut' \subseteq Streams
  /\ UNCHANGED producer
  /\ c.at # "new"
  /\ c.at # "closed" => free' = free /\ late' = late
  /\ c.at = "closed" => free' = free \cup {Conn(s)} /\ late' \in {late, late \cup {s}}
  /\ stopped' = IF c.at \in {"closing", "joining", "closed"} THEN stopped \cup {s} ELSE stopped
  /\ c.at \notin {"closing", "joining", "closed"} => s \notin stopped
  /\ late' = {} =>
       /\ cut' \subseteq cut \cup {s}
       /\ s \in cut' => c.at \in {"joining", "closed"}
       /\ c.at = "closed" => producer[s].at = "ended" /\ l.state \in NoRequest
       /\ c.at # "closed" => LinkFits(s, producer[s], c.at, l)

LEMMA ConsumerKeeps ==
  ASSUME IInv, Connected, NEW s \in Streams, NEW c, NEW q, NEW l, ConsumerEffect(s, c, q, l)
  PROVE  Connected'
<1>1. /\ consumer \in [Streams -> Consumer] /\ output \in [Streams -> Seq(Item)]
      /\ link \in [Connections -> LinkStates] /\ cut \subseteq Streams /\ free \subseteq Connections
      /\ Conn(s) \in Connections /\ Conn(s) \notin free
  BY DEF IInv, SInv, StreamTypes, Connected, Pool, ConsumerEffect
<1>2. /\ \A r \in Streams : /\ consumer'[r] = IF r = s THEN c ELSE consumer[r]
                            /\ output'[r] = IF r = s THEN q ELSE output[r]
      /\ \A d \in Connections : link'[d] = IF d = Conn(s) THEN l ELSE link[d]
      /\ UNCHANGED producer
  BY <1>1 DEF ConsumerEffect
<1>3. free' = IF c.at = "closed" THEN free \cup {Conn(s)} ELSE free
  BY DEF ConsumerEffect
<1>4. /\ \A r \in Streams : Conn(r)' = Conn(r)
      /\ \A r \in Streams \ {s} : Holding(r)' = Holding(r)
      /\ Holding(s) /\ (Holding(s)' => c.at # "closed")
      /\ \A r \in Streams \ {s} : Holding(r) => Conn(r) # Conn(s)
  BY <1>2 DEF Conn, Holding, ConsumerEffect, Connected, Pool
<1>5. Pool'
  <2>1. free' \subseteq Connections /\ link' \in [Connections -> LinkStates] /\ cut' \subseteq Streams
    BY <1>1, <1>3 DEF ConsumerEffect
  <2>2. ASSUME NEW r \in Streams
        PROVE  /\ producer'[r].at # "new" => Conn(r)' \in Connections
               /\ Holding(r)' => producer'[r].at # "new" /\ Conn(r)' \notin free'
    BY <1>1, <1>2, <1>3, <1>4 DEF Connected, Pool
  <2>3. ASSUME NEW r \in Streams, NEW u \in Streams \ {r}, Holding(r)', Holding(u)'
        PROVE  Conn(u)' # Conn(r)'
    BY <1>4, <2>3 DEF Connected, Pool
  <2> QED BY <2>1, <2>2, <2>3 DEF Pool
<1>6. ASSUME NEW r \in Streams PROVE Within(r)' /\ EndIsLast(r)' /\ Warned(r)'
  <2>1. Within(r) /\ EndIsLast(r) /\ Warned(r) /\ Warned(s)
    BY DEF Connected
  <2>2. Within(r)'
    BY <1>2, <2>1 DEF Within, ConsumerEffect
  <2>3. EndIsLast(r)'
    BY <1>2, <2>1 DEF EndIsLast, ConsumerEffect
  <2>4. Warned(r)'
    <3>1. late \subseteq late' /\ late' \subseteq late \cup {s}
          /\ (late' # late => c.at = "closed")
      BY DEF ConsumerEffect
    <3>2. CASE r = s
      BY <1>2, <2>1, <3>1, <3>2 DEF Warned, ConsumerEffect
    <3>3. CASE r # s
      <4>1. r \in stopped' <=> r \in stopped
        BY <3>3 DEF ConsumerEffect
      <4> QED BY <1>2, <2>1, <3>1, <3>3, <4>1 DEF Warned
    <3> QED BY <3>2, <3>3
  <2> QED BY <2>2, <2>3, <2>4
<1>7. Quiet'
  <2>. SUFFICES ASSUME late' = {}
                PROVE  /\ \A d \in free' : link'[d].state \in NoRequest
                       /\ \A r \in Streams : QuietStream(r)'
    BY DEF Quiet
  <2>1. late = {}
    BY DEF ConsumerEffect
  <2>2. ASSUME NEW d \in free' PROVE link'[d].state \in NoRequest
    <3>1. CASE d \in free
      BY <1>1, <1>2, <2>1, <3>1 DEF Connected, Quiet
    <3>2. CASE d \notin free
      BY <1>1, <1>2, <1>3, <2>2, <3>2 DEF ConsumerEffect
    <3> QED BY <3>1, <3>2
  <2>3. ASSUME NEW r \in Streams PROVE QuietStream(r)'
    <3>1. QuietStream(r)
      BY <2>1 DEF Connected, Quiet
    <3>2. CASE r = s
      <4>1. Conn(s)' = Conn(s) /\ link'[Conn(s)] = l /\ consumer'[s] = c /\ producer'[s] = producer[s]
        BY <1>1, <1>2, <1>4
      <4> QED BY <1>4, <3>2, <4>1 DEF QuietStream, ConsumerEffect
    <3>3. CASE r # s
      <4>1. producer'[r] = producer[r] /\ consumer'[r] = consumer[r] /\ Conn(r)' = Conn(r)
        BY <1>2, <1>4, <3>3
      <4>2. Holding(r) => link'[Conn(r)] = link[Conn(r)]
        <5>1. Holding(r) => Conn(r) \in Connections /\ Conn(r) # Conn(s)
          BY <1>4, <3>3 DEF Connected, Pool
        <5> QED BY <1>2, <5>1
      <4>3. r \in cut' => r \in cut
        BY <3>3 DEF ConsumerEffect
      <4> QED BY <1>4, <3>1, <3>3, <4>1, <4>2, <4>3 DEF QuietStream
    <3> QED BY <3>2, <3>3
  <2> QED BY <2>2, <2>3
<1> QED BY <1>5, <1>6, <1>7 DEF Connected

(* What every step of a consumer that has begun finds.                     *)
LEMMA ConsumerFinds ==
  ASSUME IInv, Connected, NEW s \in Streams, Holding(s)
  PROVE  /\ consumer[s] \in Consumer /\ consumer[s].got \in Seq(1..Objects)
         /\ output[s] \in Seq(Item) /\ output = [output EXCEPT ![s] = output[s]]
         /\ QueueWithin(output[s]) /\ EndIsLast(s) /\ Warned(s)
         /\ cut \subseteq Streams /\ link[Conn(s)] \in LinkStates
         /\ link = [link EXCEPT ![Conn(s)] = link[Conn(s)]]
         /\ stopped \subseteq Streams
<1>1. output[s] \in Seq(Item) /\ output \in [Streams -> Seq(Item)] /\ consumer[s] \in Consumer
      /\ stopped \subseteq Streams
  BY StreamFacts DEF IInv, SInv, StreamTypes
<1>2. QueueWithin(output[s]) /\ EndIsLast(s) /\ Warned(s) /\ consumer[s].got \in Seq(1..Objects)
  BY DEF Connected, Within
<1>3. cut \subseteq Streams /\ link \in [Connections -> LinkStates] /\ Conn(s) \in Connections
  BY DEF Connected, Pool
<1> QED BY <1>1, <1>2, <1>3

(* A step that leaves the connection alone and does not yet stop.          *)
LEMMA ConsumerGoesOn ==
  ASSUME IInv, Connected, NEW s \in Streams,
         consumer[s].at \in {"reading", "suspended"},
         NEW c \in Consumer, consumer' = [consumer EXCEPT ![s] = c],
         c.at \in {"reading", "suspended", "stopping"}, c.got \in Seq(1..Objects),
         NEW q \in Seq(Item), output' = [output EXCEPT ![s] = q], QueueWithin(q),
         c.result = "complete" \/ (\E i \in 1..Len(q) : q[i].kind = "done") =>
           producer[s].at = "ended",
         UNCHANGED <<free, link, cut, producer, stopped, late>>
  PROVE  Connected'
<1>1. Holding(s)
  BY DEF Holding
<1>. DEFINE l == link[Conn(s)]
<1>2. l \in LinkStates /\ link' = [link EXCEPT ![Conn(s)] = l] /\ cut' \subseteq Streams
      /\ s \notin stopped
  BY <1>1, ConsumerFinds DEF Warned
<1>3. late' = {} => s \notin cut'
  BY DEF Connected, Quiet, QuietStream
<1>4. late' = {} => LinkFits(s, producer[s], c.at, l)
  BY <1>1, QuietLink DEF LinkFits
<1>. HIDE DEF l
<1>5. ConsumerEffect(s, c, q, l)
  BY <1>1, <1>2, <1>3, <1>4 DEF ConsumerEffect
<1> QED BY <1>5, ConsumerKeeps

LEMMA GetConnects ==
  ASSUME IInv, Connected, NEW s \in Streams, GetObject(s) \/ GetEnd(s)
  PROVE  Connected'
<1>. DEFINE b == consumer[s]
            h == Head(output[s])
            q == Tail(output[s])
<1>1. /\ b.at = "reading" /\ output[s] # <<>> /\ output' = [output EXCEPT ![s] = q]
      /\ UNCHANGED <<free, link, cut, producer, stopped, late>>
  BY DEF GetObject, GetEnd
<1>2. Holding(s)
  BY <1>1 DEF Holding
<1>3. b \in Consumer /\ b.got \in Seq(1..Objects) /\ output[s] \in Seq(Item)
      /\ QueueWithin(output[s]) /\ EndIsLast(s)
  BY <1>2, ConsumerFinds
<1>4. /\ h \in Item /\ h = output[s][1] /\ q \in Seq(Item)
      /\ Len(output[s]) \in Nat /\ Len(output[s]) >= 1 /\ Len(q) = Len(output[s]) - 1
      /\ \A i \in 1..Len(q) : q[i] = output[s][i + 1]
  BY <1>1, <1>3, HeadAndTail
<1>5. /\ 1 \in 1..Len(output[s])
      /\ \A i \in 1..Len(q) : i + 1 \in 1..Len(output[s])
  BY <1>4
<1>. HIDE DEF q, h
<1>6. QueueWithin(q)
  <2>1. Len(output[s]) <= QueueParts
        /\ \A i \in 1..Len(output[s]) : output[s][i].kind = "object" => output[s][i].object \in 1..Objects
    BY <1>3 DEF QueueWithin
  <2>2. Len(q) <= QueueParts
    BY <1>4, <2>1, StreamAssumption
  <2>3. \A i \in 1..Len(q) : q[i].kind = "object" => q[i].object \in 1..Objects
    BY <1>4, <1>5, <2>1
  <2> QED BY <2>2, <2>3 DEF QueueWithin
<1>7. /\ b.result = "complete" \/ (\E i \in 1..Len(q) : q[i].kind = "done") => producer[s].at = "ended"
      /\ h.kind = "done" => producer[s].at = "ended"
      /\ h.kind = "object" => h.object \in 1..Objects
  BY <1>3, <1>4, <1>5 DEF EndIsLast, QueueWithin
<1>8. ASSUME NEW result \in {"complete", "error"}, consumer' = Ends(s, result),
             result = "complete" => producer[s].at = "ended"
      PROVE  Connected'
  <2>. DEFINE c == [b EXCEPT !.at = "stopping", !.result = result]
  <2>1. consumer' = [consumer EXCEPT ![s] = c]
    BY <1>8 DEF Ends
  <2>2. c \in Consumer /\ c.at = "stopping" /\ c.got = b.got /\ c.result = result
    BY <1>3 DEF Consumer, ConsumerSteps
  <2>. HIDE DEF c
  <2> QED BY <1>1, <1>3, <1>4, <1>6, <1>7, <1>8, <2>1, <2>2, ConsumerGoesOn
<1>9. CASE GetObject(s)
  <2>1. CASE consumer' = Ends(s, "error")
    BY <1>8, <2>1
  <2>2. CASE consumer' # Ends(s, "error")
    <3>. DEFINE g == Append(b.got, h.object)
                c == [b EXCEPT !.at = "suspended", !.got = g]
    <3>1. consumer' = [consumer EXCEPT ![s] = c] /\ h.kind = "object"
      BY <1>9, <2>2 DEF GetObject, h
    <3>2. g \in Seq(1..Objects) /\ g \in Seq(Nat)
      <4>1. h.object \in 1..Objects /\ h.object \in Nat /\ b.got \in Seq(Nat)
        BY <1>3, <1>4, <1>7, <3>1 DEF Item, Consumer
      <4> QED BY <1>3, <4>1, AppendProperties
    <3>. HIDE DEF g
    <3>3. c \in Consumer /\ c.at = "suspended" /\ c.got = g /\ c.result = b.result
      BY <1>3, <3>2 DEF Consumer, ConsumerSteps
    <3>. HIDE DEF c
    <3> QED BY <1>1, <1>4, <1>6, <1>7, <3>1, <3>2, <3>3, ConsumerGoesOn
  <2> QED BY <2>1, <2>2
<1>10. CASE GetEnd(s)
  <2>1. h = Done => h.kind = "done"
    BY DEF Done
  <2>2. consumer' = Ends(s, IF h = Done THEN "complete" ELSE "error")
    BY <1>10 DEF GetEnd, h
  <2> QED BY <1>7, <1>8, <2>1, <2>2
<1> QED BY <1>9, <1>10

LEMMA ResumeConnects ==
  ASSUME IInv, Connected, NEW s \in Streams, Resume(s) \/ CloseEarly(s)
  PROVE  Connected'
<1>. DEFINE b == consumer[s]
            q == output[s]
<1>1. /\ b.at = "suspended" /\ UNCHANGED <<free, link, cut, producer, output, stopped, late>>
  BY DEF Resume, CloseEarly
<1>2. Holding(s)
  BY <1>1 DEF Holding
<1>3. b \in Consumer /\ b.got \in Seq(1..Objects) /\ q \in Seq(Item)
      /\ QueueWithin(q) /\ EndIsLast(s) /\ output' = [output EXCEPT ![s] = q]
  BY <1>1, <1>2, ConsumerFinds
<1>4. ASSUME NEW c \in Consumer, consumer' = [consumer EXCEPT ![s] = c],
             c.at \in {"reading", "stopping"}, c.got = b.got, c.result \in {b.result, "early"}
      PROVE  Connected'
  <2>1. c.result = "complete" \/ (\E i \in 1..Len(q) : q[i].kind = "done") =>
          producer[s].at = "ended"
    BY <1>3, <1>4 DEF EndIsLast
  <2>. HIDE DEF q
  <2> QED BY <1>1, <1>3, <1>4, <2>1, ConsumerGoesOn
<1>5. CASE Resume(s)
  <2>. DEFINE c == [b EXCEPT !.at = "reading"]
  <2>1. consumer' = [consumer EXCEPT ![s] = c]
    BY <1>5 DEF Resume
  <2>2. c \in Consumer /\ c.at = "reading" /\ c.got = b.got /\ c.result = b.result
    BY <1>3 DEF Consumer, ConsumerSteps
  <2>. HIDE DEF c
  <2> QED BY <1>4, <2>1, <2>2
<1>6. CASE CloseEarly(s)
  <2>. DEFINE c == [b EXCEPT !.at = "stopping", !.result = "early"]
  <2>1. consumer' = [consumer EXCEPT ![s] = c]
    BY <1>6 DEF CloseEarly, Ends
  <2>2. c \in Consumer /\ c.at = "stopping" /\ c.got = b.got /\ c.result = "early"
    BY <1>3 DEF Consumer, ConsumerSteps
  <2>. HIDE DEF c
  <2> QED BY <1>4, <2>1, <2>2
<1> QED BY <1>5, <1>6

LEMMA StopConnects ==
  ASSUME IInv, Connected, NEW s \in Streams, Stop(s) \/ CloseConnection(s)
  PROVE  Connected'
<1>. DEFINE b == consumer[s]
            q == output[s]
<1>1. /\ b.at \in {"stopping", "closing"} /\ UNCHANGED <<free, producer, output, late>>
  BY DEF Stop, CloseConnection
<1>2. Holding(s)
  BY <1>1 DEF Holding
<1>3. /\ b \in Consumer /\ b.got \in Seq(1..Objects) /\ q \in Seq(Item)
      /\ QueueWithin(q) /\ EndIsLast(s) /\ output' = [output EXCEPT ![s] = q]
      /\ Warned(s)
  BY <1>1, <1>2, ConsumerFinds
<1>4. b.result = "complete" \/ (\E i \in 1..Len(q) : q[i].kind = "done") => producer[s].at = "ended"
  BY <1>3 DEF EndIsLast
<1>5. /\ late = {} => LinkFits(s, producer[s], b.at, link[Conn(s)]) /\ BeingRead(s) \subseteq {s}
      /\ late = {} => s \notin cut
  BY <1>1, <1>2, QuietLink DEF Connected, Quiet, QuietStream
<1>. HIDE DEF q
<1>6. CASE Stop(s)
  <2>. DEFINE at == IF b.result = "complete" THEN "joining" ELSE "closing"
              c == [b EXCEPT !.at = at]
              l == link[Conn(s)]
  <2>1. /\ consumer' = [consumer EXCEPT ![s] = c] /\ b.at = "stopping" /\ UNCHANGED <<link, cut>>
        /\ stopped' = stopped \cup {s}
    BY <1>6 DEF Stop, SetStopped
  <2>2. at \in {"joining", "closing"}
    OBVIOUS
  <2>3. c \in Consumer /\ c.at = at /\ c.got = b.got /\ c.result = b.result
    BY <1>3, <2>2 DEF Consumer, ConsumerSteps
  <2>4. late' = {} => LinkFits(s, producer[s], at, l)
    <3>1. CASE b.result = "complete"
      <4>1. producer[s].at = "ended"
        BY <1>4, <3>1
      <4> QED BY <1>1, <1>5, <2>1, <4>1 DEF LinkFits, InBody
    <3>2. CASE b.result # "complete"
      BY <1>1, <1>5, <2>1, <3>2 DEF LinkFits
    <3> QED BY <3>1, <3>2
  <2>5. l \in LinkStates /\ link' = [link EXCEPT ![Conn(s)] = l] /\ cut' \subseteq Streams
    BY <1>2, <2>1, ConsumerFinds
  <2>6. stopped' = IF c.at \in {"closing", "joining", "closed"} THEN stopped \cup {s} ELSE stopped
    BY <2>1, <2>2, <2>3
  <2>. HIDE DEF c, l, at
  <2>7. ConsumerEffect(s, c, q, l)
    BY <1>1, <1>2, <1>3, <1>4, <1>5, <2>1, <2>2, <2>3, <2>4, <2>5, <2>6 DEF ConsumerEffect
  <2> QED BY <2>7, ConsumerKeeps
<1>7. CASE CloseConnection(s)
  <2>. DEFINE c == [b EXCEPT !.at = "joining"]
  <2>1. /\ consumer' = [consumer EXCEPT ![s] = c] /\ b.at = "closing"
        /\ link' = [link EXCEPT ![Conn(s)] = Closed] /\ cut' = cut \cup BeingRead(s)
        /\ stopped' = stopped
    BY <1>7 DEF CloseConnection, CloseLink
  <2>2. c \in Consumer /\ c.at = "joining" /\ c.got = b.got /\ c.result = b.result
    BY <1>3 DEF Consumer, ConsumerSteps
  <2>. HIDE DEF c
  <2>3. LinkFits(s, producer[s], "joining", Closed)
    BY DEF LinkFits, Closed, NoRequest
  <2>4. Closed \in LinkStates /\ cut' \subseteq Streams /\ s \in stopped
    BY <1>2, <1>3, <2>1, ConsumerFinds DEF Closed, LinkStates, BeingRead, Warned
  <2>5. stopped' = stopped \cup {s}
    BY <2>1, <2>4
  <2>6. ConsumerEffect(s, c, q, Closed)
    BY <1>1, <1>2, <1>3, <1>4, <1>5, <2>1, <2>2, <2>3, <2>4, <2>5 DEF ConsumerEffect
  <2> QED BY <2>6, ConsumerKeeps
<1> QED BY <1>6, <1>7

LEMMA LeaveConnects ==
  ASSUME IInv, Connected, NEW s \in Streams, Join(s) \/ JoinTimesOut(s)
  PROVE  Connected'
<1>. DEFINE b == consumer[s]
            q == output[s]
            l == link[Conn(s)]
            c == [b EXCEPT !.at = "closed"]
<1>1. /\ b.at = "joining" /\ UNCHANGED <<link, cut, producer, output, stopped>>
      /\ free' = free \cup {Conn(s)} /\ consumer' = [consumer EXCEPT ![s] = c]
  BY DEF Join, JoinTimesOut, Leave
<1>2. Holding(s)
  BY <1>1 DEF Holding
<1>3. /\ b \in Consumer /\ b.got \in Seq(1..Objects) /\ q \in Seq(Item)
      /\ QueueWithin(q) /\ EndIsLast(s) /\ output' = [output EXCEPT ![s] = q]
      /\ Warned(s) /\ l \in LinkStates /\ link' = [link EXCEPT ![Conn(s)] = l] /\ cut' \subseteq Streams
  BY <1>1, <1>2, ConsumerFinds
<1>4. b.result = "complete" \/ (\E i \in 1..Len(q) : q[i].kind = "done") => producer[s].at = "ended"
  BY <1>3 DEF EndIsLast
<1>5. stopped' = stopped \cup {s}
  BY <1>1, <1>3 DEF Warned
<1>6. c \in Consumer /\ c.at = "closed" /\ c.got = b.got /\ c.result = b.result
  BY <1>3 DEF Consumer, ConsumerSteps
<1>7. late' \in {late, late \cup {s}}
      /\ (late' = {} => late = {} /\ producer[s].at = "ended" /\ l.state \in NoRequest)
  <2>1. CASE JoinTimesOut(s)
    BY <2>1 DEF JoinTimesOut
  <2>2. CASE Join(s)
    <3>1. late' = late /\ producer[s].at = "ended"
      BY <2>2 DEF Join, HasEnded
    <3>2. late = {} => LinkFits(s, producer[s], b.at, l)
      BY <1>2, QuietLink
    <3> QED BY <1>1, <3>1, <3>2 DEF LinkFits, InBody
  <2> QED BY <2>1, <2>2
<1>. HIDE DEF q, l, c
<1>8. ConsumerEffect(s, c, q, l)
  BY <1>1, <1>2, <1>3, <1>4, <1>5, <1>6, <1>7 DEF ConsumerEffect
<1> QED BY <1>8, ConsumerKeeps

LEMMA StartConnects ==
  ASSUME IInv, Connected, NEW s \in Streams, Start(s)
  PROVE  Connected'
<1>. DEFINE b == consumer[s]
            a == producer[s]
            n == [b EXCEPT !.at = "reading"]
<1>1. b.at = "new" /\ UNCHANGED <<link, cut, output, stopped, late>>
      /\ consumer' = [consumer EXCEPT ![s] = n]
  BY DEF Start
<1>2. PICK c \in free : /\ free' = free \ {c}
                        /\ producer' = [producer EXCEPT ![s].at = "check", ![s].connection = c]
  BY DEF Start
<1>. DEFINE p == [a EXCEPT !.at = "check", !.connection = c]
<1>3. /\ a \in Producer /\ b \in Consumer /\ a.at = "new"
      /\ producer \in [Streams -> Producer] /\ consumer \in [Streams -> Consumer]
  BY <1>1, StreamFacts DEF IInv, SInv, StreamTypes, StreamFits, Fits
<1>4. /\ free \subseteq Connections /\ c \in Connections
  BY <1>2 DEF Connected, Pool
<1>5. /\ p \in Producer /\ p.at = "check" /\ p.connection = c /\ p.asked = a.asked /\ p.back = a.back
      /\ p.retries = a.retries /\ p.item = a.item
  BY <1>3, <1>4 DEF Producer, ProducerSteps
<1>6. p.foreign = a.foreign
  BY <1>3 DEF Producer
<1>7. n \in Consumer /\ n.at = "reading" /\ n.got = b.got /\ n.result = b.result
  BY <1>3 DEF Consumer, ConsumerSteps
<1>8. producer' = [producer EXCEPT ![s] = p]
  BY <1>2
<1>. HIDE DEF p, n
<1>9. /\ \A r \in Streams : /\ consumer'[r] = IF r = s THEN n ELSE consumer[r]
                            /\ producer'[r] = IF r = s THEN p ELSE producer[r]
                            /\ Conn(r)' = IF r = s THEN c ELSE Conn(r)
                            /\ r # s => Holding(r)' = Holding(r)
      /\ ~Holding(s)
  BY <1>1, <1>3, <1>5, <1>8 DEF Conn, Holding
<1>10. \A r \in Streams : Holding(r) => Conn(r) # c
  BY <1>2 DEF Connected, Pool
<1>11. Pool'
  <2>1. free' \subseteq Connections /\ link' \in [Connections -> LinkStates] /\ cut' \subseteq Streams
    BY <1>1, <1>2 DEF Connected, Pool
  <2>2. ASSUME NEW r \in Streams
        PROVE  /\ producer'[r].at # "new" => Conn(r)' \in Connections
               /\ Holding(r)' => producer'[r].at # "new" /\ Conn(r)' \notin free'
    BY <1>2, <1>4, <1>5, <1>9 DEF Connected, Pool
  <2>3. ASSUME NEW r \in Streams, NEW u \in Streams \ {r}, Holding(r)', Holding(u)'
        PROVE  Conn(u)' # Conn(r)'
    BY <1>9, <1>10, <2>3 DEF Connected, Pool
  <2> QED BY <2>1, <2>2, <2>3 DEF Pool
<1>12. ASSUME NEW r \in Streams PROVE Within(r)' /\ EndIsLast(r)' /\ Warned(r)'
  <2>1. Within(r) /\ EndIsLast(r) /\ Warned(r)
    BY DEF Connected
  <2>2. CASE r = s
    <3>1. Within(r)'
      BY <1>1, <1>5, <1>7, <1>9, <2>1, <2>2 DEF Within, ProducerWithin
    <3>2. EndIsLast(r)'
      BY <1>1, <1>3, <1>7, <1>9, <2>1, <2>2 DEF EndIsLast
    <3>3. Warned(r)'
      BY <1>1, <1>6, <1>7, <1>9, <2>1, <2>2 DEF Warned
    <3> QED BY <3>1, <3>2, <3>3
  <2>3. CASE r # s
    BY <1>1, <1>9, <2>1, <2>3 DEF Within, EndIsLast, Warned
  <2> QED BY <2>2, <2>3
<1>13. Quiet'
  <2>. SUFFICES ASSUME late = {}
                PROVE  /\ \A d \in free' : link[d].state \in NoRequest
                       /\ \A r \in Streams : QuietStream(r)'
    BY <1>1 DEF Quiet
  <2>1. \A d \in free : link[d].state \in NoRequest
    BY DEF Connected, Quiet
  <2>2. ASSUME NEW r \in Streams PROVE QuietStream(r)'
    <3>1. QuietStream(r)
      BY DEF Connected, Quiet
    <3>2. CASE r = s
      <4>1. s \notin cut
        BY <1>1, <3>1, <3>2 DEF QuietStream
      <4>2. LinkFits(s, p, "reading", link[c])
        BY <1>2, <1>5, <2>1 DEF LinkFits, InBody
      <4> QED BY <1>1, <1>7, <1>9, <3>2, <4>1, <4>2 DEF QuietStream
    <3>3. CASE r # s
      BY <1>1, <1>9, <3>1, <3>3 DEF QuietStream
    <3> QED BY <3>2, <3>3
  <2> QED BY <1>2, <2>1, <2>2
<1> QED BY <1>11, <1>12, <1>13 DEF Connected

-----------------------------------------------------------------------------
LinkInv == IInv /\ Connected /\ PipesWithin

(* Steps that touch no stream. *)
LEMMA StreamsRest ==
  ASSUME Connected, UNCHANGED svars
  PROVE  Connected'
BY DEF Connected, Pool, Within, EndIsLast, Warned, Quiet, QuietStream, Holding, Conn, svars

LEMMA PipesKeep ==
  ASSUME PipeTypes, PipesWithin, [Next]_vars
  PROVE  PipesWithin'
<1>. SUFFICES ASSUME NEW r \in Piped PROVE Len(pipe'[r]) <= PipeSize
  BY DEF PipesWithin
<1>1. pipe \in [Piped -> Seq({"batch", "end"})] /\ Len(pipe[r]) <= PipeSize
      /\ PipeSize \in Nat \ {0}
  BY PipeAssumption DEF PipeTypes, PipesWithin
<1>2. pipe[r] \in Seq({"batch", "end"})
  BY <1>1
<1>3. /\ \A e \in {"batch", "end"} : Len(Append(pipe[r], e)) = Len(pipe[r]) + 1
      /\ pipe[r] # <<>> => Len(Tail(pipe[r])) = Len(pipe[r]) - 1
      /\ Len(pipe[r]) \in Nat
  BY <1>2, AppendProperties, HeadAndTail, LenProperties
<1>4. ASSUME NEW s \in Piped, Writing(s) PROVE Len(pipe'[r]) <= PipeSize
  <2>1. CASE UNCHANGED pipe
    BY <1>1, <2>1
  <2>2. ASSUME NEW e \in {"batch", "end"}, pipe' = [pipe EXCEPT ![s] = Append(@, e)],
               Len(pipe[s]) < PipeSize
        PROVE  Len(pipe'[r]) <= PipeSize
    <3>1. CASE r = s
      <4>1. pipe'[r] = Append(pipe[r], e)
        BY <1>1, <2>2, <3>1
      <4> QED BY <1>1, <1>3, <2>2, <3>1, <4>1
    <3>2. CASE r # s
      <4>1. pipe'[r] = pipe[r]
        BY <1>1, <2>2, <3>2
      <4> QED BY <1>1, <4>1
    <3> QED BY <3>1, <3>2
  <2>3. CASE WriteBatch(s)
    BY <2>2, <2>3 DEF WriteBatch
  <2>4. CASE WriteEndMarker(s)
    BY <2>1, <2>2, <2>4 DEF WriteEndMarker
  <2> QED BY <1>4, <2>1, <2>3, <2>4 DEF Writing, BrokenPipe, CloseWithoutMarker, NoteError
<1>5. ASSUME NEW s \in Piped, ReadingPipe(s) PROVE Len(pipe'[r]) <= PipeSize
  <2>1. CASE ReadChunk(s)
    <3>1. CASE r = s
      <4>1. pipe'[r] = Tail(pipe[r]) /\ pipe[r] # <<>>
        BY <1>1, <2>1, <3>1 DEF ReadChunk
      <4> QED BY <1>1, <1>3, <4>1
    <3>2. CASE r # s
      <4>1. pipe'[r] = pipe[r]
        BY <1>1, <2>1, <3>2 DEF ReadChunk
      <4> QED BY <1>1, <4>1
    <3> QED BY <3>1, <3>2
  <2>2. CASE ReadEnd(s)
    BY <1>1, <2>2 DEF ReadEnd
  <2>3. CASE ReaderStops(s)
    <3>1. CASE r = s
      <4>1. pipe'[r] = <<>> /\ Len(<<>>) = 0
        BY <1>1, <2>3, <3>1 DEF ReaderStops
      <4> QED BY <1>1, <4>1
    <3>2. CASE r # s
      <4>1. pipe'[r] = pipe[r]
        BY <1>1, <2>3, <3>2 DEF ReaderStops
      <4> QED BY <1>1, <4>1
    <3> QED BY <3>1, <3>2
  <2> QED BY <1>5, <2>1, <2>2, <2>3 DEF ReadingPipe
<1>6. CASE UNCHANGED pipe
  BY <1>1, <1>6
<1> QED BY <1>4, <1>5, <1>6 DEF Next, ProducerThread, ConsumerThread, Plain, avars, vars

LEMMA InitConnects == AInit => LinkInv
<1>. SUFFICES ASSUME AInit PROVE LinkInv
  OBVIOUS
<1>1. IInv
  BY InitFits
<1>2. /\ NoProducer.at = "new" /\ NoProducer.asked = 0 /\ NoProducer.retries = 0
      /\ NoProducer.item.kind = "done" /\ NoProducer.foreign = FALSE
  BY DEF NoProducer, Done
<1>3. <<>> \in Seq(1..Objects) /\ Len(<<>>) = 0
  BY EmptySeq
<1>4. /\ free = Connections /\ link = [c \in Connections |-> Closed]
      /\ cut = {} /\ stopped = {} /\ late = {}
  BY DEF AInit, Init
<1>5. ASSUME NEW s \in Streams
      PROVE  /\ producer[s] = NoProducer /\ output[s] = <<>>
             /\ consumer[s].at = "new" /\ consumer[s].got = <<>> /\ consumer[s].result = "none"
  BY DEF AInit, Init
<1>6. Pool
  BY <1>2, <1>4, <1>5 DEF Pool, Holding, Closed, LinkStates
<1>7. ASSUME NEW s \in Streams PROVE Within(s) /\ EndIsLast(s) /\ Warned(s)
  <2>1. Within(s)
    <3>1. ProducerWithin(NoProducer)
      BY <1>2, StreamAssumption DEF ProducerWithin
    <3>2. QueueWithin(<<>>)
      BY <1>3, StreamAssumption DEF QueueWithin
    <3> QED BY <1>3, <1>5, <3>1, <3>2 DEF Within
  <2> QED BY <1>2, <1>3, <1>4, <1>5, <2>1 DEF EndIsLast, Warned
<1>8. Quiet
  BY <1>4, <1>5 DEF Quiet, QuietStream, Holding, Closed, NoRequest
<1>9. PipesWithin
  BY <1>3, PipeAssumption DEF PipesWithin, AInit
<1> QED BY <1>1, <1>6, <1>7, <1>8, <1>9 DEF LinkInv, Connected

LEMMA StepConnects == LinkInv /\ [Next]_vars => LinkInv'
<1>. SUFFICES ASSUME LinkInv, [Next]_vars PROVE LinkInv'
  OBVIOUS
<1>1. IInv' /\ IInv /\ Connected
  BY StepFits DEF LinkInv
<1>2. PipesWithin'
  BY <1>1, PipesKeep DEF LinkInv, IInv
<1>3. ASSUME NEW s \in Streams, ProducerThread(s) PROVE Connected'
  BY <1>1, <1>3, ProducingConnects DEF ProducerThread
<1>4. ASSUME NEW s \in Streams, Start(s) \/ Generating(s) \/ Consuming(s) PROVE Connected'
  BY <1>1, <1>4, StartConnects, GetConnects, ResumeConnects, StopConnects, LeaveConnects
     DEF Generating, Consuming
<1>5. ASSUME NEW s \in Streams, Writing(s) PROVE Connected'
  <2>1. CASE WriteBatch(s) \/ BrokenPipe(s)
    BY <1>4, <2>1 DEF WriteBatch, BrokenPipe, Consuming
  <2>2. CASE UNCHANGED svars
    BY <1>1, <2>2, StreamsRest
  <2> QED BY <1>5, <2>1, <2>2 DEF Writing, WriteEndMarker, CloseWithoutMarker, NoteError
<1>6. ASSUME NEW s \in Streams, ConsumerThread(s) PROVE Connected'
  BY <1>4, <1>5, <1>6 DEF ConsumerThread, Plain
<1>7. ASSUME NEW s \in Piped, ReadingPipe(s) PROVE Connected'
  <2>1. UNCHANGED svars
    BY <1>7 DEF ReadingPipe, ReadChunk, ReadEnd, ReaderStops
  <2> QED BY <1>1, <2>1, StreamsRest
<1>8. ASSUME UNCHANGED vars PROVE Connected'
  <2>1. UNCHANGED svars
    BY <1>8 DEF vars, svars
  <2> QED BY <1>1, <2>1, StreamsRest
<1>9. ASSUME Next PROVE Connected'
  BY <1>3, <1>6, <1>7, <1>9 DEF Next
<1>10. Connected'
  BY <1>8, <1>9
<1> QED BY <1>1, <1>2, <1>10 DEF LinkInv

(* The queue of a stream, its retries, its requests and the pipe stay      *)
(* within their limits, and the variables within their types.              *)
THEOREM StreamTypesCorrect == Spec => []TypeOK
<1>1. LinkInv => TypeOK
  <2>. SUFFICES ASSUME LinkInv PROVE TypeOK
    OBVIOUS
  <2>1. IInv /\ SInv /\ Connected
    BY DEF LinkInv, IInv
  <2>2. /\ free \subseteq Connections /\ cut \subseteq Streams /\ stopped \subseteq Streams
        /\ link \in [Connections -> [user : Streams \cup {None},
                                     state : {"closed", "idle", "sent", "body", "crossed"}]]
    BY <2>1 DEF SInv, StreamTypes, Connected, Pool, LinkStates
  <2>3. ASSUME NEW s \in Streams
        PROVE  /\ producer[s].next \in 0..Objects /\ producer[s].back \in 0..producer[s].asked
               /\ producer[s].asked \in 0..RequestSize /\ producer[s].retries \in 0..Retries
               /\ Len(output[s]) <= QueueParts
               /\ consumer[s].got \in Seq(1..Objects)
    <3>1. producer[s] \in Producer /\ RequestFits(producer[s])
      BY <2>1, StreamFacts DEF StreamFits, Fits
    <3>2. Within(s)
      BY <2>1 DEF Connected
    <3>3. producer[s].next <= Objects
      BY <3>1, StreamAssumption DEF RequestFits, Producer
    <3> QED BY <3>1, <3>2, <3>3, StreamAssumption
            DEF RequestFits, Producer, Within, ProducerWithin, QueueWithin
  <2> QED BY <2>2, <2>3 DEF TypeOK, LinkInv, PipesWithin
<1> QED BY <1>1, InitConnects, StepConnects, PTL DEF Spec

(* As long as join() has waited for every producer, and none has sent a    *)
(* request after its connection had been closed, the request on a          *)
(* connection is its holder's own: a stream meets nobody else's.           *)
THEOREM TroubleIsForeign == Spec => []TroubleOnlyFromLateProducers
<1>1. LinkInv => TroubleOnlyFromLateProducers
  BY DEF LinkInv, Connected, Warned, TroubleOnlyFromLateProducers
<1> QED BY <1>1, InitConnects, StepConnects, PTL DEF Spec
=============================================================================
