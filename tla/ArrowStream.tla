---------------------------- MODULE ArrowStream ----------------------------
(***************************************************************************)
(* Who consumes a direct stream.  A plain stream is read by the program    *)
(* that asked for it.  A piped one is read by the writer thread of         *)
(* _arrow_ipc_pipe, which writes its batches into a pipe; the reader of    *)
(* the pipe passes them on and may go away at any time.  Only a stream     *)
(* that is complete gets the end marker of the Arrow format.               *)
(***************************************************************************)
EXTENDS DirectStream

CONSTANTS Piped,     \* the streams with a pipe
          PipeSize   \* how many batches the pipe holds

ASSUME PipeAssumption == Piped \subseteq Streams /\ PipeSize \in Nat \ {0}

VARIABLES
  pipe,    \* what is in the pipe
  writer,  \* the writer thread: where it is, and whether it noted an error
  reader   \* the generator of _arrow_ipc_pipe

avars == <<pipe, writer, reader>>

vars == <<svars, avars>>

AInit == /\ Init
         /\ pipe = [s \in Piped |-> <<>>]
         /\ writer = [s \in Piped |-> [at |-> "writing", error |-> FALSE]]
         /\ reader = [s \in Piped |-> [at |-> "reading", end |-> FALSE, result |-> "none"]]

Plain(s) == s \in Streams \ Piped /\ Consuming(s) /\ UNCHANGED avars

Gone(s) == reader[s].at = "ended"

(* The generator has yielded a batch. *)
HasBatch(s) == consumer[s].at = "suspended"

WriteBatch(s) ==
  /\ HasBatch(s)
  /\ ~Gone(s) /\ Len(pipe[s]) < PipeSize
  /\ pipe' = [pipe EXCEPT ![s] = Append(@, "batch")]
  /\ Resume(s)
  /\ UNCHANGED <<writer, reader>>

(* The reader has closed its end: the pipe is closed, then the generator.  *)
BrokenPipe(s) ==
  /\ HasBatch(s)
  /\ Gone(s)
  /\ writer' = [writer EXCEPT ![s].at = "failed"]
  /\ CloseEarly(s)
  /\ UNCHANGED <<pipe, reader>>

MarksAnyEnd(s) == consumer[s].result \in {"complete", "error"}

(* The generator has ended by itself, without an exception.                *)
Complete(s) == consumer[s].result = "complete"

EndReached(s) == writer[s].at = "writing" /\ consumer[s].at = "closed"

(* writer.close(), which blocks while the pipe is full. *)
WriteEndMarker(s) ==
  /\ EndReached(s)
  /\ Complete(s)
  /\ ~Gone(s) => Len(pipe[s]) < PipeSize
  /\ pipe' = IF Gone(s) THEN pipe ELSE [pipe EXCEPT ![s] = Append(@, "end")]
  /\ writer' = [writer EXCEPT ![s].at = "closed", ![s].error = Gone(s)]
  /\ UNCHANGED <<svars, reader>>

(* The pipe is closed without it, before the error is noted. *)
CloseWithoutMarker(s) ==
  /\ EndReached(s)
  /\ ~Complete(s)
  /\ writer' = [writer EXCEPT ![s].at = "failed"]
  /\ UNCHANGED <<svars, pipe, reader>>

NoteError(s) ==
  /\ writer[s].at = "failed"
  /\ consumer[s].at = "closed"
  /\ writer' = [writer EXCEPT ![s].at = "closed", ![s].error = TRUE]
  /\ UNCHANGED <<svars, pipe, reader>>

Ended(s) == writer[s].at = "closed"

ReadChunk(s) ==
  /\ reader[s].at = "reading"
  /\ pipe[s] # <<>>
  /\ pipe' = [pipe EXCEPT ![s] = Tail(@)]
  /\ reader' = [reader EXCEPT ![s].end = @ \/ Head(pipe[s]) = "end"]
  /\ UNCHANGED <<svars, writer>>

WriteEndOpen(s) == writer[s].at = "writing"

(* The end of the file; thread.join() without a limit; and the error of    *)
(* the writer if it had one.                                               *)
ReadEnd(s) ==
  /\ reader[s].at = "reading"
  /\ pipe[s] = <<>> /\ ~WriteEndOpen(s)
  /\ Ended(s)
  /\ reader' = [reader EXCEPT ![s].at = "ended",
                              ![s].result = IF writer[s].error THEN "error" ELSE "whole"]
  /\ UNCHANGED <<svars, pipe, writer>>

(* The client of the local API goes away.  join(timeout=5) changes nothing *)
(* that anybody sees.                                                      *)
ReaderStops(s) ==
  /\ reader[s].at = "reading"
  /\ reader' = [reader EXCEPT ![s].at = "ended", ![s].result = "early"]
  /\ pipe' = [pipe EXCEPT ![s] = <<>>]
  /\ UNCHANGED <<svars, writer>>

Writing(s) == \/ WriteBatch(s)
              \/ BrokenPipe(s)
              \/ WriteEndMarker(s)
              \/ CloseWithoutMarker(s)
              \/ NoteError(s)

ReadingPipe(s) == ReadChunk(s) \/ ReadEnd(s) \/ ReaderStops(s)

ProducerThread(s) == Producing(s) /\ UNCHANGED avars

(* The program, or the writer thread. *)
ConsumerThread(s) == \/ (Start(s) \/ Generating(s)) /\ UNCHANGED avars
                     \/ Plain(s)
                     \/ s \in Piped /\ Writing(s)

Next == \/ \E s \in Streams : ProducerThread(s) \/ ConsumerThread(s)
        \/ \E s \in Piped : ReadingPipe(s)

Spec == AInit /\ [][Next]_vars

(* Waits for the network end by an answer, an error or the timeout of the  *)
(* socket, and consumers go on, or close what they read.                   *)
FairSpec == /\ Spec
            /\ \A s \in Streams : WF_vars(ProducerThread(s)) /\ WF_vars(ConsumerThread(s))
            /\ \A s \in Piped : WF_vars(ReadingPipe(s))
-----------------------------------------------------------------------------
(* Properties.                                                             *)

TypeOK ==
  /\ free \subseteq Connections
  /\ link \in [Connections -> [user : Streams \cup {None},
                               state : {"closed", "idle", "sent", "body", "crossed"}]]
  /\ cut \subseteq Streams /\ stopped \subseteq Streams
  /\ \A s \in Streams :
       /\ producer[s].next \in 0..Objects /\ producer[s].back \in 0..producer[s].asked
       /\ producer[s].asked \in 0..RequestSize /\ producer[s].retries \in 0..Retries
       /\ Len(output[s]) <= QueueParts
       /\ consumer[s].got \in Seq(1..Objects)
  /\ \A s \in Piped : Len(pipe[s]) <= PipeSize

(* However often requests break off and are repeated, and whoever closes   *)
(* the connection under a producer, the consumer gets the objects in       *)
(* order, none twice and none left out, and a stream that ends normally    *)
(* has given all of them.                                                  *)
ObjectsInOrder ==
  \A s \in Streams :
    /\ \A i \in DOMAIN consumer[s].got : consumer[s].got[i] = i
    /\ consumer[s].result = "complete" => Len(consumer[s].got) = Objects

(* A client that meets the end marker, or the end without an error, has    *)
(* every object of the request ("an exception must not write a successful  *)
(* Arrow end marker").                                                     *)
SuccessIsWhole ==
  \A s \in Piped :
    reader[s].end \/ reader[s].result = "whole" => Len(consumer[s].got) = Objects

(* A stream meets trouble on its connection that is not its own only after *)
(* a producer has outlived the 5 seconds, or sent a request on the         *)
(* connection after it had been closed for the pool.                       *)
TroubleOnlyFromLateProducers ==
  \A s \in Streams : producer[s].foreign => late \ {s} # {}

(* Nobody waits for ever, whoever stops first: a stream that has begun is  *)
(* closed, its producer ends although nobody takes what it puts, and so do *)
(* the writer and the reader of its pipe.                                  *)
StreamsEnd ==
  \A s \in Streams :
    consumer[s].at # "new" ~> /\ consumer[s].at = "closed"
                              /\ producer[s].at = "ended"
                              /\ s \in Piped => Gone(s) /\ Ended(s)
=============================================================================
