---------------------------- MODULE CacheProofs ----------------------------
(***************************************************************************)
(* Theorems about CacheFill, for any buckets, threads and processes: a     *)
(* bucket of the cache is always whole, and so is what a request serves.   *)
(*                                                                         *)
(* BucketIsWhole is not inductive: a commit lists the files that its       *)
(* thread has moved, so the invariant has to say that these are in place,  *)
(* or were deleted, as long as the thread is moving.  What is fetched      *)
(* depends on the lock of the process: only its holder changes what the    *)
(* process has published.                                                  *)
(***************************************************************************)
EXTENDS CacheFill, TLAPS

Record == [at : {"idle", "planned", "filling", "moving", "serving"}, update : Updates,
           manifest : [Buckets -> 0..MaxVersion], todo : SUBSET Buckets,
           bucket : Buckets \cup {None}, moved : SUBSET Parts,
           cached : [Buckets -> SUBSET ObjectRows], robbed : BOOLEAN]

(* The type of every variable that the other parts are about.              *)
Types == /\ server \in [Buckets -> 1..MaxVersion]
         /\ version \in [Buckets -> 0..MaxVersion]
         /\ objects \in [Buckets -> SUBSET ObjectRows]
         /\ thread \in [Threads -> Record]

Rows(v) == {<<v, x>> : x \in IF v = 0 THEN {} ELSE Parts}

(* A request under way has a manifest of published versions. *)
ManifestsNameVersions ==
  \A t \in Threads : thread[t].at # "idle" => thread[t].manifest \in [Buckets -> 1..MaxVersion]

(* The files that a thread has moved have arrived.                         *)
MovedIsThere ==
  \A t \in Threads : thread[t].at = "moving" =>
    /\ thread[t].bucket \in Buckets
    /\ \A x \in thread[t].moved :
         <<thread[t].bucket, thread[t].manifest[thread[t].bucket], x>> \in files \cup lost

BucketsWhole ==
  \A b \in Buckets : /\ objects[b] = Rows(version[b])
                     /\ FilesOf(b, objects[b]) \subseteq files \cup lost

IInv == Types /\ ManifestsNameVersions /\ MovedIsThere /\ BucketsWhole /\ ServesWholeBuckets

LEMMA WholeIsTheSame == BucketsWhole <=> BucketIsWhole
  BY DEF BucketsWhole, BucketIsWhole, Rows

LEMMA InitHolds == Init => IInv
<1> SUFFICES ASSUME Init PROVE IInv
  OBVIOUS
<1> USE CacheAssumption DEF Init
<1>1. NoRequest \in Record
  BY DEF NoRequest, Record, Updates, ObjectRows
<1>2. Types
  BY <1>1 DEF Types
<1>3. \A t \in Threads : thread[t].at = "idle"
  BY DEF NoRequest
<1>4. BucketsWhole
  BY DEF BucketsWhole, Rows, FilesOf
<1> QED
  BY <1>2, <1>3, <1>4 DEF IInv, ManifestsNameVersions, MovedIsThere, ServesWholeBuckets

(* The steps that leave the database, and take no file away.               *)
LEMMA Quiet ==
  ASSUME IInv, NEW t \in Threads, NEW r \in Record,
         thread' = [thread EXCEPT ![t] = r],
         r.at # "idle" => r.manifest \in [Buckets -> 1..MaxVersion],
         r.at = "moving" => /\ r.bucket \in Buckets
                            /\ \A x \in r.moved :
                                 <<r.bucket, r.manifest[r.bucket], x>> \in files' \cup lost',
         r.at = "serving" => \A b \in Buckets :
            \E v \in 1..MaxVersion : r.cached[b] = {<<v, x>> : x \in Parts},
         files \cup lost \subseteq files' \cup lost',
         UNCHANGED <<server, version, objects>>
  PROVE  IInv'
<1> USE DEF IInv
<1>1. Types'
  BY DEF Types
<1>2. ManifestsNameVersions'
  BY DEF Types, ManifestsNameVersions
<1>3. MovedIsThere'
  <2> SUFFICES ASSUME NEW u \in Threads, thread'[u].at = "moving"
               PROVE  /\ thread'[u].bucket \in Buckets
                      /\ \A x \in thread'[u].moved :
                           <<thread'[u].bucket, thread'[u].manifest[thread'[u].bucket], x>>
                             \in files' \cup lost'
    BY DEF MovedIsThere
  <2>1. CASE u = t
    BY <2>1 DEF Types
  <2>2. CASE u # t
    <3>1. thread'[u] = thread[u]
      BY <2>2 DEF Types
    <3> QED
      BY <3>1 DEF MovedIsThere
  <2> QED
    BY <2>1, <2>2
<1>4. BucketsWhole'
  BY DEF BucketsWhole, FilesOf
<1>5. ServesWholeBuckets'
  BY DEF Types, ServesWholeBuckets
<1> QED
  BY <1>1, <1>2, <1>3, <1>4, <1>5

LEMMA NoRequestIsQuiet ==
  /\ NoRequest \in Record
  /\ NoRequest.at = "idle"
BY CacheAssumption DEF NoRequest, Record, Updates, ObjectRows

LEMMA PlanStep == ASSUME IInv, NEW t \in Threads, Plan(t) PROVE IInv'
<1>1. PICK u \in Updates : thread' = [thread EXCEPT ![t] =
        [NoRequest EXCEPT !.at = "planned", !.update = u, !.manifest = Manifest]]
  BY DEF Plan
<1> DEFINE r == [NoRequest EXCEPT !.at = "planned", !.update = u, !.manifest = Manifest]
<1>2. Manifest \in [Buckets -> 1..MaxVersion] /\ Manifest \in [Buckets -> 0..MaxVersion]
  BY CacheAssumption DEF Manifest, IInv, Types
<1>3. r \in Record /\ r.at = "planned" /\ r.manifest = Manifest
  BY <1>2, NoRequestIsQuiet DEF Record, NoRequest
<1> HIDE DEF r
<1>4. thread' = [thread EXCEPT ![t] = r]
  BY <1>1 DEF r
<1> QED
  BY <1>2, <1>3, <1>4, Quiet DEF Plan, disk

LEMMA StartFillStep == ASSUME IInv, NEW t \in Threads, StartFill(t) PROVE IInv'
<1> DEFINE r == [thread[t] EXCEPT !.at = "filling", !.todo = {b \in Buckets : Fetches(t, b)}]
<1>1. thread[t] \in Record /\ thread[t].at = "planned"
  BY DEF IInv, Types, StartFill
<1>2. r \in Record /\ r.at = "filling" /\ r.manifest = thread[t].manifest
  BY <1>1 DEF Record
<1>3. thread' = [thread EXCEPT ![t] = r]
  BY DEF StartFill
<1>4. r.manifest \in [Buckets -> 1..MaxVersion]
  BY <1>1, <1>2 DEF IInv, ManifestsNameVersions
<1> HIDE DEF r
<1> QED
  BY <1>2, <1>3, <1>4, Quiet DEF StartFill, disk

LEMMA DownloadStep ==
  ASSUME IInv, NEW t \in Threads, NEW b \in Buckets, Download(t, b) PROVE IInv'
<1> DEFINE r == [thread[t] EXCEPT !.at = "moving", !.bucket = b, !.moved = {}]
<1>1. thread[t] \in Record /\ thread[t].at = "filling"
  BY DEF IInv, Types, Download
<1>2. r \in Record /\ r.at = "moving" /\ r.manifest = thread[t].manifest
      /\ r.bucket = b /\ r.moved = {}
  BY <1>1 DEF Record
<1>3. thread' = [thread EXCEPT ![t] = r]
  BY DEF Download
<1>4. r.manifest \in [Buckets -> 1..MaxVersion]
  BY <1>1, <1>2 DEF IInv, ManifestsNameVersions
<1> HIDE DEF r
<1> QED
  BY <1>2, <1>3, <1>4, Quiet DEF Download, disk

LEMMA MoveStep ==
  ASSUME IInv, NEW t \in Threads, NEW part \in Parts, Move(t, part) PROVE IInv'
<1> DEFINE r == [thread[t] EXCEPT !.moved = @ \cup {part}]
<1>1. thread[t] \in Record /\ thread[t].at = "moving"
  BY DEF IInv, Types, Move
<1>2. r \in Record /\ r.at = "moving" /\ r.manifest = thread[t].manifest
      /\ r.bucket = thread[t].bucket /\ r.moved = thread[t].moved \cup {part}
  BY <1>1 DEF Record
<1>3. thread' = [thread EXCEPT ![t] = r]
  BY DEF Move
<1>4. r.manifest \in [Buckets -> 1..MaxVersion]
  BY <1>1, <1>2 DEF IInv, ManifestsNameVersions
<1>5. files' = files \cup {<<r.bucket, r.manifest[r.bucket], part>>} /\ lost' = lost
  BY <1>2 DEF Move
<1>6. r.bucket \in Buckets
      /\ \A x \in r.moved : <<r.bucket, r.manifest[r.bucket], x>> \in files' \cup lost'
  BY <1>1, <1>2, <1>5 DEF IInv, MovedIsThere
<1>7. UNCHANGED <<server, version, objects>>
  BY DEF Move
<1> HIDE DEF r
<1> QED
  BY <1>2, <1>3, <1>4, <1>5, <1>6, <1>7, Quiet

(* The rows that a commit writes are those of the files that have arrived. *)
LEMMA CommitStep == ASSUME IInv, NEW t \in Threads, Commit(t) PROVE IInv'
<1> DEFINE b == thread[t].bucket
           v == thread[t].manifest[b]
           r == [thread[t] EXCEPT !.at = "filling", !.bucket = None, !.moved = {},
                                  !.todo = @ \ {b}]
<1>1. thread[t] \in Record /\ thread[t].at = "moving" /\ thread[t].moved = Parts
  BY DEF IInv, Types, Commit, AllMoved
<1>2. b \in Buckets /\ v \in 1..MaxVersion /\ \A x \in Parts : <<b, v, x>> \in files \cup lost
  BY <1>1 DEF IInv, MovedIsThere, ManifestsNameVersions
<1>3. /\ thread' = [thread EXCEPT ![t] = r]
      /\ version' = [version EXCEPT ![b] = v]
      /\ objects' = [objects EXCEPT ![b] = {<<v, x>> : x \in Parts}]
      /\ UNCHANGED <<server, files, lost>>
  BY DEF Commit, ReplacedRows
<1>4. r \in Record /\ r.at = "filling" /\ r.manifest = thread[t].manifest
  BY <1>1 DEF Record
<1>5. r.manifest \in [Buckets -> 1..MaxVersion]
  BY <1>1, <1>4 DEF IInv, ManifestsNameVersions
<1>6. {<<v, x>> : x \in Parts} = Rows(v) /\ {<<v, x>> : x \in Parts} \subseteq ObjectRows
  BY <1>2, CacheAssumption DEF Rows, ObjectRows
<1> HIDE DEF r, b, v
<1>7. Types'
  BY <1>2, <1>3, <1>4, <1>6, CacheAssumption DEF IInv, Types
<1>8. ManifestsNameVersions'
  BY <1>3, <1>4, <1>5 DEF IInv, Types, ManifestsNameVersions
<1>9. MovedIsThere'
  <2> SUFFICES ASSUME NEW u \in Threads, thread'[u].at = "moving"
               PROVE  /\ thread'[u].bucket \in Buckets
                      /\ \A x \in thread'[u].moved :
                           <<thread'[u].bucket, thread'[u].manifest[thread'[u].bucket], x>>
                             \in files' \cup lost'
    BY DEF MovedIsThere
  <2>1. u # t /\ thread'[u] = thread[u]
    BY <1>3, <1>4 DEF IInv, Types
  <2> QED
    BY <2>1, <1>3 DEF IInv, MovedIsThere
<1>10. BucketsWhole'
  <2> SUFFICES ASSUME NEW c \in Buckets
               PROVE  objects'[c] = Rows(version'[c]) /\ FilesOf(c, objects'[c]) \subseteq files' \cup lost'
    BY DEF BucketsWhole, Rows
  <2>1. CASE c = b
    <3>1. objects'[c] = {<<v, x>> : x \in Parts} /\ version'[c] = v
      BY <2>1, <1>3 DEF IInv, Types
    <3> QED
      BY <3>1, <2>1, <1>2, <1>3, <1>6 DEF FilesOf
  <2>2. CASE c # b
    <3>1. objects'[c] = objects[c] /\ version'[c] = version[c]
      BY <2>2, <1>3 DEF IInv, Types
    <3> QED
      BY <3>1, <1>3 DEF IInv, BucketsWhole
  <2> QED
    BY <2>1, <2>2
<1>11. ServesWholeBuckets'
  BY <1>3, <1>4 DEF IInv, Types, ServesWholeBuckets
<1> QED
  BY <1>7, <1>8, <1>9, <1>10, <1>11 DEF IInv

LEMMA ForgetStep ==
  ASSUME IInv, NEW t \in Threads, thread' = [thread EXCEPT ![t] = NoRequest],
         UNCHANGED <<server, version, objects, files, lost>>
  PROVE  IInv'
BY NoRequestIsQuiet, Quiet

(* A selection is served only if every bucket has rows: it is then whole.  *)
LEMMA SelectStep == ASSUME IInv, NEW t \in Threads, Select(t) PROVE IInv'
<1> DEFINE r == [thread[t] EXCEPT !.at = "serving", !.cached = objects]
<1>1. UNCHANGED <<server, version, objects, files, lost>>
  BY DEF Select, disk
<1>2. CASE thread' = [thread EXCEPT ![t] = NoRequest]
  BY <1>1, <1>2, ForgetStep
<1>3. CASE /\ \A b \in Buckets : objects[b] # {}
           /\ thread' = [thread EXCEPT ![t] = r]
  <2>1. thread[t] \in Record /\ thread[t].at = "filling"
    BY DEF IInv, Types, Select
  <2>2. r \in Record /\ r.at = "serving" /\ r.manifest = thread[t].manifest /\ r.cached = objects
    BY <2>1 DEF Record, IInv, Types
  <2>3. r.manifest \in [Buckets -> 1..MaxVersion]
    BY <2>1, <2>2 DEF IInv, ManifestsNameVersions
  <2>4. \A b \in Buckets : \E v \in 1..MaxVersion : r.cached[b] = {<<v, x>> : x \in Parts}
    <3> SUFFICES ASSUME NEW b \in Buckets
                 PROVE  \E v \in 1..MaxVersion : objects[b] = {<<v, x>> : x \in Parts}
      BY <2>2
    <3>1. objects[b] = Rows(version[b]) /\ version[b] \in 0..MaxVersion
      BY DEF IInv, BucketsWhole, Types
    <3>2. version[b] # 0
      BY <3>1, <1>3 DEF Rows
    <3>3. version[b] \in 1..MaxVersion
      BY <3>1, <3>2, CacheAssumption
    <3> QED
      BY <3>1, <3>2, <3>3 DEF Rows
  <2> HIDE DEF r
  <2> QED
    BY <1>1, <1>3, <2>2, <2>3, <2>4, Quiet
<1> QED
  BY <1>2, <1>3 DEF Select

(* A crash ends the requests of one process, and nothing else.             *)
LEMMA CrashStep == ASSUME IInv, NEW p \in Processes, Crash(p) PROVE IInv'
<1>1. /\ thread' = [t \in Threads |-> IF ProcessOf[t] = p THEN NoRequest ELSE thread[t]]
      /\ UNCHANGED <<server, version, objects, files, lost>>
  BY DEF Crash, disk
<1>2. \A t \in Threads : thread'[t] = NoRequest \/ thread'[t] = thread[t]
  BY <1>1
<1>3. Types'
  BY <1>1, NoRequestIsQuiet DEF IInv, Types
<1>4. ManifestsNameVersions'
  BY <1>2, NoRequestIsQuiet DEF IInv, ManifestsNameVersions
<1>5. MovedIsThere'
  BY <1>1, <1>2, NoRequestIsQuiet DEF IInv, MovedIsThere
<1>6. BucketsWhole'
  BY <1>1 DEF IInv, BucketsWhole, FilesOf
<1>7. ServesWholeBuckets'
  BY <1>2, NoRequestIsQuiet DEF IInv, ServesWholeBuckets
<1> QED
  BY <1>3, <1>4, <1>5, <1>6, <1>7 DEF IInv

(* The steps that no thread takes: they leave thread and the database.     *)
LEMMA OthersStep ==
  ASSUME IInv, UNCHANGED <<version, objects, thread>>, files \cup lost \subseteq files' \cup lost',
         server' \in [Buckets -> 1..MaxVersion]
  PROVE  IInv'
<1>1. Types'
  BY DEF IInv, Types
<1>2. ManifestsNameVersions' /\ ServesWholeBuckets'
  BY DEF IInv, ManifestsNameVersions, ServesWholeBuckets
<1>3. MovedIsThere'
  BY DEF IInv, MovedIsThere
<1>4. BucketsWhole'
  BY DEF IInv, BucketsWhole, FilesOf
<1> QED
  BY <1>1, <1>2, <1>3, <1>4 DEF IInv

(* A deletion moves a file from files to lost, and marks who fills.        *)
LEMMA LoseLeaves ==
  ASSUME IInv, NEW f \in files, Lose(f), NEW t \in Threads
  PROVE  /\ thread'[t] \in Record
         /\ thread'[t] = thread[t] \/ thread'[t] = [thread[t] EXCEPT !.robbed = TRUE]
         /\ thread'[t].at = thread[t].at /\ thread'[t].update = thread[t].update
         /\ thread'[t].manifest = thread[t].manifest /\ thread'[t].todo = thread[t].todo
         /\ thread'[t].bucket = thread[t].bucket /\ thread'[t].moved = thread[t].moved
         /\ thread'[t].cached = thread[t].cached
<1>1. thread[t] \in Record
  BY DEF IInv, Types
<1>2. thread'[t] = thread[t] \/ thread'[t] = [thread[t] EXCEPT !.robbed = TRUE]
  BY DEF Lose
<1> QED
  BY <1>1, <1>2 DEF Record

LEMMA LoseStep == ASSUME IInv, NEW f \in files, Lose(f) PROVE IInv'
<1>1. files \cup lost \subseteq files' \cup lost' /\ UNCHANGED <<server, version, objects>>
  BY DEF Lose
<1>2. Types'
  BY <1>1, LoseLeaves DEF IInv, Types, Lose
<1>3. ManifestsNameVersions'
  BY LoseLeaves DEF IInv, ManifestsNameVersions
<1>4. MovedIsThere'
  BY <1>1, LoseLeaves DEF IInv, MovedIsThere
<1>5. BucketsWhole'
  BY <1>1 DEF IInv, BucketsWhole, FilesOf
<1>6. \A t \in Threads : thread'[t].at = thread[t].at /\ thread'[t].cached = thread[t].cached
  BY LoseLeaves
<1>7. ServesWholeBuckets'
  BY <1>6 DEF IInv, ServesWholeBuckets
<1> QED
  BY <1>2, <1>3, <1>4, <1>5, <1>7 DEF IInv

LEMMA RequestStep == ASSUME IInv, NEW t \in Threads, Request(t) PROVE IInv'
<1>1. CASE Fail(t) \/ Finish(t)
  BY <1>1, ForgetStep DEF Fail, Finish, disk
<1> QED
  BY <1>1, PlanStep, StartFillStep, DownloadStep, MoveStep, CommitStep, SelectStep DEF Request

LEMMA NextHolds == IInv /\ [Next]_vars => IInv'
<1> SUFFICES ASSUME IInv, [Next]_vars PROVE IInv'
  OBVIOUS
<1>1. ASSUME NEW b \in Buckets, Publish(b) PROVE IInv'
  <2>1. server[b] \in 1..MaxVersion /\ server[b] < MaxVersion
    BY <1>1 DEF IInv, Types, Publish
  <2>2. server[b] + 1 \in 1..MaxVersion
    BY <2>1, CacheAssumption
  <2>3. server' \in [Buckets -> 1..MaxVersion]
    BY <1>1, <2>2 DEF IInv, Types, Publish
  <2> QED
    BY <1>1, <2>3, OthersStep DEF Publish, disk
<1>2. ASSUME NEW f \in files, Lose(f) PROVE IInv'
  BY <1>2, LoseStep
<1>3. CASE UNCHANGED vars
  BY <1>3, OthersStep DEF vars, IInv, Types
<1> QED
  BY <1>1, <1>2, <1>3, RequestStep, CrashStep DEF Next

(* Whatever crashes, deleted files, publications of the server and other   *)
(* processes come between the moves and the commit of publish_downloads,   *)
(* the database shows every bucket as a whole, and of one version.         *)
THEOREM BucketsAreWhole == Spec => []BucketIsWhole
<1>1. IInv => BucketIsWhole
  BY WholeIsTheSame DEF IInv
<1> QED
  BY <1>1, InitHolds, NextHolds, PTL DEF Spec

(* What batches() serves in cache mode is, in every bucket, all the        *)
(* objects of one published version.                                       *)
THEOREM WholeBucketsAreServed == Spec => []ServesWholeBuckets
<1>1. IInv => ServesWholeBuckets
  BY DEF IInv
<1> QED
  BY <1>1, InitHolds, NextHolds, PTL DEF Spec
-----------------------------------------------------------------------------
(* Which buckets are fetched. *)

(* Whoever fills the cache has the lock of its process.                    *)
FillsUnderLock ==
  /\ by \in [Buckets -> Processes \cup {None}] /\ fill \in [Processes -> Threads \cup {None}]
  /\ \A t \in Threads : Filling(t) => fill[ProcessOf[t]] = t

(* What is not fetched is what the server named, unless another process    *)
(* has come between.                                                       *)
Follows(t, b) ==
  Filling(t) /\ thread[t].update # "missing_only" =>
    b \in thread[t].todo \/ version[b] = thread[t].manifest[b] \/ Foreign(t, b)

(* What is to be fetched is not there, or is not what the server named.    *)
Needs(t, b) ==
  Filling(t) /\ b \in thread[t].todo /\ thread[t].update # "force" /\ ~Foreign(t, b) /\ lost = {} =>
    version[b] = 0 \/ (thread[t].update = "if_changed" /\ version[b] # thread[t].manifest[b])

FillInv ==
  /\ IInv /\ FillsUnderLock
  /\ \A t \in Threads, b \in Buckets : Follows(t, b) /\ Needs(t, b)

(* As long as no file was deleted, a bucket with a version has its files.  *)
LEMMA IntactIsVersioned ==
  ASSUME IInv, NEW b \in Buckets, lost = {}
  PROVE  Intact(b) <=> version[b] # 0
<1>1. objects[b] = Rows(version[b]) /\ FilesOf(b, objects[b]) \subseteq files
  BY DEF IInv, BucketsWhole
<1>2. objects[b] # {} <=> version[b] # 0
  <2>1. CASE version[b] = 0
    <3>1. Rows(0) = {}
      BY DEF Rows
    <3> QED BY <1>1, <2>1, <3>1
  <2>2. CASE version[b] # 0
    <3>1. PICK x : x \in Parts
      BY CacheAssumption
    <3>2. <<version[b], x>> \in Rows(version[b])
      BY <2>2, <3>1 DEF Rows
    <3> QED BY <1>1, <2>2, <3>2
  <2> QED BY <2>1, <2>2
<1> QED BY <1>1, <1>2 DEF Intact

(* A step of thread t that changes no row: r is what it does afterwards.   *)
LEMMA ThreadFills ==
  ASSUME FillInv, NEW t \in Threads, NEW r, thread' = [thread EXCEPT ![t] = r],
         UNCHANGED <<version, by>>, lost \subseteq lost',
         fill' \in [Processes -> Threads \cup {None}],
         \A u \in Threads \ {t} : Filling(u) => fill'[ProcessOf[u]] = fill[ProcessOf[u]],
         r.at \in {"filling", "moving"} =>
           /\ fill'[ProcessOf[t]] = t
           /\ Filling(t) /\ r.update = thread[t].update /\ r.manifest = thread[t].manifest
           /\ r.todo = thread[t].todo
  PROVE  /\ FillsUnderLock'
         /\ \A u \in Threads, b \in Buckets : Follows(u, b)' /\ Needs(u, b)'
<1>1. \A u \in Threads : thread'[u] = IF u = t THEN r ELSE thread[u]
  BY DEF FillInv, IInv, Types
<1>2. FillsUnderLock'
  BY <1>1 DEF FillInv, FillsUnderLock, Filling
<1>3. \A u \in Threads, b \in Buckets : Foreign(u, b)' = Foreign(u, b)
  BY DEF Foreign
<1>4. ASSUME NEW u \in Threads, NEW b \in Buckets PROVE Follows(u, b)' /\ Needs(u, b)'
  <2>1. Follows(u, b) /\ Needs(u, b)
    BY DEF FillInv
  <2>2. CASE u = t
    BY <1>1, <1>3, <2>1, <2>2 DEF Follows, Needs, Filling
  <2>3. CASE u # t
    BY <1>1, <1>3, <2>1, <2>3 DEF Follows, Needs, Filling
  <2> QED BY <2>2, <2>3
<1> QED BY <1>2, <1>4

LEMMA StartFills ==
  ASSUME FillInv, NEW t \in Threads, StartFill(t)
  PROVE  /\ FillsUnderLock'
         /\ \A u \in Threads, b \in Buckets : Follows(u, b)' /\ Needs(u, b)'
<1>. DEFINE todo == {b \in Buckets : Fetches(t, b)}
            r == [thread[t] EXCEPT !.at = "filling", !.todo = todo]
<1>1. thread[t] \in Record /\ thread \in [Threads -> Record]
  BY DEF FillInv, IInv, Types
<1>2. thread' = [thread EXCEPT ![t] = r] /\ fill' = [fill EXCEPT ![ProcessOf[t]] = t]
      /\ UNCHANGED <<version, by, lost>> /\ fill[ProcessOf[t]] = None
  BY DEF StartFill, FillFree, disk
<1>3. r.at = "filling" /\ r.todo = todo /\ r.update = thread[t].update /\ r.manifest = thread[t].manifest
  BY <1>1 DEF Record
<1>. HIDE DEF r
<1>4. \A u \in Threads : thread'[u] = IF u = t THEN r ELSE thread[u]
  BY <1>1, <1>2
<1>5. FillsUnderLock'
  BY <1>2, <1>3, <1>4, CacheAssumption DEF FillInv, FillsUnderLock, Filling
<1>6. \A u \in Threads, b \in Buckets : Foreign(u, b)' = Foreign(u, b)
  BY <1>2 DEF Foreign
<1>7. ASSUME NEW u \in Threads, NEW b \in Buckets PROVE Follows(u, b)' /\ Needs(u, b)'
  <2>1. Follows(u, b) /\ Needs(u, b)
    BY DEF FillInv
  <2>2. CASE u = t
    <3>1. thread[t].update \in {"missing_only", "if_changed", "force"}
      BY <1>1 DEF Record, Updates
    <3>2. lost = {} /\ ~Intact(b) => version[b] = 0
      BY IntactIsVersioned DEF FillInv
    <3>3. Follows(t, b)'
      BY <1>2, <1>3, <1>4, <3>1 DEF Follows, Fetches
    <3>4. Needs(t, b)'
      BY <1>2, <1>3, <1>4, <3>1, <3>2 DEF Needs, Fetches
    <3> QED BY <2>2, <3>3, <3>4
  <2>3. CASE u # t
    BY <1>2, <1>4, <1>6, <2>1, <2>3 DEF Follows, Needs, Filling
  <2> QED BY <2>2, <2>3
<1> QED BY <1>5, <1>7

LEMMA CommitFills ==
  ASSUME FillInv, NEW t \in Threads, Commit(t)
  PROVE  /\ FillsUnderLock'
         /\ \A u \in Threads, b \in Buckets : Follows(u, b)' /\ Needs(u, b)'
<1>. DEFINE c == thread[t].bucket
            todo == thread[t].todo \ {c}
            r == [thread[t] EXCEPT !.at = "filling", !.bucket = None, !.moved = {}, !.todo = todo]
<1>1. /\ thread[t] \in Record /\ thread \in [Threads -> Record] /\ c \in Buckets
      /\ version \in [Buckets -> 0..MaxVersion] /\ by \in [Buckets -> Processes \cup {None}]
      /\ thread[t].at = "moving"
  BY DEF FillInv, IInv, Types, MovedIsThere, Commit, FillsUnderLock
<1>2. /\ thread' = [thread EXCEPT ![t] = r] /\ fill' = fill /\ lost' = lost
      /\ version' = [version EXCEPT ![c] = thread[t].manifest[c]]
      /\ by' = [by EXCEPT ![c] = ProcessOf[t]]
  BY DEF Commit
<1>3. r.at = "filling" /\ r.todo = todo /\ r.update = thread[t].update /\ r.manifest = thread[t].manifest
  BY <1>1 DEF Record
<1>. HIDE DEF r
<1>4. /\ \A u \in Threads : thread'[u] = IF u = t THEN r ELSE thread[u]
      /\ \A b \in Buckets : /\ version'[b] = IF b = c THEN thread[t].manifest[c] ELSE version[b]
                            /\ by'[b] = IF b = c THEN ProcessOf[t] ELSE by[b]
      /\ Filling(t)
  BY <1>1, <1>2 DEF Filling
<1>5. FillsUnderLock'
  BY <1>1, <1>2, <1>3, <1>4, CacheAssumption DEF FillInv, FillsUnderLock, Filling
<1>6. ASSUME NEW u \in Threads, u # t, Filling(u) PROVE ProcessOf[u] # ProcessOf[t]
  BY <1>4, <1>6 DEF FillInv, FillsUnderLock
<1>7. ASSUME NEW u \in Threads, NEW b \in Buckets PROVE Follows(u, b)' /\ Needs(u, b)'
  <2>1. Follows(u, b) /\ Needs(u, b)
    BY DEF FillInv
  <2>2. CASE u = t /\ b = c
    BY <1>3, <1>4, <2>2 DEF Follows, Needs
  <2>3. CASE u = t /\ b # c
    BY <1>2, <1>3, <1>4, <2>1, <2>3 DEF Follows, Needs, Foreign, Filling
  <2>4. CASE u # t /\ b = c
    <3>1. Filling(u) => Foreign(u, b)'
      BY <1>4, <1>6, <2>4, CacheAssumption DEF Foreign
    <3> QED BY <1>4, <2>4, <3>1 DEF Follows, Needs, Filling
  <2>5. CASE u # t /\ b # c
    BY <1>2, <1>4, <2>1, <2>5 DEF Follows, Needs, Foreign, Filling
  <2> QED BY <2>2, <2>3, <2>4, <2>5
<1> QED BY <1>5, <1>7

LEMMA FillStep == FillInv /\ [Next]_vars => FillInv'
<1>. SUFFICES ASSUME FillInv, [Next]_vars PROVE FillInv'
  OBVIOUS
<1>. DEFINE Goal == FillsUnderLock /\ \A u \in Threads, b \in Buckets : Follows(u, b) /\ Needs(u, b)
<1>1. IInv'
  BY NextHolds DEF FillInv
<1>2. thread \in [Threads -> Record] /\ fill \in [Processes -> Threads \cup {None}]
  BY DEF FillInv, IInv, Types, FillsUnderLock
<1>3. ASSUME NEW t \in Threads, Plan(t) \/ Finish(t) PROVE Goal'
  <2>1. PICK r : thread' = [thread EXCEPT ![t] = r] /\ r.at \notin {"filling", "moving"}
    <3>1. CASE Plan(t)
      <4>1. PICK u \in Updates : thread' = [thread EXCEPT ![t] =
              [NoRequest EXCEPT !.at = "planned", !.update = u, !.manifest = Manifest]]
        BY <3>1 DEF Plan
      <4>2. [NoRequest EXCEPT !.at = "planned", !.update = u, !.manifest = Manifest].at = "planned"
        BY DEF NoRequest
      <4> QED BY <4>1, <4>2
    <3>2. CASE Finish(t)
      BY <3>2, NoRequestIsQuiet DEF Finish
    <3> QED BY <1>3, <3>1, <3>2
  <2>2. UNCHANGED <<version, by, fill, lost>>
    BY <1>3 DEF Plan, Finish, disk
  <2> QED BY <1>2, <2>1, <2>2, ThreadFills
<1>4. ASSUME NEW t \in Threads, NEW b \in Buckets, Download(t, b) PROVE Goal'
  <2>. DEFINE r == [thread[t] EXCEPT !.at = "moving", !.bucket = b, !.moved = {}]
  <2>1. thread' = [thread EXCEPT ![t] = r] /\ UNCHANGED <<version, by, fill, lost>> /\ Filling(t)
    BY <1>4 DEF Download, disk, Filling
  <2>2. r.update = thread[t].update /\ r.manifest = thread[t].manifest /\ r.todo = thread[t].todo
    BY <1>2 DEF Record
  <2>3. fill[ProcessOf[t]] = t
    BY <2>1 DEF FillInv, FillsUnderLock
  <2>. HIDE DEF r
  <2> QED BY <1>2, <2>1, <2>2, <2>3, ThreadFills
<1>5. ASSUME NEW t \in Threads, NEW part \in Parts, Move(t, part) PROVE Goal'
  <2>. DEFINE m == thread[t].moved \cup {part}
              r == [thread[t] EXCEPT !.moved = m]
  <2>1. thread' = [thread EXCEPT ![t] = r] /\ UNCHANGED <<version, by, fill, lost>> /\ Filling(t)
    BY <1>5 DEF Move, Filling
  <2>2. r.update = thread[t].update /\ r.manifest = thread[t].manifest /\ r.todo = thread[t].todo
    BY <1>2 DEF Record
  <2>3. fill[ProcessOf[t]] = t
    BY <2>1 DEF FillInv, FillsUnderLock
  <2>. HIDE DEF r
  <2> QED BY <1>2, <2>1, <2>2, <2>3, ThreadFills
<1>6. ASSUME NEW t \in Threads, Fail(t) \/ Select(t) PROVE Goal'
  <2>1. PICK r : thread' = [thread EXCEPT ![t] = r] /\ r.at \notin {"filling", "moving"}
    <3>1. [thread[t] EXCEPT !.at = "serving", !.cached = objects].at = "serving"
      BY <1>2 DEF Record
    <3> QED BY <1>6, <3>1, NoRequestIsQuiet DEF Fail, Select
  <2>2. UNCHANGED <<version, by, lost>> /\ fill' = [fill EXCEPT ![ProcessOf[t]] = None] /\ Filling(t)
    BY <1>6 DEF Fail, Select, Leave, disk, Filling
  <2>3. \A u \in Threads \ {t} : Filling(u) => fill'[ProcessOf[u]] = fill[ProcessOf[u]]
    BY <1>2, <2>2, CacheAssumption DEF FillInv, FillsUnderLock
  <2> QED BY <1>2, <2>1, <2>2, <2>3, ThreadFills
<1>7. ASSUME NEW p \in Processes, Crash(p) PROVE Goal'
  <2>1. /\ \A u \in Threads : Filling(u)' => Filling(u) /\ thread'[u] = thread[u] /\ ProcessOf[u] # p
        /\ UNCHANGED <<version, by, lost>> /\ fill' = [fill EXCEPT ![p] = None]
    BY <1>7, NoRequestIsQuiet DEF Crash, Filling, disk
  <2>2. FillsUnderLock'
    BY <1>2, <2>1, CacheAssumption DEF FillInv, FillsUnderLock
  <2>3. ASSUME NEW u \in Threads, NEW b \in Buckets PROVE Follows(u, b)' /\ Needs(u, b)'
    <3>1. Follows(u, b) /\ Needs(u, b)
      BY DEF FillInv
    <3> QED BY <2>1, <3>1 DEF Follows, Needs, Foreign
  <2> QED BY <2>2, <2>3
<1>8. ASSUME UNCHANGED <<version, by, fill, thread>>, lost \subseteq lost' PROVE Goal'
  BY <1>8 DEF FillInv, FillsUnderLock, Follows, Needs, Foreign, Filling
<1>9. ASSUME NEW b \in Buckets, Publish(b) PROVE Goal'
  BY <1>8, <1>9 DEF Publish, disk
<1>10. ASSUME NEW f \in files, Lose(f) PROVE Goal'
  <2>1. /\ UNCHANGED <<version, by, fill>> /\ lost \subseteq lost'
        /\ \A t \in Threads : /\ Filling(t)' = Filling(t) /\ thread'[t].update = thread[t].update
                              /\ thread'[t].manifest = thread[t].manifest
                              /\ thread'[t].todo = thread[t].todo
    BY <1>10, LoseLeaves DEF FillInv, Lose, Filling
  <2>2. \A t \in Threads, b \in Buckets : Foreign(t, b)' = Foreign(t, b)
    BY <2>1 DEF Foreign
  <2>3. FillsUnderLock'
    BY <2>1 DEF FillInv, FillsUnderLock
  <2>4. ASSUME NEW t \in Threads, NEW b \in Buckets PROVE Follows(t, b)' /\ Needs(t, b)'
    BY <2>1, <2>2 DEF FillInv, Follows, Needs
  <2> QED BY <2>3, <2>4
<1>11. ASSUME UNCHANGED vars PROVE Goal'
  BY <1>8, <1>11 DEF vars, disk
<1>12. ASSUME NEW t \in Threads, Request(t) PROVE Goal'
  BY <1>3, <1>4, <1>5, <1>6, <1>12, StartFills, CommitFills DEF Request
<1>. HIDE DEF Goal
<1>13. Goal'
  BY <1>7, <1>9, <1>10, <1>11, <1>12 DEF Next
<1> QED BY <1>1, <1>13 DEF FillInv, Goal

LEMMA FillInit == Init => FillInv
<1>. SUFFICES ASSUME Init PROVE FillInv
  OBVIOUS
<1>1. \A t \in Threads : ~Filling(t)
  BY NoRequestIsQuiet DEF Init, Filling
<1>2. FillsUnderLock
  BY <1>1 DEF Init, FillsUnderLock
<1> QED BY <1>1, <1>2, InitHolds DEF FillInv, Follows, Needs

(* Whatever versions other requests of its process fetch, a request with   *)
(* if_changed or force is served the versions that the server named to it. *)
THEOREM ManifestsAreServed == Spec => ServesItsManifest
<1>. DEFINE A == \A t \in Threads, b \in Buckets :
                   Select(t) /\ thread'[t].at = "serving" /\ thread[t].update # "missing_only"
                     => version[b] = thread[t].manifest[b] \/ Foreign(t, b)
<1>1. FillInv => A
  BY DEF FillInv, Follows, Filling, Select
<1> QED BY <1>1, FillInit, FillStep, PTL DEF Spec, ServesItsManifest

(* Simultaneous misses share one fill: under the lock a request downloads  *)
(* only what is missing, or older than the server named, unless it is      *)
(* forced to, another process has come between, or files were deleted.     *)
THEOREM NoFillInVain == Spec => FillsAreNeeded
<1>. DEFINE A == \A t \in Threads, b \in Buckets :
                   Download(t, b) /\ thread[t].update # "force" /\ Intact(b) /\ ~Foreign(t, b) /\ lost = {}
                     => thread[t].update = "if_changed" /\ version[b] # thread[t].manifest[b]
<1>1. FillInv => A
  BY IntactIsVersioned DEF FillInv, Needs, Filling, Download
<1> QED BY <1>1, FillInit, FillStep, PTL DEF Spec, FillsAreNeeded
-----------------------------------------------------------------------------
(* What was deleted is fetched again. *)

(* The files that a thread has moved are in place, unless some were        *)
(* deleted meanwhile.                                                      *)
MovedIsKept ==
  \A t \in Threads : thread[t].at = "moving" /\ ~thread[t].robbed =>
    \A x \in thread[t].moved : <<thread[t].bucket, thread[t].manifest[thread[t].bucket], x>> \in files

(* What a fill does not fetch, or has fetched, has all its files.          *)
Kept(t, b) ==
  Filling(t) => \/ b \in thread[t].todo \/ thread[t].robbed
                \/ Foreign(t, b) \/ Intact(b)

KeptInv == FillInv /\ MovedIsKept /\ \A t \in Threads, b \in Buckets : Kept(t, b)

Keeps == MovedIsKept /\ \A t \in Threads, b \in Buckets : Kept(t, b)

(* Steps of one thread that leave the rows, and take no file away.         *)
LEMMA ThreadKeeps ==
  ASSUME KeptInv, NEW t \in Threads, NEW r, thread' = [thread EXCEPT ![t] = r],
         UNCHANGED <<objects, by>>, files \subseteq files',
         r.at \in {"filling", "moving"} => \A b \in Buckets :
           b \in r.todo \/ r.robbed \/ Foreign(t, b) \/ Intact(b),
         r.at = "moving" /\ ~r.robbed =>
           \A x \in r.moved : <<r.bucket, r.manifest[r.bucket], x>> \in files'
  PROVE  Keeps'
<1>1. \A u \in Threads : thread'[u] = IF u = t THEN r ELSE thread[u]
  BY DEF KeptInv, FillInv, IInv, Types
<1>2. MovedIsKept'
  BY <1>1 DEF KeptInv, MovedIsKept
<1>3. \A u \in Threads, b \in Buckets : Foreign(u, b)' = Foreign(u, b)
  BY DEF Foreign
<1>4. \A b \in Buckets : Intact(b) => Intact(b)'
  BY DEF Intact, FilesOf
<1>5. ASSUME NEW u \in Threads, NEW b \in Buckets PROVE Kept(u, b)'
  <2>1. Kept(u, b)
    BY DEF KeptInv
  <2>2. CASE u = t
    BY <1>1, <1>3, <1>4, <2>2 DEF Kept, Filling
  <2>3. CASE u # t
    BY <1>1, <1>3, <1>4, <2>1, <2>3 DEF Kept, Filling
  <2> QED BY <2>2, <2>3
<1> QED BY <1>2, <1>5 DEF Keeps

LEMMA CommitKeeps == ASSUME KeptInv, NEW t \in Threads, Commit(t) PROVE Keeps'
<1>. DEFINE c == thread[t].bucket
            v == thread[t].manifest[c]
            todo == thread[t].todo \ {c}
            r == [thread[t] EXCEPT !.at = "filling", !.bucket = None, !.moved = {}, !.todo = todo]
<1>1. /\ thread[t] \in Record /\ thread \in [Threads -> Record] /\ c \in Buckets
      /\ objects \in [Buckets -> SUBSET ObjectRows] /\ by \in [Buckets -> Processes \cup {None}]
      /\ thread[t].at = "moving" /\ thread[t].moved = Parts
  BY DEF KeptInv, FillInv, IInv, Types, MovedIsThere, Commit, FillsUnderLock, AllMoved
<1>2. /\ thread' = [thread EXCEPT ![t] = r] /\ files' = files
      /\ objects' = [objects EXCEPT ![c] = {<<v, x>> : x \in Parts}]
      /\ by' = [by EXCEPT ![c] = ProcessOf[t]]
  BY DEF Commit, ReplacedRows
<1>3. r.at = "filling" /\ r.todo = todo /\ r.robbed = thread[t].robbed
  BY <1>1 DEF Record
<1>4. ~thread[t].robbed => \A x \in Parts : <<c, v, x>> \in files
  BY <1>1 DEF KeptInv, MovedIsKept
<1>. HIDE DEF r, v
<1>5. /\ \A u \in Threads : thread'[u] = IF u = t THEN r ELSE thread[u]
      /\ \A b \in Buckets : /\ objects'[b] = IF b = c THEN {<<v, x>> : x \in Parts} ELSE objects[b]
                            /\ by'[b] = IF b = c THEN ProcessOf[t] ELSE by[b]
      /\ Filling(t)
  BY <1>1, <1>2 DEF Filling
<1>6. MovedIsKept'
  BY <1>2, <1>3, <1>5 DEF KeptInv, MovedIsKept
<1>7. ASSUME NEW u \in Threads, u # t, Filling(u) PROVE ProcessOf[u] # ProcessOf[t]
  BY <1>5, <1>7 DEF KeptInv, FillInv, FillsUnderLock
<1>8. ASSUME NEW b \in Buckets, b = c, ~thread[t].robbed PROVE Intact(b)'
  <2>1. objects'[b] = {<<v, x>> : x \in Parts} /\ \A x \in Parts : <<b, v, x>> \in files'
    BY <1>2, <1>4, <1>5, <1>8
  <2>2. objects'[b] # {}
    BY <2>1, CacheAssumption
  <2>3. FilesOf(b, objects[b])' \subseteq files'
    BY <2>1 DEF FilesOf
  <2> QED BY <2>2, <2>3 DEF Intact
<1>9. ASSUME NEW u \in Threads, NEW b \in Buckets PROVE Kept(u, b)'
  <2>1. Kept(u, b)
    BY DEF KeptInv
  <2>2. CASE u = t /\ b = c
    BY <1>3, <1>5, <1>8, <2>2 DEF Kept
  <2>3. CASE u # t /\ b = c
    <3>1. Filling(u) => Foreign(u, b)'
      <4>1. by'[b] = ProcessOf[t]
        BY <1>1, <1>2, <2>3
      <4>2. ProcessOf[t] # None
        BY CacheAssumption
      <4>3. Filling(u) => ProcessOf[u] # ProcessOf[t]
        BY <1>7, <2>3
      <4> QED BY <4>1, <4>2, <4>3 DEF Foreign
    <3>2. Filling(u)' = Filling(u)
      BY <1>5, <2>3 DEF Filling
    <3> QED BY <3>1, <3>2 DEF Kept
  <2>4. CASE b # c
    <3>1. /\ Intact(b)' = Intact(b) /\ Foreign(u, b)' = Foreign(u, b)
      BY <1>2, <1>5, <2>4 DEF Intact, FilesOf, Foreign
    <3> QED BY <1>3, <1>5, <2>1, <2>4, <3>1 DEF Kept, Filling
  <2> QED BY <2>2, <2>3, <2>4
<1> QED BY <1>6, <1>9 DEF Keeps

LEMMA LoseKeeps == ASSUME KeptInv, NEW f \in files, Lose(f) PROVE Keeps'
<1>1. \A t \in Threads : Filling(t)' = Filling(t) /\ (Filling(t) => thread'[t].robbed)
  <2> TAKE t \in Threads
  <2>1. thread[t] \in Record
    BY DEF KeptInv, FillInv, IInv, Types
  <2>2. thread'[t].at = thread[t].at
    BY LoseLeaves DEF KeptInv, FillInv
  <2>3. Filling(t) => thread'[t].robbed
    BY <2>1 DEF Lose, Record
  <2> QED BY <2>2, <2>3 DEF Filling
<1>2. \A t \in Threads, b \in Buckets : Kept(t, b)'
  BY <1>1 DEF Kept
<1>3. MovedIsKept'
  BY <1>1 DEF MovedIsKept, Filling
<1> QED BY <1>2, <1>3 DEF Keeps

LEMMA KeptStep == KeptInv /\ [Next]_vars => KeptInv'
<1>. SUFFICES ASSUME KeptInv, [Next]_vars PROVE KeptInv'
  OBVIOUS
<1>1. FillInv'
  BY FillStep DEF KeptInv
<1>2. thread \in [Threads -> Record] /\ (\A t \in Threads, b \in Buckets : Kept(t, b)) /\ MovedIsKept
  BY DEF KeptInv, FillInv, IInv, Types
<1>3. ASSUME NEW t \in Threads, Plan(t) \/ Fail(t) \/ Select(t) \/ Finish(t) PROVE Keeps'
  <2>1. PICK r : thread' = [thread EXCEPT ![t] = r] /\ r.at \notin {"filling", "moving"}
    <3>1. CASE Plan(t)
      <4>1. PICK u \in Updates : thread' = [thread EXCEPT ![t] =
              [NoRequest EXCEPT !.at = "planned", !.update = u, !.manifest = Manifest]]
        BY <3>1 DEF Plan
      <4>2. [NoRequest EXCEPT !.at = "planned", !.update = u, !.manifest = Manifest].at = "planned"
        BY DEF NoRequest
      <4> QED BY <4>1, <4>2
    <3>2. CASE Fail(t) \/ Finish(t)
      BY <3>2, NoRequestIsQuiet DEF Fail, Finish
    <3>3. CASE Select(t)
      <4>1. [thread[t] EXCEPT !.at = "serving", !.cached = objects].at = "serving"
        BY <1>2 DEF Record
      <4> QED BY <3>3, <4>1, NoRequestIsQuiet DEF Select
    <3> QED BY <1>3, <3>1, <3>2, <3>3
  <2>2. UNCHANGED <<objects, by, files>>
    BY <1>3 DEF Plan, Fail, Select, Finish, disk
  <2> QED BY <2>1, <2>2, ThreadKeeps
<1>4. ASSUME NEW t \in Threads, StartFill(t) PROVE Keeps'
  <2>. DEFINE todo == {b \in Buckets : Fetches(t, b)}
              r == [thread[t] EXCEPT !.at = "filling", !.todo = todo]
  <2>1. thread' = [thread EXCEPT ![t] = r] /\ UNCHANGED <<objects, by, files>>
    BY <1>4 DEF StartFill, disk
  <2>2. r.at = "filling" /\ r.todo = todo
    BY <1>2 DEF Record
  <2>3. \A b \in Buckets : b \in todo \/ Intact(b)
    BY DEF Fetches
  <2>. HIDE DEF r, todo
  <2> QED BY <2>1, <2>2, <2>3, ThreadKeeps
<1>5. ASSUME NEW t \in Threads, NEW b \in Buckets, Download(t, b) PROVE Keeps'
  <2>. DEFINE r == [thread[t] EXCEPT !.at = "moving", !.bucket = b, !.moved = {}]
  <2>1. thread' = [thread EXCEPT ![t] = r] /\ UNCHANGED <<objects, by, files>> /\ Filling(t)
    BY <1>5 DEF Download, disk, Filling
  <2>2. r.todo = thread[t].todo /\ r.robbed = thread[t].robbed /\ r.moved = {}
    BY <1>2 DEF Record
  <2>3. \A c \in Buckets : c \in r.todo \/ r.robbed \/ Foreign(t, c) \/ Intact(c)
    BY <1>2, <2>1, <2>2 DEF Kept
  <2>. HIDE DEF r
  <2> QED BY <2>1, <2>2, <2>3, ThreadKeeps
<1>6. ASSUME NEW t \in Threads, NEW part \in Parts, Move(t, part) PROVE Keeps'
  <2>. DEFINE m == thread[t].moved \cup {part}
              r == [thread[t] EXCEPT !.moved = m]
  <2>1. /\ thread' = [thread EXCEPT ![t] = r] /\ UNCHANGED <<objects, by>>
        /\ Filling(t) /\ thread[t].at = "moving"
        /\ files' = files \cup {<<thread[t].bucket, thread[t].manifest[thread[t].bucket], part>>}
    BY <1>6 DEF Move, Filling
  <2>2. /\ r.todo = thread[t].todo /\ r.robbed = thread[t].robbed /\ r.moved = m
        /\ r.bucket = thread[t].bucket /\ r.manifest = thread[t].manifest
    BY <1>2 DEF Record
  <2>3. \A c \in Buckets : c \in r.todo \/ r.robbed \/ Foreign(t, c) \/ Intact(c)
    BY <1>2, <2>1, <2>2 DEF Kept
  <2>4. ~r.robbed => \A x \in r.moved : <<r.bucket, r.manifest[r.bucket], x>> \in files'
    BY <1>2, <2>1, <2>2 DEF MovedIsKept
  <2>. HIDE DEF r
  <2> QED BY <2>1, <2>3, <2>4, ThreadKeeps
<1>7. ASSUME NEW p \in Processes, Crash(p) PROVE Keeps'
  <2>1. /\ \A u \in Threads : Filling(u)' => Filling(u) /\ thread'[u] = thread[u]
        /\ UNCHANGED <<objects, by, files>>
    BY <1>7, NoRequestIsQuiet DEF Crash, Filling, disk
  <2>2. \A t \in Threads, b \in Buckets : Kept(t, b)'
    BY <1>2, <2>1 DEF Kept, Foreign, Intact, FilesOf
  <2>3. MovedIsKept'
    BY <1>2, <2>1 DEF MovedIsKept, Filling
  <2> QED BY <2>2, <2>3 DEF Keeps
<1>8. ASSUME UNCHANGED <<objects, files, by, thread>> PROVE Keeps'
  BY <1>2, <1>8 DEF Keeps, Kept, MovedIsKept, Filling, Foreign, Intact, FilesOf
<1>9. ASSUME NEW b \in Buckets, Publish(b) PROVE Keeps'
  BY <1>8, <1>9 DEF Publish, disk
<1>10. ASSUME UNCHANGED vars PROVE Keeps'
  BY <1>8, <1>10 DEF vars, disk
<1>11. ASSUME NEW t \in Threads, Request(t) PROVE Keeps'
  BY <1>3, <1>4, <1>5, <1>6, <1>11, CommitKeeps DEF Request
<1>12. Keeps'
  BY <1>7, <1>9, <1>10, <1>11, LoseKeeps DEF Next
<1> QED BY <1>1, <1>12 DEF KeptInv, Keeps

LEMMA KeptInit == Init => KeptInv
<1>. SUFFICES ASSUME Init PROVE KeptInv
  OBVIOUS
<1>1. \A t \in Threads : ~Filling(t)
  BY NoRequestIsQuiet DEF Init, Filling
<1> QED BY <1>1, FillInit DEF KeptInv, Kept, MovedIsKept, Filling

(* A file that the database lists and somebody has deleted is fetched      *)
(* again: selected() finds every file, unless one is deleted during the    *)
(* fill, or another process has published the bucket last.                 *)
THEOREM DeletedAreFetched == Spec => DeletedFilesAreFetched
<1>. DEFINE A == \A t \in Threads :
                   Select(t) /\ thread'[t].at # "serving"
                     => thread[t].robbed \/ \E b \in Buckets : Foreign(t, b)
<1>1. ASSUME KeptInv PROVE A
  <2> SUFFICES ASSUME NEW t \in Threads, Select(t), thread'[t].at # "serving",
                      ~thread[t].robbed, \A b \in Buckets : ~Foreign(t, b)
               PROVE  FALSE
    OBVIOUS
  <2>1. \A b \in Buckets : Intact(b)
    BY <1>1 DEF KeptInv, Kept, Filling, Select
  <2>2. thread' = [thread EXCEPT ![t] = [thread[t] EXCEPT !.at = "serving", !.cached = objects]]
    BY <2>1 DEF Select, Intact
  <2> QED BY <1>1, <2>2 DEF KeptInv, FillInv, IInv, Types, Record
<1> QED BY <1>1, KeptInit, KeptStep, PTL DEF Spec, DeletedFilesAreFetched
=============================================================================
