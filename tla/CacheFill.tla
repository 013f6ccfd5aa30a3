----------------------------- MODULE CacheFill -----------------------------
(***************************************************************************)
(* Requests in cache mode: DataService.batches and LocalCache.  A request  *)
(* gets the versions of its buckets from the gateway, waits for the fill   *)
(* lock of its process, compares them with the cache, downloads and        *)
(* publishes the buckets that it needs, and reads back what it will serve. *)
(* The cache (a SQLite database and a directory of objects) is on disk,    *)
(* and every process that uses the same cache_root shares it.              *)
(*                                                                         *)
(* The connection pool, the memory gate and the retries of a download are  *)
(* left out: a download either delivers a bucket or ends the request.      *)
(***************************************************************************)
EXTENDS Naturals, FiniteSets

CONSTANTS Buckets,     \* five-minute buckets that the requests ask for
          Parts,       \* the objects of a bucket
          Threads, Processes,
          ProcessOf,   \* the process of each thread
          MaxVersion,  \* bound: versions that the server publishes
          MaxLost,     \* bound: object files that disappear
          None

ASSUME CacheAssumption == /\ ProcessOf \in [Threads -> Processes]
                          /\ IsFiniteSet(Parts) /\ Parts # {}
                          /\ MaxVersion \in Nat \ {0} /\ MaxLost \in Nat
                          /\ None \notin Threads \cup Processes

VARIABLES
  server,   \* the current version of each bucket on the server
  version,  \* buckets.version in the database, 0 if there is no row
  objects,  \* the rows of objects: <<version, part>> of each bucket
  files,    \* object files: <<bucket, version, part>>
  lost,     \* history: files that somebody has deleted
  by,       \* history: the process that published each bucket last
  fill,     \* _cache_fill_lock: its holder in each process
  thread    \* what each thread does

vars == <<server, version, objects, files, lost, by, fill, thread>>

disk == <<version, objects, files>>

Updates == {"missing_only", "if_changed", "force"}

NoRequest == [at |-> "idle", update |-> "missing_only", manifest |-> [b \in Buckets |-> 0],
              todo |-> {}, bucket |-> None, moved |-> {},
              cached |-> [b \in Buckets |-> {}],
              robbed |-> FALSE]  \* history: a file was deleted during the fill

Init == /\ server = [b \in Buckets |-> 1]
        /\ version = [b \in Buckets |-> 0]
        /\ objects = [b \in Buckets |-> {}]
        /\ files = {}
        /\ lost = {}
        /\ by = [b \in Buckets |-> None]
        /\ fill = [p \in Processes |-> None]
        /\ thread = [t \in Threads |-> NoRequest]

Publish(b) == /\ server[b] < MaxVersion
              /\ server' = [server EXCEPT ![b] = @ + 1]
              /\ UNCHANGED <<disk, lost, by, fill, thread>>

Filling(t) == thread[t].at \in {"filling", "moving"}

(* Somebody deletes files of the cache. *)
Lose(f) == /\ f \in files
           /\ Cardinality(lost) < MaxLost
           /\ files' = files \ {f}
           /\ lost' = lost \cup {f}
           /\ thread' = [t \in Threads |-> IF Filling(t) THEN [thread[t] EXCEPT !.robbed = TRUE]
                                         ELSE thread[t]]
           /\ UNCHANGED <<server, version, objects, by, fill>>
-----------------------------------------------------------------------------
(* The files of the objects o of bucket b. *)
FilesOf(b, o) == {<<b, x[1], x[2]>> : x \in o}

(* plan(): the bucket is in the database with all its files.               *)
Intact(b) == objects[b] # {} /\ FilesOf(b, objects[b]) \subseteq files

FetchesByVersion(t, b) ==
  \/ thread[t].update = "force"
  \/ version[b] = 0
  \/ thread[t].update = "if_changed" /\ version[b] # thread[t].manifest[b]

FetchesMissing(t, b) == thread[t].update = "force" \/ ~Intact(b)

Fetches(t, b) ==
  \/ thread[t].update = "force"
  \/ version[b] = 0
  \/ thread[t].update = "if_changed" /\ version[b] # thread[t].manifest[b]
  \/ ~Intact(b)

NeverWaits(t) == TRUE

FillFree(t) == fill[ProcessOf[t]] = None

(* The version a server counts for its next publication. *)
(* The answer of the gateway to the plan request. *)
Manifest == server

Plan(t) == /\ thread[t].at = "idle"
           /\ \E u \in Updates :
                thread' = [thread EXCEPT ![t] =
                  [NoRequest EXCEPT !.at = "planned", !.update = u, !.manifest = Manifest]]
           /\ UNCHANGED <<server, disk, lost, by, fill>>

(* The lock is taken, and the cache compared with the manifest under it.   *)
StartFill(t) ==
  /\ thread[t].at = "planned"
  /\ FillFree(t)
  /\ fill' = [fill EXCEPT ![ProcessOf[t]] = t]
  /\ thread' = [thread EXCEPT ![t].at = "filling", ![t].todo = {b \in Buckets : Fetches(t, b)}]
  /\ UNCHANGED <<server, disk, lost, by>>

(* fetch_cache_objects has the objects of one bucket in partial files.     *)
Download(t, b) ==
  /\ thread[t].at = "filling"
  /\ b \in thread[t].todo
  /\ thread' = [thread EXCEPT ![t].at = "moving", ![t].bucket = b, ![t].moved = {}]
  /\ UNCHANGED <<server, disk, lost, by, fill>>

(* publish_downloads: the target path names the version and the object.    *)
Move(t, part) ==
  LET r == thread[t]
  IN /\ r.at = "moving"
     /\ part \in Parts \ r.moved
     /\ files' = files \cup {<<r.bucket, r.manifest[r.bucket], part>>}
     /\ thread' = [thread EXCEPT ![t].moved = @ \cup {part}]
     /\ UNCHANGED <<server, version, objects, lost, by, fill>>

CommitsFirst(t) == thread[t].moved # {}

AllMoved(t) == thread[t].moved = Parts

KeepsRows(b, new) == objects[b] \cup new

(* DELETE and INSERT of the objects of the bucket.                         *)
ReplacedRows(b, new) == new

(* The transaction over both tables. *)
Commit(t) ==
  LET b == thread[t].bucket
      v == thread[t].manifest[b]
  IN /\ thread[t].at = "moving"
     /\ AllMoved(t)
     /\ version' = [version EXCEPT ![b] = v]
     /\ objects' = [objects EXCEPT ![b] = ReplacedRows(b, {<<v, x>> : x \in Parts})]
     /\ thread' = [thread EXCEPT ![t].at = "filling", ![t].bucket = None, ![t].moved = {},
                                 ![t].todo = @ \ {b}]
     /\ by' = [by EXCEPT ![b] = ProcessOf[t]]
     /\ UNCHANGED <<server, files, lost, fill>>

Leave(t) == fill' = [fill EXCEPT ![ProcessOf[t]] = None]

(* The download fails for good, or the publication does: the request ends  *)
(* with an exception, the lock is released, the transaction rolled back.   *)
Fail(t) ==
  /\ \/ thread[t].at = "filling" /\ thread[t].todo # {}
     \/ thread[t].at = "moving"
  /\ Leave(t)
  /\ thread' = [thread EXCEPT ![t] = NoRequest]
  /\ UNCHANGED <<server, disk, lost, by>>

(* selected(): one query, and every file must be there.                    *)
Select(t) ==
  /\ thread[t].at = "filling"
  /\ thread[t].todo = {}
  /\ Leave(t)
  /\ thread' = [thread EXCEPT ![t] =
       IF /\ \A b \in Buckets : objects[b] # {}
          /\ \A b \in Buckets : FilesOf(b, objects[b]) \subseteq files
       THEN [thread[t] EXCEPT !.at = "serving", !.cached = objects]
       ELSE NoRequest]
  /\ UNCHANGED <<server, disk, lost, by>>

(* iter_cached_batches, without the lock: it opens the files one by one.   *)
Finish(t) == /\ thread[t].at = "serving"
             /\ thread' = [thread EXCEPT ![t] = NoRequest]
             /\ UNCHANGED <<server, disk, lost, by, fill>>

(* A process dies and is started again.                                    *)
Crash(p) == /\ thread' = [t \in Threads |-> IF ProcessOf[t] = p THEN NoRequest ELSE thread[t]]
            /\ fill' = [fill EXCEPT ![p] = None]
            /\ UNCHANGED <<server, disk, lost, by>>
-----------------------------------------------------------------------------
Request(t) == \/ Plan(t)
              \/ StartFill(t)
              \/ \E b \in Buckets : Download(t, b)
              \/ \E part \in Parts : Move(t, part)
              \/ Commit(t)
              \/ Fail(t)
              \/ Select(t)
              \/ Finish(t)

Next == \/ \E b \in Buckets : Publish(b)
        \/ \E f \in files : Lose(f)
        \/ \E t \in Threads : Request(t)
        \/ \E p \in Processes : Crash(p)

Spec == Init /\ [][Next]_vars
-----------------------------------------------------------------------------
(* Properties.                                                             *)

ObjectRows == (1..MaxVersion) \X Parts

(* The database never shows part of a bucket, or two versions of it, and   *)
(* never an object whose file has not arrived, whatever crashes or other   *)
(* processes come between the moves and the commit.                        *)
BucketIsWhole ==
  \A b \in Buckets :
    /\ objects[b] = {<<version[b], x>> : x \in IF version[b] = 0 THEN {} ELSE Parts}
    /\ FilesOf(b, objects[b]) \subseteq files \cup lost

(* What a request serves is complete and of one version in every bucket.   *)
ServesWholeBuckets ==
  \A t \in Threads : thread[t].at = "serving" =>
    \A b \in Buckets : \E v \in 1..MaxVersion : thread[t].cached[b] = {<<v, x>> : x \in Parts}

(* Another process has published bucket b last: the lock does not order    *)
(* its fills and those of t.                                               *)
Foreign(t, b) == by[b] \notin {ProcessOf[t], None}

(* A request with if_changed or force gets the versions that the server    *)
(* named to it ("follows the server's versions", "downloads the current    *)
(* version"), whatever older or newer versions other requests of its       *)
(* process fetch; only another process can come between.                   *)
ServesItsManifest ==
  [][\A t \in Threads, b \in Buckets :
       Select(t) /\ thread'[t].at = "serving" /\ thread[t].update # "missing_only"
         => version[b] = thread[t].manifest[b] \/ Foreign(t, b)]_vars

(* A file that somebody has deleted is fetched again by the next request   *)
(* that needs it: a request that was not refused by the network is served, *)
(* unless a file is deleted while it fills, or another process has come    *)
(* between.                                                                *)
DeletedFilesAreFetched ==
  [][\A t \in Threads :
       Select(t) /\ thread'[t].at # "serving"
         => thread[t].robbed \/ \E b \in Buckets : Foreign(t, b)]_vars

(* A request with missing_only leaves intact buckets of the cache alone,   *)
(* and simultaneous misses share one fill: no request downloads a bucket   *)
(* that does not need it, unless it is forced to, another process has come *)
(* between, or files were deleted (moves of another process repair those). *)
FillsAreNeeded ==
  [][\A t \in Threads, b \in Buckets :
       Download(t, b) /\ thread[t].update # "force" /\ Intact(b) /\ ~Foreign(t, b) /\ lost = {}
         => thread[t].update = "if_changed" /\ version[b] # thread[t].manifest[b]]_vars
=============================================================================
