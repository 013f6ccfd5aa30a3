------------------------------ MODULE Catalog ------------------------------
(***************************************************************************)
(* The catalog: which immutable version of each partition (a dataset on a  *)
(* trade date) is current.  Publishers and the migration from the single-  *)
(* file format write it, each file replaced atomically; the CatalogStore   *)
(* of the gateway reads it, from many handler threads, through two LRU     *)
(* caches whose entries are valid as long as the signature of their file.  *)
(*                                                                         *)
(* Every write gives a file a fresh stamp, which stands for its signature. *)
(***************************************************************************)
EXTENDS Naturals, SequencesExt

CONSTANTS Partitions, Versions, Contents,
          Legacy,       \* the version and content of each partition in format v1
          Prepared,     \* the publications that may be asked for
          StartFormats, \* the formats that catalog.json may have in the beginning
          Publishers,   \* processes that call replace_partition
          Handlers,     \* threads of the gateway that read the catalog
          CacheSize,    \* shard_cache_size
          MaxWrites,    \* bound: how many files are written
          None

Entries == [version : Versions, content : Contents]

ASSUME CatalogAssumption ==
  /\ Legacy \in [Partitions -> Entries]
  /\ Prepared \subseteq [part : Partitions, version : Versions, content : Contents]
  /\ StartFormats \subseteq {"v1", "v2"}
  /\ CacheSize \in Nat \ {0}
  /\ MaxWrites \in Nat
  /\ None \notin Versions \cup Contents \cup Partitions

VARIABLES
  writes,     \* how many writes there have been
  index,      \* catalog.json: its stamp and its format
  pointer,    \* current.json of each partition: stamp and version (None: no file)
  shard,      \* the version files: stamp and content (None: no file)
  publisher,  \* where each replace_partition is, and what it publishes
  migration,  \* where migrate_legacy_catalog is
  memory,     \* the CatalogStore of the gateway: signature, format and caches
  handler,    \* what each handler is reading
  delivered   \* history: the entries that answers have contained

vars == <<writes, index, pointer, shard, publisher, migration, memory,
          handler, delivered>>

files == <<writes, index, pointer, shard>>

NoPublication == [at |-> "idle", part |-> None, version |-> None, content |-> None]

NoMigration == [running |-> FALSE, todo |-> {}, half |-> None]

NoCache == [pointers |-> <<>>, shards |-> <<>>]

NoRead == [at |-> "idle", wanted |-> {}, todo |-> {}, pinned |-> FALSE,
           part |-> None, level |-> None, seen |-> 0, value |-> None,
           since |-> 0, version |-> None,
           began |-> [p \in Partitions |-> 0], legacy |-> FALSE, got |-> {}]

Init == /\ writes = 0
        /\ index \in [stamp : {0}, format : StartFormats]
        /\ pointer = [p \in Partitions |-> [stamp |-> 0, value |-> None]]
        /\ shard = [p \in Partitions |-> [v \in Versions |-> [stamp |-> 0, value |-> None]]]
        /\ publisher = [w \in Publishers |-> NoPublication]
        /\ migration = NoMigration
        /\ memory = [signature |-> 0, format |-> index.format, cache |-> NoCache]
        /\ handler = [h \in Handlers |-> NoRead]
        /\ delivered = {}

Stamp == writes + 1

Written == /\ writes < MaxWrites
           /\ writes' = Stamp
-----------------------------------------------------------------------------
(* replace_partition.                                                      *)

(* The partition is not in format v1 and does not hold these objects yet.  *)
Start(w) == /\ publisher[w].at = "idle"
            /\ index.format = "v2"
            /\ \E r \in Prepared :
                 /\ \/ pointer[r.part].value # r.version
                    \/ shard[r.part][r.version].value # r.content
                 /\ publisher' = [publisher EXCEPT ![w] =
                       [at |-> "checking", part |-> r.part, version |-> r.version,
                        content |-> r.content]]
            /\ UNCHANGED <<files, migration, memory, handler, delivered>>

(* The version file as the publisher finds it. *)
Found(w) == shard[publisher[w].part][publisher[w].version].value

TrustsVersion(w) == FALSE

Conflicting(w) == Found(w) \notin {None, publisher[w].content}

(* An existing version is published again only with the same objects.      *)
CheckVersion(w) ==
  /\ publisher[w].at = "checking"
  /\ publisher' =
       IF Conflicting(w) THEN [publisher EXCEPT ![w] = NoPublication]
       ELSE [publisher EXCEPT ![w].at =
               IF Found(w) = publisher[w].content THEN "pointing" ELSE "writing"]
  /\ UNCHANGED <<files, migration, memory, handler, delivered>>

WriteShard(w) ==
  LET r == publisher[w]
  IN /\ r.at = "writing"
     /\ Written
     /\ shard' = [shard EXCEPT ![r.part][r.version] = [stamp |-> Stamp, value |-> r.content]]
     /\ publisher' = [publisher EXCEPT ![w].at = "pointing"]
     /\ UNCHANGED <<index, pointer, migration, memory, handler, delivered>>

PointsEarly(w) == publisher[w].at \in {"writing", "pointing"}

ReadyToPoint(w) == publisher[w].at = "pointing"

WritePointer(w) ==
  LET r == publisher[w]
  IN /\ ReadyToPoint(w)
     /\ Written
     /\ pointer' = [pointer EXCEPT ![r.part] = [stamp |-> Stamp, value |-> r.version]]
     /\ publisher' = [publisher EXCEPT ![w].at = "indexing"]
     /\ UNCHANGED <<index, shard, migration, memory, handler, delivered>>

WriteIndex(w) ==
  /\ publisher[w].at = "indexing"
  /\ Written
  /\ index' = [stamp |-> Stamp, format |-> "v2"]
  /\ publisher' = [publisher EXCEPT ![w] = NoPublication]
  /\ UNCHANGED <<pointer, shard, migration, memory, handler, delivered>>

(* The process dies, or a write fails. *)
AbandonPublication(w) ==
  /\ publisher[w].at # "idle"
  /\ publisher' = [publisher EXCEPT ![w] = NoPublication]
  /\ UNCHANGED <<files, migration, memory, handler, delivered>>
-----------------------------------------------------------------------------
(* migrate_legacy_catalog.                                                 *)

StartMigration ==
  /\ ~migration.running
  /\ index.format = "v1"
  /\ migration' = [running |-> TRUE, todo |-> Partitions, half |-> None]
  /\ UNCHANGED <<files, publisher, memory, handler, delivered>>

MigrateShard(p) ==
  /\ p \in migration.todo
  /\ migration.half = None
  /\ Written
  /\ shard' = [shard EXCEPT ![p][Legacy[p].version] =
                 [stamp |-> Stamp, value |-> Legacy[p].content]]
  /\ migration' = [migration EXCEPT !.half = p]
  /\ UNCHANGED <<index, pointer, publisher, memory, handler, delivered>>

MigratePointer(p) ==
  /\ migration.half = p
  /\ Written
  /\ pointer' = [pointer EXCEPT ![p] = [stamp |-> Stamp, value |-> Legacy[p].version]]
  /\ migration' = [migration EXCEPT !.half = None, !.todo = @ \ {p}]
  /\ UNCHANGED <<index, shard, publisher, memory, handler, delivered>>

SomethingMigrated == migration.todo # Partitions

AllMigrated == migration.todo = {}

MigrateIndex ==
  /\ migration.running
  /\ AllMigrated
  /\ Written
  /\ index' = [stamp |-> Stamp, format |-> "v2"]
  /\ migration' = NoMigration
  /\ UNCHANGED <<pointer, shard, publisher, memory, handler, delivered>>

AbandonMigration ==
  /\ migration.running
  /\ migration' = NoMigration
  /\ UNCHANGED <<files, publisher, memory, handler, delivered>>
-----------------------------------------------------------------------------
(* selected and selected_refs, in a handler thread.                        *)

(* The versions of some partitions that are current: _refresh_index takes  *)
(* the signature of catalog.json before it has the lock.                   *)
Begin(h) ==
  /\ handler[h].at = "idle"
  /\ \E wanted \in SUBSET Partitions \ {{}} :
       handler' = [handler EXCEPT ![h] =
         [NoRead EXCEPT !.at = "index", !.wanted = wanted, !.todo = wanted,
                        !.seen = index.stamp,
                        !.began = [p \in Partitions |-> pointer[p].stamp],
                        !.legacy = (index.format = "v1")]]
  /\ UNCHANGED <<files, publisher, migration, memory, delivered>>

(* An entry of an earlier answer: the references of a transfer. *)
BeginPinned(h) ==
  /\ handler[h].at = "idle"
  /\ \E e \in delivered :
       handler' = [handler EXCEPT ![h] =
         [NoRead EXCEPT !.at = "index", !.wanted = {e.part}, !.todo = {e.part},
                        !.pinned = TRUE, !.version = e.version, !.seen = index.stamp]]
  /\ UNCHANGED <<files, publisher, migration, memory, delivered>>

(* Under the lock: unless the signature is the known one, read the file.   *)
RefreshIndex(h) ==
  /\ handler[h].at = "index"
  /\ memory' =
       IF handler[h].seen = memory.signature THEN memory
       ELSE [signature |-> index.stamp, format |-> index.format,
             cache |-> IF index.format = "v1" THEN NoCache ELSE memory.cache]
  /\ handler' = [handler EXCEPT ![h].at = "choosing", ![h].seen = 0]
  /\ UNCHANGED <<files, publisher, migration, delivered>>

LegacyEntry(p) == [part |-> p, version |-> Legacy[p].version,
                   content |-> Legacy[p].content, since |-> 0]

(* Format v1: everything is in memory.  Otherwise one partition at a time. *)
Choose(h) ==
  /\ handler[h].at = "choosing"
  /\ handler' =
       IF memory.format = "v1"
       THEN [handler EXCEPT ![h].at = "next", ![h].todo = {},
                            ![h].got = {LegacyEntry(p) : p \in handler[h].wanted}]
       ELSE [handler EXCEPT ![h].at = "next"]
  /\ UNCHANGED <<files, publisher, migration, memory, delivered>>

PickPartition(h) ==
  /\ handler[h].at = "next"
  /\ \E p \in handler[h].todo :
       handler' = [handler EXCEPT ![h].at = "stat", ![h].part = p,
                     ![h].level = IF handler[h].pinned THEN "shards" ELSE "pointers"]
  /\ UNCHANGED <<files, publisher, migration, memory, delivered>>
-----------------------------------------------------------------------------
(* _load_pointer and _load_shard load a file of two levels, current.json   *)
(* and a version file, by the same protocol.  The cache of a level is a    *)
(* sequence, least recently used first; an entry has the signature it is   *)
(* filed under and, as history, the stamp of the file it came from.        *)

File(h) == IF handler[h].level = "pointers" THEN pointer[handler[h].part]
           ELSE shard[handler[h].part][handler[h].version]

Key(h) == IF handler[h].level = "pointers" THEN <<handler[h].part>>
          ELSE <<handler[h].part, handler[h].version>>

Cache(h) == memory.cache[handler[h].level]

(* A key has one entry at most. *)
Without(cache, key) ==
  IF \E i \in DOMAIN cache : cache[i].key = key
  THEN RemoveAt(cache, CHOOSE i \in DOMAIN cache : cache[i].key = key)
  ELSE cache

NeverEvicts(cache, entry) == Append(Without(cache, entry.key), entry)

Stored(cache, entry) ==
  LET longer == Append(Without(cache, entry.key), entry)
  IN IF Len(longer) > CacheSize THEN Tail(longer) ELSE longer

CacheBecomes(h, cache) == memory' = [memory EXCEPT !.cache[handler[h].level] = cache]

(* The pointer leads on to the version file; the version file completes    *)
(* the partition, and what was local to it is forgotten.                   *)
Loaded(h, from, value) ==
  LET r == handler[h]
  IN handler' = [handler EXCEPT ![h] =
       IF r.level = "pointers"
       THEN [r EXCEPT !.at = "stat", !.level = "shards", !.seen = 0, !.value = None,
                      !.version = value, !.since = from]
       ELSE [NoRead EXCEPT !.at = "next", !.wanted = r.wanted, !.todo = r.todo \ {r.part},
                           !.pinned = r.pinned, !.began = r.began, !.legacy = r.legacy,
                           !.got = r.got \cup {[part |-> r.part, version |-> r.version,
                                                content |-> value, since |-> r.since]}]]

(* The signature, before the lock.                                         *)
Stat(h) ==
  /\ handler[h].at = "stat"
  /\ File(h).value # None
  /\ handler' = [handler EXCEPT ![h].at = "lookup", ![h].seen = File(h).stamp]
  /\ UNCHANGED <<files, publisher, migration, memory, delivered>>

(* Without a pointer the partition has no entries.  A version file that a  *)
(* pointer or a reference names and that does not exist is an error.       *)
NoFile(h) ==
  /\ handler[h].at = "stat"
  /\ File(h).value = None
  /\ CacheBecomes(h, Without(Cache(h), Key(h)))
  /\ handler' = IF handler[h].level = "pointers"
                THEN [handler EXCEPT ![h].at = "next", ![h].todo = @ \ {handler[h].part}]
                ELSE [handler EXCEPT ![h].at = "failed"]
  /\ UNCHANGED <<files, publisher, migration, delivered>>

Hits(h) == {i \in DOMAIN Cache(h) : Cache(h)[i].key = Key(h) /\ Cache(h)[i].stamp = handler[h].seen}

(* Under the lock: the entry of the cache, if its signature is the one     *)
(* seen, or else the file has to be opened.                                *)
Hit(h) ==
  /\ handler[h].at = "lookup"
  /\ \E i \in Hits(h) :
       /\ CacheBecomes(h, Stored(Cache(h), Cache(h)[i]))
       /\ Loaded(h, Cache(h)[i].from, Cache(h)[i].value)
  /\ UNCHANGED <<files, publisher, migration, delivered>>

Miss(h) ==
  /\ handler[h].at = "lookup"
  /\ Hits(h) = {}
  /\ handler' = [handler EXCEPT ![h].at = "open", ![h].seen = 0]
  /\ UNCHANGED <<files, publisher, migration, memory, delivered>>

(* Without the lock: open, fstat and read see the same file.               *)
Open(h) ==
  /\ handler[h].at = "open"
  /\ handler' = [handler EXCEPT ![h].at = "store", ![h].seen = File(h).stamp,
                                ![h].value = File(h).value]
  /\ UNCHANGED <<files, publisher, migration, memory, delivered>>

SignsWhenStoring(h) == File(h).stamp

SignatureRead(h) == handler[h].seen

(* Under the lock again. *)
Store(h) ==
  /\ handler[h].at = "store"
  /\ CacheBecomes(h, Stored(Cache(h), [key |-> Key(h), stamp |-> SignatureRead(h),
                                       from |-> handler[h].seen, value |-> handler[h].value]))
  /\ Loaded(h, handler[h].seen, handler[h].value)
  /\ UNCHANGED <<files, publisher, migration, delivered>>

Answer(h) ==
  /\ handler[h].at = "next"
  /\ handler[h].todo = {}
  /\ handler' = [handler EXCEPT ![h].at = "answered"]
  /\ delivered' = delivered \cup
       {[part |-> e.part, version |-> e.version, content |-> e.content] : e \in handler[h].got}
  /\ UNCHANGED <<files, publisher, migration, memory>>

Finish(h) ==
  /\ handler[h].at \in {"answered", "failed"}
  /\ handler' = [handler EXCEPT ![h] = NoRead]
  /\ UNCHANGED <<files, publisher, migration, memory, delivered>>
-----------------------------------------------------------------------------
Publication(w) == \/ Start(w)
                  \/ CheckVersion(w)
                  \/ WriteShard(w)
                  \/ WritePointer(w)
                  \/ WriteIndex(w)
                  \/ AbandonPublication(w)

Migration == \/ StartMigration
             \/ \E p \in Partitions : MigrateShard(p) \/ MigratePointer(p)
             \/ MigrateIndex
             \/ AbandonMigration

Reading(h) == \/ Begin(h)
              \/ BeginPinned(h)
              \/ RefreshIndex(h)
              \/ Choose(h)
              \/ PickPartition(h)
              \/ Stat(h)
              \/ NoFile(h)
              \/ Hit(h)
              \/ Miss(h)
              \/ Open(h)
              \/ Store(h)
              \/ Answer(h)
              \/ Finish(h)

Next == \/ \E w \in Publishers : Publication(w)
        \/ Migration
        \/ \E h \in Handlers : Reading(h)

Spec == Init /\ [][Next]_vars
-----------------------------------------------------------------------------
(* Properties.                                                             *)

CachedFiles(values) ==
  [key : Seq(Partitions \cup Versions), stamp : Nat, from : Nat, value : values]

TypeOK ==
  /\ writes \in Nat
  /\ index \in [stamp : Nat, format : {"v1", "v2"}]
  /\ pointer \in [Partitions -> [stamp : Nat, value : Versions \cup {None}]]
  /\ shard \in [Partitions -> [Versions -> [stamp : Nat, value : Contents \cup {None}]]]
  /\ \A w \in Publishers :
        publisher[w].at \in {"idle", "checking", "writing", "pointing", "indexing"}
  /\ migration.todo \subseteq Partitions /\ migration.half \in migration.todo \cup {None}
  /\ memory.signature \in Nat /\ memory.format \in {"v1", "v2"}
  /\ memory.cache.pointers \in Seq(CachedFiles(Versions))
  /\ memory.cache.shards \in Seq(CachedFiles(Contents))
  /\ \A level \in DOMAIN memory.cache : Len(memory.cache[level]) <= CacheSize
  /\ delivered \subseteq [part : Partitions, version : Versions, content : Contents]

(* What an answer holds for partition p. *)
Answered(h, p) == {e \in handler[h].got : e.part = p}

(* Publishing is seen by the next request: an answer holds one version of  *)
(* every partition that had one when the request began, from a pointer     *)
(* that is at least as new, and entries of the old format only if that was *)
(* still in force.  No order in which handlers look, read and store may    *)
(* leave an old pointer in the cache under the signature of a newer one.   *)
AnswerIsCurrent ==
  \A h \in Handlers :
    handler[h].at = "answered" /\ ~handler[h].pinned
      => \A p \in handler[h].wanted :
           /\ handler[h].legacy \/ handler[h].began[p] > 0 => Answered(h, p) # {}
           /\ \A e \in Answered(h, p) :
                IF e.since = 0 THEN handler[h].legacy ELSE e.since >= handler[h].began[p]

(* Whenever publishers and the migration stop or die, the pointer of a     *)
(* partition names a version file that exists, and a version that an       *)
(* answer has named can still be read: no request fails.                   *)
NothingMissing == \A h \in Handlers : handler[h].at # "failed"

(* A version stands for one content: the answers of the gateway never give *)
(* two contents for it ("a version file that has been published cannot be  *)
(* overwritten").                                                          *)
OneContentPerVersion ==
  \A d, e \in delivered :
    d.part = e.part /\ d.version = e.version => d.content = e.content

(* What the files say about partition p. *)
Visible(p) == IF index.format = "v1" THEN Legacy[p].content
              ELSE IF pointer[p].value = None THEN None
              ELSE shard[p][pointer[p].value].value

(* The migration, wherever it is interrupted and started again, does not   *)
(* change what the catalog says.                                           *)
MigrationChangesNothing ==
  [][Migration => \A p \in Partitions : Visible(p)' = Visible(p)]_vars
=============================================================================
