--------------------------- MODULE CatalogProofs ---------------------------
(***************************************************************************)
(* Theorems about Catalog, for any partitions, versions, contents, sizes   *)
(* of the caches and numbers of handlers, and, but for OneContentPerVersion,*)
(* any number of publishers.                                               *)
(*                                                                         *)
(* The invariant has a part about the files, one about those who write     *)
(* them, one about the caches and one about each handler.                  *)
(***************************************************************************)
EXTENDS Catalog, SequenceTheorems, TLAPS

(* The head and the rest of a nonempty sequence.                           *)
LEMMA HeadAndTail ==
  ASSUME NEW S, NEW q \in Seq(S), q # <<>>
  PROVE  /\ Head(q) \in S
         /\ Head(q) = q[1]
         /\ Tail(q) \in Seq(S)
         /\ Len(q) \in Nat /\ Len(q) >= 1
         /\ Len(Tail(q)) = Len(q) - 1
         /\ \A i \in 1..Len(Tail(q)) : Tail(q)[i] = q[i + 1]
BY HeadTailProperties, EmptySeq, LenProperties

(* Cutting out a position.                                                 *)
LEMMA CutLength ==
  ASSUME NEW S, NEW q \in Seq(S), NEW k \in 1..Len(q)
  PROVE  RemoveAt(q, k) \in Seq(S) /\ Len(RemoveAt(q, k)) = Len(q) - 1
<1>. DEFINE a == SubSeq(q, 1, k - 1)
            b == SubSeq(q, k + 1, Len(q))
<1>1. Len(q) \in Nat /\ \A i \in 1..Len(q) : q[i] \in S
  BY LenProperties, ElementOfSeq
<1>2. a \in Seq(S) /\ Len(a) = k - 1
  <2>1. 1 \in Int /\ k - 1 \in Int /\ \A i \in 1..(k - 1) : q[i] \in S
    BY <1>1
  <2> QED BY <1>1, <2>1, SubSeqProperties
<1>3. b \in Seq(S) /\ Len(b) = Len(q) - k
  <2>1. k + 1 \in Int /\ Len(q) \in Int /\ \A i \in (k + 1)..Len(q) : q[i] \in S
    BY <1>1
  <2>2. b \in Seq(S) /\ Len(b) = IF k + 1 <= Len(q) THEN Len(q) - (k + 1) + 1 ELSE 0
    BY <2>1, SubSeqProperties
  <2> QED BY <1>1, <2>2
<1>. HIDE DEF a, b
<1>4. a \o b \in Seq(S) /\ Len(a \o b) = (k - 1) + (Len(q) - k)
  <2>1. a \o b \in Seq(S) /\ Len(a \o b) = Len(a) + Len(b)
    BY <1>2, <1>3, ConcatProperties
  <2> QED BY <1>2, <1>3, <2>1
<1>5. RemoveAt(q, k) = a \o b
  BY DEF RemoveAt, a, b
<1> QED BY <1>1, <1>4, <1>5
-----------------------------------------------------------------------------

Exists(p, v) == shard[p][v].value # None

HasPointer(p) == pointer[p].value # None

(* A version that can be read, when it has to be.                          *)
Named(p, v) == Exists(p, v) \/ (index.format = "v1" /\ v = Legacy[p].version)

(* Stamps are given in order; format v1 is never written, and has no       *)
(* files but those of the migration.                                       *)
Files ==
  /\ writes \in Nat
  /\ index \in [stamp : Nat, format : {"v1", "v2"}]
  /\ index.format = "v1" => index.stamp = 0
  /\ pointer \in [Partitions -> [stamp : Nat, value : Versions \cup {None}]]
  /\ shard \in [Partitions -> [Versions -> [stamp : Nat, value : Contents \cup {None}]]]
  /\ \A p \in Partitions :
       /\ pointer[p].stamp <= writes
       /\ HasPointer(p) <=> pointer[p].stamp > 0
       /\ HasPointer(p) => Exists(p, pointer[p].value)
       /\ index.format = "v1" /\ HasPointer(p) => pointer[p].value = Legacy[p].version

Untouched ==
  index.format = "v1" =>
    \A p \in Partitions, v \in Versions :
      Exists(p, v) => v = Legacy[p].version /\ shard[p][v].value = Legacy[p].content

Stages == {"idle", "checking", "writing", "pointing", "indexing"}

Publications == [at : Stages, part : Partitions \cup {None}, version : Versions \cup {None},
                 content : Contents \cup {None}]

Publishing(r) ==
  /\ r.at # "idle" => /\ index.format = "v2"
                      /\ r.part \in Partitions /\ r.version \in Versions
                      /\ r.content \in Contents
  /\ r.at = "pointing" => Exists(r.part, r.version)

Migrating ==
  /\ migration \in [running : BOOLEAN, todo : SUBSET Partitions, half : Partitions \cup {None}]
  /\ migration.half \in migration.todo \cup {None}
  /\ ~migration.running => migration.todo = {} /\ migration.half = None
  /\ migration.running =>
       /\ index.format = "v1"
       /\ \A p \in Partitions \ migration.todo : HasPointer(p)
       /\ \A p \in Partitions : migration.half = p => Exists(p, Legacy[p].version)

Writers == /\ publisher \in [Publishers -> Publications]
           /\ \A w \in Publishers : Publishing(publisher[w])
           /\ Migrating

CachedPointers ==
  {e \in CachedFiles(Versions) :
     /\ e.stamp = e.from /\ e.from > 0
     /\ \E p \in Partitions : e.key = <<p>> /\ Exists(p, e.value)}

CachedShards == CachedFiles(Contents)

Memory ==
  /\ memory \in [signature : Nat, format : {"v1", "v2"},
                 cache : [pointers : Seq(CachedPointers), shards : Seq(CachedShards)]]
  /\ Len(memory.cache.pointers) <= CacheSize
  /\ Len(memory.cache.shards) <= CacheSize
  /\ memory.format = "v2" => index.format = "v2"
  /\ memory.format = "v1" => /\ memory.signature = 0
                             /\ \A p \in Partitions : Named(p, Legacy[p].version)
  /\ index.stamp = 0 /\ index.format = "v2" => memory.format = "v2"

Loading == {"stat", "lookup", "open", "store"}

Answers == [part : Partitions, version : Versions, content : Contents, since : Nat]

Reads ==
  [at : {"idle", "index", "choosing", "next", "answered"} \cup Loading,
   wanted : SUBSET Partitions, todo : SUBSET Partitions, pinned : BOOLEAN,
   part : Partitions \cup {None}, level : {"pointers", "shards", None}, seen : Nat,
   value : Versions \cup Contents \cup {None}, since : Nat,
   version : Versions \cup {None}, began : [Partitions -> Nat], legacy : BOOLEAN,
   got : SUBSET Answers]

(* What has been found is at least as new as the pointer that there was    *)
(* in the beginning.                                                       *)
Fresh(r, stamp) == stamp > 0 /\ stamp >= r.began[r.part]

Begun(r) ==
  /\ \A p \in Partitions : r.began[p] <= pointer[p].stamp
  /\ r.legacy => index.format = "v1" \/ \A p \in Partitions : HasPointer(p)
  /\ r.at \in {"index", "choosing"} => r.todo = r.wanted /\ r.got = {}
  /\ r.at = "index" /\ ~r.pinned /\ ~r.legacy =>
       index.format = "v2" /\ (r.seen = 0 => memory.format = "v2")
  /\ r.at = "choosing" /\ ~r.pinned /\ ~r.legacy => memory.format = "v2"
  /\ r.at \in Loading \/ (r.at = "next" /\ r.todo # {}) => index.format = "v2"

Going(r) ==
  /\ r.at \in Loading =>
       /\ r.part \in r.todo /\ r.level \in {"pointers", "shards"}
       /\ r.level = "pointers" => ~r.pinned
       /\ r.level = "shards" => /\ r.version \in Versions /\ Exists(r.part, r.version)
                                /\ ~r.pinned => Fresh(r, r.since)
  /\ r.level = "pointers" =>
       /\ r.at \in {"lookup", "open"} => HasPointer(r.part)
       /\ r.at = "lookup" => Fresh(r, r.seen)
       /\ r.at = "store" => /\ Fresh(r, r.seen)
                            /\ r.value \in Versions /\ Exists(r.part, r.value)
  /\ r.level = "shards" /\ r.at = "store" => r.value \in Contents
  /\ r.pinned => \A p \in r.todo : /\ r.version \in Versions /\ Named(p, r.version)
                                   /\ \A q \in r.todo : q = p

Gathered(r) ==
  /\ \A e \in r.got : /\ Named(e.part, e.version)
                      /\ ~r.pinned => IF e.since = 0 THEN r.legacy
                                      ELSE e.since >= r.began[e.part]
  /\ r.at \in Loading \cup {"next", "answered"} /\ ~r.pinned =>
       \A p \in r.wanted \ r.todo :
         r.legacy \/ r.began[p] > 0 => \E e \in r.got : e.part = p
  /\ r.at = "answered" => r.todo = {}

Handling == /\ handler \in [Handlers -> Reads]
            /\ \A h \in Handlers :
                 Begun(handler[h]) /\ Going(handler[h]) /\ Gathered(handler[h])

Delivered ==
  /\ delivered \subseteq [part : Partitions, version : Versions, content : Contents]
  /\ \A e \in delivered : Named(e.part, e.version)

Inv == Files /\ Untouched /\ Writers /\ Memory /\ Handling /\ Delivered
-----------------------------------------------------------------------------
(* The caches.                                                             *)

LEMMA WithoutFacts ==
  ASSUME NEW S, NEW cache \in Seq(S), NEW key
  PROVE  /\ Without(cache, key) \in Seq(S)
         /\ Len(Without(cache, key)) \in Nat /\ Len(Without(cache, key)) <= Len(cache)
<1>1. DOMAIN cache = 1..Len(cache) /\ Len(cache) \in Nat
  BY LenProperties
<1>2. CASE \E i \in DOMAIN cache : cache[i].key = key
  <2>. DEFINE k == CHOOSE i \in DOMAIN cache : cache[i].key = key
  <2>1. k \in 1..Len(cache)
    BY <1>1, <1>2
  <2>2. Without(cache, key) = RemoveAt(cache, k)
    BY <1>2 DEF Without
  <2>. HIDE DEF k
  <2> QED BY <1>1, <2>1, <2>2, CutLength
<1>3. CASE ~\E i \in DOMAIN cache : cache[i].key = key
  BY <1>1, <1>3 DEF Without
<1> QED BY <1>2, <1>3

LEMMA StoredFacts ==
  ASSUME NEW S, NEW cache \in Seq(S), NEW entry \in S, Len(cache) <= CacheSize
  PROVE  Stored(cache, entry) \in Seq(S) /\ Len(Stored(cache, entry)) <= CacheSize
<1>. DEFINE w == Without(cache, entry.key)
            longer == Append(w, entry)
<1>1. w \in Seq(S) /\ Len(w) \in Nat /\ Len(w) <= Len(cache) /\ Len(cache) \in Nat
  BY WithoutFacts, LenProperties
<1>. HIDE DEF w
<1>2. longer \in Seq(S) /\ longer # <<>> /\ Len(longer) = Len(w) + 1
  BY <1>1, AppendProperties
<1>3. Stored(cache, entry) = IF Len(longer) > CacheSize THEN Tail(longer) ELSE longer
  BY DEF Stored, w
<1>. HIDE DEF longer
<1>4. Tail(longer) \in Seq(S) /\ Len(Tail(longer)) = Len(longer) - 1
  BY <1>2, HeadAndTail
<1> QED BY <1>1, <1>2, <1>3, <1>4, CatalogAssumption

(* The cache of one level changes.                                         *)
LEMMA CacheStep ==
  ASSUME Files, Memory, NEW level \in {"pointers", "shards"}, NEW cache,
         memory' = [memory EXCEPT !.cache[level] = cache],
         cache \in Seq(IF level = "pointers" THEN CachedPointers ELSE CachedShards),
         Len(cache) <= CacheSize, UNCHANGED files
  PROVE  Memory' /\ memory'.format = memory.format
<1>. DEFINE c == memory.cache
            d == memory'.cache
<1>1. /\ memory \in [signature : Nat, format : {"v1", "v2"}, cache : {c}]
      /\ c \in [pointers : Seq(CachedPointers), shards : Seq(CachedShards)]
      /\ Len(c.pointers) <= CacheSize /\ Len(c.shards) <= CacheSize
  BY DEF Memory
<1>2. /\ memory' \in [signature : Nat, format : {"v1", "v2"}, cache : {d}]
      /\ memory'.signature = memory.signature /\ memory'.format = memory.format
      /\ d = [c EXCEPT ![level] = cache]
  BY <1>1
<1>. HIDE DEF c
<1>3. /\ d \in [pointers : Seq(CachedPointers), shards : Seq(CachedShards)]
      /\ Len(d.pointers) <= CacheSize /\ Len(d.shards) <= CacheSize
  BY <1>1, <1>2
<1>. HIDE DEF d
<1>4. memory' \in [signature : Nat, format : {"v1", "v2"},
                   cache : [pointers : Seq(CachedPointers), shards : Seq(CachedShards)]]
  BY <1>2, <1>3
<1>5. CachedPointers' = CachedPointers /\ CachedShards' = CachedShards
  BY DEF CachedPointers, CachedShards, CachedFiles, Exists, files
<1>6. \A p \in Partitions, v \in Versions : Named(p, v) => Named(p, v)'
  BY DEF Named, Exists, files
<1>7. index' = index
  BY DEF files
<1>8. \A p \in Partitions : Legacy[p].version \in Versions
  BY CatalogAssumption DEF Entries
<1> QED BY <1>2, <1>3, <1>4, <1>5, <1>6, <1>7, <1>8 DEF Memory, d
-----------------------------------------------------------------------------
(* Files come and grow; none goes.                                         *)

Grown ==
  /\ index.format = "v2" => index'.format = "v2"
  /\ \A p \in Partitions : /\ pointer[p].stamp <= pointer'[p].stamp
                           /\ HasPointer(p) => HasPointer(p)'
  /\ \A p \in Partitions, v \in Versions : /\ Exists(p, v) => Exists(p, v)'
                                           /\ Named(p, v) => Named(p, v)'
  /\ index.format = "v1" /\ index'.format = "v2" => \A p \in Partitions : HasPointer(p)'

LEMMA NothingWritten ==
  ASSUME Files, UNCHANGED files
  PROVE  Grown
<1>1. \A p \in Partitions : pointer[p].stamp <= pointer'[p].stamp
  BY DEF Files, files
<1> QED BY <1>1 DEF Grown, files, HasPointer, Exists, Named, Files

(* What is true of a request stays true while files grow.                  *)
LEMMA Persists ==
  ASSUME Files, Files', Grown, memory.format = "v2" => memory'.format = "v2",
         NEW r \in Reads, Begun(r), Going(r), Gathered(r)
  PROVE  Begun(r)' /\ Going(r)' /\ Gathered(r)'
<1>1. /\ r.began \in [Partitions -> Nat] /\ r.todo \subseteq Partitions
      /\ r.wanted \subseteq Partitions /\ r.got \subseteq Answers
  BY DEF Reads
<1>2. \A p \in Partitions : r.began[p] <= pointer'[p].stamp
  <2>1. SUFFICES ASSUME NEW p \in Partitions PROVE r.began[p] <= pointer'[p].stamp
    OBVIOUS
  <2>2. r.began[p] \in Nat /\ pointer[p].stamp \in Nat /\ pointer'[p].stamp \in Nat
    BY <1>1 DEF Files
  <2>3. r.began[p] <= pointer[p].stamp /\ pointer[p].stamp <= pointer'[p].stamp
    BY DEF Begun, Grown
  <2> QED BY <2>2, <2>3
<1>3. r.legacy => index'.format = "v1" \/ \A p \in Partitions : HasPointer(p)'
  BY DEF Begun, Grown, Files
<1>4. Begun(r)'
  BY <1>2, <1>3 DEF Begun, Grown, HasPointer
<1>5. Going(r)'
  <2>1. r.at \in Loading /\ r.level = "shards" => Exists(r.part, r.version)'
    BY <1>1 DEF Going, Grown
  <2>2. r.level = "pointers" /\ r.at \in {"lookup", "open"} => HasPointer(r.part)'
    BY <1>1 DEF Going, Grown, Loading
  <2>3. r.level = "pointers" /\ r.at = "store" => Exists(r.part, r.value)'
    BY <1>1 DEF Going, Grown, Loading
  <2>4. r.pinned => \A p \in r.todo : Named(p, r.version)'
    BY <1>1 DEF Going, Grown
  <2> QED BY <2>1, <2>2, <2>3, <2>4 DEF Going, Fresh, Exists, Named, HasPointer
<1>6. Gathered(r)'
  <2>1. \A e \in r.got : Named(e.part, e.version)'
    BY <1>1 DEF Gathered, Grown, Answers
  <2> QED BY <2>1 DEF Gathered, Named, Exists
<1> QED BY <1>4, <1>5, <1>6

LEMMA RequestsStay ==
  ASSUME Files, Files', Grown, Handling, Delivered,
         memory.format = "v2" => memory'.format = "v2", UNCHANGED <<handler, delivered>>
  PROVE  Handling' /\ Delivered'
<1>1. ASSUME NEW h \in Handlers
      PROVE  /\ handler'[h] \in Reads
             /\ Begun(handler[h])' /\ Going(handler[h])' /\ Gathered(handler[h])'
  <2>. DEFINE r == handler[h]
  <2>1. r \in Reads /\ Begun(r) /\ Going(r) /\ Gathered(r) /\ handler'[h] = r
    BY DEF Handling
  <2>. HIDE DEF r
  <2>2. PICK x \in Reads : x = r
    BY <2>1
  <2>3. Begun(x) /\ Going(x) /\ Gathered(x)
    BY <2>1, <2>2
  <2>4. Begun(x)' /\ Going(x)' /\ Gathered(x)'
    BY <2>3, Persists
  <2> QED BY <2>1, <2>2, <2>4 DEF Begun, Going, Gathered
<1>2. Delivered'
  BY DEF Delivered, Grown, Named, Exists
<1> QED BY <1>1, <1>2 DEF Handling

LEMMA MemoryStays ==
  ASSUME Files, Memory, Grown, memory' = memory, index' = index \/ index'.stamp # 0
  PROVE  Memory'
<1>1. CachedPointers \subseteq CachedPointers'
  <2>1. SUFFICES ASSUME NEW e \in CachedPointers PROVE e \in CachedPointers'
    OBVIOUS
  <2>2. e \in CachedFiles(Versions) /\ e.stamp = e.from /\ e.from > 0
    BY <2>1 DEF CachedPointers
  <2>3. PICK p \in Partitions : e.key = <<p>> /\ Exists(p, e.value)
    BY <2>1 DEF CachedPointers
  <2>4. e.value \in Versions
    BY <2>2 DEF CachedFiles
  <2>5. Exists(p, e.value)'
    BY <2>3, <2>4 DEF Grown
  <2>6. \E q \in Partitions : e.key = <<q>> /\ Exists(q, e.value)'
    BY <2>3, <2>5
  <2> QED BY <2>2, <2>6 DEF CachedPointers, CachedFiles, Exists
<1>2. CachedShards' = CachedShards
  BY DEF CachedShards, CachedFiles
<1>. DEFINE c == memory.cache
<1>3. /\ c \in [pointers : Seq(CachedPointers), shards : Seq(CachedShards)]
      /\ memory \in [signature : Nat, format : {"v1", "v2"}, cache : {c}]
  BY DEF Memory
<1>. HIDE DEF c
<1>4. c \in [pointers : Seq(CachedPointers'), shards : Seq(CachedShards')]
  <2>1. c.pointers \in Seq(CachedPointers) /\ c.shards \in Seq(CachedShards')
    BY <1>2, <1>3
  <2>2. c.pointers \in Seq(CachedPointers')
    BY <1>1, <2>1, SeqMonotonic
  <2> QED BY <1>3, <2>1, <2>2
<1>5. memory' \in [signature : Nat, format : {"v1", "v2"},
                   cache : [pointers : Seq(CachedPointers'), shards : Seq(CachedShards')]]
  BY <1>3, <1>4
<1>6. \A p \in Partitions : Legacy[p].version \in Versions
  BY CatalogAssumption DEF Entries
<1>7. \A p \in Partitions : Named(p, Legacy[p].version) => Named(p, Legacy[p].version)'
  BY <1>6 DEF Grown
<1>8. /\ Len(memory'.cache.pointers) <= CacheSize /\ Len(memory'.cache.shards) <= CacheSize
      /\ memory'.format = "v2" => index'.format = "v2"
      /\ memory'.format = "v1" => /\ memory'.signature = 0
                                  /\ \A p \in Partitions : Named(p, Legacy[p].version)'
      /\ index'.stamp = 0 /\ index'.format = "v2" => memory'.format = "v2"
  BY <1>7 DEF Memory, Grown
<1> QED BY <1>5, <1>8 DEF Memory
-----------------------------------------------------------------------------
(* Those who write.                                                        *)

(* A step that writes no file.                                             *)
LEMMA WritersOnly ==
  ASSUME Inv, Writers', UNCHANGED <<files, memory, handler, delivered>>
  PROVE  Inv'
<1>1. Files' /\ Untouched'
  BY DEF Inv, Files, Untouched, files, HasPointer, Exists
<1>2. Grown
  BY NothingWritten DEF Inv
<1>3. Memory'
  BY <1>2, MemoryStays DEF Inv, files
<1>4. Handling' /\ Delivered'
  BY <1>1, <1>2, RequestsStay DEF Inv
<1> QED BY <1>1, <1>3, <1>4 DEF Inv

(* A step that writes a file.                                              *)
LEMMA WritersWrite ==
  ASSUME Inv, Files', Untouched', Writers', Grown, index' = index \/ index'.stamp # 0,
         UNCHANGED <<memory, handler, delivered>>
  PROVE  Inv'
<1>1. Memory'
  BY MemoryStays DEF Inv
<1>2. Handling' /\ Delivered'
  BY RequestsStay DEF Inv
<1> QED BY <1>1, <1>2 DEF Inv

LEMMA PublisherFacts ==
  ASSUME Inv, NEW w \in Publishers
  PROVE  /\ publisher \in [Publishers -> Publications]
         /\ publisher[w] \in Publications /\ Publishing(publisher[w])
         /\ Migrating
BY DEF Inv, Writers

(* One publisher goes on and files grow.                                   *)
LEMMA PublisherMoves ==
  ASSUME Inv, Grown, NEW w \in Publishers, NEW n \in Publications, Publishing(n)',
         publisher' = [publisher EXCEPT ![w] = n],
         index.format = "v2", UNCHANGED migration
  PROVE  Writers'
<1>1. ~migration.running /\ publisher \in [Publishers -> Publications]
  BY DEF Inv, Writers, Migrating, Files
<1>2. publisher' \in [Publishers -> Publications]
  BY <1>1
<1>3. ASSUME NEW u \in Publishers PROVE Publishing(publisher[u])'
  <2>1. CASE u = w
    <3>1. publisher'[u] = n
      BY <1>1, <2>1
    <3> QED BY <3>1 DEF Publishing, Exists
  <2>2. CASE u # w
    <3>1. PICK r \in Publications : r = publisher[u]
      BY <1>1
    <3>2. Publishing(r) /\ publisher'[u] = r
      BY <1>1, <2>2, <3>1 DEF Inv, Writers
    <3>3. r.at = "pointing" => Exists(r.part, r.version)'
      <4>1. r.at = "pointing" => r.part \in Partitions /\ r.version \in Versions
        BY <3>2 DEF Publishing
      <4> QED BY <3>2, <4>1 DEF Publishing, Grown
    <3>4. Publishing(r)'
      BY <3>2, <3>3 DEF Publishing, Grown, Exists
    <3> QED BY <3>2, <3>4 DEF Publishing, Exists
  <2> QED BY <2>1, <2>2
<1>4. Migrating'
  BY <1>1 DEF Inv, Writers, Migrating
<1> QED BY <1>2, <1>3, <1>4 DEF Writers

LEMMA Starting ==
  ASSUME Inv, NEW w \in Publishers, Start(w) \/ CheckVersion(w) \/ AbandonPublication(w)
  PROVE  Inv'
<1>1. /\ publisher \in [Publishers -> Publications]
      /\ publisher[w] \in Publications /\ Publishing(publisher[w])
  BY PublisherFacts
<1>2. UNCHANGED <<files, migration, memory, handler, delivered>> /\ index.format = "v2"
  BY <1>1 DEF Start, CheckVersion, AbandonPublication, Publishing
<1>3. NoPublication \in Publications /\ NoPublication.at = "idle"
  BY DEF NoPublication, Publications, Stages
<1>4. \E n \in Publications : Publishing(n) /\ publisher' = [publisher EXCEPT ![w] = n]
  <2>1. CASE Start(w)
    <3>1. PICK r \in Prepared : publisher' = [publisher EXCEPT ![w] =
                       [at |-> "checking", part |-> r.part, version |-> r.version,
                        content |-> r.content]]
      BY <2>1 DEF Start
    <3>2. r.part \in Partitions /\ r.version \in Versions /\ r.content \in Contents
      BY CatalogAssumption
    <3>. DEFINE n == [at |-> "checking", part |-> r.part, version |-> r.version,
                      content |-> r.content]
    <3>3. n \in Publications /\ Publishing(n)
      BY <1>2, <3>2 DEF Publications, Stages, Publishing
    <3> QED BY <3>1, <3>3
  <2>2. CASE CheckVersion(w) /\ ~Conflicting(w)
    <3>. DEFINE r == publisher[w]
                a == IF Found(w) = r.content THEN "pointing" ELSE "writing"
                n == [r EXCEPT !.at = a]
    <3>1. publisher' = [publisher EXCEPT ![w] = n]
      BY <2>2 DEF CheckVersion
    <3>2. /\ r.at = "checking" /\ r.part \in Partitions /\ r.version \in Versions
          /\ r.content \in Contents /\ r.content # None
      BY <1>1, <2>2, CatalogAssumption DEF CheckVersion, Publishing
    <3>3. a = "pointing" => Exists(r.part, r.version)
      BY <3>2 DEF Found, Exists
    <3>4. a \in {"pointing", "writing"}
      OBVIOUS
    <3>. HIDE DEF r, a
    <3>5. n \in Publications
      BY <1>1, <3>4 DEF Publications, Stages, r
    <3>6. n.at = a /\ n.part = r.part /\ n.version = r.version /\ n.content = r.content
      BY <1>1 DEF Publications, r
    <3>. HIDE DEF n
    <3>7. Publishing(n)
      BY <1>2, <3>2, <3>3, <3>4, <3>6 DEF Publishing
    <3> QED BY <3>1, <3>5, <3>7
  <2>3. CASE (CheckVersion(w) /\ Conflicting(w)) \/ AbandonPublication(w)
    <3>1. publisher' = [publisher EXCEPT ![w] = NoPublication]
      BY <2>3 DEF CheckVersion, AbandonPublication
    <3> QED BY <1>3, <3>1 DEF Publishing
  <2> QED BY <2>1, <2>2, <2>3
<1>5. PICK n \in Publications : Publishing(n) /\ publisher' = [publisher EXCEPT ![w] = n]
  BY <1>4
<1>6. Publishing(n)'
  BY <1>2, <1>5 DEF Publishing, Exists, files
<1>7. Grown
  BY <1>2, NothingWritten DEF Inv
<1>8. Writers'
  BY <1>2, <1>5, <1>6, <1>7, PublisherMoves
<1> QED BY <1>2, <1>8, WritersOnly

(* Writing a version file, of a partition p and with a content c.          *)
LEMMA ShardWritten ==
  ASSUME Inv, Written, NEW p \in Partitions, NEW v \in Versions, NEW c \in Contents,
         shard' = [shard EXCEPT ![p][v] = [stamp |-> Stamp, value |-> c]],
         UNCHANGED <<index, pointer>>,
         index.format = "v1" => v = Legacy[p].version /\ c = Legacy[p].content
  PROVE  Files' /\ Untouched' /\ Grown /\ Exists(p, v)'
<1>1. /\ shard \in [Partitions -> [Versions -> [stamp : Nat, value : Contents \cup {None}]]]
      /\ writes \in Nat /\ writes' = writes + 1 /\ writes' \in Nat
  BY DEF Inv, Files, Written, Stamp
<1>2. [stamp |-> Stamp, value |-> c] \in [stamp : Nat, value : Contents \cup {None}]
  BY <1>1 DEF Stamp
<1>3. /\ shard' \in [Partitions -> [Versions -> [stamp : Nat, value : Contents \cup {None}]]]
      /\ shard'[p][v].value = c
      /\ \A q \in Partitions, x \in Versions :
           q # p \/ x # v => shard'[q][x] = shard[q][x]
  BY <1>1, <1>2
<1>4. c # None
  BY CatalogAssumption
<1>5. \A q \in Partitions, x \in Versions : Exists(q, x) => Exists(q, x)'
  BY <1>3, <1>4 DEF Exists
<1>6. Exists(p, v)'
  BY <1>3, <1>4 DEF Exists
<1>7. \A q \in Partitions, x \in Versions : Named(q, x) => Named(q, x)'
  BY <1>5 DEF Named
<1>8. Grown
  BY <1>5, <1>7 DEF Grown, HasPointer, Inv, Files
<1>9. Untouched'
  BY <1>3 DEF Untouched, Exists, Inv
<1>10. \A q \in Partitions :
        /\ pointer'[q].stamp <= writes'
        /\ HasPointer(q)' <=> pointer'[q].stamp > 0
        /\ HasPointer(q)' => Exists(q, pointer[q].value)'
        /\ index'.format = "v1" /\ HasPointer(q)' => pointer'[q].value = Legacy[q].version
  <2>1. SUFFICES ASSUME NEW q \in Partitions
                 PROVE  /\ pointer'[q].stamp <= writes'
                        /\ HasPointer(q)' <=> pointer'[q].stamp > 0
                        /\ HasPointer(q)' => Exists(q, pointer[q].value)'
                        /\ index.format = "v1" /\ HasPointer(q)' =>
                             pointer'[q].value = Legacy[q].version
    OBVIOUS
  <2>2. /\ pointer[q].stamp \in Nat /\ pointer[q].value \in Versions \cup {None}
        /\ pointer' = pointer
    BY DEF Inv, Files
  <2>3. PICK x \in Versions \cup {None} : x = pointer[q].value
    BY <2>2
  <2>4. x # None => Exists(q, x) /\ x \in Versions
    BY <2>3 DEF Inv, Files, HasPointer
  <2>5. x # None => Exists(q, x)'
    BY <1>5, <2>4
  <2> QED BY <1>1, <2>2, <2>3, <2>5 DEF Inv, Files, HasPointer, Exists
<1> QED BY <1>1, <1>3, <1>6, <1>8, <1>9, <1>10 DEF Files, Inv

LEMMA PointerWritten ==
  ASSUME Inv, Written, NEW p \in Partitions, NEW v \in Versions, Exists(p, v),
         pointer' = [pointer EXCEPT ![p] = [stamp |-> Stamp, value |-> v]],
         UNCHANGED <<index, shard>>,
         index.format = "v1" => v = Legacy[p].version
  PROVE  Files' /\ Untouched' /\ Grown /\ HasPointer(p)'
<1>1. /\ pointer \in [Partitions -> [stamp : Nat, value : Versions \cup {None}]]
      /\ writes \in Nat /\ writes' = writes + 1 /\ writes' \in Nat /\ Stamp = writes'
      /\ writes' > 0
  BY DEF Inv, Files, Written, Stamp
<1>2. [stamp |-> Stamp, value |-> v] \in [stamp : Nat, value : Versions \cup {None}]
  BY <1>1
<1>3. /\ pointer' \in [Partitions -> [stamp : Nat, value : Versions \cup {None}]]
      /\ pointer'[p].value = v /\ pointer'[p].stamp = writes'
      /\ \A q \in Partitions : q # p => pointer'[q] = pointer[q]
  BY <1>1, <1>2
<1>4. v # None
  BY CatalogAssumption
<1>5. HasPointer(p)'
  BY <1>3, <1>4 DEF HasPointer
<1>6. \A q \in Partitions : /\ pointer[q].stamp <= pointer'[q].stamp
                            /\ HasPointer(q) => HasPointer(q)'
  <2>1. SUFFICES ASSUME NEW q \in Partitions
                 PROVE  /\ pointer[q].stamp <= pointer'[q].stamp
                        /\ HasPointer(q) => HasPointer(q)'
    OBVIOUS
  <2>2. pointer[q].stamp \in Nat /\ pointer[q].stamp <= writes
    BY DEF Inv, Files
  <2>3. CASE q = p
    BY <1>1, <1>3, <1>5, <2>2, <2>3
  <2>4. CASE q # p
    BY <1>3, <2>2, <2>4 DEF HasPointer
  <2> QED BY <2>3, <2>4
<1>7. Grown
  BY <1>6 DEF Grown, Exists, Named
<1>8. Untouched'
  BY DEF Untouched, Exists, Inv
<1>9. \A q \in Partitions :
        /\ pointer'[q].stamp <= writes'
        /\ HasPointer(q)' <=> pointer'[q].stamp > 0
        /\ HasPointer(q)' => Exists(q, pointer[q].value)'
        /\ index'.format = "v1" /\ HasPointer(q)' => pointer'[q].value = Legacy[q].version
  <2>1. SUFFICES ASSUME NEW q \in Partitions
                 PROVE  /\ pointer'[q].stamp <= writes'
                        /\ HasPointer(q)' <=> pointer'[q].stamp > 0
                        /\ HasPointer(q)' => Exists(q, pointer[q].value)'
                        /\ index.format = "v1" /\ HasPointer(q)' =>
                             pointer'[q].value = Legacy[q].version
    OBVIOUS
  <2>2. CASE q = p
    BY <1>1, <1>3, <1>4, <2>2 DEF HasPointer, Exists
  <2>3. CASE q # p
    <3>1. pointer'[q] = pointer[q] /\ pointer[q].stamp \in Nat /\ pointer[q].stamp <= writes
      BY <1>3, <2>3 DEF Inv, Files
    <3> QED BY <1>1, <3>1 DEF Inv, Files, HasPointer, Exists
  <2> QED BY <2>2, <2>3
<1> QED BY <1>1, <1>3, <1>5, <1>7, <1>8, <1>9 DEF Files, Inv

(* The format becomes v2, in format v1 when all has been migrated.         *)
LEMMA IndexWritten ==
  ASSUME Inv, Written, index' = [stamp |-> Stamp, format |-> "v2"],
         UNCHANGED <<pointer, shard>>,
         index.format = "v1" => \A p \in Partitions : HasPointer(p)
  PROVE  Files' /\ Untouched' /\ Grown /\ index'.stamp # 0
<1>1. /\ writes \in Nat /\ writes' = writes + 1 /\ writes' \in Nat /\ Stamp = writes'
      /\ index'.stamp = writes' /\ index'.format = "v2" /\ index'.stamp # 0
  BY DEF Inv, Files, Written, Stamp
<1>2. \A p \in Partitions, v \in Versions : Named(p, v) => Named(p, v)'
  BY DEF Named, Exists, Inv, Files, HasPointer
<1>3. Grown
  BY <1>1, <1>2 DEF Grown, Exists, HasPointer, Inv, Files
<1>4. Untouched'
  BY <1>1 DEF Untouched
<1>5. \A p \in Partitions : pointer[p].stamp \in Nat /\ pointer[p].stamp <= writes'
  BY <1>1 DEF Inv, Files
<1>6. Files'
  BY <1>1, <1>5 DEF Inv, Files, HasPointer, Exists
<1> QED BY <1>1, <1>3, <1>4, <1>6

LEMMA PublisherWrites ==
  ASSUME Inv, NEW w \in Publishers, WriteShard(w) \/ WritePointer(w) \/ WriteIndex(w)
  PROVE  Inv'
<1>1. publisher \in [Publishers -> Publications]
  BY PublisherFacts
<1>2. PICK r \in Publications : r = publisher[w]
  BY PublisherFacts
<1>3. /\ index.format = "v2" /\ r.part \in Partitions
      /\ r.version \in Versions /\ r.content \in Contents
  BY <1>2, PublisherFacts DEF WriteShard, WritePointer, ReadyToPoint, WriteIndex, Publishing
<1>4. Written /\ UNCHANGED <<migration, memory, handler, delivered>>
  BY DEF WriteShard, WritePointer, WriteIndex
<1>5. ASSUME NEW a \in Stages, publisher' = [publisher EXCEPT ![w].at = a]
      PROVE  \E n \in Publications :
               /\ publisher' = [publisher EXCEPT ![w] = n] /\ n.at = a
               /\ n.part = r.part /\ n.version = r.version /\ n.content = r.content
  <2>. DEFINE n == [r EXCEPT !.at = a]
  <2>1. n \in Publications
    BY DEF Publications
  <2>2. n.at = a /\ n.part = r.part /\ n.version = r.version /\ n.content = r.content
    BY DEF Publications
  <2>3. publisher' = [publisher EXCEPT ![w] = n]
    BY <1>1, <1>2, <1>5
  <2>. HIDE DEF n
  <2> QED BY <2>1, <2>2, <2>3
<1>6. CASE WriteShard(w)
  <2>1. publisher' = [publisher EXCEPT ![w].at = "pointing"] /\ UNCHANGED <<index, pointer>>
    BY <1>6 DEF WriteShard
  <2>2. shard' = [shard EXCEPT ![r.part][r.version] = [stamp |-> Stamp, value |-> r.content]]
    BY <1>2, <1>6 DEF WriteShard
  <2>3. PICK n \in Publications :
          /\ publisher' = [publisher EXCEPT ![w] = n] /\ n.at = "pointing"
          /\ n.part = r.part /\ n.version = r.version /\ n.content = r.content
    BY <1>5, <2>1 DEF Stages
  <2>4. Files' /\ Untouched' /\ Grown /\ Exists(r.part, r.version)'
    BY <1>3, <1>4, <2>1, <2>2, ShardWritten
  <2>5. Publishing(n)'
    BY <1>3, <2>1, <2>3, <2>4 DEF Publishing, Exists
  <2>6. Writers'
    BY <1>3, <1>4, <2>3, <2>4, <2>5, PublisherMoves
  <2> QED BY <1>4, <2>1, <2>4, <2>6, WritersWrite
<1>7. CASE WritePointer(w)
  <2>1. publisher' = [publisher EXCEPT ![w].at = "indexing"] /\ UNCHANGED <<index, shard>>
    BY <1>7 DEF WritePointer
  <2>2. pointer' = [pointer EXCEPT ![r.part] = [stamp |-> Stamp, value |-> r.version]]
    BY <1>2, <1>7 DEF WritePointer
  <2>3. PICK n \in Publications :
          /\ publisher' = [publisher EXCEPT ![w] = n] /\ n.at = "indexing"
          /\ n.part = r.part /\ n.version = r.version /\ n.content = r.content
    BY <1>5, <2>1 DEF Stages
  <2>4. Exists(r.part, r.version)
    BY <1>2, <1>7, PublisherFacts DEF Publishing, WritePointer, ReadyToPoint
  <2>5. Files' /\ Untouched' /\ Grown
    BY <1>3, <1>4, <2>1, <2>2, <2>4, PointerWritten
  <2>6. Publishing(n)'
    BY <1>3, <2>1, <2>3 DEF Publishing
  <2>7. Writers'
    BY <1>3, <1>4, <2>3, <2>5, <2>6, PublisherMoves
  <2> QED BY <1>4, <2>1, <2>5, <2>7, WritersWrite
<1>8. CASE WriteIndex(w)
  <2>1. /\ publisher' = [publisher EXCEPT ![w] = NoPublication] /\ UNCHANGED <<pointer, shard>>
        /\ index' = [stamp |-> Stamp, format |-> "v2"]
    BY <1>8 DEF WriteIndex
  <2>2. NoPublication \in Publications /\ NoPublication.at = "idle"
    BY DEF NoPublication, Publications, Stages
  <2>3. Files' /\ Untouched' /\ Grown /\ index'.stamp # 0
    BY <1>3, <1>4, <2>1, IndexWritten
  <2>4. Publishing(NoPublication)'
    BY <2>2 DEF Publishing, NoPublication
  <2>5. Writers'
    BY <1>3, <1>4, <2>1, <2>2, <2>3, <2>4, PublisherMoves
  <2> QED BY <1>4, <2>3, <2>5, WritersWrite
<1> QED BY <1>6, <1>7, <1>8

(* What a step of the migration needs of the publishers.                   *)
LEMMA MigrationMoves ==
  ASSUME Inv, Grown, Migrating', UNCHANGED publisher
  PROVE  Writers'
<1>1. publisher \in [Publishers -> Publications]
  BY DEF Inv, Writers
<1>2. ASSUME NEW u \in Publishers PROVE Publishing(publisher[u])'
  <2>1. PICK r \in Publications : r = publisher[u]
    BY <1>1
  <2>2. Publishing(r) /\ publisher'[u] = r
    BY <2>1 DEF Inv, Writers
  <2>3. r.at = "pointing" => Exists(r.part, r.version)'
    <3>1. r.at = "pointing" => r.part \in Partitions /\ r.version \in Versions
      BY <2>2 DEF Publishing
    <3> QED BY <2>2, <3>1 DEF Publishing, Grown
  <2>4. Publishing(r)'
    BY <2>2, <2>3 DEF Publishing, Grown, Exists
  <2> QED BY <2>2, <2>4 DEF Publishing, Exists
<1> QED BY <1>1, <1>2 DEF Writers

LEMMA MigrationFacts ==
  ASSUME Inv
  PROVE  /\ migration \in [running : BOOLEAN, todo : SUBSET Partitions,
                           half : Partitions \cup {None}]
         /\ migration.todo # {} \/ migration.half # None => migration.running
         /\ migration.running => index.format = "v1"
         /\ \A p \in Partitions : Legacy[p].version \in Versions /\ Legacy[p].content \in Contents
BY CatalogAssumption DEF Inv, Writers, Migrating, Entries

LEMMA MigrationWrites ==
  ASSUME Inv, Migration
  PROVE  Inv'
<1>. DEFINE m == migration
<1>1. /\ m \in [running : BOOLEAN, todo : SUBSET Partitions, half : Partitions \cup {None}]
      /\ m.todo # {} \/ m.half # None => m.running
      /\ m.running => index.format = "v1"
      /\ \A p \in Partitions : Legacy[p].version \in Versions /\ Legacy[p].content \in Contents
  BY MigrationFacts
<1>2. UNCHANGED <<publisher, memory, handler, delivered>>
  BY DEF Migration, StartMigration, MigrateShard, MigratePointer, MigrateIndex,
         AbandonMigration, files
<1>3. Migrating
  BY DEF Inv, Writers
<1>4. CASE StartMigration \/ AbandonMigration
  <2>1. UNCHANGED files
    BY <1>4 DEF StartMigration, AbandonMigration
  <2>2. Grown
    BY <2>1, NothingWritten DEF Inv
  <2>3. Migrating'
    <3>1. CASE StartMigration
      BY <3>1, CatalogAssumption DEF StartMigration, Migrating, HasPointer, Exists, files
    <3>2. CASE AbandonMigration
      BY <3>2 DEF AbandonMigration, Migrating, NoMigration
    <3> QED BY <1>4, <3>1, <3>2
  <2> QED BY <1>2, <2>1, <2>2, <2>3, MigrationMoves, WritersOnly
<1>5. CASE \E p \in Partitions : MigrateShard(p)
  <2>1. PICK p \in Partitions : MigrateShard(p)
    BY <1>5
  <2>2. /\ Written /\ UNCHANGED <<index, pointer>> /\ p \in m.todo /\ m.half = None
        /\ shard' = [shard EXCEPT ![p][Legacy[p].version] =
                       [stamp |-> Stamp, value |-> Legacy[p].content]]
        /\ migration' = [m EXCEPT !.half = p]
    BY <2>1 DEF MigrateShard
  <2>3. Files' /\ Untouched' /\ Grown /\ Exists(p, Legacy[p].version)'
    BY <1>1, <2>2, ShardWritten
  <2>4. /\ migration' \in [running : BOOLEAN, todo : SUBSET Partitions,
                           half : Partitions \cup {None}]
        /\ migration'.half = p /\ migration'.todo = m.todo /\ migration'.running = m.running
    BY <1>1, <2>2
  <2>5. Migrating'
    BY <1>1, <1>3, <2>2, <2>3, <2>4 DEF Migrating, HasPointer
  <2> QED BY <1>2, <2>2, <2>3, <2>5, MigrationMoves, WritersWrite
<1>6. CASE \E p \in Partitions : MigratePointer(p)
  <2>1. PICK p \in Partitions : MigratePointer(p)
    BY <1>6
  <2>2. /\ Written /\ UNCHANGED <<index, shard>> /\ m.half = p
        /\ pointer' = [pointer EXCEPT ![p] = [stamp |-> Stamp, value |-> Legacy[p].version]]
        /\ migration' = [m EXCEPT !.half = None, !.todo = m.todo \ {p}]
    BY <2>1 DEF MigratePointer
  <2>3. m.running /\ Exists(p, Legacy[p].version) /\ p # None
    BY <1>1, <1>3, <2>2, CatalogAssumption DEF Migrating
  <2>4. Files' /\ Untouched' /\ Grown /\ HasPointer(p)'
    BY <1>1, <2>2, <2>3, PointerWritten
  <2>5. /\ migration' \in [running : BOOLEAN, todo : SUBSET Partitions,
                           half : Partitions \cup {None}]
        /\ migration'.half = None /\ migration'.todo = m.todo \ {p}
        /\ migration'.running = m.running
    BY <1>1, <2>2
  <2>6. \A q \in Partitions \ migration'.todo : HasPointer(q)'
    BY <1>3, <2>3, <2>4, <2>5 DEF Migrating, Grown
  <2>7. \A q \in Partitions : migration'.half # q
    BY <2>5, CatalogAssumption
  <2>8. Migrating'
    BY <1>1, <2>2, <2>3, <2>5, <2>6, <2>7 DEF Migrating
  <2> QED BY <1>2, <2>2, <2>4, <2>8, MigrationMoves, WritersWrite
<1>7. CASE MigrateIndex
  <2>1. /\ Written /\ UNCHANGED <<pointer, shard>> /\ m.running /\ m.todo = {}
        /\ index' = [stamp |-> Stamp, format |-> "v2"] /\ migration' = NoMigration
    BY <1>7 DEF MigrateIndex, AllMigrated
  <2>2. \A p \in Partitions : HasPointer(p)
    BY <1>3, <2>1 DEF Migrating
  <2>3. Files' /\ Untouched' /\ Grown /\ index'.stamp # 0
    BY <2>1, <2>2, IndexWritten
  <2>4. Migrating'
    BY <2>1 DEF Migrating, NoMigration
  <2> QED BY <1>2, <2>3, <2>4, MigrationMoves, WritersWrite
<1> QED BY <1>4, <1>5, <1>6, <1>7 DEF Migration
-----------------------------------------------------------------------------
(* Those who read.                                                         *)

LEMMA HandlerFacts ==
  ASSUME Inv, NEW h \in Handlers
  PROVE  /\ handler \in [Handlers -> Reads] /\ handler[h] \in Reads
         /\ Begun(handler[h]) /\ Going(handler[h]) /\ Gathered(handler[h])
BY DEF Inv, Handling

(* One request goes on, perhaps with another index in memory.              *)
LEMMA RequestMoves ==
  ASSUME Inv, NEW h \in Handlers, NEW n \in Reads, handler' = [handler EXCEPT ![h] = n],
         Begun(n)', Going(n)', Gathered(n)', UNCHANGED <<files, publisher, migration>>,
         Memory', memory.format = "v2" => memory'.format = "v2", Delivered'
  PROVE  Inv'
<1>1. Files' /\ Untouched'
  BY DEF Inv, Files, Untouched, files, HasPointer, Exists
<1>2. Grown
  BY NothingWritten DEF Inv
<1>3. Writers'
  BY DEF Inv, Writers, Publishing, Migrating, files, HasPointer, Exists
<1>4. handler' \in [Handlers -> Reads]
  BY HandlerFacts
<1>5. ASSUME NEW g \in Handlers
      PROVE  Begun(handler[g])' /\ Going(handler[g])' /\ Gathered(handler[g])'
  <2>1. CASE g = h
    <3>1. handler'[g] = n
      BY <2>1, HandlerFacts
    <3> QED BY <3>1 DEF Begun, Going, Gathered, Fresh, Exists, HasPointer, Named
  <2>2. CASE g # h
    <3>1. PICK r \in Reads : r = handler[g] /\ Begun(r) /\ Going(r) /\ Gathered(r)
      BY HandlerFacts
    <3>2. handler'[g] = r
      BY <2>2, <3>1, HandlerFacts
    <3>3. Begun(r)' /\ Going(r)' /\ Gathered(r)'
      BY <1>1, <1>2, <3>1, Persists DEF Inv
    <3> QED BY <3>2, <3>3 DEF Begun, Going, Gathered, Fresh, Exists, HasPointer, Named
  <2> QED BY <2>1, <2>2
<1> QED BY <1>1, <1>3, <1>4, <1>5 DEF Inv, Handling

(* One request goes on with the index that is in memory.                   *)
LEMMA RequestGoesOn ==
  ASSUME Inv, NEW h \in Handlers, NEW n \in Reads, handler' = [handler EXCEPT ![h] = n],
         Begun(n), Going(n), Gathered(n), UNCHANGED <<files, publisher, migration>>,
         Memory', memory'.format = memory.format, Delivered'
  PROVE  Inv'
<1>1. Files'
  BY DEF Inv, Files, files, HasPointer, Exists
<1>2. Begun(n)' /\ Going(n)' /\ Gathered(n)'
  BY <1>1, NothingWritten, Persists DEF Inv
<1> QED BY <1>2, RequestMoves

(* Nothing is answered and no index is read.                               *)
LEMMA DeliveredStays ==
  ASSUME Inv, UNCHANGED <<files, delivered>>
  PROVE  Delivered'
BY DEF Inv, Delivered, Named, Exists, files

LEMMA MemoryUnchanged ==
  ASSUME Inv, UNCHANGED <<files, memory>>
  PROVE  Memory'
BY NothingWritten, MemoryStays DEF Inv, files

LEMMA Beginning ==
  ASSUME Inv, NEW h \in Handlers, Begin(h)
  PROVE  Inv'
<1>1. PICK wanted \in SUBSET Partitions \ {{}} :
         handler' = [handler EXCEPT ![h] =
           [NoRead EXCEPT !.at = "index", !.wanted = wanted, !.todo = wanted,
                          !.seen = index.stamp,
                          !.began = [p \in Partitions |-> pointer[p].stamp],
                          !.legacy = (index.format = "v1")]]
  BY DEF Begin
<1>. DEFINE b == [p \in Partitions |-> pointer[p].stamp]
            l == index.format = "v1"
            n == [NoRead EXCEPT !.at = "index", !.wanted = wanted, !.todo = wanted,
                                !.seen = index.stamp, !.began = b, !.legacy = l]
<1>2. handler' = [handler EXCEPT ![h] = n]
  BY <1>1
<1>3. UNCHANGED <<files, publisher, migration, memory, delivered>>
  BY DEF Begin
<1>4. b \in [Partitions -> Nat] /\ l \in BOOLEAN /\ index.stamp \in Nat
  BY DEF Inv, Files
<1>5. \A p \in Partitions : b[p] <= pointer[p].stamp
  BY DEF Inv, Files
<1>6. l <=> index.format = "v1"
  OBVIOUS
<1>. HIDE DEF b, l
<1>7. /\ n.at = "index" /\ n.wanted = wanted /\ n.todo = wanted /\ n.pinned = FALSE
      /\ n.level = None /\ n.seen = index.stamp /\ n.began = b /\ n.legacy = l /\ n.got = {}
  BY DEF NoRead
<1>8. n \in Reads
  BY <1>4 DEF NoRead, Reads
<1>. HIDE DEF n
<1>9. Begun(n)
  BY <1>5, <1>6, <1>7 DEF Begun, Loading, Inv, Memory, Files
<1>10. Going(n) /\ Gathered(n)
  BY <1>7, CatalogAssumption DEF Going, Gathered, Loading
<1> QED BY <1>2, <1>3, <1>8, <1>9, <1>10, RequestGoesOn, DeliveredStays, MemoryUnchanged

LEMMA BeginningPinned ==
  ASSUME Inv, NEW h \in Handlers, BeginPinned(h)
  PROVE  Inv'
<1>1. PICK e \in delivered :
         handler' = [handler EXCEPT ![h] =
           [NoRead EXCEPT !.at = "index", !.wanted = {e.part}, !.todo = {e.part},
                          !.pinned = TRUE, !.version = e.version, !.seen = index.stamp]]
  BY DEF BeginPinned
<1>. DEFINE n == [NoRead EXCEPT !.at = "index", !.wanted = {e.part}, !.todo = {e.part},
                                !.pinned = TRUE, !.version = e.version,
                                !.seen = index.stamp]
<1>2. handler' = [handler EXCEPT ![h] = n]
  BY <1>1
<1>3. UNCHANGED <<files, publisher, migration, memory, delivered>>
  BY DEF BeginPinned
<1>4. /\ e.part \in Partitions /\ e.version \in Versions /\ Named(e.part, e.version)
      /\ index.stamp \in Nat
  BY DEF Inv, Delivered, Files
<1>5. /\ n.at = "index" /\ n.wanted = {e.part} /\ n.todo = {e.part} /\ n.pinned = TRUE
      /\ n.level = None /\ n.version = e.version /\ n.legacy = FALSE /\ n.got = {}
      /\ n.began = [p \in Partitions |-> 0]
  BY DEF NoRead
<1>6. n \in Reads
  BY <1>4 DEF NoRead, Reads
<1>. HIDE DEF n
<1>7. Begun(n)
  BY <1>5 DEF Begun, Loading, Inv, Files
<1>8. Going(n) /\ Gathered(n)
  BY <1>4, <1>5, CatalogAssumption DEF Going, Gathered, Loading
<1> QED BY <1>2, <1>3, <1>6, <1>7, <1>8, RequestGoesOn, DeliveredStays, MemoryUnchanged

(* In format v2 memory follows; format v1 is left for good.                *)
LEMMA Refreshing ==
  ASSUME Inv, NEW h \in Handlers, RefreshIndex(h)
  PROVE  Inv'
<1>1. PICK r \in Reads : r = handler[h] /\ Begun(r) /\ Going(r) /\ Gathered(r)
  BY HandlerFacts
<1>2. /\ r.at = "index" /\ UNCHANGED <<files, publisher, migration, delivered>>
      /\ memory' = IF r.seen = memory.signature THEN memory
                   ELSE [signature |-> index.stamp, format |-> index.format,
                         cache |-> IF index.format = "v1" THEN NoCache ELSE memory.cache]
      /\ handler' = [handler EXCEPT ![h].at = "choosing", ![h].seen = 0]
  BY <1>1 DEF RefreshIndex
<1>. DEFINE n == [r EXCEPT !.at = "choosing", !.seen = 0]
<1>3. handler' = [handler EXCEPT ![h] = n]
  BY <1>1, <1>2, HandlerFacts
<1>4. n \in Reads
  BY DEF Reads
<1>5. /\ n.at = "choosing" /\ n.wanted = r.wanted /\ n.todo = r.todo /\ n.got = r.got
      /\ n.began = r.began /\ n.version = r.version /\ n.level = r.level /\ n.part = r.part
  BY DEF Reads
<1>6. n.pinned = r.pinned /\ n.legacy = r.legacy
  BY DEF Reads
<1>. HIDE DEF n
<1>7. Files' /\ Grown
  BY <1>2, NothingWritten DEF Inv, Files, files, HasPointer, Exists
<1>8. memory.format = "v2" => memory'.format = "v2"
  BY <1>2 DEF Inv, Memory
<1>9. Memory'
  <2>1. CASE r.seen = memory.signature
    BY <1>2, <2>1, MemoryUnchanged
  <2>2. CASE r.seen # memory.signature
    <3>. DEFINE c == IF index.format = "v1" THEN NoCache ELSE memory.cache
    <3>1. memory' = [signature |-> index.stamp, format |-> index.format, cache |-> c]
      BY <1>2, <2>2
    <3>2. CachedPointers' = CachedPointers /\ CachedShards' = CachedShards
      BY <1>2 DEF CachedPointers, CachedShards, CachedFiles, Exists, files
    <3>3. /\ c \in [pointers : Seq(CachedPointers), shards : Seq(CachedShards)]
          /\ Len(c.pointers) <= CacheSize /\ Len(c.shards) <= CacheSize
      <4>1. CASE index.format = "v1"
        <5>1. \A S : <<>> \in Seq(S) /\ Len(<<>>) = 0
          BY EmptySeq
        <5>2. 0 <= CacheSize
          BY CatalogAssumption
        <5>3. c = [pointers |-> <<>>, shards |-> <<>>]
          BY <4>1 DEF NoCache
        <5>. HIDE DEF c
        <5>4. c.pointers = <<>> /\ c.shards = <<>>
          BY <5>3
        <5>5. \A S, T : c \in [pointers : Seq(S), shards : Seq(T)]
          BY <5>1, <5>3
        <5> QED BY <5>1, <5>2, <5>4, <5>5
      <4>2. CASE index.format # "v1"
        BY <4>2 DEF Inv, Memory
      <4> QED BY <4>1, <4>2
    <3>. HIDE DEF c
    <3>4. /\ index.stamp \in Nat /\ index.format \in {"v1", "v2"} /\ index' = index
          /\ index.format = "v1" => index.stamp = 0
      BY <1>2 DEF Inv, Files, files
    <3>5. index.format = "v1" => \A p \in Partitions : Named(p, Legacy[p].version)'
      BY <3>4 DEF Named
    <3> QED BY <3>1, <3>2, <3>3, <3>4, <3>5 DEF Memory
  <2> QED BY <2>1, <2>2
<1>10. Begun(n)'
  <2>1. \A p \in Partitions : n.began[p] <= pointer'[p].stamp
    BY <1>1, <1>2, <1>5 DEF Begun, files
  <2>2. n.legacy => index'.format = "v1" \/ \A p \in Partitions : HasPointer(p)'
    BY <1>1, <1>2, <1>6 DEF Begun, files, HasPointer
  <2>3. ~n.pinned /\ ~n.legacy => memory'.format = "v2"
    BY <1>1, <1>2, <1>6 DEF Begun, Inv, Memory
  <2>4. n.todo = n.wanted /\ n.got = {}
    BY <1>1, <1>2, <1>5 DEF Begun
  <2> QED BY <1>5, <2>1, <2>2, <2>3, <2>4 DEF Begun, Loading, HasPointer
<1>11. Going(n)' /\ Gathered(n)'
  <2>1. Going(n) /\ Gathered(n)
    BY <1>1, <1>2, <1>5, <1>6 DEF Begun, Going, Gathered, Loading
  <2> QED BY <1>2, <2>1 DEF Going, Gathered, Fresh, Exists, HasPointer, Named, files
<1> QED BY <1>2, <1>3, <1>4, <1>8, <1>9, <1>10, <1>11, RequestMoves, DeliveredStays

(* In format v1 the answer is in memory, with a content for every          *)
(* partition.                                                              *)
LEMMA Choosing ==
  ASSUME Inv, NEW h \in Handlers, Choose(h)
  PROVE  Inv'
<1>1. PICK r \in Reads : r = handler[h] /\ Begun(r) /\ Going(r) /\ Gathered(r)
  BY HandlerFacts
<1>2. r.at = "choosing" /\ UNCHANGED <<files, publisher, migration, memory, delivered>>
  BY <1>1 DEF Choose
<1>3. CASE memory.format = "v1"
  <2>. DEFINE g == {LegacyEntry(p) : p \in r.wanted}
              n == [r EXCEPT !.at = "next", !.todo = {}, !.got = g]
  <2>1. handler' = [handler EXCEPT ![h].at = "next", ![h].todo = {}, ![h].got = g]
    BY <1>1, <1>3 DEF Choose
  <2>2. \A p \in Partitions :
          /\ LegacyEntry(p) \in Answers /\ LegacyEntry(p).part = p
          /\ LegacyEntry(p).version = Legacy[p].version /\ LegacyEntry(p).since = 0
    BY CatalogAssumption DEF LegacyEntry, Answers, Entries
  <2>3. r.wanted \subseteq Partitions
    BY DEF Reads
  <2>4. /\ g \subseteq Answers /\ \A p \in r.wanted : LegacyEntry(p) \in g
        /\ \A e \in g : \E p \in r.wanted : e = LegacyEntry(p)
    BY <2>2, <2>3
  <2>. HIDE DEF g
  <2>5. handler' = [handler EXCEPT ![h] = n]
    BY <1>1, <2>1, HandlerFacts
  <2>6. n \in Reads
    BY <2>4 DEF Reads
  <2>7. /\ n.at = "next" /\ n.wanted = r.wanted /\ n.todo = {} /\ n.got = g
        /\ n.began = r.began
    BY DEF Reads
  <2>8. n.pinned = r.pinned /\ n.legacy = r.legacy
    BY DEF Reads
  <2>. HIDE DEF n
  <2>9. ~r.pinned => r.legacy
    BY <1>1, <1>2, <1>3 DEF Begun
  <2>10. Begun(n)
    BY <1>1, <2>7, <2>8 DEF Begun, Loading
  <2>11. Going(n)
    BY <2>7 DEF Going, Loading
  <2>12. Gathered(n)
    <3>1. \A p \in r.wanted : \E e \in g : e.part = p
      BY <2>2, <2>3, <2>4
    <3>2. \A e \in g : Named(e.part, e.version) /\ e.since = 0
      BY <1>3, <2>2, <2>3, <2>4 DEF Inv, Memory
    <3> QED BY <2>7, <2>8, <2>9, <3>1, <3>2 DEF Gathered
  <2> QED BY <1>2, <2>5, <2>6, <2>10, <2>11, <2>12, RequestGoesOn, DeliveredStays, MemoryUnchanged
<1>4. CASE memory.format # "v1"
  <2>. DEFINE n == [r EXCEPT !.at = "next"]
  <2>1. handler' = [handler EXCEPT ![h].at = "next"]
    BY <1>4 DEF Choose
  <2>2. handler' = [handler EXCEPT ![h] = n]
    BY <1>1, <2>1, HandlerFacts
  <2>3. n \in Reads
    BY DEF Reads
  <2>4. /\ n.at = "next" /\ n.wanted = r.wanted /\ n.todo = r.todo /\ n.got = r.got
        /\ n.began = r.began /\ n.version = r.version
    BY DEF Reads
  <2>5. n.pinned = r.pinned /\ n.legacy = r.legacy
    BY DEF Reads
  <2>. HIDE DEF n
  <2>6. index.format = "v2"
    BY <1>4 DEF Inv, Memory
  <2>7. Begun(n)
    BY <1>1, <2>4, <2>5, <2>6 DEF Begun, Loading
  <2>8. Going(n) /\ Gathered(n)
    BY <1>1, <1>2, <2>4, <2>5 DEF Begun, Going, Gathered, Loading
  <2> QED BY <1>2, <2>2, <2>3, <2>7, <2>8, RequestGoesOn, DeliveredStays, MemoryUnchanged
<1> QED BY <1>3, <1>4

LEMMA Picking ==
  ASSUME Inv, NEW h \in Handlers, PickPartition(h)
  PROVE  Inv'
<1>1. PICK r \in Reads : r = handler[h] /\ Begun(r) /\ Going(r) /\ Gathered(r)
  BY HandlerFacts
<1>2. PICK p \in r.todo :
        handler' = [handler EXCEPT ![h].at = "stat", ![h].part = p,
                      ![h].level = IF r.pinned THEN "shards" ELSE "pointers"]
  BY <1>1 DEF PickPartition
<1>3. r.at = "next" /\ UNCHANGED <<files, publisher, migration, memory, delivered>>
  BY <1>1 DEF PickPartition
<1>. DEFINE l == IF r.pinned THEN "shards" ELSE "pointers"
            n == [r EXCEPT !.at = "stat", !.part = p, !.level = l]
<1>4. l \in {"pointers", "shards"} /\ (r.pinned <=> l = "shards")
  OBVIOUS
<1>5. p \in Partitions /\ index.format = "v2"
  BY <1>1, <1>3 DEF Reads, Begun
<1>6. handler' = [handler EXCEPT ![h] = n]
  BY <1>1, <1>2, HandlerFacts
<1>. HIDE DEF l
<1>7. n \in Reads
  BY <1>4, <1>5 DEF Reads, Loading
<1>8. /\ n.at = "stat" /\ n.wanted = r.wanted /\ n.todo = r.todo /\ n.got = r.got
      /\ n.began = r.began /\ n.version = r.version /\ n.part = p /\ n.level = l
  BY DEF Reads
<1>9. n.pinned = r.pinned /\ n.legacy = r.legacy
  BY DEF Reads
<1>. HIDE DEF n
<1>10. Begun(n)
  BY <1>1, <1>5, <1>8, <1>9 DEF Begun, Loading
<1>11. Going(n)
  <2>1. r.pinned => r.version \in Versions /\ Exists(p, r.version)
    BY <1>1, <1>2, <1>5 DEF Going, Named
  <2> QED BY <1>1, <1>2, <1>4, <1>8, <1>9, <2>1 DEF Going, Loading
<1>12. Gathered(n)
  BY <1>1, <1>3, <1>8, <1>9 DEF Gathered, Loading
<1> QED BY <1>3, <1>6, <1>7, <1>10, <1>11, <1>12, RequestGoesOn, DeliveredStays, MemoryUnchanged

LEMMA CacheFacts ==
  ASSUME Inv, NEW h \in Handlers, handler[h].at \in Loading
  PROVE  /\ handler[h].level \in {"pointers", "shards"}
         /\ Cache(h) \in Seq(IF handler[h].level = "pointers"
                             THEN CachedPointers ELSE CachedShards)
         /\ Len(Cache(h)) <= CacheSize
         /\ Key(h) \in Seq(Partitions \cup Versions)
         /\ handler[h].level = "pointers" => Key(h) = <<handler[h].part>>
<1>1. PICK r \in Reads : r = handler[h] /\ Going(r)
  BY HandlerFacts
<1>2. r.level \in {"pointers", "shards"} /\ r.part \in Partitions
  BY <1>1 DEF Going, Reads
<1>3. r.level = "shards" => r.version \in Versions
  BY <1>1 DEF Going
<1>. DEFINE c == memory.cache
<1>4. /\ c \in [pointers : Seq(CachedPointers), shards : Seq(CachedShards)]
      /\ Len(c.pointers) <= CacheSize /\ Len(c.shards) <= CacheSize
  BY DEF Inv, Memory
<1>5. Cache(h) = c[r.level]
  BY <1>1 DEF Cache
<1>6. Key(h) = IF r.level = "pointers" THEN <<r.part>> ELSE <<r.part, r.version>>
  BY <1>1 DEF Key
<1>. HIDE DEF c
<1>7. Key(h) \in Seq(Partitions \cup Versions)
  <2>. DEFINE S == Partitions \cup Versions
  <2>1. r.part \in S /\ (r.level = "shards" => r.version \in S)
    BY <1>2, <1>3
  <2>. HIDE DEF S
  <2>2. CASE r.level = "pointers"
    <3>1. <<r.part>> \in Seq(S)
      BY <2>1
    <3> QED BY <1>6, <2>2, <3>1 DEF S
  <2>3. CASE r.level = "shards"
    <3>1. <<r.part, r.version>> \in Seq(S)
      BY <2>1, <2>3
    <3> QED BY <1>6, <2>3, <3>1 DEF S
  <2> QED BY <1>2, <2>2, <2>3
<1> QED BY <1>1, <1>2, <1>4, <1>5, <1>6, <1>7

(* A file is looked at.                                                    *)
LEMMA Looking ==
  ASSUME Inv, NEW h \in Handlers, Stat(h) \/ Miss(h) \/ Open(h)
  PROVE  Inv'
<1>1. PICK r \in Reads : r = handler[h] /\ Begun(r) /\ Going(r) /\ Gathered(r)
  BY HandlerFacts
<1>2. /\ UNCHANGED <<files, publisher, migration, memory, delivered>> /\ r.at \in Loading
      /\ r.at \in {"stat", "lookup", "open"}
  BY <1>1 DEF Stat, Miss, Open, Loading
<1>3. /\ r.part \in Partitions /\ r.level \in {"pointers", "shards"} /\ index.format = "v2"
      /\ r.level = "shards" => r.version \in Versions /\ Exists(r.part, r.version)
      /\ r.began[r.part] \in Nat /\ r.began[r.part] <= pointer[r.part].stamp
  BY <1>1, <1>2 DEF Reads, Begun, Going
<1>. DEFINE f == File(h)
<1>4. f = IF r.level = "pointers" THEN pointer[r.part] ELSE shard[r.part][r.version]
  BY <1>1 DEF File
<1>. HIDE DEF f
<1>5. /\ f.stamp \in Nat /\ f.value \in Versions \cup Contents \cup {None}
      /\ r.level = "shards" => f.value \in Contents
      /\ r.level = "pointers" => f.value \in Versions \cup {None}
  BY <1>3, <1>4 DEF Inv, Files, Exists
<1>6. r.level = "pointers" /\ f.value # None =>
        /\ HasPointer(r.part) /\ Fresh(r, f.stamp) /\ Exists(r.part, f.value)
  BY <1>3, <1>4 DEF Inv, Files, HasPointer, Fresh
<1>7. \E n \in Reads : /\ handler' = [handler EXCEPT ![h] = n]
                       /\ Begun(n) /\ Going(n) /\ Gathered(n)
  <2>1. ASSUME NEW a \in {"lookup", "open", "store"}, NEW seen \in Nat,
               NEW value \in Versions \cup Contents \cup {None},
               handler' = [handler EXCEPT ![h] = [r EXCEPT !.at = a, !.seen = seen,
                                                           !.value = value]],
               r.level = "pointers" =>
                 /\ a \in {"lookup", "open"} => HasPointer(r.part)
                 /\ a = "lookup" => Fresh(r, seen)
                 /\ a = "store" => /\ Fresh(r, seen)
                                   /\ value \in Versions /\ Exists(r.part, value),
               r.level = "shards" /\ a = "store" => value \in Contents
        PROVE  \E n \in Reads : /\ handler' = [handler EXCEPT ![h] = n]
                               /\ Begun(n) /\ Going(n) /\ Gathered(n)
    <3>. DEFINE n == [r EXCEPT !.at = a, !.seen = seen, !.value = value]
    <3>1. n \in Reads
      BY DEF Reads, Loading
    <3>2. /\ n.at = a /\ n.wanted = r.wanted /\ n.todo = r.todo /\ n.got = r.got
          /\ n.began = r.began /\ n.version = r.version /\ n.part = r.part
          /\ n.level = r.level /\ n.since = r.since /\ n.seen = seen /\ n.value = value
      BY DEF Reads
    <3>3. n.pinned = r.pinned /\ n.legacy = r.legacy
      BY DEF Reads
    <3>4. handler' = [handler EXCEPT ![h] = n]
      BY <2>1
    <3>. HIDE DEF n
    <3>5. Begun(n)
      BY <1>1, <1>3, <3>2, <3>3 DEF Begun, Loading
    <3>6. Going(n)
      BY <1>1, <1>2, <2>1, <3>2, <3>3 DEF Going, Loading, Fresh
    <3>7. Gathered(n)
      BY <1>1, <1>2, <3>2, <3>3 DEF Gathered, Loading
    <3> QED BY <3>1, <3>4, <3>5, <3>6, <3>7
  <2>2. r.seen \in Nat /\ r.value \in Versions \cup Contents \cup {None}
    BY DEF Reads
  <2>3. CASE Stat(h)
    <3>1. f.value # None /\ handler' = [handler EXCEPT ![h].at = "lookup", ![h].seen = f.stamp]
      BY <2>3 DEF Stat, f
    <3>2. handler' = [handler EXCEPT ![h] = [r EXCEPT !.at = "lookup", !.seen = f.stamp,
                                                      !.value = r.value]]
      BY <1>1, <3>1, HandlerFacts DEF Reads
    <3> QED BY <1>5, <1>6, <2>1, <2>2, <3>1, <3>2
  <2>4. CASE Miss(h)
    <3>1. r.at = "lookup" /\ handler' = [handler EXCEPT ![h].at = "open", ![h].seen = 0]
      BY <1>1, <2>4 DEF Miss
    <3>2. handler' = [handler EXCEPT ![h] = [r EXCEPT !.at = "open", !.seen = 0,
                                                      !.value = r.value]]
      BY <1>1, <3>1, HandlerFacts DEF Reads
    <3>3. r.level = "pointers" => HasPointer(r.part)
      BY <1>1, <3>1 DEF Going
    <3> QED BY <2>1, <2>2, <3>2, <3>3
  <2>5. CASE Open(h)
    <3>1. /\ r.at = "open"
          /\ handler' = [handler EXCEPT ![h].at = "store", ![h].seen = f.stamp,
                                        ![h].value = f.value]
      BY <1>1, <2>5 DEF Open, f
    <3>2. handler' = [handler EXCEPT ![h] = [r EXCEPT !.at = "store", !.seen = f.stamp,
                                                      !.value = f.value]]
      BY <1>1, <3>1, HandlerFacts DEF Reads
    <3>3. r.level = "pointers" => f.value # None
      BY <1>1, <1>4, <3>1 DEF Going, HasPointer
    <3> QED BY <1>5, <1>6, <2>1, <3>2, <3>3
  <2> QED BY <2>3, <2>4, <2>5
<1> QED BY <1>2, <1>7, RequestGoesOn, DeliveredStays, MemoryUnchanged

(* A partition without a pointer had none in the beginning.                *)
LEMMA NoFileFound ==
  ASSUME Inv, NEW h \in Handlers, NoFile(h)
  PROVE  Inv'
<1>1. PICK r \in Reads : r = handler[h] /\ Begun(r) /\ Going(r) /\ Gathered(r)
  BY HandlerFacts
<1>2. r.at = "stat" /\ UNCHANGED <<files, publisher, migration, delivered>>
  BY <1>1 DEF NoFile
<1>3. /\ r.part \in Partitions /\ r.level \in {"pointers", "shards"} /\ index.format = "v2"
      /\ r.level = "shards" => Exists(r.part, r.version)
      /\ r.level = "pointers" => ~r.pinned
      /\ r.began[r.part] \in Nat /\ r.began[r.part] <= pointer[r.part].stamp
      /\ r.legacy => HasPointer(r.part)
  BY <1>1, <1>2 DEF Reads, Begun, Going, Loading
<1>4. r.level = "pointers" /\ ~HasPointer(r.part)
  BY <1>1, <1>3 DEF NoFile, File, Exists, HasPointer
<1>5. r.began[r.part] = 0 /\ ~r.legacy /\ ~r.pinned
  BY <1>3, <1>4 DEF Inv, Files
<1>6. Memory' /\ memory'.format = memory.format
  <2>. DEFINE c == Without(Cache(h), Key(h))
  <2>1. /\ Cache(h) \in Seq(CachedPointers) /\ Len(Cache(h)) <= CacheSize
        /\ r.level \in {"pointers", "shards"}
    BY <1>1, <1>2, <1>4, CacheFacts DEF Loading
  <2>2. c \in Seq(CachedPointers) /\ Len(c) \in Nat /\ Len(c) <= Len(Cache(h))
    BY <2>1, WithoutFacts
  <2>3. Len(Cache(h)) \in Nat /\ CacheSize \in Nat
    BY <2>1, LenProperties, CatalogAssumption
  <2>4. memory' = [memory EXCEPT !.cache[r.level] = c]
    BY <1>1 DEF NoFile, CacheBecomes
  <2>. HIDE DEF c
  <2> QED BY <1>2, <1>4, <2>1, <2>2, <2>3, <2>4, CacheStep DEF Inv
<1>. DEFINE t == r.todo \ {r.part}
            n == [r EXCEPT !.at = "next", !.todo = t]
<1>7. handler' = [handler EXCEPT ![h].at = "next", ![h].todo = t]
  BY <1>1, <1>4 DEF NoFile
<1>8. handler' = [handler EXCEPT ![h] = n]
  BY <1>1, <1>7, HandlerFacts
<1>9. n \in Reads
  BY DEF Reads
<1>10. /\ n.at = "next" /\ n.wanted = r.wanted /\ n.todo = t /\ n.got = r.got
       /\ n.began = r.began /\ n.version = r.version
  BY DEF Reads
<1>11. n.pinned = r.pinned /\ n.legacy = r.legacy
  BY DEF Reads
<1>. HIDE DEF n
<1>12. Begun(n)
  BY <1>1, <1>3, <1>10, <1>11 DEF Begun, Loading
<1>13. Going(n)
  BY <1>5, <1>10, <1>11 DEF Going, Loading
<1>14. Gathered(n)
  <2>1. \A p \in n.wanted \ n.todo :
           n.legacy \/ n.began[p] > 0 => \E e \in n.got : e.part = p
    BY <1>1, <1>2, <1>5, <1>10, <1>11 DEF Gathered, Loading
  <2> QED BY <1>1, <1>10, <1>11, <2>1 DEF Gathered
<1> QED BY <1>2, <1>6, <1>8, <1>9, <1>12, <1>13, <1>14, RequestGoesOn, DeliveredStays

(* A file has been read, by way of the cache or not.                       *)
LEMMA LoadedFacts ==
  ASSUME Inv, NEW h \in Handlers, NEW from \in Nat, NEW value, Loaded(h, from, value),
         handler[h].at \in Loading,
         handler[h].level = "pointers" =>
           /\ value \in Versions /\ Exists(handler[h].part, value)
           /\ Fresh(handler[h], from),
         handler[h].level = "shards" => value \in Contents
  PROVE  \E n \in Reads : /\ handler' = [handler EXCEPT ![h] = n]
                         /\ Begun(n) /\ Going(n) /\ Gathered(n)
<1>1. PICK r \in Reads : r = handler[h] /\ Begun(r) /\ Going(r) /\ Gathered(r)
  BY HandlerFacts
<1>2. /\ r.at \in Loading /\ r.part \in Partitions /\ r.part \in r.todo
      /\ r.level \in {"pointers", "shards"} /\ index.format = "v2"
      /\ r.level = "pointers" => /\ value \in Versions /\ Exists(r.part, value)
                                 /\ Fresh(r, from) /\ ~r.pinned
      /\ r.level = "shards" => value \in Contents
  BY <1>1 DEF Reads, Begun, Going
<1>3. CASE r.level = "pointers"
  <2>. DEFINE n == [r EXCEPT !.at = "stat", !.level = "shards", !.seen = 0, !.value = None,
                             !.version = value, !.since = from]
  <2>1. handler' = [handler EXCEPT ![h] = n]
    BY <1>1, <1>3 DEF Loaded
  <2>2. n \in Reads
    BY <1>2, <1>3 DEF Reads, Loading
  <2>3. /\ n.at = "stat" /\ n.wanted = r.wanted /\ n.todo = r.todo /\ n.got = r.got
        /\ n.began = r.began /\ n.version = value /\ n.part = r.part /\ n.level = "shards"
        /\ n.since = from
    BY DEF Reads
  <2>4. n.pinned = r.pinned /\ n.legacy = r.legacy
    BY DEF Reads
  <2>. HIDE DEF n
  <2>5. Begun(n)
    BY <1>1, <1>2, <2>3, <2>4 DEF Begun, Loading
  <2>6. Going(n)
    BY <1>2, <1>3, <2>3, <2>4 DEF Going, Loading, Fresh
  <2>7. Gathered(n)
    BY <1>1, <1>2, <2>3, <2>4 DEF Gathered, Loading
  <2> QED BY <2>1, <2>2, <2>5, <2>6, <2>7
<1>4. CASE r.level = "shards"
  <2>. DEFINE e == [part |-> r.part, version |-> r.version, content |-> value,
                    since |-> r.since]
              g == r.got \cup {e}
              t == r.todo \ {r.part}
              n == [NoRead EXCEPT !.at = "next", !.wanted = r.wanted, !.todo = t,
                                  !.pinned = r.pinned, !.began = r.began,
                                  !.legacy = r.legacy, !.got = g]
  <2>1. handler' = [handler EXCEPT ![h] = n]
    BY <1>1, <1>4 DEF Loaded
  <2>2. /\ r.version \in Versions /\ Exists(r.part, r.version) /\ r.since \in Nat
        /\ ~r.pinned => r.since > 0 /\ r.since >= r.began[r.part]
    BY <1>1, <1>2, <1>4 DEF Going, Reads, Fresh
  <2>3. /\ e \in Answers /\ e.part = r.part /\ e.version = r.version /\ e.since = r.since
        /\ Named(e.part, e.version)
    BY <1>2, <1>4, <2>2 DEF Answers, Named
  <2>. HIDE DEF e
  <2>4. g \subseteq Answers /\ t \subseteq Partitions
    BY <2>3 DEF Reads
  <2>. HIDE DEF g, t
  <2>5. /\ r.wanted \subseteq Partitions /\ r.began \in [Partitions -> Nat]
        /\ r.pinned \in BOOLEAN /\ r.legacy \in BOOLEAN
    BY DEF Reads
  <2>6. n \in Reads
    BY <2>4, <2>5 DEF Reads, NoRead
  <2>7. /\ n.at = "next" /\ n.wanted = r.wanted /\ n.todo = t /\ n.got = g
        /\ n.began = r.began /\ n.level = None
    BY DEF NoRead
  <2>8. n.pinned = r.pinned /\ n.legacy = r.legacy
    BY DEF NoRead
  <2>. HIDE DEF n
  <2>9. Begun(n)
    BY <1>1, <1>2, <2>7, <2>8 DEF Begun, Loading
  <2>10. r.pinned => t = {}
    BY <1>1, <1>2 DEF Going, t
  <2>11. Going(n)
    BY <2>7, <2>8, <2>10 DEF Going, Loading
  <2>12. Gathered(n)
    <3>1. \A x \in g : /\ Named(x.part, x.version)
                       /\ ~r.pinned => IF x.since = 0 THEN r.legacy
                                       ELSE x.since >= r.began[x.part]
      BY <1>1, <2>2, <2>3 DEF Gathered, g
    <3>2. ~r.pinned => \A p \in r.wanted \ t :
            r.legacy \/ r.began[p] > 0 => \E x \in g : x.part = p
      <4>1. \E x \in g : x.part = r.part
        BY <2>3 DEF g
      <4> QED BY <1>1, <1>2, <4>1 DEF Gathered, g, t
    <3> QED BY <2>7, <2>8, <3>1, <3>2 DEF Gathered
  <2> QED BY <2>1, <2>6, <2>9, <2>11, <2>12
<1> QED BY <1>2, <1>3, <1>4

(* An entry goes into the cache of its level, and the request goes on.     *)
LEMMA EntryStored ==
  ASSUME Inv, NEW h \in Handlers, handler[h].at \in Loading,
         NEW e \in IF handler[h].level = "pointers" THEN CachedPointers ELSE CachedShards,
         CacheBecomes(h, Stored(Cache(h), e)), UNCHANGED files
  PROVE  Memory' /\ memory'.format = memory.format
<1>. DEFINE l == handler[h].level
            S == IF l = "pointers" THEN CachedPointers ELSE CachedShards
            c == Stored(Cache(h), e)
<1>1. l \in {"pointers", "shards"} /\ Cache(h) \in Seq(S) /\ Len(Cache(h)) <= CacheSize
  BY CacheFacts
<1>2. memory' = [memory EXCEPT !.cache[l] = c]
  BY DEF CacheBecomes
<1>3. e \in S
  OBVIOUS
<1>. HIDE DEF S
<1>4. c \in Seq(S) /\ Len(c) <= CacheSize
  BY <1>1, <1>3, StoredFacts
<1>. HIDE DEF c, l
<1> QED BY <1>1, <1>2, <1>4, CacheStep DEF Inv, S

LEMMA Finding ==
  ASSUME Inv, NEW h \in Handlers, Hit(h) \/ Store(h)
  PROVE  Inv'
<1>1. PICK r \in Reads : r = handler[h] /\ Begun(r) /\ Going(r) /\ Gathered(r)
  BY HandlerFacts
<1>2. /\ UNCHANGED <<files, publisher, migration, delivered>>
      /\ r.at \in Loading /\ r.level \in {"pointers", "shards"} /\ r.part \in Partitions
  BY <1>1 DEF Hit, Store, Loading, Going, Reads
<1>. DEFINE S == IF r.level = "pointers" THEN CachedPointers ELSE CachedShards
<1>3. /\ Cache(h) \in Seq(S) /\ Key(h) \in Seq(Partitions \cup Versions)
      /\ r.level = "pointers" => Key(h) = <<r.part>>
  BY <1>1, <1>2, CacheFacts
<1>4. ASSUME NEW e \in S, CacheBecomes(h, Stored(Cache(h), e)),
             Loaded(h, e.from, e.value), e.key = Key(h), e.stamp = r.seen,
             r.level = "pointers" => Fresh(r, r.seen)
      PROVE  Inv'
  <2>1. Memory' /\ memory'.format = memory.format
    BY <1>1, <1>2, <1>4, EntryStored
  <2>2. e.from \in Nat
    BY DEF CachedPointers, CachedShards, CachedFiles
  <2>3. r.level = "shards" => e.value \in Contents
    BY DEF CachedShards, CachedFiles
  <2>4. r.level = "pointers" => e.value \in Versions /\ Exists(r.part, e.value)
                               /\ Fresh(r, e.from)
    <3>1. SUFFICES ASSUME r.level = "pointers"
                   PROVE  e.value \in Versions /\ Exists(r.part, e.value) /\ Fresh(r, e.from)
      OBVIOUS
    <3>2. e \in CachedPointers
      BY <3>1
    <3>3. e.value \in Versions /\ e.from = r.seen
      BY <1>4, <3>2 DEF CachedPointers, CachedFiles
    <3>4. PICK p \in Partitions : e.key = <<p>> /\ Exists(p, e.value)
      BY <3>2 DEF CachedPointers
    <3>5. p = r.part
      <4>1. <<p>> = <<r.part>>
        BY <1>3, <1>4, <3>1, <3>4
      <4> QED BY <4>1
    <3> QED BY <1>4, <3>1, <3>3, <3>4, <3>5
  <2>5. PICK n \in Reads : /\ handler' = [handler EXCEPT ![h] = n]
                           /\ Begun(n) /\ Going(n) /\ Gathered(n)
    BY <1>1, <1>2, <1>4, <2>2, <2>3, <2>4, LoadedFacts
  <2> QED BY <1>2, <2>1, <2>5, RequestGoesOn, DeliveredStays
<1>5. CASE Hit(h)
  <2>1. PICK i \in Hits(h) : /\ CacheBecomes(h, Stored(Cache(h), Cache(h)[i]))
                             /\ Loaded(h, Cache(h)[i].from, Cache(h)[i].value)
    BY <1>5 DEF Hit
  <2>2. i \in DOMAIN Cache(h) /\ Cache(h)[i].key = Key(h) /\ Cache(h)[i].stamp = r.seen
    BY <1>1 DEF Hits
  <2>3. Cache(h)[i] \in S
    <3>. HIDE DEF S
    <3> QED BY <1>3, <2>2, ElementOfSeq, LenProperties
  <2>4. r.level = "pointers" => Fresh(r, r.seen)
    BY <1>1, <1>5 DEF Hit, Going
  <2>. HIDE DEF S
  <2> QED BY <1>4, <2>1, <2>2, <2>3, <2>4
<1>6. CASE Store(h)
  <2>. DEFINE e == [key |-> Key(h), stamp |-> r.seen, from |-> r.seen, value |-> r.value]
  <2>1. /\ CacheBecomes(h, Stored(Cache(h), e)) /\ Loaded(h, r.seen, r.value)
        /\ r.at = "store" /\ r.seen \in Nat
    BY <1>1, <1>6 DEF Store, SignatureRead, Reads
  <2>2. /\ r.level = "pointers" => /\ Fresh(r, r.seen) /\ r.value \in Versions
                                   /\ Exists(r.part, r.value)
        /\ r.level = "shards" => r.value \in Contents
    BY <1>1, <2>1 DEF Going
  <2>3. CASE r.level = "pointers"
    <3>1. e \in CachedFiles(Versions)
      BY <1>3, <2>1, <2>2, <2>3 DEF CachedFiles
    <3>2. e \in CachedPointers
      BY <1>2, <1>3, <2>2, <2>3, <3>1 DEF CachedPointers, Fresh
    <3> QED BY <1>4, <2>1, <2>2, <2>3, <3>2
  <2>4. CASE r.level = "shards"
    <3>1. e \in CachedShards
      BY <1>3, <2>1, <2>2, <2>4 DEF CachedShards, CachedFiles
    <3> QED BY <1>4, <2>1, <2>4, <3>1
  <2> QED BY <1>2, <2>3, <2>4
<1> QED BY <1>5, <1>6

LEMMA Answering ==
  ASSUME Inv, NEW h \in Handlers, Answer(h)
  PROVE  Inv'
<1>1. PICK r \in Reads : r = handler[h] /\ Begun(r) /\ Going(r) /\ Gathered(r)
  BY HandlerFacts
<1>2. /\ r.at = "next" /\ r.todo = {} /\ UNCHANGED <<files, publisher, migration, memory>>
      /\ handler' = [handler EXCEPT ![h].at = "answered"]
      /\ delivered' = delivered \cup
           {[part |-> e.part, version |-> e.version, content |-> e.content] : e \in r.got}
  BY <1>1 DEF Answer
<1>. DEFINE n == [r EXCEPT !.at = "answered"]
<1>3. handler' = [handler EXCEPT ![h] = n]
  BY <1>1, <1>2, HandlerFacts
<1>4. n \in Reads
  BY DEF Reads
<1>5. /\ n.at = "answered" /\ n.wanted = r.wanted /\ n.todo = r.todo /\ n.got = r.got
      /\ n.began = r.began /\ n.version = r.version
  BY DEF Reads
<1>6. n.pinned = r.pinned /\ n.legacy = r.legacy
  BY DEF Reads
<1>. HIDE DEF n
<1>7. Begun(n)
  BY <1>1, <1>5, <1>6 DEF Begun, Loading
<1>8. Going(n) /\ Gathered(n)
  BY <1>1, <1>2, <1>5, <1>6 DEF Going, Gathered, Loading
<1>9. Delivered'
  <2>1. \A e \in r.got : /\ e.part \in Partitions /\ e.version \in Versions
                         /\ e.content \in Contents /\ Named(e.part, e.version)
    BY <1>1 DEF Reads, Answers, Gathered
  <2>2. ASSUME NEW d \in delivered'
        PROVE  /\ d \in [part : Partitions, version : Versions, content : Contents]
               /\ Named(d.part, d.version)
    <3>1. CASE d \in delivered
      BY <3>1 DEF Inv, Delivered
    <3>2. CASE d \notin delivered
      <4>1. PICK e \in r.got :
              d = [part |-> e.part, version |-> e.version, content |-> e.content]
        BY <1>2, <3>2
      <4> QED BY <2>1, <4>1
    <3> QED BY <3>1, <3>2
  <2> QED BY <1>2, <2>2 DEF Delivered, Named, Exists, files
<1> QED BY <1>2, <1>3, <1>4, <1>7, <1>8, <1>9, RequestGoesOn, MemoryUnchanged

LEMMA Finishing ==
  ASSUME Inv, NEW h \in Handlers, Finish(h)
  PROVE  Inv'
<1>1. /\ handler' = [handler EXCEPT ![h] = NoRead]
      /\ UNCHANGED <<files, publisher, migration, memory, delivered>>
  BY DEF Finish
<1>2. /\ NoRead \in Reads /\ NoRead.at = "idle" /\ NoRead.level = None /\ NoRead.got = {}
      /\ NoRead.pinned = FALSE /\ NoRead.legacy = FALSE
      /\ NoRead.began = [p \in Partitions |-> 0]
  BY DEF NoRead, Reads
<1>3. Begun(NoRead)
  BY <1>2 DEF Begun, Loading, Inv, Files
<1>4. Going(NoRead) /\ Gathered(NoRead)
  BY <1>2 DEF Going, Gathered, Loading
<1> QED BY <1>1, <1>2, <1>3, <1>4, RequestGoesOn, DeliveredStays, MemoryUnchanged
-----------------------------------------------------------------------------
LEMMA InitInv ==
  ASSUME Init
  PROVE  Inv
<1>1. Files /\ Untouched
  <2>1. /\ pointer \in [Partitions -> [stamp : Nat, value : Versions \cup {None}]]
        /\ shard \in [Partitions -> [Versions -> [stamp : Nat, value : Contents \cup {None}]]]
        /\ writes = 0
    BY DEF Init
  <2>2. index.stamp = 0 /\ index \in [stamp : Nat, format : {"v1", "v2"}]
    <3>1. index \in [stamp : {0}, format : StartFormats]
      BY DEF Init
    <3>2. index.stamp = 0 /\ index.format \in {"v1", "v2"} /\ index = [stamp |-> index.stamp,
                                                                   format |-> index.format]
      BY <3>1, CatalogAssumption
    <3> QED BY <3>2
  <2>3. \A p \in Partitions : pointer[p].stamp = 0 /\ ~HasPointer(p)
    BY DEF Init, HasPointer
  <2>4. \A p \in Partitions, v \in Versions : ~Exists(p, v)
    BY DEF Init, Exists
  <2> QED BY <2>1, <2>2, <2>3, <2>4 DEF Files, Untouched
<1>2. Writers
  <2>1. NoPublication \in Publications /\ NoPublication.at = "idle"
    BY DEF NoPublication, Publications, Stages
  <2>2. Migrating
    BY DEF Init, Migrating, NoMigration
  <2> QED BY <2>1, <2>2 DEF Init, Writers, Publishing
<1>3. Memory
  <2>1. /\ memory = [signature |-> 0, format |-> index.format, cache |-> NoCache]
        /\ index.format \in {"v1", "v2"}
    BY <1>1 DEF Init, Files
  <2>2. \A S : <<>> \in Seq(S) /\ Len(<<>>) = 0
    BY EmptySeq
  <2>3. \A S, T : NoCache \in [pointers : Seq(S), shards : Seq(T)]
    BY <2>2 DEF NoCache
  <2>4. NoCache.pointers = <<>> /\ NoCache.shards = <<>>
    BY DEF NoCache
  <2>5. 0 <= CacheSize
    BY CatalogAssumption
  <2>6. index.format = "v1" => \A p \in Partitions : Named(p, Legacy[p].version)
    BY DEF Named
  <2> QED BY <2>1, <2>2, <2>3, <2>4, <2>5, <2>6 DEF Memory
<1>4. Handling /\ Delivered
  <2>1. /\ NoRead \in Reads /\ NoRead.at = "idle" /\ NoRead.level = None
        /\ NoRead.got = {} /\ NoRead.pinned = FALSE /\ NoRead.legacy = FALSE
        /\ NoRead.began = [p \in Partitions |-> 0]
    BY DEF NoRead, Reads
  <2>2. Begun(NoRead)
    BY <1>1, <2>1 DEF Begun, Loading, Files
  <2>3. Going(NoRead) /\ Gathered(NoRead)
    BY <2>1 DEF Going, Gathered, Loading
  <2> QED BY <2>1, <2>2, <2>3 DEF Init, Handling, Delivered
<1> QED BY <1>1, <1>2, <1>3, <1>4 DEF Inv

LEMMA NextInv ==
  ASSUME Inv, [Next]_vars
  PROVE  Inv'
<1>1. ASSUME NEW w \in Publishers, Publication(w) PROVE Inv'
  BY <1>1, Starting, PublisherWrites DEF Publication
<1>2. CASE Migration
  BY <1>2, MigrationWrites
<1>3. ASSUME NEW h \in Handlers, Reading(h) PROVE Inv'
  BY <1>3, Beginning, BeginningPinned, Refreshing, Choosing, Picking, Looking, NoFileFound,
     Finding, Answering, Finishing DEF Reading
<1>4. CASE UNCHANGED vars
  <2>1. UNCHANGED <<files, memory, handler, delivered, publisher, migration>>
    BY <1>4 DEF vars, files
  <2>2. Writers'
    BY <2>1 DEF Inv, Writers, Publishing, Migrating, files, HasPointer, Exists
  <2> QED BY <2>1, <2>2, WritersOnly
<1> QED BY <1>1, <1>2, <1>3, <1>4 DEF Next

LEMMA Invariance == Spec => []Inv
BY InitInv, NextInv, PTL DEF Spec

(* Files, caches and requests have their types, and no cache of the        *)
(* gateway exceeds shard_cache_size.                                       *)
THEOREM CatalogTypes == Spec => []TypeOK
<1>1. Inv => TypeOK
  <2>1. SUFFICES ASSUME Inv PROVE TypeOK
    OBVIOUS
  <2>2. /\ writes \in Nat
        /\ index \in [stamp : Nat, format : {"v1", "v2"}]
        /\ pointer \in [Partitions -> [stamp : Nat, value : Versions \cup {None}]]
        /\ shard \in [Partitions -> [Versions -> [stamp : Nat, value : Contents \cup {None}]]]
    BY <2>1 DEF Inv, Files
  <2>3. \A w \in Publishers :
          publisher[w].at \in {"idle", "checking", "writing", "pointing", "indexing"}
    BY <2>1 DEF Inv, Writers, Publications, Stages
  <2>4. migration.todo \subseteq Partitions /\ migration.half \in migration.todo \cup {None}
    BY <2>1 DEF Inv, Writers, Migrating
  <2>. DEFINE c == memory.cache
  <2>5. /\ memory.signature \in Nat /\ memory.format \in {"v1", "v2"}
        /\ c \in [pointers : Seq(CachedPointers), shards : Seq(CachedShards)]
        /\ Len(c.pointers) <= CacheSize /\ Len(c.shards) <= CacheSize
    BY <2>1 DEF Inv, Memory
  <2>6. CachedPointers \subseteq CachedFiles(Versions) /\ CachedShards = CachedFiles(Contents)
    BY DEF CachedPointers, CachedShards
  <2>. HIDE DEF c
  <2>7. c.pointers \in Seq(CachedFiles(Versions)) /\ c.shards \in Seq(CachedFiles(Contents))
    <3>1. c.pointers \in Seq(CachedPointers) /\ c.shards \in Seq(CachedShards)
      BY <2>5
    <3> QED BY <2>6, <3>1, SeqMonotonic
  <2>8. \A level \in DOMAIN c : Len(c[level]) <= CacheSize
    BY <2>5
  <2>9. delivered \subseteq [part : Partitions, version : Versions, content : Contents]
    BY <2>1 DEF Inv, Delivered
  <2> QED BY <2>2, <2>3, <2>4, <2>5, <2>7, <2>8, <2>9 DEF TypeOK, c
<1> QED BY <1>1, Invariance, PTL

(* No answer of the gateway is older than the request that it is for: what *)
(* is in a cache under the signature of a pointer was read from it.        *)
THEOREM AnswersAreCurrent == Spec => []AnswerIsCurrent
<1>1. Inv => AnswerIsCurrent
  <2>1. SUFFICES ASSUME Inv, NEW h \in Handlers,
                        handler[h].at = "answered", ~handler[h].pinned,
                        NEW p \in handler[h].wanted
                 PROVE  /\ handler[h].legacy \/ handler[h].began[p] > 0 => Answered(h, p) # {}
                        /\ \A e \in Answered(h, p) :
                             IF e.since = 0 THEN handler[h].legacy
                             ELSE e.since >= handler[h].began[p]
    BY DEF AnswerIsCurrent
  <2>2. PICK r \in Reads : r = handler[h] /\ Gathered(r)
    BY <2>1, HandlerFacts
  <2>3. r.todo = {}
    BY <2>1, <2>2 DEF Gathered
  <2>4. r.legacy \/ r.began[p] > 0 => \E e \in r.got : e.part = p
    BY <2>1, <2>2, <2>3 DEF Gathered
  <2>5. \A e \in r.got : IF e.since = 0 THEN r.legacy ELSE e.since >= r.began[e.part]
    BY <2>1, <2>2 DEF Gathered
  <2> QED BY <2>2, <2>4, <2>5 DEF Answered
<1> QED BY <1>1, Invariance, PTL

(* However publishers and the migration are interrupted, no request fails  *)
(* for want of a version file.                                             *)
THEOREM NoRequestFails == Spec => []NothingMissing
<1>1. Inv => NothingMissing
  <2>1. ASSUME Inv, NEW h \in Handlers PROVE handler[h].at # "failed"
    <3>1. handler[h] \in Reads
      BY <2>1, HandlerFacts
    <3> QED BY <3>1 DEF Reads, Loading
  <2> QED BY <2>1 DEF NothingMissing
<1> QED BY <1>1, Invariance, PTL

(* The migration may stop and begin again after any write: what the files  *)
(* say about a partition stays the same, up to and across the new          *)
(* catalog.json.                                                           *)
THEOREM MigrationIsInvisible == Spec => MigrationChangesNothing
<1>1. ASSUME Inv, Migration, NEW p \in Partitions PROVE Visible(p)' = Visible(p)
  <2>1. CASE StartMigration \/ AbandonMigration
    BY <2>1 DEF StartMigration, AbandonMigration, Visible, files
  <2>2. CASE \E q \in Partitions : MigrateShard(q) \/ MigratePointer(q)
    <3>1. index.format = "v1"
      BY <1>1, <2>2, MigrationFacts, CatalogAssumption DEF MigrateShard, MigratePointer
    <3> QED BY <2>2, <3>1 DEF MigrateShard, MigratePointer, Visible
  <2>3. CASE MigrateIndex
    <3>1. /\ index.format = "v1" /\ index'.format = "v2" /\ UNCHANGED <<pointer, shard>>
          /\ HasPointer(p)
      BY <1>1, <2>3, MigrationFacts DEF MigrateIndex, AllMigrated, Inv, Writers, Migrating
    <3>2. pointer[p].value = Legacy[p].version /\ Exists(p, Legacy[p].version)
      BY <1>1, <3>1 DEF Inv, Files
    <3>3. shard[p][Legacy[p].version].value = Legacy[p].content
      BY <1>1, <3>1, <3>2, MigrationFacts DEF Inv, Untouched
    <3> QED BY <3>1, <3>2, <3>3 DEF Visible, HasPointer
  <2> QED BY <1>1, <2>1, <2>2, <2>3 DEF Migration
<1>2. Inv /\ [Next]_vars =>
        [Migration => \A p \in Partitions : Visible(p)' = Visible(p)]_vars
  BY <1>1
<1> QED BY <1>2, Invariance, PTL DEF Spec, MigrationChangesNothing
-----------------------------------------------------------------------------
(* One publisher at a time.  Two that publish the same version at once may *)
(* both find it missing, and the second then overwrites the first.         *)

OnePublisher == \A u, w \in Publishers : u = w

(* The content of a version, as it is in force.                            *)
Is(p, v, c) == \/ shard[p][v].value = c
               \/ index.format = "v1" /\ v = Legacy[p].version /\ c = Legacy[p].content

TrueShards ==
  {e \in CachedShards :
     \E p \in Partitions, v \in Versions : e.key = <<p, v>> /\ shard[p][v].value = e.value}

TrueRead(r) ==
  /\ r.at = "store" /\ r.level = "shards" => shard[r.part][r.version].value = r.value
  /\ \A e \in r.got : Is(e.part, e.version, e.content)

Unwritten == \A w \in Publishers :
  publisher[w].at = "writing" => ~Exists(publisher[w].part, publisher[w].version)

TrueMemory ==
  /\ memory.cache.shards \in Seq(TrueShards)
  /\ memory.format = "v1" =>
       \A p \in Partitions : Is(p, Legacy[p].version, Legacy[p].content)

TrueReads == \A h \in Handlers : TrueRead(handler[h])

TrueAnswers == \A e \in delivered : Is(e.part, e.version, e.content)

Contented == Unwritten /\ TrueMemory /\ TrueReads /\ TrueAnswers

(* No version file changes its content.                                    *)
Kept == \A p \in Partitions, v \in Versions :
  /\ Exists(p, v) => shard'[p][v].value = shard[p][v].value
  /\ \A c \in Contents : Is(p, v, c) => Is(p, v, c)'

LEMMA TruthKept ==
  ASSUME Inv, Contented, Kept, UNCHANGED <<memory, handler, delivered>>
  PROVE  TrueMemory' /\ TrueReads' /\ TrueAnswers'
<1>1. TrueShards \subseteq TrueShards'
  <2>1. SUFFICES ASSUME NEW e \in TrueShards PROVE e \in TrueShards'
    OBVIOUS
  <2>2. e \in CachedShards /\ e.value \in Contents /\ e.value # None
    BY CatalogAssumption DEF TrueShards, CachedShards, CachedFiles
  <2>3. PICK p \in Partitions, v \in Versions :
          e.key = <<p, v>> /\ shard[p][v].value = e.value
    BY DEF TrueShards
  <2>4. shard'[p][v].value = e.value
    BY <2>2, <2>3 DEF Kept, Exists
  <2>5. CachedShards' = CachedShards
    BY DEF CachedShards, CachedFiles
  <2> QED BY <2>2, <2>3, <2>4, <2>5 DEF TrueShards
<1>2. TrueMemory'
  <2>1. memory'.cache.shards \in Seq(TrueShards)
    BY DEF Contented, TrueMemory
  <2>2. memory'.cache.shards \in Seq(TrueShards')
    BY <1>1, <2>1, SeqMonotonic
  <2>3. \A p \in Partitions : Legacy[p].version \in Versions /\ Legacy[p].content \in Contents
    BY MigrationFacts
  <2> QED BY <2>2, <2>3 DEF Contented, TrueMemory, Kept, Is
<1>3. TrueReads'
  <2>1. SUFFICES ASSUME NEW h \in Handlers PROVE TrueRead(handler[h])'
    BY DEF TrueReads
  <2>2. PICK r \in Reads : r = handler[h] /\ Going(r) /\ TrueRead(r)
    BY HandlerFacts DEF Contented, TrueReads
  <2>3. handler'[h] = r
    BY <2>2
  <2>4. \A e \in r.got : Is(e.part, e.version, e.content)'
    BY <2>2 DEF TrueRead, Reads, Answers, Kept
  <2>5. r.at = "store" /\ r.level = "shards" => shard'[r.part][r.version].value = r.value
    <3>1. r.at = "store" /\ r.level = "shards" =>
            /\ r.part \in Partitions /\ r.version \in Versions /\ Exists(r.part, r.version)
      BY <2>2 DEF Going, Loading, Reads
    <3> QED BY <2>2, <3>1 DEF TrueRead, Kept
  <2> QED BY <2>3, <2>4, <2>5 DEF TrueRead, Is
<1>4. TrueAnswers'
  BY DEF Contented, TrueAnswers, Inv, Delivered, Kept, Is
<1> QED BY <1>2, <1>3, <1>4

LEMMA PublishersKeep ==
  ASSUME Inv, Contented, OnePublisher, NEW w \in Publishers, Publication(w)
  PROVE  Contented'
<1>1. PICK r \in Publications : r = publisher[w] /\ Publishing(r)
  BY PublisherFacts
<1>2. publisher \in [Publishers -> Publications]
  BY PublisherFacts
<1>3. /\ UNCHANGED <<memory, handler, delivered>> /\ index.format = "v2" /\ index'.format = "v2"
      /\ r.at # "idle" \/ Start(w)
  BY <1>1 DEF Publication, Start, CheckVersion, WriteShard, WritePointer, WriteIndex,
       ReadyToPoint, AbandonPublication, files, Publishing
<1>4. Kept
  <2>1. CASE WriteShard(w)
    <3>1. /\ r.part \in Partitions /\ r.version \in Versions /\ ~Exists(r.part, r.version)
          /\ shard' = [shard EXCEPT ![r.part][r.version] =
                         [stamp |-> Stamp, value |-> r.content]]
      BY <1>1, <2>1 DEF WriteShard, Publishing, Contented, Unwritten
    <3>2. \A p \in Partitions, v \in Versions :
            p # r.part \/ v # r.version => shard'[p][v] = shard[p][v]
      BY <3>1 DEF Inv, Files
    <3>3. \A p \in Partitions, v \in Versions :
            Exists(p, v) => shard'[p][v].value = shard[p][v].value
      BY <3>1, <3>2
    <3> QED BY <1>3, <3>3, CatalogAssumption DEF Kept, Is, Exists
  <2>2. CASE ~WriteShard(w)
    <3>1. shard' = shard
      BY <2>2 DEF Publication, Start, CheckVersion, WritePointer, WriteIndex,
           AbandonPublication, files
    <3> QED BY <1>3, <3>1 DEF Kept, Is
  <2> QED BY <2>1, <2>2
<1>5. Unwritten'
  <2>1. SUFFICES ASSUME publisher'[w].at = "writing"
                 PROVE  ~Exists(publisher[w].part, publisher[w].version)'
    BY DEF Unwritten, OnePublisher, Exists
  <2>2. CheckVersion(w)
    <3>1. ASSUME NEW a, publisher' = [publisher EXCEPT ![w].at = a] PROVE a = "writing"
      <4>1. publisher' = [publisher EXCEPT ![w] = [r EXCEPT !.at = a]]
        BY <1>1, <1>2, <3>1
      <4>2. publisher'[w].at = a
        BY <1>2, <4>1 DEF Publications
      <4> QED BY <2>1, <4>2
    <3>2. ~WriteShard(w)
      BY <3>1 DEF WriteShard
    <3>3. ~WritePointer(w)
      BY <3>1 DEF WritePointer
    <3>4. ~Start(w)
      BY <1>2, <2>1 DEF Start
    <3>5. ~WriteIndex(w) /\ ~AbandonPublication(w)
      BY <1>2, <2>1 DEF WriteIndex, AbandonPublication, NoPublication
    <3> QED BY <3>2, <3>3, <3>4, <3>5 DEF Publication
  <2>3. ~Conflicting(w) /\ shard' = shard
    BY <1>2, <2>1, <2>2 DEF CheckVersion, NoPublication, files
  <2>. DEFINE a == IF Found(w) = r.content THEN "pointing" ELSE "writing"
  <2>4. publisher' = [publisher EXCEPT ![w].at = a]
    BY <1>1, <2>2, <2>3 DEF CheckVersion
  <2>. HIDE DEF a
  <2>5. publisher' = [publisher EXCEPT ![w] = [r EXCEPT !.at = a]]
    BY <1>1, <1>2, <2>4
  <2>6. publisher'[w].at = a /\ publisher'[w].part = r.part /\ publisher'[w].version = r.version
    BY <1>2, <2>5 DEF Publications
  <2>7. Found(w) = None
    BY <1>1, <2>1, <2>3, <2>6 DEF Conflicting, a
  <2> QED BY <1>1, <2>3, <2>6, <2>7 DEF Found, Exists
<1> QED BY <1>3, <1>4, <1>5, TruthKept DEF Contented

LEMMA MigrationKeeps ==
  ASSUME Inv, Contented, Migration
  PROVE  Contented'
<1>1. UNCHANGED <<publisher, memory, handler, delivered>>
  BY DEF Migration, StartMigration, MigrateShard, MigratePointer, MigrateIndex,
         AbandonMigration, files
<1>2. CASE shard' = shard /\ index' = index
  <2>1. Kept /\ Unwritten'
    BY <1>1, <1>2 DEF Kept, Is, Contented, Unwritten, Exists
  <2> QED BY <1>1, <2>1, TruthKept DEF Contented
<1>3. CASE \E q \in Partitions : MigrateShard(q)
  <2>1. PICK q \in Partitions : MigrateShard(q)
    BY <1>3
  <2>2. /\ index.format = "v1" /\ index' = index
        /\ Legacy[q].version \in Versions /\ Legacy[q].content \in Contents
        /\ shard' = [shard EXCEPT ![q][Legacy[q].version] =
                       [stamp |-> Stamp, value |-> Legacy[q].content]]
    BY <2>1, MigrationFacts DEF MigrateShard
  <2>3. \A p \in Partitions, v \in Versions :
          shard'[p][v] = IF p = q /\ v = Legacy[q].version
                         THEN [stamp |-> Stamp, value |-> Legacy[q].content]
                         ELSE shard[p][v]
    BY <2>2 DEF Inv, Files
  <2>4. \A p \in Partitions, v \in Versions :
          Exists(p, v) => shard'[p][v].value = shard[p][v].value
    BY <2>2, <2>3 DEF Inv, Untouched
  <2>5. Kept
    BY <2>2, <2>4, CatalogAssumption DEF Kept, Is, Exists
  <2>6. \A w \in Publishers : publisher[w].at = "idle"
    BY <2>2, PublisherFacts DEF Publishing
  <2>7. Unwritten'
    BY <1>1, <2>6 DEF Unwritten
  <2> QED BY <1>1, <2>5, <2>7, TruthKept DEF Contented
<1>4. CASE MigrateIndex
  <2>1. /\ index.format = "v1" /\ index'.format = "v2" /\ UNCHANGED <<pointer, shard>>
        /\ \A p \in Partitions : HasPointer(p)
    BY <1>4, MigrationFacts DEF MigrateIndex, AllMigrated, Inv, Writers, Migrating
  <2>2. \A p \in Partitions : shard[p][Legacy[p].version].value = Legacy[p].content
    BY <2>1, MigrationFacts DEF Inv, Files, Untouched
  <2>3. Kept
    BY <2>1, <2>2 DEF Kept, Is
  <2>4. Unwritten'
    BY <1>1, <2>1 DEF Contented, Unwritten, Exists
  <2> QED BY <1>1, <2>3, <2>4, TruthKept DEF Contented
<1>5. MigrateIndex \/ (\E q \in Partitions : MigrateShard(q)) \/ (shard' = shard /\ index' = index)
  BY DEF Migration, StartMigration, MigratePointer, AbandonMigration, files
<1> QED BY <1>2, <1>3, <1>4, <1>5

(* A request goes on, with an entry that is true in the cache, if any.     *)
LEMMA TruthRead ==
  ASSUME Inv, Contented, NEW h \in Handlers, UNCHANGED <<files, publisher>>,
         \A g \in Handlers \ {h} : handler'[g] = handler[g], TrueRead(handler'[h]),
         memory'.cache.shards \in Seq(TrueShards),
         memory'.format = "v1" => index.format = "v1" \/ memory.format = "v1",
         \A e \in delivered' : Is(e.part, e.version, e.content)
  PROVE  Contented'
<1>1. TrueShards' = TrueShards
  BY DEF TrueShards, CachedShards, CachedFiles, files
<1>2. TrueMemory'
  BY <1>1 DEF Contented, TrueMemory, Is, files
<1>3. ASSUME NEW g \in Handlers PROVE TrueRead(handler[g])'
  <2>1. TrueRead(handler'[g])
    BY DEF Contented, TrueReads
  <2> QED BY <2>1 DEF TrueRead, Is, files
<1>4. TrueAnswers' /\ Unwritten'
  BY DEF Contented, Unwritten, TrueAnswers, Is, Exists, files
<1> QED BY <1>2, <1>3, <1>4 DEF Contented, TrueReads

LEMMA StoredShard ==
  ASSUME Inv, NEW cache \in Seq(TrueShards), NEW e \in TrueShards, Len(cache) <= CacheSize
  PROVE  Stored(cache, e) \in Seq(TrueShards)
BY StoredFacts

(* What a request has read is the content of the version file.             *)
LEMMA TruthFound ==
  ASSUME Inv, Contented, NEW h \in Handlers, Hit(h) \/ Store(h)
  PROVE  Contented'
<1>1. PICK r \in Reads : r = handler[h] /\ Going(r) /\ TrueRead(r)
  BY HandlerFacts DEF Contented, TrueReads
<1>2. /\ UNCHANGED <<files, publisher, delivered>>
      /\ r.at \in Loading /\ r.level \in {"pointers", "shards"} /\ r.part \in Partitions
      /\ r.level = "shards" => r.version \in Versions /\ Exists(r.part, r.version)
  BY <1>1 DEF Hit, Store, Loading, Going, Reads
<1>3. memory.cache.shards \in Seq(TrueShards) /\ Len(memory.cache.shards) <= CacheSize
  BY DEF Contented, TrueMemory, Inv, Memory
<1>4. r.level = "shards" => Cache(h) = memory.cache.shards /\ Key(h) = <<r.part, r.version>>
  BY <1>1 DEF Cache, Key
<1>5. ASSUME NEW e, CacheBecomes(h, Stored(Cache(h), e)), Loaded(h, e.from, e.value),
             r.level = "shards" => /\ e \in TrueShards
                                   /\ e.value = shard[r.part][r.version].value
      PROVE  Contented'
  <2>. DEFINE c == Stored(Cache(h), e)
  <2>1. memory' = [memory EXCEPT !.cache[r.level] = c]
    BY <1>1, <1>5 DEF CacheBecomes
  <2>2. r.level = "shards" => c \in Seq(TrueShards)
    BY <1>3, <1>4, <1>5, StoredShard
  <2>. HIDE DEF c
  <2>3. memory'.cache.shards \in Seq(TrueShards) /\ memory'.format = memory.format
    <3>. DEFINE d == memory.cache
    <3>1. /\ memory \in [signature : Nat, format : {"v1", "v2"}, cache : {d}]
          /\ d \in [pointers : Seq(CachedPointers), shards : Seq(CachedShards)]
      BY DEF Inv, Memory
    <3>2. d.shards \in Seq(TrueShards)
      BY <1>3
    <3>. HIDE DEF d
    <3>3. memory'.cache = [d EXCEPT ![r.level] = c] /\ memory'.format = memory.format
      BY <2>1, <3>1
    <3> QED BY <1>2, <2>2, <3>1, <3>2, <3>3
  <2>4. TrueRead(handler'[h])
    <3>1. handler \in [Handlers -> Reads]
      BY HandlerFacts
    <3>2. CASE r.level = "pointers"
      <4>1. handler'[h] = [r EXCEPT !.at = "stat", !.level = "shards", !.seen = 0,
                                    !.value = None, !.version = e.value, !.since = e.from]
        BY <1>1, <1>5, <3>1, <3>2 DEF Loaded
      <4>2. handler'[h].at = "stat" /\ handler'[h].got = r.got
        BY <4>1 DEF Reads
      <4> QED BY <1>1, <4>2 DEF TrueRead
    <3>3. CASE r.level = "shards"
      <4>. DEFINE x == [part |-> r.part, version |-> r.version, content |-> e.value,
                        since |-> r.since]
      <4>1. handler'[h] = [NoRead EXCEPT !.at = "next", !.wanted = r.wanted,
                                         !.todo = r.todo \ {r.part},
                                         !.pinned = r.pinned, !.began = r.began,
                                         !.legacy = r.legacy, !.got = r.got \cup {x}]
        BY <1>1, <1>5, <3>1, <3>3 DEF Loaded
      <4>2. handler'[h].at = "next" /\ handler'[h].got = r.got \cup {x}
        BY <4>1 DEF NoRead
      <4>3. Is(x.part, x.version, x.content)
        BY <1>5, <3>3 DEF Is
      <4> QED BY <1>1, <4>2, <4>3 DEF TrueRead
    <3> QED BY <1>2, <3>2, <3>3
  <2>5. \A g \in Handlers \ {h} : handler'[g] = handler[g]
    BY <1>5, HandlerFacts DEF Loaded
  <2> QED BY <1>2, <2>3, <2>4, <2>5, TruthRead DEF Contented, TrueAnswers
<1>6. CASE Hit(h)
  <2>1. PICK i \in Hits(h) : /\ CacheBecomes(h, Stored(Cache(h), Cache(h)[i]))
                             /\ Loaded(h, Cache(h)[i].from, Cache(h)[i].value)
    BY <1>6 DEF Hit
  <2>. DEFINE e == Cache(h)[i]
  <2>2. i \in DOMAIN Cache(h) /\ e.key = Key(h)
    BY DEF Hits
  <2>3. r.level = "shards" => e \in TrueShards
    BY <1>3, <1>4, <2>2, ElementOfSeq, LenProperties
  <2>. HIDE DEF e
  <2>4. ASSUME r.level = "shards" PROVE e.value = shard[r.part][r.version].value
    <3>1. PICK p \in Partitions, v \in Versions :
            e.key = <<p, v>> /\ shard[p][v].value = e.value
      BY <2>3, <2>4 DEF TrueShards
    <3>2. <<p, v>> = <<r.part, r.version>>
      BY <1>4, <2>2, <2>4, <3>1
    <3>3. p = r.part /\ v = r.version
      BY <3>2
    <3> QED BY <3>1, <3>3
  <2> QED BY <1>5, <2>1, <2>3, <2>4 DEF e
<1>7. CASE Store(h)
  <2>. DEFINE e == [key |-> Key(h), stamp |-> r.seen, from |-> r.seen, value |-> r.value]
  <2>1. /\ CacheBecomes(h, Stored(Cache(h), e)) /\ Loaded(h, r.seen, r.value)
        /\ r.at = "store" /\ r.seen \in Nat
    BY <1>1, <1>7 DEF Store, SignatureRead, Reads
  <2>2. ASSUME r.level = "shards"
        PROVE  e \in TrueShards /\ e.value = shard[r.part][r.version].value
    <3>1. r.value \in Contents /\ r.value = shard[r.part][r.version].value
      BY <1>1, <2>1, <2>2 DEF Going, TrueRead
    <3>2. Key(h) \in Seq(Partitions \cup Versions)
      BY <1>1, <1>2, CacheFacts
    <3>3. e \in CachedShards
      BY <2>1, <3>1, <3>2 DEF CachedShards, CachedFiles
    <3>4. e.key = <<r.part, r.version>> /\ e.value = r.value
      BY <1>4, <2>2
    <3>. HIDE DEF e
    <3> QED BY <1>2, <2>2, <3>1, <3>3, <3>4 DEF TrueShards
  <2>3. e.from = r.seen /\ e.value = r.value
    OBVIOUS
  <2>. HIDE DEF e
  <2> QED BY <1>5, <2>1, <2>2, <2>3
<1> QED BY <1>6, <1>7

LEMMA ReadersKeep ==
  ASSUME Inv, Contented, NEW h \in Handlers, Reading(h)
  PROVE  Contented'
<1>1. PICK r \in Reads : r = handler[h] /\ Going(r) /\ Begun(r) /\ TrueRead(r)
  BY HandlerFacts DEF Contented, TrueReads
<1>2. handler \in [Handlers -> Reads]
  BY HandlerFacts
<1>3. UNCHANGED <<files, publisher>>
  BY DEF Reading, Begin, BeginPinned, RefreshIndex, Choose, PickPartition, Stat, NoFile, Hit,
         Miss, Open, Store, Answer, Finish
<1>4. \A g \in Handlers \ {h} : handler'[g] = handler[g]
  BY <1>2 DEF Reading, Begin, BeginPinned, RefreshIndex, Choose, PickPartition, Stat, NoFile,
              Hit, Miss, Open, Store, Answer, Finish, Loaded
<1>5. /\ memory.cache.shards \in Seq(TrueShards)
      /\ \A e \in delivered : Is(e.part, e.version, e.content)
  BY DEF Contented, TrueMemory, TrueAnswers
<1>6. CASE Begin(h) \/ BeginPinned(h) \/ Finish(h)
  <2>1. handler'[h].got = {} /\ handler'[h].at \in {"idle", "index"}
    <3>1. CASE Begin(h)
      <4>1. PICK wanted \in SUBSET Partitions \ {{}} :
              handler' = [handler EXCEPT ![h] =
                [NoRead EXCEPT !.at = "index", !.wanted = wanted, !.todo = wanted,
                               !.seen = index.stamp,
                               !.began = [p \in Partitions |-> pointer[p].stamp],
                               !.legacy = (index.format = "v1")]]
        BY <3>1 DEF Begin
      <4>. DEFINE b == [p \in Partitions |-> pointer[p].stamp]
                  l == index.format = "v1"
      <4>2. handler'[h] = [NoRead EXCEPT !.at = "index", !.wanted = wanted, !.todo = wanted,
                                         !.seen = index.stamp, !.began = b, !.legacy = l]
        BY <1>2, <4>1
      <4>. HIDE DEF b, l
      <4> QED BY <4>2 DEF NoRead
    <3>2. CASE BeginPinned(h)
      <4>1. PICK e \in delivered :
              handler' = [handler EXCEPT ![h] =
                [NoRead EXCEPT !.at = "index", !.wanted = {e.part}, !.todo = {e.part},
                               !.pinned = TRUE, !.version = e.version, !.seen = index.stamp]]
        BY <3>2 DEF BeginPinned
      <4>2. handler'[h] =
              [NoRead EXCEPT !.at = "index", !.wanted = {e.part}, !.todo = {e.part},
                             !.pinned = TRUE, !.version = e.version, !.seen = index.stamp]
        BY <1>2, <4>1
      <4> QED BY <4>2 DEF NoRead
    <3>3. CASE Finish(h)
      <4>1. handler'[h] = NoRead
        BY <1>2, <3>3 DEF Finish
      <4> QED BY <4>1 DEF NoRead
    <3> QED BY <1>6, <3>1, <3>2, <3>3
  <2>2. TrueRead(handler'[h])
    BY <2>1 DEF TrueRead
  <2>3. UNCHANGED <<memory, delivered>>
    BY <1>6 DEF Begin, BeginPinned, Finish
  <2> QED BY <1>3, <1>4, <1>5, <2>2, <2>3, TruthRead
<1>7. CASE RefreshIndex(h) \/ PickPartition(h) \/ Stat(h) \/ Miss(h) \/ NoFile(h) \/ Answer(h)
  <2>1. handler'[h].got = r.got /\ handler'[h].at # "store"
    <3>1. CASE RefreshIndex(h)
      <4>1. handler'[h] = [r EXCEPT !.at = "choosing", !.seen = 0]
        BY <1>1, <1>2, <3>1 DEF RefreshIndex
      <4> QED BY <4>1 DEF Reads
    <3>2. CASE PickPartition(h)
      <4>1. PICK p \in r.todo :
              handler' = [handler EXCEPT ![h].at = "stat", ![h].part = p,
                            ![h].level = IF r.pinned THEN "shards" ELSE "pointers"]
        BY <1>1, <3>2 DEF PickPartition
      <4>. DEFINE l == IF r.pinned THEN "shards" ELSE "pointers"
      <4>2. handler'[h] = [r EXCEPT !.at = "stat", !.part = p, !.level = l]
        BY <1>1, <1>2, <4>1
      <4>. HIDE DEF l
      <4> QED BY <4>2 DEF Reads
    <3>3. CASE Stat(h)
      <4>1. handler'[h] = [r EXCEPT !.at = "lookup", !.seen = File(h).stamp]
        BY <1>1, <1>2, <3>3 DEF Stat
      <4> QED BY <4>1 DEF Reads
    <3>4. CASE Miss(h)
      <4>1. handler'[h] = [r EXCEPT !.at = "open", !.seen = 0]
        BY <1>1, <1>2, <3>4 DEF Miss
      <4> QED BY <4>1 DEF Reads
    <3>5. CASE NoFile(h)
      <4>1. \/ handler' = [handler EXCEPT ![h].at = "next", ![h].todo = r.todo \ {r.part}]
            \/ handler' = [handler EXCEPT ![h].at = "failed"]
        BY <1>1, <3>5 DEF NoFile
      <4>2. \/ handler'[h] = [r EXCEPT !.at = "next", !.todo = r.todo \ {r.part}]
            \/ handler'[h] = [r EXCEPT !.at = "failed"]
        BY <1>1, <1>2, <4>1
      <4> QED BY <4>2 DEF Reads
    <3>6. CASE Answer(h)
      <4>1. handler'[h] = [r EXCEPT !.at = "answered"]
        BY <1>1, <1>2, <3>6 DEF Answer
      <4> QED BY <4>1 DEF Reads
    <3> QED BY <1>7, <3>1, <3>2, <3>3, <3>4, <3>5, <3>6
  <2>2. TrueRead(handler'[h])
    BY <1>1, <2>1 DEF TrueRead
  <2>3. /\ memory'.cache.shards \in Seq(TrueShards)
        /\ memory'.format = "v1" => index.format = "v1" \/ memory.format = "v1"
    <3>1. CASE RefreshIndex(h)
      <4>1. CASE memory' = memory
        BY <1>5, <4>1
      <4>2. CASE memory' # memory
        <5>. DEFINE c == IF index.format = "v1" THEN NoCache ELSE memory.cache
        <5>1. memory' = [signature |-> index.stamp, format |-> index.format, cache |-> c]
          BY <3>1, <4>2 DEF RefreshIndex
        <5>2. c.shards = <<>> \/ c.shards = memory.cache.shards
          BY DEF NoCache
        <5>. HIDE DEF c
        <5>3. memory'.cache.shards = c.shards /\ memory'.format = index.format
          BY <5>1
        <5>4. <<>> \in Seq(TrueShards)
          BY EmptySeq
        <5> QED BY <1>5, <5>2, <5>3, <5>4
      <4> QED BY <4>1, <4>2
    <3>2. CASE NoFile(h)
      <4>. DEFINE c == Without(Cache(h), Key(h))
                  d == memory.cache
      <4>1. memory' = [memory EXCEPT !.cache[r.level] = c]
        BY <1>1, <3>2 DEF NoFile, CacheBecomes
      <4>2. r.level \in {"pointers", "shards"} /\ Cache(h) = d[r.level]
        BY <1>1, <3>2 DEF NoFile, Going, Loading, Cache
      <4>3. /\ memory \in [signature : Nat, format : {"v1", "v2"}, cache : {d}]
            /\ d \in [pointers : Seq(CachedPointers), shards : Seq(CachedShards)]
        BY DEF Inv, Memory
      <4>4. d.shards \in Seq(TrueShards)
        BY <1>5
      <4>. HIDE DEF d
      <4>5. r.level = "shards" => c \in Seq(TrueShards)
        BY <4>2, <4>4, WithoutFacts
      <4>. HIDE DEF c
      <4>6. memory'.cache = [d EXCEPT ![r.level] = c] /\ memory'.format = memory.format
        BY <4>1, <4>3
      <4> QED BY <4>2, <4>3, <4>4, <4>5, <4>6
    <3>3. CASE ~RefreshIndex(h) /\ ~NoFile(h)
      BY <1>5, <1>7, <3>3 DEF PickPartition, Stat, Miss, Answer
    <3> QED BY <3>1, <3>2, <3>3
  <2>4. \A e \in delivered' : Is(e.part, e.version, e.content)
    <3>1. CASE Answer(h)
      <4>1. delivered' = delivered \cup
             {[part |-> e.part, version |-> e.version, content |-> e.content] : e \in r.got}
        BY <1>1, <3>1 DEF Answer
      <4> QED BY <1>1, <1>5, <4>1 DEF TrueRead
    <3>2. CASE ~Answer(h)
      BY <1>5, <1>7, <3>2 DEF RefreshIndex, PickPartition, Stat, Miss, NoFile
    <3> QED BY <3>1, <3>2
  <2> QED BY <1>3, <1>4, <2>2, <2>3, <2>4, TruthRead
<1>8. CASE Choose(h)
  <2>1. UNCHANGED <<memory, delivered>>
    BY <1>8 DEF Choose
  <2>2. TrueRead(handler'[h])
    <3>1. CASE memory.format = "v1"
      <4>. DEFINE g == {LegacyEntry(p) : p \in r.wanted}
      <4>1. handler' = [handler EXCEPT ![h].at = "next", ![h].todo = {}, ![h].got = g]
        BY <1>1, <1>8, <3>1 DEF Choose
      <4>2. ASSUME NEW e \in g PROVE Is(e.part, e.version, e.content)
        <5>1. PICK p \in r.wanted : e = LegacyEntry(p)
          OBVIOUS
        <5>2. /\ p \in Partitions /\ e.part = p /\ e.version = Legacy[p].version
              /\ e.content = Legacy[p].content
          BY <5>1 DEF LegacyEntry, Reads
        <5> QED BY <3>1, <5>2 DEF Contented, TrueMemory
      <4>. HIDE DEF g
      <4>3. handler'[h] = [r EXCEPT !.at = "next", !.todo = {}, !.got = g]
        BY <1>1, <1>2, <4>1
      <4>4. handler'[h].at = "next" /\ handler'[h].got = g
        BY <4>3 DEF Reads
      <4> QED BY <4>2, <4>4 DEF TrueRead
    <3>2. CASE memory.format # "v1"
      <4>1. handler'[h] = [r EXCEPT !.at = "next"]
        BY <1>1, <1>2, <1>8, <3>2 DEF Choose
      <4>2. handler'[h].at = "next" /\ handler'[h].got = r.got
        BY <4>1 DEF Reads
      <4> QED BY <1>1, <4>2 DEF TrueRead
    <3> QED BY <3>1, <3>2
  <2> QED BY <1>3, <1>4, <1>5, <2>1, <2>2, TruthRead
<1>9. CASE Open(h)
  <2>1. handler'[h] = [r EXCEPT !.at = "store", !.seen = File(h).stamp, !.value = File(h).value]
    BY <1>1, <1>2, <1>9 DEF Open
  <2>2. /\ handler'[h].got = r.got /\ handler'[h].level = r.level /\ handler'[h].part = r.part
        /\ handler'[h].version = r.version /\ handler'[h].value = File(h).value
    BY <2>1 DEF Reads
  <2>3. r.level = "shards" => File(h).value = shard[r.part][r.version].value
    BY <1>1 DEF File
  <2>4. TrueRead(handler'[h])
    BY <1>1, <2>2, <2>3 DEF TrueRead
  <2>5. UNCHANGED <<memory, delivered>>
    BY <1>9 DEF Open
  <2> QED BY <1>3, <1>4, <1>5, <2>4, <2>5, TruthRead
<1> QED BY <1>6, <1>7, <1>8, <1>9, TruthFound DEF Reading

(* A version that answers of the gateway have named stands for one         *)
(* content, if no two publishers run at the same time.                     *)
THEOREM VersionsKeepTheirContent ==
  ASSUME OnePublisher
  PROVE  Spec => []OneContentPerVersion
<1>1. Init => Contented
  <2>1. SUFFICES ASSUME Init PROVE Contented
    OBVIOUS
  <2>2. Unwritten
    BY <2>1 DEF Init, Unwritten, NoPublication
  <2>3. TrueMemory
    <3>1. memory = [signature |-> 0, format |-> index.format, cache |-> NoCache]
      BY <2>1 DEF Init
    <3>2. memory.cache.shards = <<>> /\ memory.format = index.format
      BY <3>1 DEF NoCache
    <3>3. <<>> \in Seq(TrueShards)
      BY EmptySeq
    <3> QED BY <3>2, <3>3 DEF TrueMemory, Is
  <2>4. TrueReads /\ TrueAnswers
    BY <2>1 DEF Init, TrueReads, TrueRead, TrueAnswers, NoRead
  <2> QED BY <2>2, <2>3, <2>4 DEF Contented
<1>2. Inv /\ Contented /\ [Next]_vars => Contented'
  <2>1. SUFFICES ASSUME Inv, Contented, [Next]_vars PROVE Contented'
    OBVIOUS
  <2>2. CASE UNCHANGED vars
    <3>1. UNCHANGED <<files, memory, handler, delivered, publisher>>
      BY <2>2 DEF vars, files
    <3>2. Kept /\ Unwritten'
      BY <2>1, <3>1 DEF Kept, Is, files, Contented, Unwritten, Exists
    <3> QED BY <2>1, <3>1, <3>2, TruthKept DEF Contented
  <2>3. CASE Next
    BY <2>1, <2>3, PublishersKeep, MigrationKeeps, ReadersKeep DEF Next
  <2> QED BY <2>1, <2>2, <2>3
<1>3. Inv /\ Contented => OneContentPerVersion
  <2>1. SUFFICES ASSUME Inv, Contented, NEW d \in delivered, NEW e \in delivered,
                        d.part = e.part, d.version = e.version
                 PROVE  d.content = e.content
    BY DEF OneContentPerVersion
  <2>2. d.part \in Partitions /\ d.version \in Versions /\ d.content \in Contents
    BY <2>1 DEF Inv, Delivered
  <2>3. e.content \in Contents
    BY <2>1 DEF Inv, Delivered
  <2>4. Is(d.part, d.version, d.content) /\ Is(d.part, d.version, e.content)
    BY <2>1 DEF Contented, TrueAnswers
  <2> QED BY <2>1, <2>2, <2>3, <2>4, CatalogAssumption DEF Is, Inv, Untouched, Exists
<1> QED BY <1>1, <1>2, <1>3, Invariance, PTL DEF Spec
=============================================================================
