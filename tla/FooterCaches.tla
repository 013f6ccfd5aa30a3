---------------------------- MODULE FooterCaches ----------------------------
(***************************************************************************)
(* The caches of Parquet footers: MetadataCache of the client and          *)
(* FooterCache of the gateway.  Both keep the least recently used items    *)
(* first, count their bytes beside the items, and do each operation under  *)
(* a lock; between a miss and the put of what was read there is none.      *)
(*                                                                         *)
(* A cache is [items, bytes]; Size gives the size of a footer.             *)
(***************************************************************************)
EXTENDS Integers, SequencesExt, FiniteSetsExt

CONSTANT Size(_)

Empty == [items |-> <<>>, bytes |-> 0]

Has(cache, key) == Contains(cache.items, key)

(* move_to_end *)
Touched(cache, key) == [cache EXCEPT !.items = Append(Remove(@, key), key)]

KeepsCount(cache, key) == [cache EXCEPT !.items = Remove(@, key)]

(* pop(key, None) and its bytes *)
Without(cache, key) ==
  IF Has(cache, key) THEN [items |-> Remove(cache.items, key), bytes |-> cache.bytes - Size(key)]
  ELSE cache

BytesOf(items) == FoldLeft(LAMBDA sum, key : sum + Size(key), 0, items)

(* The oldest items go, until the count is within the capacity.            *)
Evicted(cache, capacity) ==
  LET Enough(n) == cache.bytes - BytesOf(SubSeq(cache.items, 1, n)) <= capacity
      n == Min({k \in 0 .. Len(cache.items) : Enough(k) \/ k = Len(cache.items)})
  IN [items |-> SubSeq(cache.items, n + 1, Len(cache.items)),
      bytes |-> cache.bytes - BytesOf(SubSeq(cache.items, 1, n))]

Added(cache, key, capacity) ==
  Evicted([items |-> Append(cache.items, key), bytes |-> cache.bytes + Size(key)], capacity)

(* MetadataCache.put ignores what is too large. *)
PutMetadata(cache, key, capacity) ==
  IF Size(key) > capacity THEN cache ELSE Added(Without(cache, key), key, capacity)

(* FooterCache.get, once the footer has been read. *)
PutFooter(cache, key, capacity) ==
  IF Size(key) > capacity THEN Without(cache, key) ELSE Added(Without(cache, key), key, capacity)

(* The count is that of the items, each is there once, and they fit.       *)
Accounted(cache, capacity) ==
  /\ cache.bytes = BytesOf(cache.items)
  /\ cache.bytes <= capacity
  /\ Len(cache.items) = Cardinality(Range(cache.items))
=============================================================================
