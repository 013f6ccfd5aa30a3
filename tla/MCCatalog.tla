----------------------------- MODULE MCCatalog -----------------------------
(***************************************************************************)
(* Two instances of Catalog for TLC in one run.  One begins in format v2   *)
(* and never sees p2: publications, one of them conflicting, under two     *)
(* handlers.  The other migrates both partitions from format v1, publishes *)
(* once more, and has one handler at a time.                               *)
(***************************************************************************)
EXTENDS Catalog, FiniteSets, TLC

CONSTANTS p1, p2, v1, v2, c1, c2, c3

SwapHandlers == Permutations(Handlers)

OldVersions == [p \in Partitions |-> [version |-> v1, content |-> c1]]

(* A publication after the migration. *)
NewVersion == [part |-> p1, version |-> v2, content |-> c2]

(* Two versions, and a second content for one of them. *)
ConflictingRequests ==
  {[part |-> p1, version |-> v1, content |-> c1], NewVersion, [NewVersion EXCEPT !.content = c3]}

(* p2 has a pointer from the migration only. *)
Migrating == index.format = "v1" \/ pointer[p2].value # None

Busy == {h \in Handlers : handler[h].at # "idle"}

Asked == {w \in Publishers : publisher[w].at # "idle"}

SmallMigration ==
  /\ Cardinality(Busy) <= 1
  /\ \A w \in Asked : publisher[w].version = v2 /\ publisher[w].content = c2

CONSTANT ServingWrites   \* bound: the writes of the first instance

SmallServing ==
  /\ \A h \in Handlers : p2 \notin handler[h].wanted
  /\ writes <= ServingWrites

Small == IF Migrating THEN SmallMigration ELSE SmallServing
=============================================================================
