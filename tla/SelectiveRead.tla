--------------------------- MODULE SelectiveRead ---------------------------
(***************************************************************************)
(* A request of DataService in direct mode, from the choice of the way to  *)
(* read to the rows of its answer.  The selective way goes window by       *)
(* window: footers from a cache or the gateway, plans, and then, bundle by *)
(* bundle, ranges and rows.  Other requests use the same caches all along. *)
(*                                                                         *)
(* Lost connections and retries are in GatewayClient, the memory of a      *)
(* bundle in ReadAdmission, replaced files in PinnedFiles.                 *)
(***************************************************************************)
EXTENDS RangePlan

CONSTANTS Objects,          \* what others may read, too
          FileOf,           \* the Parquet file of every object
          Listings,         \* the entries of a manifest
          Requests,
          OptionSets,       \* ReadOptions: gap, seek, threshold (percent), bundle
          Width,            \* objects of a window
          ClientCapacity,   \* of MetadataCache
          GatewayCapacity   \* of FooterCache

VARIABLES
  query,    \* the request, its entries and its options
  at,       \* the step that comes next
  offset,   \* entries before the window
  known,    \* objects of the window that have been looked up in the cache
  missing,  \* objects whose footers are asked for
  asked,    \* how many of them the gateway has found
  bundles,  \* plans to fetch, one sequence for every request to the gateway
  buffers,  \* plans that have arrived
  output,   \* <<object, row group, row>> of every row that was yielded
  client,   \* MetadataCache
  gateway   \* FooterCache

vars == <<query, at, offset, known, missing, asked, bundles, buffers, output,
          client, gateway>>

Footers == INSTANCE FooterCaches WITH Size <- LAMBDA o : FileOf[o].footer

Request == query.request

(* DataService.preflight, of a gateway that has the capabilities.          *)
Selective(request) ==
  \/ request.daily
  \/ /\ request.strategy # "sequential"
     /\ request.symbols # {} \/ request.columns # {} \/ request.strategy = "ranges"

Init ==
  /\ query \in [request : Requests, entries : Listings, options : OptionSets]
  /\ at = IF Selective(query.request) THEN "window" ELSE "whole"
  /\ offset = 0
  /\ known = <<>> /\ missing = <<>> /\ asked = 0 /\ bundles = <<>> /\ buffers = <<>>
  /\ output = <<>>
  /\ client = Footers!Empty
  /\ gateway = Footers!Empty
-----------------------------------------------------------------------------
RowsIn(o, groups) ==
  LET rows == RowsOf(FileOf[o], groups, Request)
  IN [i \in DOMAIN rows |-> <<o, rows[i][1], rows[i][2]>>]

(* Whole objects, one after the other.                                     *)
ReadWhole ==
  /\ at = "whole"
  /\ LET o == query.entries[offset + 1]
     IN output' = output \o RowsIn(o, AllGroups(FileOf[o]))
  /\ offset' = offset + 1
  /\ at' = IF offset' = Len(query.entries) THEN "end" ELSE "whole"
  /\ UNCHANGED <<query, known, missing, asked, bundles, buffers, client, gateway>>
-----------------------------------------------------------------------------
(* A window: footers. *)

WidthOf(request) == IF request.daily THEN 1 ELSE Width

Window == SubSeq(query.entries, offset + 1, Min({offset + WidthOf(Request), Len(query.entries)}))

Begin ==
  /\ at = "window"
  /\ at' = "footers"
  /\ UNCHANGED <<query, offset, known, missing, asked, bundles, buffers, output, client, gateway>>

(* MetadataCache.get *)
Look ==
  /\ at = "footers"
  /\ Len(known) < Len(Window)
  /\ LET o == Window[Len(known) + 1]
     IN /\ known' = Append(known, o)
        /\ IF Footers!Has(client, o)
           THEN client' = Footers!Touched(client, o) /\ UNCHANGED missing
           ELSE missing' = Append(missing, o) /\ UNCHANGED client
  /\ at' = IF Len(known') < Len(Window) THEN "footers" ELSE IF missing' = <<>> THEN "plan" ELSE "ask"
  /\ UNCHANGED <<query, offset, asked, bundles, buffers, output, gateway>>

(* /v1/metadata: FooterCache.get of every object, which looks ...          *)
FindFooter ==
  /\ at = "ask"
  /\ LET o == missing[asked + 1]
     IN IF Footers!Has(gateway, o)
        THEN /\ gateway' = Footers!Touched(gateway, o)
             /\ asked' = asked + 1
             /\ at' = IF asked' = Len(missing) THEN "store" ELSE "ask"
        ELSE at' = "read" /\ UNCHANGED <<gateway, asked>>
  /\ UNCHANGED <<query, offset, known, missing, bundles, buffers, output, client>>

(* ... and reads the file if it has to. *)
ReadFooter ==
  /\ at = "read"
  /\ gateway' = Footers!PutFooter(gateway, missing[asked + 1], GatewayCapacity)
  /\ asked' = asked + 1
  /\ at' = IF asked' = Len(missing) THEN "store" ELSE "ask"
  /\ UNCHANGED <<query, offset, known, missing, bundles, buffers, output, client>>

(* MetadataCache.put *)
StoreFooter ==
  /\ at = "store"
  /\ client' = Footers!PutMetadata(client, Head(missing), ClientCapacity)
  /\ missing' = Tail(missing)
  /\ asked' = 0
  /\ at' = IF missing' = <<>> THEN "plan" ELSE "store"
  /\ UNCHANGED <<query, offset, known, bundles, buffers, output, gateway>>
-----------------------------------------------------------------------------
(* ... plans and bundles. *)

Plan(o) == PlanObject(FileOf[o], Request, query.options)

(* The object goes with the plan. *)
Of(o, plan) == [object |-> o, groups |-> plan.groups, ranges |-> plan.ranges]

Parts(o) ==
  LET parts == SplitPointsPlan(FileOf[o], Plan(o).groups, Request, query.options)
  IN [p \in DOMAIN parts |-> <<Of(o, parts[p])>>]

BundleBytes(bundle) == FoldLeft(LAMBDA sum, plan : sum + LengthOf(plan.ranges), 0, bundle)

(* The next plan goes with those before it while they fit together.        *)
FitsBundle(bundle, plan) == BundleBytes(Append(bundle, plan)) <= query.options.bundle

Bundled(plans) ==
  FoldLeft(LAMBDA bs, plan : IF bs # <<>> /\ FitsBundle(Last(bs), plan)
                             THEN Append(Front(bs), Append(Last(bs), plan))
                             ELSE Append(bs, <<plan>>),
           <<>>, plans)

(* An object of which nothing is needed is skipped, its answer is empty.   *)
Active == SelectSeq([i \in DOMAIN Window |-> Of(Window[i], Plan(Window[i]))],
                    LAMBDA plan : plan.groups # <<>>)

PlanWindow ==
  /\ at = "plan"
  /\ bundles' = IF Request.daily THEN FlattenSeq([i \in DOMAIN Active |-> Parts(Active[i].object)])
                ELSE Bundled(Active)
  /\ known' = <<>>
  /\ at' = "bundle"
  /\ UNCHANGED <<query, offset, missing, asked, buffers, output, client, gateway>>

Accepted(bundle) == \A i \in DOMAIN bundle : Valid(bundle[i].ranges, FileOf[bundle[i].object].bytes)

(* /v1/ranges: the gateway tests all ranges before it sends any.           *)
Fetch ==
  /\ at = "bundle"
  /\ bundles # <<>>
  /\ Accepted(Head(bundles))
  /\ buffers' = Head(bundles)
  /\ bundles' = Tail(bundles)
  /\ at' = "decode"
  /\ UNCHANGED <<query, offset, known, missing, asked, output, client, gateway>>

Refuse ==
  /\ at = "bundle"
  /\ bundles # <<>>
  /\ ~Accepted(Head(bundles))
  /\ at' = "refused"
  /\ UNCHANGED <<query, offset, known, missing, asked, bundles, buffers, output, client, gateway>>

(* Arrow reads what it needs from the sparse file, and the rows that pass  *)
(* the filters are yielded.                                                *)
Decode ==
  /\ at = "decode"
  /\ LET plan == Head(buffers)
         file == FileOf[plan.object]
     IN IF Readable(file, plan, Request)
        THEN /\ output' = output \o RowsIn(plan.object, plan.groups)
             /\ buffers' = Tail(buffers)
             /\ at' = IF buffers' = <<>> THEN "bundle" ELSE "decode"
        ELSE /\ at' = "unplanned bytes"
             /\ UNCHANGED <<output, buffers>>
  /\ UNCHANGED <<query, offset, known, missing, asked, bundles, client, gateway>>

NextWindow ==
  /\ at = "bundle"
  /\ bundles = <<>>
  /\ offset' = offset + Len(Window)
  /\ at' = IF offset' = Len(query.entries) THEN "end" ELSE "window"
  /\ UNCHANGED <<query, known, missing, asked, bundles, buffers, output, client, gateway>>
-----------------------------------------------------------------------------
(* Requests of other threads, each with one operation of a cache.          *)
OtherLooks(o) ==
  /\ Footers!Has(client, o)
  /\ client' = Footers!Touched(client, o)
  /\ UNCHANGED <<query, at, offset, known, missing, asked, bundles, buffers, output, gateway>>

OtherStores(o) ==
  /\ client' = Footers!PutMetadata(client, o, ClientCapacity)
  /\ UNCHANGED <<query, at, offset, known, missing, asked, bundles, buffers, output, gateway>>

OtherAsks(o) ==
  /\ Footers!Has(gateway, o)
  /\ gateway' = Footers!Touched(gateway, o)
  /\ UNCHANGED <<query, at, offset, known, missing, asked, bundles, buffers, output, client>>

OtherReads(o) ==
  /\ gateway' = Footers!PutFooter(gateway, o, GatewayCapacity)
  /\ UNCHANGED <<query, at, offset, known, missing, asked, bundles, buffers, output, client>>
-----------------------------------------------------------------------------
Next == \/ ReadWhole
        \/ Begin \/ Look \/ FindFooter \/ ReadFooter \/ StoreFooter
        \/ PlanWindow \/ Fetch \/ Refuse \/ Decode \/ NextWindow
        \/ \E o \in Objects : \/ OtherLooks(o) \/ OtherStores(o)
                            \/ OtherAsks(o) \/ OtherReads(o)

Spec == Init /\ [][Next]_vars
-----------------------------------------------------------------------------
(* Properties.                                                             *)

Expected == FlattenSeq([i \in DOMAIN query.entries |->
                          RowsIn(query.entries[i], AllGroups(FileOf[query.entries[i]]))])

(* Pruning, ranges, parts, bundles and strategies decide what is sent and  *)
(* never what is returned: the rows that match, in order, each once.       *)
StrategyChangesNothing ==
  /\ IsPrefix(output, Expected)
  /\ at = "end" => output = Expected

(* Arrow never asks the sparse file for bytes that were not planned.       *)
DecoderFindsItsBytes == at # "unplanned bytes"

(* The gateway refuses no plan, unless one row group of a daily file needs *)
(* more ranges than it accepts; and a request to it is for no more than    *)
(* bundle_bytes, unless one object, or row group, alone has more.          *)
RequestsAreAcceptable ==
  /\ at = "refused" => /\ Request.daily
                       /\ Len(Head(bundles)[1].groups) = 1
                       /\ Len(Head(bundles)[1].ranges) > MaxRanges
  /\ \A b \in DOMAIN bundles :
       \/ BundleBytes(bundles[b]) <= query.options.bundle
       \/ Len(bundles[b]) = 1 /\ (Request.daily => Len(bundles[b][1].groups) = 1)

(* Through hits, replacements, evictions and simultaneous misses, both     *)
(* caches count the bytes that they hold, and stay within their capacity.  *)
FootersAccounted ==
  /\ Footers!Accounted(client, ClientCapacity)
  /\ Footers!Accounted(gateway, GatewayCapacity)
=============================================================================
