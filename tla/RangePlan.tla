----------------------------- MODULE RangePlan -----------------------------
(***************************************************************************)
(* Which bytes of a Parquet file a request reads, and in which requests to *)
(* the gateway: pruning by statistics, coalescing, the choice between      *)
(* ranges and the whole file, the parts of a daily file, the bundles, the  *)
(* gateway's test of the ranges and the view of what has arrived.          *)
(*                                                                         *)
(* A file is [bytes, footer, groups]: its size, the size of its footer and *)
(* its row groups.  A row group is [chunks, rows, stats]: the range        *)
(* <<offset, length>> of every column, its rows, functions from columns to *)
(* values, and the columns that have statistics.  A request is             *)
(* [daily, start, end, symbols, clock, columns, strategy]; symbols, clock  *)
(* and columns are {} when they are not asked for.                         *)
(***************************************************************************)
EXTENDS Integers, SequencesExt, FiniteSetsExt

CONSTANTS MaxRanges,  \* MAX_OBJECT_RANGES
          HeaderSize  \* the magic number at the start of a file

ASSUME RangeAssumption == MaxRanges \in Nat \ {0} /\ HeaderSize \in Nat

Columns == {"time", "symbol", "clock", "price"}

End(range) == range[1] + range[2]

(* By offset, and of two with the same offset the longer one first.        *)
Before(a, b) == a[1] < b[1] \/ (a[1] = b[1] /\ a[2] > b[2])

Sorted(ranges) ==
  [i \in 1 .. Cardinality(ranges) |->
     CHOOSE r \in ranges : Cardinality({s \in ranges : Before(s, r)}) = i - 1]

LengthOf(ranges) == FoldLeft(LAMBDA sum, r : sum + r[2], 0, ranges)
-----------------------------------------------------------------------------
(* The rows of a request.                                                  *)

(* Rows are taken as they are decoded, whatever was pruned before.         *)
Matches(row, request) ==
  /\ request.start <= row["time"] /\ row["time"] < request.end
  /\ request.clock # {} => row["clock"] \in request.clock
  /\ request.symbols # {} => row["symbol"] \in request.symbols

(* The columns that the filters look at; a daily file has its clock in its *)
(* time column.                                                            *)
Required(request) ==
  {"time"} \cup {c \in {"symbol"} : request.symbols # {}}
           \cup {c \in {"clock"} : request.clock # {} /\ ~request.daily}

Wanted(request) == IF request.columns = {} THEN Columns ELSE request.columns \cup Required(request)

OnlyAsked(request) == IF request.columns = {} THEN Columns ELSE request.columns

(* What is read of a part of a daily file.                                 *)
WantedOfPart(request) == IF request.strategy = "sequential" THEN Columns ELSE Wanted(request)

Values(group, column) == {group.rows[i][column] : i \in DOMAIN group.rows}

Low(group, column) == Min(Values(group, column))
High(group, column) == Max(Values(group, column))

Known(group, column) == column \in group.stats /\ group.rows # <<>>

(* The first symbol that is asked for and is not below the lowest of the   *)
(* group decides.                                                          *)
HoldsSymbol(group, request) ==
  LET above == {s \in request.symbols : s >= Low(group, "symbol")}
  IN above # {} /\ Min(above) <= High(group, "symbol")

BeginsBefore(group, request) ==
  High(group, "time") > request.start /\ Low(group, "time") < request.end

HoldsTime(group, request) ==
  High(group, "time") >= request.start /\ Low(group, "time") < request.end

MayMatch(group, request) ==
  \/ request.daily /\ request.strategy = "sequential"
  \/ /\ Known(group, "symbol") /\ request.symbols # {} => HoldsSymbol(group, request)
     /\ Known(group, "time") => HoldsTime(group, request)

(* The numbers of the row groups to read, in order.                        *)
Kept(file, request) ==
  SelectSeq([g \in DOMAIN file.groups |-> g], LAMBDA g : MayMatch(file.groups[g], request))
-----------------------------------------------------------------------------
(* Ranges.                                                                 *)

Chunks(file, groups, columns) == {file.groups[g].chunks[c] : g \in groups, c \in columns}

(* A range that begins within the gap after the last one becomes a part of *)
(* it.                                                                     *)
Extended(merged, r) ==
  Append(Front(merged),
         <<Last(merged)[1], Max({End(r), End(Last(merged))}) - Last(merged)[1]>>)

Coalesce(ranges, gap) ==
  FoldLeft(LAMBDA merged, r : IF merged # <<>> /\ r[1] <= End(Last(merged)) + gap
                              THEN Extended(merged, r) ELSE Append(merged, r),
           <<>>, Sorted(ranges))

(* Seeks cost bytes, and many ranges may cost more than the whole file.    *)
Cost(ranges, options) == LengthOf(ranges) + Max({0, Len(ranges) - 1}) * options.seek

LooksAtCostOnly(file, ranges, request, options) ==
  ~request.daily /\ request.strategy = "auto"
  /\ 100 * Cost(ranges, options) >= file.bytes * options.threshold

ReadsWhole(file, ranges, request, options) ==
  /\ ~request.daily
  /\ ranges # <<>>
  /\ \/ Len(ranges) > MaxRanges
     \/ /\ request.strategy = "auto"
        /\ 100 * Cost(ranges, options) >= file.bytes * options.threshold

(* plan_object: row groups and ranges. *)
PlanObject(file, request, options) ==
  LET groups == Kept(file, request)
      ranges == Coalesce(Chunks(file, Range(groups), Wanted(request)), options.gap)
  IN [groups |-> groups,
      ranges |-> IF ReadsWhole(file, ranges, request, options) THEN <<<<0, file.bytes>>>> ELSE ranges]

RangesOfPart(file, groups, request, options) ==
  Coalesce(Chunks(file, Range(groups), WantedOfPart(request)), options.gap)

FitsInPart(ranges, options) == LengthOf(ranges) <= options.bundle /\ Len(ranges) <= MaxRanges

(* split_points_plan: the row groups of each part of a daily file.         *)
PartsOf(file, groups, request, options) ==
  LET Add(parts, g) ==
        IF /\ parts # <<>>
           /\ FitsInPart(RangesOfPart(file, Append(Last(parts), g), request, options), options)
        THEN Append(Front(parts), Append(Last(parts), g))
        ELSE Append(parts, <<g>>)
  IN FoldLeft(Add, <<>>, groups)

SplitPointsPlan(file, groups, request, options) ==
  LET parts == PartsOf(file, groups, request, options)
  IN [p \in DOMAIN parts |->
        [groups |-> parts[p], ranges |-> RangesOfPart(file, parts[p], request, options)]]
-----------------------------------------------------------------------------
(* The gateway.                                                            *)

(* validate_ranges *)
Valid(ranges, bytes) ==
  /\ Len(ranges) \in 1 .. MaxRanges
  /\ \A i \in DOMAIN ranges :
       /\ ranges[i][1] >= (IF i = 1 THEN 0 ELSE End(ranges[i - 1]))
       /\ ranges[i][2] > 0
       /\ End(ranges[i]) <= bytes
-----------------------------------------------------------------------------
(* SparseFile: what has arrived of a file, the magic number and the footer *)
(* included.                                                               *)

Segments(file, ranges) ==
  {<<0, HeaderSize>>, <<file.bytes - file.footer, file.footer>>} \cup Range(ranges)

(* A segment that ends within the one before it is dropped.                *)
SparseFile(file, ranges) ==
  FoldLeft(LAMBDA kept, s : IF kept # <<>> /\ End(s) <= End(Last(kept)) THEN kept ELSE Append(kept, s),
           <<>>, Sorted(Segments(file, ranges)))

(* read() goes on, at each position, in the last segment that begins there *)
(* or before.                                                              *)
CanRead(sparse, range) ==
  \A position \in range[1] .. End(range) - 1 :
    LET begun == {i \in DOMAIN sparse : sparse[i][1] <= position}
    IN begun # {} /\ position < End(sparse[Max(begun)])
-----------------------------------------------------------------------------
(* Decoding: the columns of the answer and those of the filters.           *)

Decoded(request) ==
  IF request.columns = {} THEN Columns
  ELSE request.columns \cup {"time"}
         \cup (IF request.clock # {} /\ ~request.daily THEN {"clock"} ELSE {})
         \cup (IF request.symbols # {} THEN {"symbol"} ELSE {})

Readable(file, plan, request) ==
  \A g \in Range(plan.groups) : \A c \in Decoded(request) :
    CanRead(SparseFile(file, plan.ranges), file.groups[g].chunks[c])

(* <<row group, row>> of every row that passes the filters, in the order   *)
(* of the file.                                                            *)
RowsOf(file, groups, request) ==
  FlattenSeq([i \in DOMAIN groups |->
    SelectSeq([j \in DOMAIN file.groups[groups[i]].rows |-> <<groups[i], j>>],
              LAMBDA p : Matches(file.groups[p[1]].rows[p[2]], request))])

AllGroups(file) == [g \in DOMAIN file.groups |-> g]
=============================================================================
