---------------------------- MODULE PinnedFiles ----------------------------
(***************************************************************************)
(* Daily files.  Producers replace a file in place, and the gateway pins   *)
(* what a client has planned to read: a manifest names an entry that is    *)
(* bound to the signature of the file, and a transfer checks it.  A store  *)
(* keeps an LRU table of the entries it has named (_entries); handlers use *)
(* it under a lock, but look at files without it, and a transfer waits for *)
(* the stream scheduler between its checks and its reading.  Two stores:   *)
(*   derived  DerivedStore inspects a file, and keeps what it has found    *)
(*            in a second table (_files)                                   *)
(*   points   PointsStore reads the receipt (day.json) that a producer     *)
(*            writes for each file, before or after it replaces the file   *)
(*                                                                         *)
(* The model has one file, its content numbered by generation; a signature *)
(* is the generation it was taken from, a receipt that it was written for. *)
(***************************************************************************)
EXTENDS Naturals, SequencesExt

CONSTANTS Stores,         \* the kinds of stores, "derived" and "points"
          MaxGeneration,  \* bound: how often the file is replaced
          Size,           \* the size of each generation
          Handlers,       \* threads of the gateway
          Capacity,       \* capacity of _entries
          MaxRestarts     \* bound: restarts of the gateway

Generations == 1..MaxGeneration

ASSUME PinnedAssumption == /\ Stores \subseteq {"derived", "points"}
                           /\ MaxGeneration \in Nat \ {0}
                           /\ Size \in [Generations -> Nat \ {0}]
                           /\ Capacity \in Nat \ {0}
                           /\ MaxRestarts \in Nat

VARIABLES
  file,      \* the generation that is in place
  scanned,   \* _files: the last inspection of the file, filed under its signature
  entries,   \* _entries: entries, the least recent first
  issued,    \* entries that manifests have named to clients
  handler,   \* what each handler does
  restarts,
  store,     \* which store has the file
  receipt    \* points: the generation that day.json is for, 0 before it is there

vars == <<file, scanned, entries, issued, handler, restarts, store, receipt>>

(* An entry: the generations that its signature, its number of rows and    *)
(* its number of bytes come from.                                          *)
Entry == [signature : Generations, rows : Generations, bytes : Generations]

Blank == [signature |-> 0, rows |-> 0, bytes |-> 0]

NoWork == [at |-> "idle", record |-> Blank, wanted |-> Blank, began |-> 0, sent |-> 0]

Init == /\ file = 1
        /\ scanned = Blank
        /\ entries = <<>>
        /\ issued = {}
        /\ handler = [h \in Handlers |-> NoWork]
        /\ restarts = 0
        /\ store \in Stores
        /\ receipt = 0

(* Producers.  Of a file and its receipt either may be replaced first.     *)
Replace == /\ file < MaxGeneration
           /\ store = "points" => file <= receipt
           /\ file' = file + 1
           /\ UNCHANGED <<scanned, entries, issued, handler, restarts, store, receipt>>

ReplaceReceipt == /\ store = "points"
                  /\ receipt <= file /\ receipt < MaxGeneration
                  /\ receipt' = receipt + 1
                  /\ UNCHANGED <<file, scanned, entries, issued, handler, restarts, store>>

Restart == /\ restarts < MaxRestarts
           /\ restarts' = restarts + 1
           /\ scanned' = Blank
           /\ entries' = <<>>
           /\ handler' = [h \in Handlers |-> NoWork]
           /\ UNCHANGED <<file, issued, store, receipt>>
-----------------------------------------------------------------------------
(* _scan: _file_info and _entry; and PointsStore._load.                    *)

(* A manifest request. *)
AskManifest(h) ==
  /\ handler[h].at = "idle"
  /\ handler' = [handler EXCEPT ![h].at = "stat"]
  /\ UNCHANGED <<file, scanned, entries, issued, restarts, store, receipt>>

(* The signature, before the inspection.                                   *)
Stat(h) ==
  /\ handler[h].at = "stat"
  /\ handler' = [handler EXCEPT ![h].at = IF store = "points" THEN "receipt" ELSE "lookup",
                                ![h].record.signature = file]
  /\ UNCHANGED <<file, scanned, entries, issued, restarts, store, receipt>>

Known(h) == scanned.signature = handler[h].record.signature

Lookup(h) ==
  /\ handler[h].at = "lookup"
  /\ handler' = IF Known(h)
                THEN [handler EXCEPT ![h].at = "register", ![h].record = scanned]
                ELSE [handler EXCEPT ![h].at = "footer"]
  /\ UNCHANGED <<file, scanned, entries, issued, restarts, store, receipt>>

(* inspect_parquet reads the footer, and then takes the size.              *)
InspectFooter(h) ==
  /\ handler[h].at = "footer"
  /\ handler' = [handler EXCEPT ![h].at = "size", ![h].record.rows = file]
  /\ UNCHANGED <<file, scanned, entries, issued, restarts, store, receipt>>

InspectSize(h) ==
  /\ handler[h].at = "size"
  /\ handler' = [handler EXCEPT ![h].at = "store", ![h].record.bytes = file]
  /\ UNCHANGED <<file, scanned, entries, issued, restarts, store, receipt>>

SignedAgain(h) == [handler[h].record EXCEPT !.signature = file]

(* The inspection is filed under the signature taken before it.            *)
Signed(h) == handler[h].record

StoreInfo(h) ==
  /\ handler[h].at = "store"
  /\ scanned' = Signed(h)
  /\ handler' = [handler EXCEPT ![h].at = "register", ![h].record = Signed(h)]
  /\ UNCHANGED <<file, entries, issued, restarts, store, receipt>>

(* The receipt states the rows, and must have the size of the file.        *)
ReadReceipt(h) ==
  /\ handler[h].at = "receipt"
  /\ handler' = IF receipt # 0 /\ Size[receipt] = Size[handler[h].record.signature]
                THEN [handler EXCEPT ![h].at = "recheck", ![h].record.rows = receipt,
                                     ![h].record.bytes = handler[h].record.signature]
                ELSE [handler EXCEPT ![h].at = "refused"]
  /\ UNCHANGED <<file, scanned, entries, issued, restarts, store, receipt>>

Recheck(h) ==
  /\ handler[h].at = "recheck"
  /\ handler' = [handler EXCEPT ![h].at = IF handler[h].record.signature = file
                                          THEN "register" ELSE "refused"]
  /\ UNCHANGED <<file, scanned, entries, issued, restarts, store, receipt>>

(* The object_id is a hash of the signature and the number of rows.        *)
SameObject(d, e) == d.signature = e.signature /\ d.rows = e.rows

AppendedOnly(e) == Append(entries, e)

Saved(e) == {i \in DOMAIN entries : SameObject(entries[i], e)}

Others(e) ==
  IF Saved(e) = {} THEN entries ELSE RemoveAt(entries, CHOOSE i \in Saved(e) : TRUE)

(* The entry becomes the most recent one, and the least recent may go.     *)
Inserted(e) ==
  LET longer == Append(Others(e), e)
  IN IF Len(longer) > Capacity THEN Tail(longer) ELSE longer

(* A manifest is answered with the entry; a transfer goes on.              *)
Register(h) ==
  LET r == handler[h].record
      again == handler[h].wanted # Blank
  IN /\ handler[h].at = "register"
     /\ entries' = Inserted(r)
     /\ issued' = IF again THEN issued ELSE issued \cup {r}
     /\ handler' = IF again
                   THEN [handler EXCEPT ![h].at = "find again", ![h].record = Blank]
                   ELSE [handler EXCEPT ![h] = NoWork]
     /\ UNCHANGED <<file, scanned, restarts, store, receipt>>
-----------------------------------------------------------------------------
(* A transfer of ranges of an entry: selected_refs, path_for, _materialize,*)
(* the scheduler, and _sendfile_ranges.                                    *)

AskTransfer(h) ==
  /\ handler[h].at = "idle"
  /\ \E e \in issued :
       handler' = [handler EXCEPT ![h].at = "find", ![h].wanted = e, ![h].began = file]
  /\ UNCHANGED <<file, scanned, entries, issued, restarts, store, receipt>>

NeverRescans(h) == handler[h].at \in {"find", "find again"}

GivesUp(h) == handler[h].at = "find again"

(* An entry that is not there is looked for in the directory, once.  The   *)
(* reference only names the object, and the saved entry takes its place.   *)
Find(h) ==
  /\ handler[h].at \in {"find", "find again"}
  /\ \/ \E i \in Saved(handler[h].wanted) :
          handler' = [handler EXCEPT ![h].at = "selected", ![h].wanted = entries[i]]
     \/ /\ Saved(handler[h].wanted) = {}
        /\ handler' = [handler EXCEPT ![h].at = IF GivesUp(h) THEN "refused" ELSE "stat"]
  /\ UNCHANGED <<file, scanned, entries, issued, restarts, store, receipt>>

Remembered(h) == \E i \in DOMAIN entries : entries[i] = handler[h].wanted

AnyRemembered(h) == Remembered(h)

(* path_for. *)
StillPinned(h) == Remembered(h) /\ handler[h].wanted.signature = file

Select(h) ==
  /\ handler[h].at = "selected"
  /\ handler' = [handler EXCEPT ![h].at = IF StillPinned(h) THEN "materialize" ELSE "refused"]
  /\ UNCHANGED <<file, scanned, entries, issued, restarts, store, receipt>>

(* path_for again, and then the size.                                      *)
Materialize(h) ==
  /\ handler[h].at = "materialize"
  /\ handler' = [handler EXCEPT ![h].at = IF StillPinned(h) THEN "check size" ELSE "refused"]
  /\ UNCHANGED <<file, scanned, entries, issued, restarts, store, receipt>>

CheckSize(h) ==
  /\ handler[h].at = "check size"
  /\ handler' = [handler EXCEPT ![h].at =
                   IF Size[file] = Size[handler[h].wanted.bytes] THEN "queued" ELSE "refused"]
  /\ UNCHANGED <<file, scanned, entries, issued, restarts, store, receipt>>

(* The scheduler has given a stream: the path is opened.  Ranges end       *)
(* within the size that the entry states; a shorter file breaks them off.  *)
Send(h) ==
  /\ handler[h].at = "queued"
  /\ handler' = [handler EXCEPT
       ![h].at = IF Size[file] >= Size[handler[h].wanted.bytes] THEN "sent" ELSE "refused",
       ![h].sent = file]
  /\ UNCHANGED <<file, scanned, entries, issued, restarts, store, receipt>>

(* The end of a request, or no stream within the time.                     *)
Finish(h) ==
  /\ handler[h].at \in {"queued", "sent", "refused"}
  /\ handler' = [handler EXCEPT ![h] = NoWork]
  /\ UNCHANGED <<file, scanned, entries, issued, restarts, store, receipt>>
-----------------------------------------------------------------------------
Scan(h) == \/ AskManifest(h)
           \/ Stat(h)
           \/ Lookup(h)
           \/ InspectFooter(h)
           \/ InspectSize(h)
           \/ StoreInfo(h)
           \/ ReadReceipt(h)
           \/ Recheck(h)
           \/ Register(h)

Transfer(h) == \/ AskTransfer(h)
               \/ Find(h)
               \/ Select(h)
               \/ Materialize(h)
               \/ CheckSize(h)
               \/ Send(h)
               \/ Finish(h)

Next == \/ Replace
        \/ ReplaceReceipt
        \/ Restart
        \/ \E h \in Handlers : Scan(h) \/ Transfer(h)

Spec == Init /\ [][Next]_vars
-----------------------------------------------------------------------------
(* Properties.                                                             *)

Steps == {"idle", "stat", "lookup", "footer", "size", "store", "receipt", "recheck",
          "register", "find", "find again", "selected", "materialize", "check size",
          "queued", "sent", "refused"}

Partial == [signature : 0..MaxGeneration, rows : 0..MaxGeneration, bytes : 0..MaxGeneration]

TypeOK ==
  /\ file \in Generations
  /\ scanned \in Entry \cup {Blank}
  /\ entries \in Seq(Entry) /\ Len(entries) <= Capacity
  /\ \A i, j \in DOMAIN entries : SameObject(entries[i], entries[j]) => i = j
  /\ issued \subseteq Entry
  /\ handler \in [Handlers -> [at : Steps, record : Partial, wanted : Entry \cup {Blank},
                              began : 0..MaxGeneration, sent : 0..MaxGeneration]]
  /\ restarts \in 0..MaxRestarts
  /\ store \in Stores
  /\ receipt \in 0..MaxGeneration

(* A handler that inspects a file while it is replaced may name an entry   *)
(* that mixes two files, but no transfer is ever admitted for such an      *)
(* entry, and none for a file that had been replaced when the request came *)
(* ("the selected version has changed, stop reading").  Only the number of  *)
(* rows of a points file may be that of another file of the same size; the *)
(* client compares it with the footer.                                     *)
AdmittedPlansAreWhole ==
  \A h \in Handlers : handler[h].at \in {"queued", "sent"} =>
    LET e == handler[h].wanted
    IN /\ store = "derived" => e.rows = e.signature
       /\ e.bytes = e.signature /\ Size[e.rows] = Size[e.signature]
       /\ e.signature >= handler[h].began

(* A plan for the file that is in place is not refused, whatever older     *)
(* scans file meanwhile, and although the gateway forgets all its entries  *)
(* when it is restarted; of a points file, as long as its receipt is the   *)
(* one that the plan was made with.                                        *)
CurrentPlanIsServed ==
  \A h \in Handlers : handler[h].at = "refused" =>
    \/ handler[h].wanted.signature < file
    \/ store = "points" /\ handler[h].wanted.rows # receipt

(* The bytes that a client is sent are those of the version that its plan  *)
(* is bound to.                                                            *)
PinnedVersion ==
  \A h \in Handlers :
    handler[h].at = "sent" => handler[h].sent = handler[h].wanted.signature
=============================================================================
