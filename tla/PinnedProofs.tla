---------------------------- MODULE PinnedProofs ----------------------------
(***************************************************************************)
(* Theorems about PinnedFiles, for any stores, handlers, sizes, capacities *)
(* and numbers of replacements.                                            *)
(*                                                                         *)
(* A file only moves forward, and an inspection takes the signature before *)
(* the rest.  So what an entry joins is in order of age, and an entry      *)
(* whose signature is that of the file in place is of one file.            *)
(***************************************************************************)
EXTENDS PinnedFiles, FiniteSetTheorems, SequenceTheorems, TLAPS

(* The head and the rest of a nonempty sequence.                           *)
LEMMA HeadAndTail ==
  ASSUME NEW S, NEW q \in Seq(S), q # <<>>
  PROVE  /\ Head(q) \in S
         /\ Head(q) = q[1]
         /\ Tail(q) \in Seq(S)
         /\ Len(q) \in Nat /\ Len(q) >= 1
         /\ Len(Tail(q)) = Len(q) - 1
         /\ \A i \in 1..Len(Tail(q)) : Tail(q)[i] = q[i + 1]
BY HeadTailProperties, EmptySeq, LenProperties

(* Cutting out position k keeps the others in order.                       *)
LEMMA RemoveAtProperties ==
  ASSUME NEW S, NEW q \in Seq(S), NEW k \in 1..Len(q)
  PROVE  /\ RemoveAt(q, k) \in Seq(S)
         /\ Len(RemoveAt(q, k)) = Len(q) - 1
         /\ \A i \in 1..(Len(q) - 1) :
              RemoveAt(q, k)[i] = IF i < k THEN q[i] ELSE q[i + 1]
<1>. DEFINE a == SubSeq(q, 1, k - 1)
            b == SubSeq(q, k + 1, Len(q))
<1>1. Len(q) \in Nat /\ \A i \in 1..Len(q) : q[i] \in S
  BY LenProperties, ElementOfSeq
<1>2. /\ a \in Seq(S)
      /\ Len(a) = k - 1
      /\ \A i \in 1..(k - 1) : a[i] = q[i]
  <2>1. 1 \in Int /\ k - 1 \in Int /\ \A i \in 1..(k - 1) : q[i] \in S
    BY <1>1
  <2> QED BY <1>1, <2>1, SubSeqProperties
<1>3. /\ b \in Seq(S)
      /\ Len(b) = Len(q) - k
      /\ \A i \in 1..(Len(q) - k) : b[i] = q[k + i]
  <2>1. k + 1 \in Int /\ Len(q) \in Int /\ \A i \in (k + 1)..Len(q) : q[i] \in S
    BY <1>1
  <2>2. /\ b \in Seq(S)
        /\ Len(b) = IF k + 1 <= Len(q) THEN Len(q) - (k + 1) + 1 ELSE 0
        /\ \A i \in 1..(Len(q) - (k + 1) + 1) : b[i] = q[(k + 1) + i - 1]
    BY <2>1, SubSeqProperties
  <2> QED BY <1>1, <2>2
<1>. HIDE DEF a, b
<1>4. /\ a \o b \in Seq(S)
      /\ Len(a \o b) = Len(a) + Len(b)
      /\ \A i \in 1..(Len(a) + Len(b)) :
           (a \o b)[i] = IF i <= Len(a) THEN a[i] ELSE b[i - Len(a)]
  BY <1>2, <1>3, ConcatProperties
<1>5. RemoveAt(q, k) = a \o b
  BY DEF RemoveAt, a, b
<1>6. ASSUME NEW i \in 1..(Len(q) - 1)
      PROVE  (a \o b)[i] = IF i < k THEN q[i] ELSE q[i + 1]
  <2>1. (a \o b)[i] = IF i <= k - 1 THEN a[i] ELSE b[i - (k - 1)]
    BY <1>1, <1>2, <1>3, <1>4
  <2>2. CASE i < k
    BY <1>1, <1>2, <2>1, <2>2
  <2>3. CASE ~(i < k)
    <3>1. i - (k - 1) \in 1..(Len(q) - k) /\ k + (i - (k - 1)) = i + 1
      BY <1>1, <2>3
    <3>2. (a \o b)[i] = b[i - (k - 1)] /\ b[i - (k - 1)] = q[k + (i - (k - 1))]
      <4>1. ~(i <= k - 1)
        BY <1>1, <2>3
      <4> QED BY <1>3, <2>1, <3>1, <4>1
    <3> QED BY <2>3, <3>1, <3>2
  <2> QED BY <2>2, <2>3
<1>7. a \o b \in Seq(S) /\ Len(a \o b) = Len(q) - 1
  <2>1. (k - 1) + (Len(q) - k) = Len(q) - 1
    BY <1>1
  <2> QED BY <1>2, <1>3, <1>4, <2>1
<1> QED
  BY <1>5, <1>6, <1>7
-----------------------------------------------------------------------------

(* What the rest of a record is, for a record that has its rows.           *)
RowsFit(e) ==
  IF store = "points" THEN Size[e.rows] = Size[e.signature]
  ELSE e.signature <= e.rows /\ e.rows <= file

Sound(e) ==
  /\ e.signature <= file
  /\ RowsFit(e)
  /\ IF store = "points" THEN e.bytes = e.signature ELSE e.rows <= e.bytes /\ e.bytes <= file

Whole(e) ==
  /\ store = "derived" => e.rows = e.signature
  /\ e.bytes = e.signature /\ Size[e.rows] = Size[e.signature]

TablesInv ==
  /\ scanned # Blank => Sound(scanned)
  /\ \A i \in DOMAIN entries : Sound(entries[i])
  /\ \A e \in issued : Sound(e)

(* How far a scan has come, by the step and the record of the handler.     *)
ScanFits(at, r) ==
  /\ at \in {"lookup", "footer", "size", "receipt"} =>
       r.signature \in Generations /\ r.signature <= file
  /\ at = "receipt" => store = "points"
  /\ at \in {"lookup", "footer", "size", "store"} => store # "points"
  /\ at = "size" => r.rows \in Generations /\ RowsFit(r)
  /\ at \in {"store", "recheck", "register"} => r \in Entry /\ Sound(r)

Admitting == {"materialize", "check size", "queued", "sent"}

Transferring == {"find", "find again", "selected"} \cup Admitting

(* What a transfer is for, and what it has passed.                         *)
TransferFits(at, e, began) ==
  /\ began <= file
  /\ e # Blank => Sound(e)
  /\ at \in Transferring => e # Blank
  /\ at \in Admitting => Whole(e) /\ e.signature >= began

HandlerFits(w) == ScanFits(w.at, w.record) /\ TransferFits(w.at, w.wanted, w.began)

HandlerInv == \A h \in Handlers : HandlerFits(handler[h])

IInv == TypeOK /\ TablesInv /\ HandlerInv

Work == [at : Steps, record : Partial, wanted : Entry \cup {Blank},
         began : 0..MaxGeneration, sent : 0..MaxGeneration]

(* Entries have a signature, so they are not the blank one.                *)
LEMMA EntryTypes ==
  /\ Entry \subseteq Partial /\ Blank \in Partial
  /\ \A e \in Entry : e # Blank
  /\ Generations \subseteq Nat /\ 1 \in Generations
  /\ NoWork \in Work
BY PinnedAssumption DEF Entry, Partial, Blank, Generations, NoWork, Work, Steps

(* A handler that does nothing fits anything.                              *)
LEMMA IdleFits == file \in Nat => HandlerFits(NoWork)
<1>. SUFFICES ASSUME file \in Nat PROVE HandlerFits(NoWork)
  OBVIOUS
<1>1. NoWork.at = "idle" /\ NoWork.wanted = Blank /\ NoWork.began = 0
  BY DEF NoWork
<1>2. 0 <= file
  OBVIOUS
<1> QED BY <1>1, <1>2 DEF HandlerFits, ScanFits, TransferFits, Transferring, Admitting

LEMMA PinnedInit == Init => IInv
<1> SUFFICES ASSUME Init PROVE IInv
  OBVIOUS
<1>1. TypeOK
  BY EntryTypes, PinnedAssumption DEF Init, TypeOK, Work, Generations
<1>2. TablesInv
  BY DEF Init, TablesInv
<1>3. HandlerInv
  BY IdleFits DEF Init, HandlerInv
<1> QED BY <1>1, <1>2, <1>3 DEF IInv

(* What filing an entry does to the table.                                 *)
LEMMA Filing ==
  ASSUME TypeOK, NEW e \in Entry
  PROVE  /\ Inserted(e) \in Seq(Entry)
         /\ Len(Inserted(e)) <= Capacity
         /\ \A i, j \in DOMAIN Inserted(e) :
              SameObject(Inserted(e)[i], Inserted(e)[j]) => i = j
         /\ \A i \in DOMAIN Inserted(e) :
              \/ Inserted(e)[i] = e
              \/ \E j \in DOMAIN entries : Inserted(e)[i] = entries[j]
<1>. DEFINE o == Others(e)
            l == Append(o, e)
<1>1. /\ entries \in Seq(Entry) /\ Len(entries) \in Nat
      /\ Len(entries) <= Capacity /\ DOMAIN entries = 1..Len(entries)
      /\ \A i, j \in DOMAIN entries : SameObject(entries[i], entries[j]) => i = j
  BY LenProperties DEF TypeOK
<1>2. /\ o \in Seq(Entry) /\ Len(o) \in Nat /\ Len(o) <= Len(entries)
      /\ \A i \in 1..Len(o) : ~SameObject(o[i], e)
      /\ \A i, j \in 1..Len(o) : SameObject(o[i], o[j]) => i = j
      /\ \A i \in 1..Len(o) : \E j \in DOMAIN entries : o[i] = entries[j]
  <2>1. CASE Saved(e) = {}
    BY <1>1, <2>1 DEF Others, Saved
  <2>2. CASE Saved(e) # {}
    <3>. DEFINE k == CHOOSE i \in Saved(e) : TRUE
    <3>1. k \in 1..Len(entries) /\ SameObject(entries[k], e) /\ o = RemoveAt(entries, k)
      BY <1>1, <2>2 DEF Others, Saved
    <3>. HIDE DEF k
    <3>2. /\ o \in Seq(Entry) /\ Len(o) = Len(entries) - 1
          /\ \A i \in 1..(Len(entries) - 1) :
               o[i] = IF i < k THEN entries[i] ELSE entries[i + 1]
      BY <1>1, <3>1, RemoveAtProperties
    <3>. HIDE DEF o
    <3>3. \A i \in 1..(Len(entries) - 1) :
            LET m == IF i < k THEN i ELSE i + 1
            IN m \in 1..Len(entries) /\ m # k /\ o[i] = entries[m]
      BY <1>1, <3>1, <3>2
    <3>4. ASSUME NEW i \in 1..Len(o) PROVE ~SameObject(o[i], e)
      <4>1. PICK m \in 1..Len(entries) : m # k /\ o[i] = entries[m]
        BY <3>2, <3>3
      <4> QED BY <1>1, <3>1, <4>1 DEF SameObject
    <3>5. ASSUME NEW i \in 1..Len(o), NEW j \in 1..Len(o), SameObject(o[i], o[j])
          PROVE  i = j
      <4>. DEFINE m(x) == IF x < k THEN x ELSE x + 1
      <4>1. m(i) \in 1..Len(entries) /\ m(j) \in 1..Len(entries)
            /\ o[i] = entries[m(i)] /\ o[j] = entries[m(j)]
        BY <3>2, <3>3
      <4>2. m(i) = m(j)
        BY <1>1, <3>5, <4>1
      <4> QED BY <1>1, <3>1, <4>2
    <3> QED BY <1>1, <3>2, <3>3, <3>4, <3>5
  <2> QED BY <2>1, <2>2
<1>. HIDE DEF o
<1>3. /\ l \in Seq(Entry) /\ Len(l) = Len(o) + 1 /\ l # <<>>
      /\ \A i \in 1..Len(o) : l[i] = o[i]
      /\ l[Len(o) + 1] = e
  BY <1>2, AppendProperties
<1>. HIDE DEF l
<1>4. ASSUME NEW i \in 1..Len(l), NEW j \in 1..Len(l), SameObject(l[i], l[j])
      PROVE  i = j
  <2>1. CASE i <= Len(o) /\ j <= Len(o)
    BY <1>2, <1>3, <1>4, <2>1
  <2>2. CASE i <= Len(o) /\ j = Len(o) + 1
    BY <1>2, <1>3, <1>4, <2>2
  <2>3. CASE i = Len(o) + 1 /\ j <= Len(o)
    BY <1>2, <1>3, <1>4, <2>3 DEF SameObject
  <2>4. CASE i = Len(o) + 1 /\ j = Len(o) + 1
    BY <2>4
  <2> QED BY <1>2, <1>3, <2>1, <2>2, <2>3, <2>4
<1>5. \A i \in 1..Len(l) : l[i] = e \/ \E j \in DOMAIN entries : l[i] = entries[j]
  BY <1>2, <1>3
<1>6. Inserted(e) = IF Len(l) > Capacity THEN Tail(l) ELSE l
  BY DEF Inserted, l, o
<1>7. CASE Len(l) > Capacity
  <2>1. /\ Tail(l) \in Seq(Entry) /\ Len(l) \in Nat /\ Len(Tail(l)) = Len(l) - 1
        /\ \A i \in 1..Len(Tail(l)) : Tail(l)[i] = l[i + 1]
    BY <1>3, HeadAndTail
  <2>2. DOMAIN Tail(l) = 1..(Len(l) - 1)
    BY <2>1, LenProperties
  <2>3. \A i \in 1..(Len(l) - 1) : i + 1 \in 1..Len(l)
    BY <2>1
  <2>4. \A i, j \in 1..(Len(l) - 1) : SameObject(Tail(l)[i], Tail(l)[j]) => i = j
    BY <1>4, <2>1, <2>3
  <2>5. \A i \in 1..(Len(l) - 1) :
          Tail(l)[i] = e \/ \E j \in DOMAIN entries : Tail(l)[i] = entries[j]
    BY <1>5, <2>1, <2>3
  <2>6. Len(Tail(l)) <= Capacity
    BY <1>1, <1>2, <1>3, <2>1, PinnedAssumption
  <2> QED BY <1>6, <1>7, <2>1, <2>2, <2>4, <2>5, <2>6
<1>8. CASE ~(Len(l) > Capacity)
  <2>1. Len(l) \in Nat /\ DOMAIN l = 1..Len(l) /\ Len(l) <= Capacity
    BY <1>3, <1>8, LenProperties, PinnedAssumption
  <2> QED BY <1>3, <1>4, <1>5, <1>6, <1>8, <2>1
<1> QED BY <1>7, <1>8

(* A step of one handler: what the others do still fits.                   *)
LEMMA OneHandler ==
  ASSUME IInv, NEW h \in Handlers, NEW w \in Work, handler' = [handler EXCEPT ![h] = w],
         UNCHANGED <<file, store>>, TypeOK', TablesInv', HandlerFits(w)
  PROVE  IInv'
<1>1. handler \in [Handlers -> Work]
  BY DEF IInv, TypeOK, Work
<1>2. \A g \in Handlers : handler'[g] = IF g = h THEN w ELSE handler[g]
  BY <1>1
<1>3. \A g \in Handlers : HandlerFits(handler'[g])
  BY <1>2 DEF IInv, HandlerInv
<1>4. HandlerInv'
  BY <1>3 DEF HandlerInv, HandlerFits, ScanFits, TransferFits, Sound, RowsFit, Whole
<1> QED BY <1>4 DEF IInv

(* ... that changes nothing else.                                          *)
LEMMA Quiet ==
  ASSUME IInv, NEW h \in Handlers, NEW w \in Work, handler' = [handler EXCEPT ![h] = w],
         UNCHANGED <<file, scanned, entries, issued, restarts, store, receipt>>,
         HandlerFits(w)
  PROVE  IInv'
<1>1. handler' \in [Handlers -> Work]
  BY DEF IInv, TypeOK, Work
<1>2. TypeOK'
  BY <1>1 DEF IInv, TypeOK, Work
<1>3. TablesInv'
  BY DEF IInv, TablesInv, Sound, RowsFit
<1> QED BY <1>2, <1>3, OneHandler


(* A step of a scan.                                                       *)
LEMMA ScanMoves ==
  ASSUME IInv, NEW h \in Handlers, NEW at \in Steps \ Transferring, NEW r \in Partial,
         handler' = [handler EXCEPT ![h] = [handler[h] EXCEPT !.at = at, !.record = r]],
         UNCHANGED <<file, scanned, entries, issued, restarts, store, receipt>>,
         ScanFits(at, r)
  PROVE  IInv'
<1>. DEFINE w == [handler[h] EXCEPT !.at = at, !.record = r]
<1>1. handler[h] \in Work /\ HandlerFits(handler[h])
  BY DEF IInv, TypeOK, Work, HandlerInv
<1>2. /\ w \in Work /\ w.at = at /\ w.record = r
      /\ w.wanted = handler[h].wanted /\ w.began = handler[h].began
  BY <1>1 DEF Work
<1>. HIDE DEF w
<1>3. TransferFits(at, handler[h].wanted, handler[h].began)
  BY <1>1 DEF HandlerFits, TransferFits, Transferring
<1> QED BY <1>2, <1>3, Quiet DEF HandlerFits, w

(* A step of a transfer.                                                   *)
LEMMA TransferMoves ==
  ASSUME IInv, NEW h \in Handlers, NEW at \in Transferring \cup {"stat", "refused"},
         handler' = [handler EXCEPT ![h].at = at],
         UNCHANGED <<file, scanned, entries, issued, restarts, store, receipt>>,
         TransferFits(at, handler[h].wanted, handler[h].began)
  PROVE  IInv'
<1>. DEFINE w == [handler[h] EXCEPT !.at = at]
<1>1. handler[h] \in Work /\ at \in Steps
  BY DEF IInv, TypeOK, Work, Steps, Transferring, Admitting
<1>2. /\ w \in Work /\ w.at = at /\ w.record = handler[h].record
      /\ w.wanted = handler[h].wanted /\ w.began = handler[h].began
  BY <1>1 DEF Work
<1>3. handler' = [handler EXCEPT ![h] = w]
  OBVIOUS
<1>. HIDE DEF w
<1>4. ScanFits(at, handler[h].record)
  BY DEF ScanFits, Transferring, Admitting
<1> QED BY <1>2, <1>3, <1>4, Quiet DEF HandlerFits
-----------------------------------------------------------------------------
(* What is known of the handler that makes a step.                         *)
LEMMA Facts ==
  ASSUME IInv, NEW h \in Handlers
  PROVE  /\ handler[h] \in Work
         /\ handler[h].record \in Partial /\ handler[h].wanted \in Entry \cup {Blank}
         /\ ScanFits(handler[h].at, handler[h].record)
         /\ TransferFits(handler[h].at, handler[h].wanted, handler[h].began)
         /\ file \in Generations /\ file \in Nat
BY EntryTypes DEF IInv, TypeOK, Work, HandlerInv, HandlerFits

LEMMA AskManifestStep == ASSUME IInv, NEW h \in Handlers, AskManifest(h) PROVE IInv'
<1>. DEFINE r == handler[h].record
<1>1. handler' = [handler EXCEPT ![h] = [handler[h] EXCEPT !.at = "stat", !.record = r]]
  BY Facts DEF AskManifest, Work
<1>2. ScanFits("stat", r)
  BY DEF ScanFits
<1> QED BY <1>1, <1>2, Facts, ScanMoves DEF AskManifest, Steps, Transferring, Admitting

LEMMA StatStep == ASSUME IInv, NEW h \in Handlers, Stat(h) PROVE IInv'
<1>. DEFINE r == [handler[h].record EXCEPT !.signature = file]
            at == IF store = "points" THEN "receipt" ELSE "lookup"
<1>1. handler' = [handler EXCEPT ![h] = [handler[h] EXCEPT !.at = at, !.record = r]]
  BY Facts DEF Stat, Work
<1>2. r \in Partial /\ r.signature = file
  BY Facts, EntryTypes DEF Partial, Generations
<1>3. ScanFits(at, r)
  BY <1>2, Facts DEF ScanFits
<1> QED BY <1>1, <1>2, <1>3, ScanMoves DEF Stat, Steps, Transferring, Admitting

LEMMA LookupStep == ASSUME IInv, NEW h \in Handlers, Lookup(h) PROVE IInv'
<1>. USE DEF Steps, Transferring, Admitting
<1>1. ScanFits("lookup", handler[h].record) /\ handler[h].at = "lookup"
  BY Facts DEF Lookup
<1>2. CASE Known(h)
  <2>1. handler' = [handler EXCEPT ![h] = [handler[h] EXCEPT !.at = "register", !.record = scanned]]
    BY <1>2, Facts DEF Lookup, Work
  <2>2. scanned \in Entry /\ Sound(scanned)
    <3>1. scanned.signature \in Generations
      BY <1>1, <1>2 DEF Known, ScanFits
    <3>2. Blank.signature \notin Generations
      BY PinnedAssumption DEF Blank, Generations
    <3>3. scanned # Blank
      BY <3>1, <3>2
    <3> QED BY <3>3 DEF IInv, TypeOK, TablesInv
  <2>3. ScanFits("register", scanned)
    BY <2>2 DEF ScanFits
  <2> QED BY <2>1, <2>2, <2>3, EntryTypes, ScanMoves DEF Lookup
<1>3. CASE ~Known(h)
  <2>. DEFINE r == handler[h].record
  <2>1. handler' = [handler EXCEPT ![h] = [handler[h] EXCEPT !.at = "footer", !.record = r]]
    BY <1>3, Facts DEF Lookup, Work
  <2>2. ScanFits("footer", r)
    BY <1>1 DEF ScanFits
  <2> QED BY <2>1, <2>2, Facts, ScanMoves DEF Lookup
<1> QED BY <1>2, <1>3

LEMMA InspectFooterStep == ASSUME IInv, NEW h \in Handlers, InspectFooter(h) PROVE IInv'
<1>. DEFINE r == [handler[h].record EXCEPT !.rows = file]
<1>1. handler' = [handler EXCEPT ![h] = [handler[h] EXCEPT !.at = "size", !.record = r]]
  BY Facts DEF InspectFooter, Work
<1>2. r \in Partial /\ r.rows = file /\ r.signature = handler[h].record.signature
  BY Facts, EntryTypes DEF Partial, Generations
<1>3. ScanFits("footer", handler[h].record)
  BY Facts DEF InspectFooter
<1>4. ScanFits("size", r)
  BY <1>2, <1>3, Facts DEF ScanFits, RowsFit
<1> QED BY <1>1, <1>2, <1>4, ScanMoves DEF InspectFooter, Steps, Transferring, Admitting

LEMMA InspectSizeStep == ASSUME IInv, NEW h \in Handlers, InspectSize(h) PROVE IInv'
<1>. DEFINE r == [handler[h].record EXCEPT !.bytes = file]
<1>1. handler' = [handler EXCEPT ![h] = [handler[h] EXCEPT !.at = "store", !.record = r]]
  BY Facts DEF InspectSize, Work
<1>2. /\ r \in Partial /\ r.bytes = file
      /\ r.signature = handler[h].record.signature /\ r.rows = handler[h].record.rows
  BY Facts, EntryTypes DEF Partial, Generations
<1>3. ScanFits("size", handler[h].record)
  BY Facts DEF InspectSize
<1>4. r \in Entry
  BY <1>2, <1>3, Facts DEF ScanFits, Partial, Entry
<1>5. Sound(r) /\ store # "points"
  BY <1>2, <1>3, Facts DEF ScanFits, RowsFit, Sound
<1>6. ScanFits("store", r)
  BY <1>4, <1>5 DEF ScanFits
<1> QED BY <1>1, <1>2, <1>6, ScanMoves DEF InspectSize, Steps, Transferring, Admitting

LEMMA ReadReceiptStep == ASSUME IInv, NEW h \in Handlers, ReadReceipt(h) PROVE IInv'
<1>. USE DEF Steps, Transferring, Admitting
<1>. DEFINE q == handler[h].record
            r == [q EXCEPT !.rows = receipt, !.bytes = q.signature]
<1>1. ScanFits("receipt", q) /\ receipt \in 0..MaxGeneration
  BY Facts DEF ReadReceipt, IInv, TypeOK
<1>2. CASE receipt # 0 /\ Size[receipt] = Size[q.signature]
  <2>1. handler' = [handler EXCEPT ![h] = [handler[h] EXCEPT !.at = "recheck", !.record = r]]
    BY <1>2, Facts DEF ReadReceipt, Work
  <2>2. /\ r \in Partial /\ r.rows = receipt
        /\ r.bytes = q.signature /\ r.signature = q.signature
    BY <1>1, Facts DEF Partial
  <2>3. r \in Entry
    <3>1. receipt \in Generations
      BY <1>1, <1>2, PinnedAssumption DEF Generations
    <3>2. q.signature \in Generations
      BY <1>1 DEF ScanFits
    <3> QED BY <2>2, <3>1, <3>2 DEF Partial, Entry
  <2>4. Sound(r)
    BY <1>1, <1>2, <2>2 DEF ScanFits, RowsFit, Sound
  <2>5. ScanFits("recheck", r)
    BY <2>3, <2>4 DEF ScanFits
  <2> QED BY <2>1, <2>2, <2>5, ScanMoves DEF ReadReceipt
<1>3. CASE ~(receipt # 0 /\ Size[receipt] = Size[q.signature])
  <2>1. handler' = [handler EXCEPT ![h] = [handler[h] EXCEPT !.at = "refused", !.record = q]]
    BY <1>3, Facts DEF ReadReceipt, Work
  <2>2. ScanFits("refused", q)
    BY DEF ScanFits
  <2> QED BY <2>1, <2>2, Facts, ScanMoves DEF ReadReceipt
<1> QED BY <1>2, <1>3

LEMMA RecheckStep == ASSUME IInv, NEW h \in Handlers, Recheck(h) PROVE IInv'
<1>. DEFINE r == handler[h].record
            at == IF r.signature = file THEN "register" ELSE "refused"
<1>1. handler' = [handler EXCEPT ![h] = [handler[h] EXCEPT !.at = at, !.record = r]]
  BY Facts DEF Recheck, Work
<1>2. ScanFits("recheck", r)
  BY Facts DEF Recheck
<1>3. ScanFits(at, r)
  BY <1>2 DEF ScanFits
<1> QED BY <1>1, <1>3, Facts, ScanMoves DEF Recheck, Steps, Transferring, Admitting

(* The tables with one more sound entry.                                   *)
LEMMA StoreInfoStep == ASSUME IInv, NEW h \in Handlers, StoreInfo(h) PROVE IInv'
<1>. DEFINE r == handler[h].record
            w == [handler[h] EXCEPT !.at = "register", !.record = r]
<1>1. handler' = [handler EXCEPT ![h] = w] /\ scanned' = r
  BY Facts DEF StoreInfo, Signed, Work
<1>2. r \in Entry /\ Sound(r) /\ handler[h].at = "store"
  BY Facts DEF StoreInfo, ScanFits
<1>3. /\ w \in Work /\ w.at = "register" /\ w.record = r
      /\ w.wanted = handler[h].wanted /\ w.began = handler[h].began
  BY Facts DEF Work, Steps
<1>. HIDE DEF w
<1>4. HandlerFits(w)
  BY <1>2, <1>3, Facts
  DEF HandlerFits, ScanFits, TransferFits, Transferring, Admitting
<1>5. TypeOK'
  BY <1>1, <1>2, <1>3 DEF StoreInfo, IInv, TypeOK, Work
<1>6. TablesInv'
  BY <1>1, <1>2 DEF StoreInfo, IInv, TablesInv, Sound, RowsFit
<1> QED BY <1>1, <1>3, <1>4, <1>5, <1>6, OneHandler DEF StoreInfo

LEMMA RegisterStep == ASSUME IInv, NEW h \in Handlers, Register(h) PROVE IInv'
<1>. DEFINE r == handler[h].record
            again == handler[h].wanted # Blank
            w == IF again THEN [handler[h] EXCEPT !.at = "find again", !.record = Blank]
                 ELSE NoWork
<1>1. handler' = [handler EXCEPT ![h] = w] /\ entries' = Inserted(r)
      /\ issued' \subseteq issued \cup {r}
  BY Facts DEF Register, Work
<1>2. r \in Entry /\ Sound(r)
  BY Facts DEF Register, ScanFits
<1>3. w \in Work
  BY Facts, EntryTypes DEF Work, Steps
<1>4. HandlerFits(w)
  <2>1. CASE again
    <3>1. /\ w.at = "find again" /\ w.wanted = handler[h].wanted
          /\ w.began = handler[h].began
      BY <2>1, Facts DEF Work
    <3>. HIDE DEF w
    <3> QED BY <2>1, <3>1, Facts
            DEF HandlerFits, ScanFits, TransferFits, Transferring, Admitting
  <2>2. CASE ~again
    BY <2>2, Facts, IdleFits
  <2> QED BY <2>1, <2>2
<1>. HIDE DEF w
<1>5. /\ Inserted(r) \in Seq(Entry) /\ Len(Inserted(r)) <= Capacity
      /\ \A i, j \in DOMAIN Inserted(r) :
           SameObject(Inserted(r)[i], Inserted(r)[j]) => i = j
      /\ \A i \in DOMAIN Inserted(r) :
           Inserted(r)[i] = r \/ \E j \in DOMAIN entries : Inserted(r)[i] = entries[j]
  BY <1>2, Filing DEF IInv
<1>6. TypeOK'
  <2>1. handler' \in [Handlers -> Work]
    BY <1>1, <1>3 DEF IInv, TypeOK, Work
  <2> QED BY <1>1, <1>2, <1>5, <2>1 DEF Register, IInv, TypeOK, Work, SameObject
<1>7. TablesInv'
  <2>1. \A i \in DOMAIN entries' : Sound(entries'[i])
    BY <1>1, <1>2, <1>5 DEF IInv, TablesInv
  <2>2. \A e \in issued' : Sound(e)
    BY <1>1, <1>2 DEF IInv, TablesInv
  <2> QED BY <2>1, <2>2 DEF Register, IInv, TablesInv, Sound, RowsFit
<1> QED BY <1>1, <1>3, <1>4, <1>6, <1>7, OneHandler DEF Register
-----------------------------------------------------------------------------
(* The steps of a transfer.                                                *)
LEMMA AskTransferStep == ASSUME IInv, NEW h \in Handlers, AskTransfer(h) PROVE IInv'
<1>1. PICK e \in issued :
        handler' = [handler EXCEPT ![h].at = "find", ![h].wanted = e, ![h].began = file]
  BY DEF AskTransfer
<1>. DEFINE w == [handler[h] EXCEPT !.at = "find", !.wanted = e, !.began = file]
<1>2. e \in Entry /\ Sound(e) /\ e # Blank
  BY EntryTypes DEF IInv, TypeOK, TablesInv
<1>3. handler' = [handler EXCEPT ![h] = w]
  BY <1>1, Facts DEF Work
<1>4. file \in 0..MaxGeneration /\ file <= file
  BY Facts, PinnedAssumption DEF Generations
<1>5. w \in Work /\ w.at = "find" /\ w.wanted = e /\ w.began = file
  BY <1>2, <1>4, Facts DEF Work, Steps
<1>. HIDE DEF w
<1>6. ScanFits("find", w.record)
  BY DEF ScanFits
<1>7. TransferFits("find", e, file)
  BY <1>2, <1>4 DEF TransferFits, Admitting
<1> QED BY <1>3, <1>5, <1>6, <1>7, Quiet DEF AskTransfer, HandlerFits

LEMMA FindStep == ASSUME IInv, NEW h \in Handlers, Find(h) PROVE IInv'
<1>1. ASSUME NEW i \in Saved(handler[h].wanted),
             handler' = [handler EXCEPT ![h].at = "selected", ![h].wanted = entries[i]]
      PROVE  IInv'
  <2>. DEFINE e == entries[i]
              w == [handler[h] EXCEPT !.at = "selected", !.wanted = e]
  <2>1. e \in Entry /\ Sound(e) /\ e # Blank
    BY EntryTypes, ElementOfSeq, LenProperties DEF Saved, IInv, TypeOK, TablesInv
  <2>2. handler' = [handler EXCEPT ![h] = w]
    BY <1>1, Facts DEF Work
  <2>3. w \in Work /\ w.at = "selected" /\ w.wanted = e /\ w.began = handler[h].began
    BY <2>1, Facts DEF Work, Steps
  <2>. HIDE DEF w
  <2>4. HandlerFits(w)
    BY <2>1, <2>3, Facts DEF HandlerFits, ScanFits, TransferFits, Admitting
  <2> QED BY <2>2, <2>3, <2>4, Quiet DEF Find
<1>2. ASSUME handler' = [handler EXCEPT ![h].at = IF GivesUp(h) THEN "refused" ELSE "stat"]
      PROVE  IInv'
  <2>. DEFINE at == IF GivesUp(h) THEN "refused" ELSE "stat"
  <2>1. TransferFits(at, handler[h].wanted, handler[h].began)
    BY Facts DEF TransferFits, Transferring, Admitting
  <2>. HIDE DEF at
  <2>2. at \in {"stat", "refused"}
    BY DEF at
  <2> QED BY <1>2, <2>1, <2>2, TransferMoves DEF Find, at
<1> QED BY <1>1, <1>2 DEF Find

(* A file in place whose signature is that of an entry: the entry is whole.*)
LEMMA StillPinnedIsWhole ==
  ASSUME IInv, NEW h \in Handlers, handler[h].at \in Transferring, StillPinned(h)
  PROVE  Whole(handler[h].wanted) /\ handler[h].wanted.signature >= handler[h].began
<1>. DEFINE e == handler[h].wanted
<1>1. e \in Entry /\ Sound(e) /\ e.signature = file /\ handler[h].began <= file
  BY Facts DEF StillPinned, TransferFits
<1>2. e.signature \in Nat /\ e.rows \in Nat /\ e.bytes \in Nat
  BY <1>1, EntryTypes DEF Entry
<1>3. CASE store = "points"
  BY <1>1, <1>3 DEF Sound, RowsFit, Whole
<1>4. CASE store # "points"
  BY <1>1, <1>2, <1>4 DEF Sound, RowsFit, Whole
<1>5. handler[h].began \in Nat
  BY Facts DEF Work
<1> QED BY <1>1, <1>2, <1>3, <1>4, <1>5

LEMMA CheckSteps ==
  ASSUME IInv, NEW h \in Handlers, Select(h) \/ Materialize(h) PROVE IInv'
<1>. DEFINE at == IF StillPinned(h) THEN IF handler[h].at = "selected" THEN "materialize"
                                         ELSE "check size"
                  ELSE "refused"
<1>1. handler' = [handler EXCEPT ![h].at = at] /\ handler[h].at \in Transferring
  BY DEF Select, Materialize, Transferring, Admitting
<1>2. TransferFits(at, handler[h].wanted, handler[h].began)
  BY <1>1, Facts, StillPinnedIsWhole DEF TransferFits, Transferring, Admitting
<1>3. at \in Transferring \cup {"stat", "refused"}
  BY DEF Transferring, Admitting
<1>. HIDE DEF at
<1> QED BY <1>1, <1>2, <1>3, TransferMoves DEF Select, Materialize

LEMMA CheckSizeStep == ASSUME IInv, NEW h \in Handlers, CheckSize(h) PROVE IInv'
<1>. DEFINE at == IF Size[file] = Size[handler[h].wanted.bytes] THEN "queued" ELSE "refused"
<1>1. handler' = [handler EXCEPT ![h].at = at] /\ handler[h].at = "check size"
  BY DEF CheckSize
<1>2. TransferFits(at, handler[h].wanted, handler[h].began)
  BY <1>1, Facts DEF TransferFits, Transferring, Admitting
<1>3. at \in Transferring \cup {"stat", "refused"}
  BY DEF Transferring, Admitting
<1>. HIDE DEF at
<1> QED BY <1>1, <1>2, <1>3, TransferMoves DEF CheckSize

LEMMA SendStep == ASSUME IInv, NEW h \in Handlers, Send(h) PROVE IInv'
<1>. DEFINE at == IF Size[file] >= Size[handler[h].wanted.bytes] THEN "sent" ELSE "refused"
            w == [handler[h] EXCEPT !.at = at, !.sent = file]
<1>1. handler' = [handler EXCEPT ![h] = w] /\ handler[h].at = "queued"
  BY Facts DEF Send, Work
<1>2. at \in {"sent", "refused"}
  OBVIOUS
<1>. HIDE DEF at
<1>3. /\ w \in Work /\ w.at = at
      /\ w.wanted = handler[h].wanted /\ w.began = handler[h].began
  <2>1. file \in 0..MaxGeneration
    BY Facts, PinnedAssumption DEF Generations
  <2> QED BY <1>2, <2>1, Facts DEF Work, Steps
<1>. HIDE DEF w
<1>4. HandlerFits(w)
  BY <1>1, <1>2, <1>3, Facts
  DEF HandlerFits, ScanFits, TransferFits, Transferring, Admitting
<1> QED BY <1>1, <1>3, <1>4, Quiet DEF Send

LEMMA FinishStep == ASSUME IInv, NEW h \in Handlers, Finish(h) PROVE IInv'
BY Facts, EntryTypes, IdleFits, Quiet DEF Finish
-----------------------------------------------------------------------------
(* The file moves forward, under everything that fits.                     *)
LEMMA ReplaceStep == ASSUME IInv, Replace PROVE IInv'
<1>1. file \in Generations /\ file' \in Generations /\ file' = file + 1 /\ file \in Nat
  BY EntryTypes, PinnedAssumption DEF Replace, IInv, TypeOK, Generations
<1>2. TypeOK'
  BY <1>1 DEF Replace, IInv, TypeOK
<1>3. ASSUME NEW e \in Entry, Sound(e) PROVE Sound(e)'
  <2>1. e.signature \in Nat /\ e.rows \in Nat /\ e.bytes \in Nat
    BY EntryTypes DEF Entry
  <2> QED BY <1>1, <1>3, <2>1 DEF Replace, Sound, RowsFit
<1>4. TablesInv'
  <2>1. scanned # Blank => Sound(scanned)'
    BY <1>3 DEF IInv, TypeOK, TablesInv, Replace, Sound, RowsFit
  <2>2. \A i \in DOMAIN entries : entries[i] \in Entry /\ Sound(entries[i])
    BY ElementOfSeq, LenProperties DEF IInv, TypeOK, TablesInv
  <2>3. \A e \in issued : e \in Entry /\ Sound(e)
    BY DEF IInv, TypeOK, TablesInv
  <2> QED BY <1>3, <2>1, <2>2, <2>3 DEF Replace, TablesInv, Sound, RowsFit
<1>5. ASSUME NEW h \in Handlers PROVE HandlerFits(handler[h])'
  <2>. DEFINE a == handler[h].at
              r == handler[h].record
              e == handler[h].wanted
              b == handler[h].began
  <2>1. /\ ScanFits(a, r) /\ TransferFits(a, e, b)
        /\ e \in Entry \cup {Blank} /\ r \in Partial /\ b \in Nat
    BY Facts DEF Work
  <2>2. ScanFits(a, r)'
    <3>1. a \in {"lookup", "footer", "size", "receipt"} => r.signature <= file'
      BY <1>1, <2>1, EntryTypes DEF ScanFits, Generations
    <3>2. a = "size" => RowsFit(r)'
      BY <1>1, <2>1, EntryTypes DEF ScanFits, RowsFit, Replace, Generations
    <3>3. a \in {"store", "recheck", "register"} => Sound(r)'
      BY <1>3, <2>1 DEF ScanFits, Replace, Sound, RowsFit
    <3> QED BY <2>1, <3>1, <3>2, <3>3 DEF ScanFits, Replace, Sound, RowsFit
  <2>3. TransferFits(a, e, b)'
    <3>1. b <= file'
      BY <1>1, <2>1 DEF TransferFits
    <3>2. e # Blank => Sound(e)'
      BY <1>3, <2>1 DEF TransferFits, Replace, Sound, RowsFit
    <3> QED BY <2>1, <3>1, <3>2 DEF TransferFits, Replace, Sound, RowsFit, Whole
  <2> QED BY <2>2, <2>3 DEF HandlerFits, ScanFits, TransferFits, Replace, Sound, RowsFit, Whole
<1> QED BY <1>2, <1>4, <1>5 DEF IInv, HandlerInv

LEMMA OthersStep ==
  ASSUME IInv, ReplaceReceipt \/ Restart \/ UNCHANGED vars PROVE IInv'
<1>1. CASE ReplaceReceipt
  <2>1. TypeOK'
    BY <1>1, PinnedAssumption DEF ReplaceReceipt, IInv, TypeOK, Generations
  <2>2. TablesInv' /\ HandlerInv'
    BY <1>1 DEF ReplaceReceipt, IInv, TablesInv, HandlerInv, HandlerFits, ScanFits,
                TransferFits, Sound, RowsFit, Whole
  <2> QED BY <2>1, <2>2 DEF IInv
<1>2. CASE Restart
  <2>1. TypeOK'
    <3>1. <<>> \in Seq(Entry) /\ Len(<<>>) = 0 /\ DOMAIN <<>> = {}
      BY EmptySeq
    <3> QED BY <1>2, <3>1, EntryTypes, PinnedAssumption DEF Restart, IInv, TypeOK, Work
  <2>2. TablesInv'
    BY <1>2 DEF Restart, IInv, TablesInv, Sound, RowsFit
  <2>3. HandlerInv'
    <3>1. HandlerFits(NoWork)
      BY IdleFits, EntryTypes DEF IInv, TypeOK
    <3> QED BY <1>2, <3>1 DEF Restart, HandlerInv, HandlerFits, ScanFits, TransferFits,
                             Sound, RowsFit, Whole
  <2> QED BY <2>1, <2>2, <2>3 DEF IInv
<1>3. CASE UNCHANGED vars
  BY <1>3 DEF vars, IInv, TypeOK, TablesInv, HandlerInv, HandlerFits, ScanFits,
              TransferFits, Sound, RowsFit, Whole
<1> QED BY <1>1, <1>2, <1>3

LEMMA PinnedStep == IInv /\ [Next]_vars => IInv'
<1>. SUFFICES ASSUME IInv, [Next]_vars PROVE IInv'
  OBVIOUS
<1>1. ASSUME NEW h \in Handlers, Scan(h) PROVE IInv'
  BY <1>1, AskManifestStep, StatStep, LookupStep, InspectFooterStep, InspectSizeStep,
     StoreInfoStep, ReadReceiptStep, RecheckStep, RegisterStep DEF Scan
<1>2. ASSUME NEW h \in Handlers, Transfer(h) PROVE IInv'
  BY <1>2, AskTransferStep, FindStep, CheckSteps, CheckSizeStep, SendStep, FinishStep
  DEF Transfer
<1> QED BY <1>1, <1>2, ReplaceStep, OthersStep DEF Next

LEMMA PinnedInductive == Spec => []IInv
BY PinnedInit, PinnedStep, PTL DEF Spec

(* The gateway's tables keep their types and bounds, and no object is in   *)
(* the table of entries twice.                                             *)
THEOREM PinnedTypes == Spec => []TypeOK
BY PinnedInductive, PTL DEF IInv

(* No transfer is admitted for an entry that mixes two files, or for a file*)
(* that had been replaced when the request came, whatever producers and    *)
(* other handlers do between the steps (path_for).                         *)
THEOREM PlansAreWhole == Spec => []AdmittedPlansAreWhole
<1>1. IInv => AdmittedPlansAreWhole
  BY DEF IInv, HandlerInv, HandlerFits, TransferFits, Admitting, Whole, AdmittedPlansAreWhole
<1> QED BY <1>1, PinnedInductive, PTL
-----------------------------------------------------------------------------
(* The second invariant: a plan for the file in place can be found.  Once  *)
(* its entry is in the table, it can only be pushed out by registrations   *)
(* of handlers that had begun to scan an older file (or, of points, had    *)
(* read an older receipt).  Each of them files one entry and no new ones   *)
(* begin, so a table that has room for one entry of each handler keeps it. *)

(* Capacity is 8192 in DerivedStore and 4096 in PointsStore.               *)
RoomForAll == IsFiniteSet(Handlers) /\ Cardinality(Handlers) <= Capacity

Current(e) == e.signature = file /\ (store = "points" => e.rows = receipt)

Present == \E i \in DOMAIN entries : Current(entries[i])

Scanning == {"lookup", "footer", "size", "store", "receipt", "recheck", "register"}

(* What a scan will register is not the current entry.                     *)
Late(at, r) ==
  \/ at \in Scanning /\ r.signature # file
  \/ at \in {"recheck", "register"} /\ store = "points" /\ r.rows # receipt

Stale == {h \in Handlers : Late(handler[h].at, handler[h].record)}

Retained ==
  \A i \in DOMAIN entries :
    Current(entries[i]) => Len(entries) - i + Cardinality(Stale) < Cardinality(Handlers)

(* A receipt is read before its rows are anywhere.                         *)
Received ==
  store = "points" => /\ \A i \in DOMAIN entries : entries[i].rows <= receipt
                      /\ \A e \in issued : e.rows <= receipt

(* What a transfer looks for, it finds at least as new when it scans.      *)
Chases(at, r, e) ==
  /\ e # Blank /\ at \in Scanning => r.signature >= e.signature
  /\ store = "points" => e.rows <= receipt
  /\ store = "points" /\ at \in {"recheck", "register"} => e.rows <= r.rows /\ r.rows <= receipt
  /\ at \in {"find again", "selected", "materialize"} /\ Current(e) => Present
  /\ at = "refused" => ~Current(e)

Chasing == \A h \in Handlers : Chases(handler[h].at, handler[h].record, handler[h].wanted)

FoundInv == IInv /\ Retained /\ Received /\ Chasing

(* There is one current entry.                                             *)
LEMMA CurrentIsOne ==
  ASSUME NEW d \in Entry, NEW e \in Entry, Sound(d), Sound(e), Current(d), Current(e),
         file \in Nat
  PROVE  d = e
<1>1. /\ d.signature \in Nat /\ d.rows \in Nat /\ d.bytes \in Nat
      /\ e.signature \in Nat /\ e.rows \in Nat /\ e.bytes \in Nat
  BY EntryTypes DEF Entry
<1>2. d.signature = e.signature
  BY DEF Current
<1>3. CASE store = "points"
  <2>1. d.rows = e.rows /\ d.bytes = e.bytes
    BY <1>2, <1>3 DEF Current, Sound
  <2> QED BY <1>2, <2>1 DEF Entry
<1>4. CASE store # "points"
  <2>1. d.rows = file /\ e.rows = file
    BY <1>1, <1>4 DEF Current, Sound, RowsFit
  <2>2. d.bytes = file /\ e.bytes = file
    BY <1>1, <1>4, <2>1 DEF Sound
  <2> QED BY <1>2, <2>1, <2>2 DEF Entry
<1> QED BY <1>3, <1>4

LEMMA EntryFacts ==
  ASSUME IInv
  PROVE  /\ entries \in Seq(Entry) /\ Len(entries) \in Nat /\ Len(entries) <= Capacity
         /\ DOMAIN entries = 1..Len(entries)
         /\ \A i \in 1..Len(entries) : entries[i] \in Entry /\ Sound(entries[i])
         /\ Capacity \in Nat /\ file \in Nat /\ file \in Generations /\ receipt \in Nat
BY EntryTypes, LenProperties, ElementOfSeq, PinnedAssumption DEF IInv, TypeOK, TablesInv

(* The late handlers are some of all.                                      *)
LEMMA StaleFacts ==
  ASSUME RoomForAll
  PROVE  /\ IsFiniteSet(Stale) /\ Cardinality(Stale) \in Nat
         /\ Cardinality(Handlers) \in Nat
         /\ \A h \in Handlers \ Stale : Cardinality(Stale) < Cardinality(Handlers)
<1>1. Stale \in SUBSET Handlers
  BY DEF Stale
<1>2. /\ IsFiniteSet(Stale) /\ Cardinality(Stale) <= Cardinality(Handlers)
      /\ Cardinality(Handlers) = Cardinality(Stale) => Handlers = Stale
  BY <1>1, FS_Subset DEF RoomForAll
<1>3. Cardinality(Stale) \in Nat /\ Cardinality(Handlers) \in Nat
  BY <1>2, FS_CardinalityType DEF RoomForAll
<1> QED BY <1>2, <1>3

(* A step of one handler while file and receipt stay.                      *)
LEMMA StaleSteps ==
  ASSUME RoomForAll, handler \in [Handlers -> Work], NEW h \in Handlers, NEW w,
         handler' = [handler EXCEPT ![h] = w],
         UNCHANGED <<file, store, receipt>>,
         Late(w.at, w.record) => h \in Stale
  PROVE  /\ Cardinality(Stale') <= Cardinality(Stale) /\ Cardinality(Stale') \in Nat
         /\ h \in Stale /\ ~Late(w.at, w.record) => Cardinality(Stale') < Cardinality(Stale)
<1>1. \A g \in Handlers : handler'[g] = IF g = h THEN w ELSE handler[g]
  OBVIOUS
<1>2. \A at, r : Late(at, r)' <=> Late(at, r)
  BY DEF Late
<1>3. Stale' \subseteq Stale
  BY <1>1, <1>2 DEF Stale, Late
<1>4. IsFiniteSet(Stale) /\ Cardinality(Stale) \in Nat
  BY StaleFacts
<1>5. /\ IsFiniteSet(Stale') /\ Cardinality(Stale') <= Cardinality(Stale)
      /\ Cardinality(Stale) = Cardinality(Stale') => Stale = Stale'
  BY <1>3, <1>4, FS_Subset
<1>6. Cardinality(Stale') \in Nat
  BY <1>5, FS_CardinalityType
<1>7. ~Late(w.at, w.record) => h \notin Stale'
  BY <1>1, <1>2 DEF Stale, Late
<1> QED BY <1>4, <1>5, <1>6, <1>7

(* A step of one handler that leaves file and tables alone.                *)
LEMMA Steady ==
  ASSUME RoomForAll, FoundInv, IInv', NEW h \in Handlers, NEW w,
         handler' = [handler EXCEPT ![h] = w],
         UNCHANGED <<file, entries, issued, store, receipt>>,
         Late(w.at, w.record) => Late(handler[h].at, handler[h].record),
         Chases(w.at, w.record, w.wanted)
  PROVE  FoundInv'
<1>1. handler \in [Handlers -> Work]
  BY DEF FoundInv, IInv, TypeOK, Work
<1>2. Cardinality(Stale') <= Cardinality(Stale) /\ Cardinality(Stale') \in Nat
  BY <1>1, StaleSteps DEF Stale
<1>3. Cardinality(Stale) \in Nat /\ Cardinality(Handlers) \in Nat
  BY StaleFacts
<1>4. Retained'
  <2>1. SUFFICES ASSUME NEW i \in DOMAIN entries, Current(entries[i])
                 PROVE  Len(entries) - i + Cardinality(Stale') < Cardinality(Handlers)
    BY DEF Retained, Current
  <2>2. Len(entries) - i + Cardinality(Stale) < Cardinality(Handlers)
    BY <2>1 DEF FoundInv, Retained
  <2>3. Len(entries) \in Nat /\ i \in Nat
    BY EntryFacts DEF FoundInv
  <2> QED BY <1>2, <1>3, <2>2, <2>3
<1>5. Received'
  BY DEF FoundInv, Received
<1>6. Chasing'
  <2>1. \A g \in Handlers : handler'[g] = IF g = h THEN w ELSE handler[g]
    BY <1>1
  <2>2. \A g \in Handlers : Chases(handler'[g].at, handler'[g].record, handler'[g].wanted)
    BY <2>1 DEF FoundInv, Chasing
  <2> QED BY <2>2 DEF Chasing, Chases, Current, Present
<1> QED BY <1>4, <1>5, <1>6 DEF FoundInv
-----------------------------------------------------------------------------
(* What filing an entry does to the place of the others, counted from the  *)
(* end: they move up by one place at most, and are still there if that is  *)
(* within the capacity.                                                    *)
LEMMA Displaced ==
  ASSUME IInv, NEW e \in Entry
  PROVE  /\ Inserted(e) \in Seq(Entry) /\ Len(Inserted(e)) \in Nat
         /\ Len(Inserted(e)) \in 1..Len(Inserted(e))
         /\ Inserted(e)[Len(Inserted(e))] = e
         /\ \A i \in 1..Len(entries) :
              ~SameObject(entries[i], e) /\ Len(entries) - i + 1 < Capacity =>
                \E j \in 1..Len(Inserted(e)) :
                  /\ Inserted(e)[j] = entries[i]
                  /\ Len(Inserted(e)) - j <= Len(entries) - i + 1
<1>. DEFINE o == Others(e)
            l == Append(o, e)
            n == Len(entries)
<1>1. /\ entries \in Seq(Entry) /\ n \in Nat /\ n <= Capacity /\ DOMAIN entries = 1..n
      /\ Capacity \in Nat \ {0}
  BY EntryFacts, PinnedAssumption
<1>2. /\ o \in Seq(Entry) /\ Len(o) \in Nat /\ Len(o) <= n
      /\ \A i \in 1..n : ~SameObject(entries[i], e) =>
           \E p \in 1..Len(o) : o[p] = entries[i] /\ Len(o) - p <= n - i
  <2>1. CASE Saved(e) = {}
    BY <1>1, <2>1 DEF Others
  <2>2. CASE Saved(e) # {}
    <3>. DEFINE k == CHOOSE i \in Saved(e) : TRUE
    <3>1. k \in 1..n /\ SameObject(entries[k], e) /\ o = RemoveAt(entries, k)
      BY <1>1, <2>2 DEF Others, Saved
    <3>. HIDE DEF k
    <3>2. /\ o \in Seq(Entry) /\ Len(o) = n - 1
          /\ \A i \in 1..(n - 1) : o[i] = IF i < k THEN entries[i] ELSE entries[i + 1]
      BY <1>1, <3>1, RemoveAtProperties
    <3>. HIDE DEF o, n
    <3>3. ASSUME NEW i \in 1..n, ~SameObject(entries[i], e)
          PROVE  \E p \in 1..Len(o) : o[p] = entries[i] /\ Len(o) - p <= n - i
      <4>1. CASE i < k
        <5>1. i \in 1..(n - 1) /\ o[i] = entries[i] /\ Len(o) - i <= n - i
          BY <1>1, <3>1, <3>2, <4>1
        <5> QED BY <3>2, <5>1
      <4>2. CASE i > k
        <5>1. i - 1 \in 1..(n - 1) /\ ~(i - 1 < k) /\ (i - 1) + 1 = i
          BY <1>1, <3>1, <4>2
        <5>2. o[i - 1] = entries[i] /\ Len(o) - (i - 1) <= n - i
          BY <1>1, <3>2, <5>1
        <5> QED BY <3>2, <5>1, <5>2
      <4>3. i # k
        BY <3>1, <3>3
      <4> QED BY <1>1, <3>1, <4>1, <4>2, <4>3
    <3> QED BY <1>1, <3>2, <3>3
  <2> QED BY <2>1, <2>2
<1>. HIDE DEF o, n
<1>3. /\ l \in Seq(Entry) /\ Len(l) = Len(o) + 1 /\ l # <<>>
      /\ \A i \in 1..Len(o) : l[i] = o[i]
      /\ l[Len(o) + 1] = e
  BY <1>2, AppendProperties
<1>. HIDE DEF l
<1>4. ASSUME NEW i \in 1..n, ~SameObject(entries[i], e)
      PROVE  \E p \in 1..(Len(l) - 1) : l[p] = entries[i] /\ Len(l) - p <= n - i + 1
  <2>1. PICK p \in 1..Len(o) : o[p] = entries[i] /\ Len(o) - p <= n - i
    BY <1>2, <1>4
  <2>2. p \in 1..(Len(l) - 1) /\ l[p] = entries[i] /\ Len(l) - p <= n - i + 1
    BY <1>1, <1>2, <1>3, <2>1
  <2> QED BY <2>2
<1>5. Inserted(e) = IF Len(l) > Capacity THEN Tail(l) ELSE l
  BY DEF Inserted, l, o
<1>6. CASE Len(l) > Capacity
  <2>. DEFINE t == Tail(l)
  <2>1. /\ t \in Seq(Entry) /\ Len(t) = Len(l) - 1 /\ Len(l) \in Nat /\ Len(l) > 1
        /\ \A i \in 1..(Len(l) - 1) : t[i] = l[i + 1]
    BY <1>1, <1>2, <1>3, <1>6, HeadAndTail
  <2>. HIDE DEF t
  <2>2. t[Len(t)] = e
    <3>1. Len(l) - 1 \in 1..(Len(l) - 1) /\ (Len(l) - 1) + 1 = Len(o) + 1
      BY <1>2, <1>3, <2>1
    <3> QED BY <1>3, <2>1, <3>1
  <2>3. ASSUME NEW i \in 1..n, ~SameObject(entries[i], e), n - i + 1 < Capacity
        PROVE  \E j \in 1..Len(t) : t[j] = entries[i] /\ Len(t) - j <= n - i + 1
    <3>1. PICK p \in 1..(Len(l) - 1) : l[p] = entries[i] /\ Len(l) - p <= n - i + 1
      BY <1>4, <2>3
    <3>2. p > 1
      BY <1>1, <1>6, <2>1, <2>3, <3>1
    <3>3. p - 1 \in 1..(Len(l) - 1) /\ (p - 1) + 1 = p
      BY <2>1, <3>1, <3>2
    <3>4. t[p - 1] = entries[i] /\ Len(t) - (p - 1) <= n - i + 1
      BY <1>1, <2>1, <3>1, <3>3
    <3> QED BY <2>1, <3>3, <3>4
  <2>4. Inserted(e) = t
    BY <1>5, <1>6 DEF t
  <2>5. Len(t) \in Nat /\ Len(t) \in 1..Len(t)
    BY <2>1
  <2> QED BY <2>1, <2>2, <2>3, <2>4, <2>5 DEF n
<1>7. CASE ~(Len(l) > Capacity)
  <2>1. Inserted(e) = l
    BY <1>5, <1>7
  <2>2. Len(l) \in Nat /\ Len(l) \in 1..Len(l) /\ l[Len(l)] = e
    BY <1>2, <1>3
  <2>3. \A i \in 1..n : ~SameObject(entries[i], e) =>
          \E p \in 1..Len(l) : l[p] = entries[i] /\ Len(l) - p <= n - i + 1
    BY <1>4, <2>2
  <2> QED BY <1>3, <2>1, <2>2, <2>3 DEF n
<1> QED BY <1>6, <1>7

(* An entry is registered: the current one is last, any other pushes it one*)
(* place, and its handler is late no more.                                 *)
LEMMA RegisterFound ==
  ASSUME RoomForAll, FoundInv, IInv', NEW h \in Handlers, Register(h) PROVE FoundInv'
<1>. DEFINE r == handler[h].record
            wanted == handler[h].wanted
            w == IF wanted # Blank THEN [handler[h] EXCEPT !.at = "find again", !.record = Blank]
                 ELSE NoWork
            n == Len(entries)
            m == Len(entries')
<1>1. /\ handler[h].at = "register" /\ entries' = Inserted(r)
      /\ handler' = [handler EXCEPT ![h] = w] /\ issued' \subseteq issued \cup {r}
      /\ UNCHANGED <<file, store, receipt>>
  BY Facts DEF Register, Work, FoundInv
<1>2. /\ r \in Entry /\ Sound(r) /\ handler \in [Handlers -> Work]
      /\ wanted \in Entry \cup {Blank} /\ (wanted # Blank => Sound(wanted))
      /\ Chases("register", r, wanted)
  BY <1>1, Facts DEF FoundInv, ScanFits, TransferFits, Chasing, IInv, TypeOK, Work
<1>3. /\ w.at \in {"find again", "idle"} /\ (w.wanted = wanted \/ w = NoWork)
      /\ (wanted # Blank => w.at = "find again")
  BY Facts DEF FoundInv, Work, NoWork
<1>4. ~Late(w.at, w.record)
  BY <1>3 DEF Late, Scanning
<1>5. /\ r.signature \in Nat /\ r.rows \in Nat /\ r.signature <= file /\ file \in Nat
      /\ receipt \in Nat /\ r # Blank
  BY <1>2, EntryFacts, EntryTypes DEF Sound, Entry, FoundInv
<1>6. Late("register", r) <=> ~Current(r)
  BY DEF Late, Current, Scanning
<1>. HIDE DEF w
<1>7. /\ Cardinality(Stale') <= Cardinality(Stale) /\ Cardinality(Stale') \in Nat
      /\ h \in Stale => Cardinality(Stale') < Cardinality(Stale)
  BY <1>1, <1>2, <1>4, StaleSteps
<1>8. /\ Cardinality(Stale) \in Nat /\ Cardinality(Handlers) \in Nat
      /\ Cardinality(Handlers) <= Capacity /\ Capacity \in Nat
      /\ h \notin Stale => Cardinality(Stale) < Cardinality(Handlers)
  BY StaleFacts, EntryFacts DEF FoundInv, RoomForAll
<1>9. /\ m \in Nat /\ m \in 1..m /\ entries'[m] = r /\ entries' \in Seq(Entry)
      /\ DOMAIN entries' = 1..m
      /\ \A i \in 1..n : ~SameObject(entries[i], r) /\ n - i + 1 < Capacity =>
            \E j \in 1..m : entries'[j] = entries[i] /\ m - j <= n - i + 1
  BY <1>1, <1>2, Displaced, LenProperties DEF FoundInv
<1>10. /\ n \in Nat /\ DOMAIN entries = 1..n /\ entries \in Seq(Entry)
       /\ \A i \in 1..n : entries[i] \in Entry /\ Sound(entries[i])
  BY EntryFacts DEF FoundInv
<1>11. /\ \A i, j \in DOMAIN entries' : SameObject(entries'[i], entries'[j]) => i = j
       /\ \A i \in DOMAIN entries' : Sound(entries'[i]) /\ entries'[i] \in Entry
  BY <1>1, <1>9, ElementOfSeq DEF IInv, TypeOK, TablesInv, SameObject, Sound, RowsFit
<1>12. \A e : Current(e)' <=> Current(e)
  BY <1>1 DEF Current
<1>. HIDE DEF n, m
<1>13. ASSUME Current(r) PROVE Retained' /\ Present'
  <2>1. h \notin Stale
    BY <1>1, <1>6, <1>13 DEF Stale
  <2>2. ASSUME NEW i \in 1..m, Current(entries'[i]) PROVE i = m
    <3>1. entries'[i] = r
      BY <1>2, <1>5, <1>9, <1>11, <1>13, <2>2, CurrentIsOne
    <3> QED BY <1>9, <1>11, <3>1 DEF SameObject
  <2>3. \A i \in 1..m : Current(entries'[i]) =>
           m - i + Cardinality(Stale') < Cardinality(Handlers)
    BY <1>7, <1>8, <1>9, <2>1, <2>2
  <2> QED BY <1>9, <1>12, <1>13, <2>3 DEF Retained, Present, m, Current
<1>14. ASSUME ~Current(r), NEW i \in 1..n, Current(entries[i])
       PROVE  \E j \in 1..m : /\ entries'[j] = entries[i]
                              /\ m - j + Cardinality(Stale') < Cardinality(Handlers)
  <2>1. h \in Stale
    BY <1>1, <1>6, <1>14 DEF Stale
  <2>2. n - i + Cardinality(Stale) < Cardinality(Handlers)
    BY <1>10, <1>14 DEF FoundInv, Retained, n
  <2>3. ~SameObject(entries[i], r)
    <3>1. ASSUME SameObject(entries[i], r) PROVE Current(r)
      <4>1. entries[i].rows = r.rows /\ entries[i].signature = r.signature
        BY <3>1 DEF SameObject
      <4> QED BY <1>14, <4>1 DEF Current
    <3> QED BY <1>14, <3>1
  <2>4. n - i + 1 < Capacity
    BY <1>7, <1>8, <1>10, <2>1, <2>2
  <2>5. PICK j \in 1..m : entries'[j] = entries[i] /\ m - j <= n - i + 1
    BY <1>9, <2>3, <2>4
  <2>6. m - j + Cardinality(Stale') < Cardinality(Handlers)
    BY <1>7, <1>8, <1>9, <1>10, <2>1, <2>2, <2>5
  <2> QED BY <2>5, <2>6
<1>15. ASSUME ~Current(r) PROVE Retained' /\ (Present => Present')
  <2>1. ASSUME NEW j \in 1..m, Current(entries'[j])
        PROVE  m - j + Cardinality(Stale') < Cardinality(Handlers)
    <3>1. entries'[j] # r
      BY <1>15, <2>1
    <3>2. PICK i \in DOMAIN entries : entries'[j] = entries[i]
      BY <1>1, <1>2, <1>9, <3>1, Filing DEF FoundInv, IInv
    <3>3. PICK k \in 1..m : /\ entries'[k] = entries[i]
                            /\ m - k + Cardinality(Stale') < Cardinality(Handlers)
      BY <1>10, <1>14, <1>15, <2>1, <3>2
    <3>4. k = j
      BY <1>9, <1>11, <3>2, <3>3 DEF SameObject
    <3> QED BY <3>3, <3>4
  <2>2. ASSUME Present PROVE \E j \in 1..m : Current(entries'[j])
    <3>1. PICK i \in 1..n : Current(entries[i])
      BY <1>10, <2>2 DEF Present
    <3>2. PICK j \in 1..m : entries'[j] = entries[i]
      BY <1>14, <1>15, <3>1
    <3> QED BY <3>1, <3>2
  <2> QED BY <1>9, <1>12, <2>1, <2>2 DEF Retained, Present, m, Current
<1>16. Retained' /\ (Present => Present')
  BY <1>13, <1>15
<1>17. Received'
  <2>1. ASSUME store = "points" PROVE r.rows <= receipt
    BY <1>2, <2>1 DEF Chases
  <2>2. ASSUME store = "points", NEW i \in DOMAIN entries' PROVE entries'[i].rows <= receipt
    <3>1. entries'[i] = r \/ \E j \in DOMAIN entries : entries'[i] = entries[j]
      BY <1>1, <1>2, <2>2, Filing DEF FoundInv, IInv
    <3> QED BY <2>1, <2>2, <3>1 DEF FoundInv, Received
  <2>3. ASSUME store = "points", NEW e \in issued' PROVE e.rows <= receipt
    BY <1>1, <2>1, <2>3 DEF FoundInv, Received
  <2> QED BY <1>1, <2>2, <2>3 DEF Received
<1>18. ASSUME Current(wanted) PROVE Current(r)
  <2>1. wanted \in Entry /\ wanted # Blank /\ wanted.signature = file
    <3>1. Blank.signature # file
      BY EntryFacts, PinnedAssumption DEF Blank, Generations, FoundInv
    <3>2. wanted # Blank
      BY <1>18, <3>1 DEF Current
    <3> QED BY <1>2, <1>18, <3>2 DEF Current
  <2>2. r.signature = file
    <3>1. r.signature >= wanted.signature
      BY <1>2, <2>1 DEF Chases, Scanning
    <3> QED BY <1>5, <2>1, <3>1
  <2>3. ASSUME store = "points" PROVE r.rows = receipt
    <3>1. wanted.rows = receipt /\ wanted.rows <= r.rows /\ r.rows <= receipt
      BY <1>2, <1>18, <2>3 DEF Chases, Current
    <3> QED BY <1>5, <3>1
  <2> QED BY <2>2, <2>3 DEF Current
<1>19. Chasing'
  <2>1. \A g \in Handlers : handler'[g] = IF g = h THEN w ELSE handler[g]
    BY <1>1, <1>2
  <2>2. ASSUME NEW g \in Handlers, g # h
        PROVE  Chases(handler[g].at, handler[g].record, handler[g].wanted)'
    <3>1. handler'[g] = handler[g]
      BY <2>1, <2>2
    <3> QED BY <1>1, <1>12, <1>16, <3>1 DEF FoundInv, Chasing, Chases
  <2>3. Chases(handler[h].at, handler[h].record, handler[h].wanted)'
    <3>1. handler'[h] = w
      BY <2>1
    <3>2. CASE w = NoWork
      <4>1. w.at = "idle" /\ w.wanted = Blank /\ Blank.rows = 0 /\ 0 <= receipt
        BY <1>5, <3>2 DEF NoWork, Blank
      <4> QED BY <1>1, <3>1, <4>1 DEF Chases, Scanning
    <3>3. CASE w # NoWork
      <4>1. w.wanted = wanted /\ w.at \in {"find again", "idle"}
        BY <1>3, <3>3
      <4>2. Current(wanted) => Present'
        BY <1>13, <1>18
      <4> QED BY <1>1, <1>2, <1>12, <3>1, <4>1, <4>2 DEF Chases, Scanning
    <3> QED BY <3>2, <3>3
  <2> QED BY <2>2, <2>3 DEF Chasing
<1> QED BY <1>16, <1>17, <1>19 DEF FoundInv
-----------------------------------------------------------------------------
(* What is known of the handler that makes a step.                         *)
LEMMA ChaseFacts ==
  ASSUME FoundInv, NEW h \in Handlers
  PROVE  LET a == handler[h].at
             r == handler[h].record
             e == handler[h].wanted
         IN /\ handler[h] \in Work /\ r \in Partial /\ e \in Entry \cup {Blank}
            /\ ScanFits(a, r) /\ TransferFits(a, e, handler[h].began) /\ Chases(a, r, e)
            /\ e # Blank => e \in Entry /\ Sound(e) /\ e.signature <= file
            /\ Current(e) => e # Blank
            /\ e.signature \in Nat /\ e.rows \in Nat /\ e.bytes \in Nat
            /\ r.signature \in Nat /\ r.rows \in Nat
            /\ file \in Nat /\ receipt \in Nat
<1>. DEFINE e == handler[h].wanted
<1>1. /\ handler[h] \in Work /\ handler[h].record \in Partial /\ e \in Entry \cup {Blank}
      /\ ScanFits(handler[h].at, handler[h].record)
      /\ TransferFits(handler[h].at, e, handler[h].began)
      /\ Chases(handler[h].at, handler[h].record, e)
  BY Facts DEF FoundInv, Chasing
<1>2. e # Blank => e \in Entry /\ Sound(e) /\ e.signature <= file
  BY <1>1 DEF TransferFits, Sound
<1>3. file \in Nat /\ receipt \in Nat /\ file # 0
  BY EntryFacts, PinnedAssumption DEF FoundInv, Generations
<1>4. Current(e) => e # Blank
  BY <1>3 DEF Current, Blank
<1>5. e \in Partial /\ MaxGeneration \in Nat
  BY <1>1, EntryTypes, PinnedAssumption
<1>6. /\ e.signature \in Nat /\ e.rows \in Nat /\ e.bytes \in Nat
      /\ handler[h].record.signature \in Nat /\ handler[h].record.rows \in Nat
  BY <1>1, <1>5 DEF Partial
<1> QED BY <1>1, <1>2, <1>3, <1>4, <1>6

(* A step of a scan.                                                       *)
LEMMA ScanChases ==
  ASSUME RoomForAll, FoundInv, IInv', NEW h \in Handlers, NEW at, NEW r,
         handler' = [handler EXCEPT ![h] = [handler[h] EXCEPT !.at = at, !.record = r]],
         UNCHANGED <<file, entries, issued, store, receipt>>,
         Late(at, r) => Late(handler[h].at, handler[h].record),
         Chases(at, r, handler[h].wanted)
  PROVE  FoundInv'
<1>. DEFINE w == [handler[h] EXCEPT !.at = at, !.record = r]
<1>1. w.at = at /\ w.record = r /\ w.wanted = handler[h].wanted
  BY ChaseFacts DEF Work
<1>. HIDE DEF w
<1> QED BY <1>1, Steady DEF w

LEMMA AskManifestFound ==
  ASSUME RoomForAll, FoundInv, IInv', NEW h \in Handlers, AskManifest(h) PROVE FoundInv'
<1>. DEFINE r == handler[h].record
<1>1. handler' = [handler EXCEPT ![h] = [handler[h] EXCEPT !.at = "stat", !.record = r]]
  BY ChaseFacts DEF AskManifest, Work
<1>2. ~Late("stat", r) /\ Chases("stat", r, handler[h].wanted)
  BY ChaseFacts DEF Late, Chases, Scanning
<1> QED BY <1>1, <1>2, ScanChases DEF AskManifest

LEMMA StatFound ==
  ASSUME RoomForAll, FoundInv, IInv', NEW h \in Handlers, Stat(h) PROVE FoundInv'
<1>. DEFINE r == [handler[h].record EXCEPT !.signature = file]
            at == IF store = "points" THEN "receipt" ELSE "lookup"
<1>1. handler' = [handler EXCEPT ![h] = [handler[h] EXCEPT !.at = at, !.record = r]]
  BY ChaseFacts DEF Stat, Work
<1>2. r.signature = file
  BY ChaseFacts DEF Partial
<1>3. at \in {"receipt", "lookup"}
  OBVIOUS
<1>. HIDE DEF r, at
<1>4. ~Late(at, r)
  BY <1>2, <1>3 DEF Late
<1>5. Chases(at, r, handler[h].wanted)
  BY <1>2, <1>3, ChaseFacts DEF Chases
<1> QED BY <1>1, <1>4, <1>5, ScanChases DEF Stat

LEMMA LookupFound ==
  ASSUME RoomForAll, FoundInv, IInv', NEW h \in Handlers, Lookup(h) PROVE FoundInv'
<1>. DEFINE r == handler[h].record
            e == handler[h].wanted
            n == IF Known(h) THEN scanned ELSE r
            at == IF Known(h) THEN "register" ELSE "footer"
<1>1. handler' = [handler EXCEPT ![h] = [handler[h] EXCEPT !.at = at, !.record = n]]
  BY ChaseFacts DEF Lookup, Work
<1>2. handler[h].at = "lookup" /\ store # "points" /\ Chases("lookup", r, e)
  BY ChaseFacts DEF Lookup, ScanFits
<1>3. n.signature = r.signature /\ at \in {"register", "footer"}
  BY DEF Known
<1>. HIDE DEF n, at
<1>4. Late(at, n) => Late("lookup", r)
  BY <1>2, <1>3 DEF Late, Scanning
<1>5. Chases(at, n, e)
  BY <1>2, <1>3 DEF Chases, Scanning
<1> QED BY <1>1, <1>2, <1>4, <1>5, ScanChases DEF Lookup

LEMMA InspectFound ==
  ASSUME RoomForAll, FoundInv, IInv', NEW h \in Handlers,
         InspectFooter(h) \/ InspectSize(h) \/ StoreInfo(h)
  PROVE  FoundInv'
<1>. DEFINE r == handler[h].record
            e == handler[h].wanted
            a == handler[h].at
            n == CASE a = "footer" -> [r EXCEPT !.rows = file]
                   [] a = "size" -> [r EXCEPT !.bytes = file]
                   [] a = "store" -> r
            at == CASE a = "footer" -> "size"
                    [] a = "size" -> "store"
                    [] a = "store" -> "register"
<1>1. /\ a \in {"footer", "size", "store"} /\ a \in Scanning
      /\ UNCHANGED <<file, entries, issued, store, receipt>>
  BY DEF InspectFooter, InspectSize, StoreInfo, Scanning
<1>2. handler' = [handler EXCEPT ![h] = [handler[h] EXCEPT !.at = at, !.record = n]]
  <2>1. CASE InspectFooter(h)
    BY <2>1, ChaseFacts DEF InspectFooter, Work
  <2>2. CASE InspectSize(h)
    BY <2>2, ChaseFacts DEF InspectSize, Work
  <2>3. CASE StoreInfo(h)
    BY <2>3, ChaseFacts DEF StoreInfo, Signed, Work
  <2> QED BY <2>1, <2>2, <2>3
<1>3. store # "points" /\ Chases(a, r, e)
  BY <1>1, ChaseFacts DEF ScanFits
<1>4. n.signature = r.signature /\ at \in {"size", "store", "register"}
  BY <1>1, ChaseFacts DEF Partial
<1>. HIDE DEF n, at, a
<1>5. Late(at, n) => Late(a, r)
  BY <1>1, <1>3, <1>4 DEF Late
<1>6. Chases(at, n, e)
  BY <1>1, <1>3, <1>4 DEF Chases, Scanning
<1> QED BY <1>1, <1>2, <1>5, <1>6, ScanChases DEF a

LEMMA ReadReceiptFound ==
  ASSUME RoomForAll, FoundInv, IInv', NEW h \in Handlers, ReadReceipt(h) PROVE FoundInv'
<1>. DEFINE q == handler[h].record
            e == handler[h].wanted
            n == [q EXCEPT !.rows = receipt, !.bytes = q.signature]
<1>1. /\ handler[h].at = "receipt" /\ store = "points" /\ q.signature <= file
      /\ Chases("receipt", q, e) /\ e.rows <= receipt
      /\ e # Blank => q.signature >= e.signature
  BY ChaseFacts DEF ReadReceipt, ScanFits, Chases, Scanning
<1>2. CASE receipt # 0 /\ Size[receipt] = Size[q.signature]
  <2>1. handler' = [handler EXCEPT ![h] = [handler[h] EXCEPT !.at = "recheck", !.record = n]]
    BY <1>2, ChaseFacts DEF ReadReceipt, Work
  <2>2. n.rows = receipt /\ n.signature = q.signature
    BY ChaseFacts DEF Partial
  <2>. HIDE DEF n
  <2>3. Late("recheck", n) => Late("receipt", q)
    BY <2>2 DEF Late, Scanning
  <2>4. Chases("recheck", n, e)
    <3>1. receipt \in Nat /\ receipt <= receipt
      BY ChaseFacts
    <3> QED BY <1>1, <2>2, <3>1 DEF Chases, Scanning
  <2> QED BY <1>1, <2>1, <2>3, <2>4, ScanChases DEF ReadReceipt
<1>3. CASE ~(receipt # 0 /\ Size[receipt] = Size[q.signature])
  <2>1. handler' = [handler EXCEPT ![h] = [handler[h] EXCEPT !.at = "refused", !.record = q]]
    BY <1>3, ChaseFacts DEF ReadReceipt, Work
  <2>2. ~Late("refused", q)
    BY DEF Late, Scanning
  <2>3. ~Current(e)
    <3>1. SUFFICES ASSUME Current(e) PROVE FALSE
      OBVIOUS
    <3>2. e \in Entry /\ Sound(e) /\ e.signature = file /\ e.rows = receipt /\ e # Blank
      BY <1>1, <3>1, ChaseFacts DEF Current
    <3>3. q.signature = file
      BY <1>1, <3>2, ChaseFacts
    <3>4. Size[receipt] = Size[q.signature]
      BY <1>1, <3>2, <3>3 DEF Sound, RowsFit
    <3>5. receipt # 0
      BY <3>2, PinnedAssumption DEF Entry, Generations
    <3> QED BY <1>3, <3>4, <3>5
  <2>4. Chases("refused", q, e)
    BY <1>1, <2>3 DEF Chases, Scanning
  <2> QED BY <2>1, <2>2, <2>4, ScanChases DEF ReadReceipt
<1> QED BY <1>2, <1>3

LEMMA RecheckFound ==
  ASSUME RoomForAll, FoundInv, IInv', NEW h \in Handlers, Recheck(h) PROVE FoundInv'
<1>. DEFINE r == handler[h].record
            e == handler[h].wanted
            at == IF r.signature = file THEN "register" ELSE "refused"
<1>1. handler' = [handler EXCEPT ![h] = [handler[h] EXCEPT !.at = at, !.record = r]]
  BY ChaseFacts DEF Recheck, Work
<1>2. /\ handler[h].at = "recheck" /\ Chases("recheck", r, e)
      /\ e # Blank => r.signature >= e.signature
      /\ r.signature <= file
  BY ChaseFacts DEF Recheck, ScanFits, Sound, Chases, Scanning
<1>3. Late(at, r) => Late("recheck", r)
  BY DEF Late, Scanning
<1>4. at = "refused" => ~Current(e)
  BY <1>2, ChaseFacts DEF Current
<1>5. at \in {"register", "refused"}
  OBVIOUS
<1>. HIDE DEF at
<1>6. Chases(at, r, e)
  BY <1>2, <1>4, <1>5 DEF Chases, Scanning
<1> QED BY <1>1, <1>2, <1>3, <1>6, ScanChases DEF Recheck
-----------------------------------------------------------------------------
(* A step of a transfer that leaves the scan.                              *)
LEMMA TransferChases ==
  ASSUME RoomForAll, FoundInv, IInv', NEW h \in Handlers, NEW w,
         handler' = [handler EXCEPT ![h] = w],
         UNCHANGED <<file, entries, issued, store, receipt>>,
         w.at \notin Scanning,
         store = "points" => w.wanted.rows <= receipt,
         w.at \in {"find again", "selected", "materialize"} /\ Current(w.wanted) => Present,
         w.at = "refused" => ~Current(w.wanted)
  PROVE  FoundInv'
<1>1. ~Late(w.at, w.record)
  BY DEF Late, Scanning
<1>2. Chases(w.at, w.record, w.wanted)
  BY DEF Chases, Scanning
<1> QED BY <1>1, <1>2, Steady

LEMMA AskTransferFound ==
  ASSUME RoomForAll, FoundInv, IInv', NEW h \in Handlers, AskTransfer(h) PROVE FoundInv'
<1>1. PICK e \in issued :
        handler' = [handler EXCEPT ![h].at = "find", ![h].wanted = e, ![h].began = file]
  BY DEF AskTransfer
<1>. DEFINE w == [handler[h] EXCEPT !.at = "find", !.wanted = e, !.began = file]
<1>2. handler' = [handler EXCEPT ![h] = w]
  BY <1>1, ChaseFacts DEF Work
<1>3. w.at = "find" /\ w.wanted = e
  BY ChaseFacts DEF Work
<1>. HIDE DEF w
<1>4. store = "points" => e.rows <= receipt
  BY DEF FoundInv, Received
<1> QED BY <1>2, <1>3, <1>4, TransferChases DEF AskTransfer, Scanning

(* The current entry, if it is wanted, is the one that is there.           *)
LEMMA WantedIsPresent ==
  ASSUME FoundInv, NEW h \in Handlers, Current(handler[h].wanted), Present
  PROVE  \E i \in DOMAIN entries : entries[i] = handler[h].wanted
<1>1. PICK i \in DOMAIN entries : Current(entries[i])
  BY DEF Present
<1>2. entries[i] \in Entry /\ Sound(entries[i])
  BY EntryFacts DEF FoundInv
<1>3. handler[h].wanted \in Entry /\ Sound(handler[h].wanted) /\ file \in Nat
  BY ChaseFacts
<1> QED BY <1>1, <1>2, <1>3, CurrentIsOne

LEMMA FindFound ==
  ASSUME RoomForAll, FoundInv, IInv', NEW h \in Handlers, Find(h) PROVE FoundInv'
<1>. DEFINE e == handler[h].wanted
<1>0. Chases(handler[h].at, handler[h].record, e) /\ handler[h].at \in {"find", "find again"}
  BY ChaseFacts DEF Find
<1>1. ASSUME NEW i \in Saved(e),
             handler' = [handler EXCEPT ![h].at = "selected", ![h].wanted = entries[i]]
      PROVE  FoundInv'
  <2>. DEFINE w == [handler[h] EXCEPT !.at = "selected", !.wanted = entries[i]]
  <2>1. handler' = [handler EXCEPT ![h] = w]
    BY <1>1, ChaseFacts DEF Work
  <2>2. w.at = "selected" /\ w.wanted = entries[i]
    BY ChaseFacts DEF Work
  <2>. HIDE DEF w
  <2>3. i \in DOMAIN entries
    BY DEF Saved
  <2>4. store = "points" => entries[i].rows <= receipt
    BY <2>3 DEF FoundInv, Received
  <2>5. Current(entries[i]) => Present
    BY <2>3 DEF Present
  <2> QED BY <2>1, <2>2, <2>4, <2>5, TransferChases DEF Find, Scanning
<1>2. ASSUME Saved(e) = {},
             handler' = [handler EXCEPT ![h].at = IF GivesUp(h) THEN "refused" ELSE "stat"]
      PROVE  FoundInv'
  <2>. DEFINE at == IF GivesUp(h) THEN "refused" ELSE "stat"
              w == [handler[h] EXCEPT !.at = at]
  <2>1. handler' = [handler EXCEPT ![h] = w]
    BY <1>2
  <2>2. w.at = at /\ w.wanted = e
    BY ChaseFacts DEF Work
  <2>3. at = "refused" => ~Current(e)
    <3>1. SUFFICES ASSUME at = "refused", Current(e) PROVE FALSE
      OBVIOUS
    <3>2. Present
      BY <1>0, <3>1 DEF GivesUp, Chases
    <3>3. PICK i \in DOMAIN entries : entries[i] = e
      BY <3>1, <3>2, WantedIsPresent
    <3> QED BY <1>2, <3>3 DEF Saved, SameObject
  <2>4. at \in {"refused", "stat"}
    OBVIOUS
  <2>. HIDE DEF at, w
  <2>5. store = "points" => e.rows <= receipt
    BY <1>0 DEF Chases
  <2> QED BY <2>1, <2>2, <2>3, <2>4, <2>5, TransferChases DEF Find, Scanning
<1> QED BY <1>1, <1>2 DEF Find

(* The checks of a transfer and its sending refuse no current entry.       *)
LEMMA ChecksFound ==
  ASSUME RoomForAll, FoundInv, IInv', NEW h \in Handlers,
         Select(h) \/ Materialize(h) \/ CheckSize(h) \/ Send(h)
  PROVE  FoundInv'
<1>. DEFINE e == handler[h].wanted
            a == handler[h].at
            w == handler'[h]
<1>1. /\ a \in {"selected", "materialize", "check size", "queued"}
      /\ UNCHANGED <<file, entries, issued, store, receipt>>
  BY DEF Select, Materialize, CheckSize, Send
<1>2. Chases(a, handler[h].record, e) /\ handler \in [Handlers -> Work]
  BY ChaseFacts DEF FoundInv, IInv, TypeOK, Work
<1>3. handler' = [handler EXCEPT ![h] = w] /\ w.wanted = e
  BY <1>2 DEF Select, Materialize, CheckSize, Send, Work
<1>4. w.at \in {"materialize", "check size", "queued", "sent", "refused"}
  BY <1>2 DEF Select, Materialize, CheckSize, Send, Work
<1>5. ASSUME Current(e), a \in {"selected", "materialize"} PROVE StillPinned(h)
  <2>1. Present
    BY <1>2, <1>5 DEF Chases
  <2> QED BY <1>5, <2>1, WantedIsPresent DEF StillPinned, Remembered, Current
<1>6. w.at = "materialize" => a = "selected"
  BY <1>2 DEF Select, Materialize, CheckSize, Send, Work
<1>7. ASSUME w.at = "refused", Current(e) PROVE FALSE
  <2>1. CASE Select(h) \/ Materialize(h)
    <3>1. StillPinned(h)
      BY <1>5, <1>7, <2>1 DEF Select, Materialize
    <3> QED BY <1>2, <1>7, <2>1, <3>1 DEF Select, Materialize, Work
  <2>2. CASE CheckSize(h) \/ Send(h)
    <3>1. e.bytes = e.signature /\ e.signature = file
      BY <1>7, <2>2, ChaseFacts
      DEF CheckSize, Send, TransferFits, Admitting, Whole, Current
    <3>2. Size[file] \in Nat
      BY EntryFacts, PinnedAssumption DEF FoundInv
    <3>3. Size[file] = Size[e.bytes] /\ Size[file] >= Size[e.bytes]
      BY <3>1, <3>2
    <3>4. CASE CheckSize(h)
      BY <1>2, <1>7, <3>3, <3>4 DEF CheckSize, Work
    <3>5. CASE Send(h)
      BY <1>2, <1>7, <3>3, <3>5 DEF Send, Work
    <3> QED BY <2>2, <3>4, <3>5
  <2> QED BY <1>1, <2>1, <2>2
<1>8. w.at \in {"find again", "selected", "materialize"} /\ Current(e) => Present
  BY <1>2, <1>4, <1>6 DEF Chases
<1>9. store = "points" => e.rows <= receipt
  BY <1>2 DEF Chases
<1>. HIDE DEF w
<1> QED BY <1>1, <1>3, <1>4, <1>7, <1>8, <1>9, TransferChases DEF Scanning

LEMMA FinishFound ==
  ASSUME RoomForAll, FoundInv, IInv', NEW h \in Handlers, Finish(h) PROVE FoundInv'
<1>1. /\ NoWork.at = "idle" /\ NoWork.wanted = Blank /\ Blank.rows = 0
      /\ 0 <= receipt
  BY ChaseFacts DEF NoWork, Blank
<1>2. handler' = [handler EXCEPT ![h] = NoWork]
  BY DEF Finish
<1> QED BY <1>1, <1>2, TransferChases DEF Finish, Scanning
-----------------------------------------------------------------------------
(* A producer makes everything that is filed or wanted out of date.        *)
LEMMA ProducersFound ==
  ASSUME RoomForAll, FoundInv, IInv', Replace \/ ReplaceReceipt PROVE FoundInv'
<1>1. /\ file \in Nat /\ receipt \in Nat
      /\ \A i \in DOMAIN entries : entries[i] \in Entry /\ Sound(entries[i])
      /\ \A e \in Entry : e.signature \in Nat /\ e.rows \in Nat
  BY EntryFacts, EntryTypes DEF FoundInv, Entry
<1>2. /\ UNCHANGED <<entries, issued, handler, store>>
      /\ \/ file' = file + 1 /\ receipt' = receipt
         \/ store = "points" /\ receipt' = receipt + 1 /\ file' = file
  BY DEF Replace, ReplaceReceipt
<1>3. ASSUME NEW e, e.signature \in Nat, e.rows \in Nat, e.signature <= file,
             store = "points" => e.rows <= receipt
      PROVE  ~Current(e)'
  BY <1>1, <1>2, <1>3 DEF Current
<1>4. Received'
  <2>1. \A i \in DOMAIN entries : entries[i].rows \in Nat
    BY <1>1
  <2>2. \A e \in issued : e.rows \in Nat
    BY <1>1 DEF FoundInv, IInv, TypeOK
  <2> QED BY <1>1, <1>2, <2>1, <2>2 DEF FoundInv, Received
<1>5. ASSUME NEW i \in DOMAIN entries PROVE ~Current(entries[i])'
  <2>1. entries[i].signature <= file /\ (store = "points" => entries[i].rows <= receipt)
    BY <1>1 DEF Sound, FoundInv, Received
  <2> QED BY <1>1, <1>2, <2>1 DEF Current
<1>6. Retained'
  BY <1>2, <1>5 DEF Retained, Current
<1>7. ASSUME NEW h \in Handlers
      PROVE  Chases(handler[h].at, handler[h].record, handler[h].wanted)'
  <2>. DEFINE e == handler[h].wanted
              r == handler[h].record
              a == handler[h].at
  <2>1. /\ Chases(a, r, e) /\ e.signature \in Nat /\ e.rows \in Nat /\ r.rows \in Nat
        /\ e # Blank => e.signature <= file
        /\ Blank.signature = 0 /\ 0 <= file
    BY <1>1, ChaseFacts DEF Blank
  <2>2. store = "points" => e.rows <= receipt
    BY <2>1 DEF Chases
  <2>3. e.signature <= file
    BY <2>1
  <2>4. ~Current(e)'
    BY <1>1, <1>2, <2>1, <2>2, <2>3 DEF Current
  <2>5. store = "points" => e.rows <= receipt'
    BY <1>1, <1>2, <2>1, <2>2
  <2>6. ASSUME store = "points", a \in {"recheck", "register"}
        PROVE  e.rows <= r.rows /\ r.rows <= receipt'
    <3>1. e.rows <= r.rows /\ r.rows <= receipt
      BY <2>1, <2>6 DEF Chases
    <3> QED BY <1>1, <1>2, <2>1, <3>1
  <2> QED BY <1>2, <2>1, <2>4, <2>5, <2>6 DEF Chases
<1> QED BY <1>4, <1>6, <1>7 DEF FoundInv, Chasing

LEMMA RestartFound == ASSUME RoomForAll, FoundInv, IInv', Restart PROVE FoundInv'
<1>1. /\ entries' = <<>> /\ DOMAIN <<>> = {} /\ UNCHANGED <<file, issued, store, receipt>>
      /\ \A h \in Handlers : handler'[h] = NoWork
  BY DEF Restart
<1>2. Retained' /\ Received'
  BY <1>1 DEF Retained, Received, FoundInv
<1>3. /\ NoWork.at = "idle" /\ NoWork.wanted = Blank /\ Blank.rows = 0
      /\ 0 <= receipt
  BY EntryFacts DEF NoWork, Blank, FoundInv
<1>4. Chasing'
  BY <1>1, <1>3 DEF Chasing, Chases, Scanning
<1> QED BY <1>2, <1>4 DEF FoundInv

LEMMA FoundStep ==
  ASSUME RoomForAll PROVE FoundInv /\ [Next]_vars => FoundInv'
<1>. SUFFICES ASSUME FoundInv, [Next]_vars PROVE FoundInv'
  OBVIOUS
<1>1. IInv'
  BY PinnedStep DEF FoundInv
<1>2. ASSUME NEW h \in Handlers, Scan(h) PROVE FoundInv'
  BY <1>1, <1>2, AskManifestFound, StatFound, LookupFound, InspectFound, ReadReceiptFound,
     RecheckFound, RegisterFound DEF Scan
<1>3. ASSUME NEW h \in Handlers, Transfer(h) PROVE FoundInv'
  BY <1>1, <1>3, AskTransferFound, FindFound, ChecksFound, FinishFound DEF Transfer
<1>4. CASE UNCHANGED vars
  BY <1>1, <1>4 DEF vars, FoundInv, Retained, Received, Chasing, Chases, Current, Present,
                    Stale, Late
<1> QED BY <1>1, <1>2, <1>3, <1>4, ProducersFound, RestartFound DEF Next

LEMMA FoundInit == Init => FoundInv
<1>. SUFFICES ASSUME Init PROVE FoundInv
  OBVIOUS
<1>1. entries = <<>> /\ DOMAIN <<>> = {} /\ issued = {} /\ receipt = 0
  BY DEF Init
<1>2. /\ \A h \in Handlers : handler[h] = NoWork
      /\ NoWork.at = "idle" /\ NoWork.wanted = Blank /\ Blank.rows = 0
  BY DEF Init, NoWork, Blank
<1>3. \A r : Chases("idle", r, Blank)
  BY <1>1, <1>2 DEF Chases, Scanning
<1>4. Chasing
  BY <1>2, <1>3 DEF Chasing
<1> QED BY <1>1, <1>4, PinnedInit DEF FoundInv, Retained, Received

(* A transfer that names the version in place is refused nowhere: not in   *)
(* selected_refs after its one scan of the directory, nor by path_for, nor *)
(* for its size, whatever other handlers register and however often the    *)
(* gateway is restarted, if its table has room for an entry of each.       *)
THEOREM CurrentPlansAreServed ==
  ASSUME RoomForAll
  PROVE  Spec => []CurrentPlanIsServed
<1>1. FoundInv => CurrentPlanIsServed
  <2>. SUFFICES ASSUME FoundInv, NEW h \in Handlers, handler[h].at = "refused"
                PROVE  \/ handler[h].wanted.signature < file
                       \/ store = "points" /\ handler[h].wanted.rows # receipt
    BY DEF CurrentPlanIsServed
  <2>. DEFINE e == handler[h].wanted
  <2>1. ~Current(e)
    BY ChaseFacts DEF Chases
  <2>2. e.signature \in Nat /\ file \in Nat /\ file # 0
    BY ChaseFacts, EntryFacts, PinnedAssumption DEF Generations, FoundInv
  <2>3. CASE e = Blank
    BY <2>2, <2>3 DEF Blank
  <2>4. CASE e # Blank
    <3>1. e.signature <= file
      BY <2>4, ChaseFacts
    <3> QED BY <2>1, <2>2, <3>1 DEF Current
  <2> QED BY <2>3, <2>4
<1>2. FoundInv /\ [Next]_vars => FoundInv'
  BY FoundStep
<1> QED BY <1>1, <1>2, FoundInit, PTL DEF Spec
=============================================================================
