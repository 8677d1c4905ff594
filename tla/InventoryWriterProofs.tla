------------------------ MODULE InventoryWriterProofs ------------------------
(***************************************************************************)
(* Proofs about InventoryWriter for every set of types, regions, ids and   *)
(* sources, and for every number of entries.                               *)
(***************************************************************************)
EXTENDS InventoryWriter, FiniteSetTheorems, TLAPS

(* Any call of the writer's interface, in a larger system or in WriterNext. *)
AnyCall == SomeAddResource \/ SomeAddEdge \/ SomeAddError \/ WriteStep

LEMMA NextIsCall == [WriterNext]_writerVars => [AnyCall]_writerVars
  BY DEF WriterNext, AnyCall

(* A defaultdict that counts some types counts some types after one more. *)
Totals == UNION {[types -> Nat] : types \in SUBSET ResourceTypes}

LEMMA OneMoreType ==
    ASSUME NEW totals \in Totals, NEW type \in ResourceTypes
    PROVE  /\ OneMore(totals, type) \in Totals
           /\ DOMAIN OneMore(totals, type) = DOMAIN totals \cup {type}
<1>1. PICK types \in SUBSET ResourceTypes : totals \in [types -> Nat]
  BY DEF Totals
<1>2. DOMAIN OneMore(totals, type) = types \cup {type}
  BY <1>1 DEF OneMore
<1>3. OneMore(totals, type) \in [types \cup {type} -> Nat]
  BY <1>1 DEF OneMore, Count
<1>4. types \cup {type} \in SUBSET ResourceTypes
  OBVIOUS
<1> QED BY <1>1, <1>2, <1>3, <1>4 DEF Totals

LEMMA CountType ==
    ASSUME NEW totals \in Totals, NEW type
    PROVE  Count(totals, type) \in Nat
  BY DEF Totals, Count

LEMMA CountsAsTotals ==
    counts \in Totals <=> \E types \in SUBSET ResourceTypes : counts \in [types -> Nat]
  BY DEF Totals

(* Each action of the writer keeps each list a list of its kind of entry. *)
LEMMA InitTypeOK == WriterInit => WriterTypeOK
<1> SUFFICES ASSUME WriterInit PROVE WriterTypeOK
  OBVIOUS
<1>1. counts \in [{} -> Nat] /\ {} \in SUBSET ResourceTypes
  BY DEF WriterInit
<1>2. \E types \in SUBSET ResourceTypes : counts \in [types -> Nat]
  BY <1>1
<1> QED BY <1>2 DEF WriterInit, WriterTypeOK

LEMMA AddResourceTypeOK ==
    ASSUME WriterTypeOK, NEW t \in ResourceTypes, NEW r \in Regions,
           NEW i \in ResourceIds, NEW k \in Intent, AddResource(t, r, i, k)
    PROVE  WriterTypeOK'
<1>1. k.full \in BOOLEAN /\ k.checks \in SUBSET CheckIds
  BY DEF Intent
<1>2. [type |-> t, region |-> r, id |-> i, checks |-> k.checks] \in Record
  BY <1>1 DEF Record
<1>3. [type |-> t, region |-> r, id |-> i, full |-> k.full, checks |-> k.checks]
          \in Suppression
  BY <1>1 DEF Suppression
<1>4. tagSuppressions' \in Seq(Suppression)
  <2> DEFINE s == [type |-> t, region |-> r, id |-> i, full |-> k.full,
                   checks |-> k.checks]
  <2>1. Append(tagSuppressions, s) \in Seq(Suppression)
    <3> HIDE DEF s
    <3> QED BY <1>3 DEF WriterTypeOK, s
  <2> QED BY <2>1 DEF AddResource, WriterTypeOK
<1>5. records' \in Seq(Record)
  <2> DEFINE rec == [type |-> t, region |-> r, id |-> i, checks |-> k.checks]
  <2>1. rec \in Record BY <1>2
  <2>2. Append(records, rec) \in Seq(Record)
    <3> HIDE DEF rec
    <3> QED BY <2>1 DEF WriterTypeOK
  <2> QED BY <2>2 DEF AddResource, WriterTypeOK
<1>6. \E types \in SUBSET ResourceTypes : counts' \in [types -> Nat]
  <2>1. counts \in Totals
    BY CountsAsTotals DEF WriterTypeOK
  <2>2. counts' = OneMore(counts, t) \/ counts' = counts
    BY DEF AddResource
  <2>3. counts' \in Totals
    BY <2>1, <2>2, OneMoreType
  <2> QED BY <2>3 DEF Totals
<1>7. regions' \in SUBSET Regions
  BY DEF AddResource, WriterTypeOK
<1> QED
  BY <1>4, <1>5, <1>6, <1>7 DEF AddResource, WriterTypeOK

LEMMA AddEdgeTypeOK ==
    ASSUME WriterTypeOK, NEW f \in Endpoint, NEW t \in Endpoint, AddEdge(f, t)
    PROVE  WriterTypeOK'
  BY DEF AddEdge, WriterTypeOK, Edge

LEMMA AddErrorTypeOK ==
    ASSUME WriterTypeOK, NEW r \in Regions, NEW s \in Sources, AddError(r, s)
    PROVE  WriterTypeOK'
  BY DEF AddError, WriterTypeOK, Error

LEMMA ManifestNowType == WriterTypeOK => ManifestNow \in Manifest
<1> SUFFICES ASSUME WriterTypeOK PROVE ManifestNow \in Manifest
  OBVIOUS
<1>1. [t \in ResourceTypes |-> Count(counts, t)] \in [ResourceTypes -> Nat]
  BY CountsAsTotals, CountType DEF WriterTypeOK
<1> QED BY <1>1 DEF WriterTypeOK, ManifestNow, Manifest

LEMMA LinesOfList ==
    ASSUME NEW kind, NEW S, NEW L, NEW list \in Seq(S),
           \A x \in S : [kind |-> kind, body |-> x] \in L
    PROVE  /\ LinesOf(kind, list) \in Seq(L)
           /\ Len(LinesOf(kind, list)) = Len(list)
<1>1. DOMAIN list = 1 .. Len(list) /\ Len(list) \in Nat
  OBVIOUS
<1>2. \A i \in 1 .. Len(list) : list[i] \in S
  OBVIOUS
<1>3. LinesOf(kind, list) \in [1 .. Len(list) -> L]
  BY <1>1, <1>2 DEF LinesOf
<1> QED BY <1>1, <1>3

LEMMA LinesOfType ==
    ASSUME WriterTypeOK
    PROVE  /\ LinesOf("resource", records) \in Seq(Line)
           /\ LinesOf("edge", edges) \in Seq(Line)
           /\ LinesOf("error", errors) \in Seq(Line)
<1>1. /\ \A x \in Record : [kind |-> "resource", body |-> x] \in Line
      /\ \A x \in Edge : [kind |-> "edge", body |-> x] \in Line
      /\ \A x \in Error : [kind |-> "error", body |-> x] \in Line
  BY DEF Line
<1>2. records \in Seq(Record) /\ edges \in Seq(Edge) /\ errors \in Seq(Error)
  BY DEF WriterTypeOK
<1> QED BY <1>1, <1>2, LinesOfList

LEMMA AllLinesType == WriterTypeOK => AllLines \in Seq(Line)
  BY LinesOfType DEF AllLines

(* A step of write() leaves the lists alone; what is at the path is a file. *)
LEMMA WriteStepTypeOK ==
    ASSUME WriterTypeOK, WriteStep
    PROVE  WriterTypeOK'
<1>1. UNCHANGED <<records, counts, regions, errors, tagSuppressions, edges>>
  BY DEF WriteStep, WriteOpen, WriteLine, WriteClose, WriteFail
<1>2. phase' \in {"gathering", "writing", "written", "failed"}
  BY DEF WriteStep, WriteOpen, WriteLine, WriteClose, WriteFail
<1>3. /\ file' \in {NoFile, StaleFile} \cup File
      /\ phase' \in {"writing", "written"} => file' \in File
  <2>1. CASE WriteOpen
    <3>1. <<>> \in Seq(Line) OBVIOUS
    <3>2. file' \in File
      BY <2>1, <3>1, ManifestNowType DEF WriteOpen, File
    <3> QED BY <3>2
  <2>2. CASE WriteLine
    <3>1. file \in File
      BY <2>2 DEF WriteLine, WriterTypeOK
    <3>2. file.lines \in Seq(Line) /\ Len(file.lines) \in Nat
      BY <3>1 DEF File
    <3>3. AllLines[Len(file.lines) + 1] \in Line
      BY <2>2, <3>2, AllLinesType DEF WriteLine
    <3>4. Append(file.lines, AllLines[Len(file.lines) + 1]) \in Seq(Line)
      BY <3>2, <3>3
    <3>5. file' \in File
      BY <2>2, <3>1, <3>4 DEF WriteLine, File
    <3> QED BY <3>5
  <2>3. CASE WriteClose
    <3>1. file \in File
      BY <2>3 DEF WriteClose, WriterTypeOK
    <3>2. PICK private \in BOOLEAN :
              file' = [file EXCEPT !.closed = TRUE, !.private = private]
      BY <2>3 DEF WriteClose
    <3>3. file' \in File
      BY <3>1, <3>2 DEF File
    <3> QED BY <3>3
  <2>4. CASE WriteFail
    <3>1. CASE phase = "writing"
      <4>1. file \in File
        BY <3>1 DEF WriterTypeOK
      <4>2. PICK closed \in BOOLEAN : file' = [file EXCEPT !.closed = closed]
        BY <2>4, <3>1 DEF WriteFail
      <4>3. file' \in File
        BY <4>1, <4>2 DEF File
      <4> QED BY <4>3, <2>4 DEF WriteFail
    <3>2. CASE phase # "writing"
      BY <2>4, <3>2 DEF WriteFail, WriterTypeOK
    <3> QED BY <3>1, <3>2
  <2> QED BY <2>1, <2>2, <2>3, <2>4 DEF WriteStep
<1> QED BY <1>1, <1>2, <1>3 DEF WriterTypeOK

LEMMA CallTypeOK ==
    ASSUME WriterTypeOK, [AnyCall]_writerVars
    PROVE  WriterTypeOK'
<1>1. CASE SomeAddResource
  BY <1>1, AddResourceTypeOK DEF SomeAddResource
<1>2. CASE SomeAddEdge
  BY <1>2, AddEdgeTypeOK DEF SomeAddEdge
<1>3. CASE SomeAddError
  BY <1>3, AddErrorTypeOK DEF SomeAddError
<1>4. CASE WriteStep
  BY <1>4, WriteStepTypeOK
<1>5. CASE UNCHANGED writerVars
  BY <1>5 DEF writerVars, WriterTypeOK
<1> QED BY <1>1, <1>2, <1>3, <1>4, <1>5 DEF AnyCall

(* The lists of an InventoryWriter (output.py) hold entries of their kind in
   every reachable state, and the file, once open, starts with a manifest. *)
THEOREM WriterTypeCorrect == WriterSpec => []WriterTypeOK
<1>1. WriterTypeOK /\ [WriterNext]_writerVars => WriterTypeOK'
  BY CallTypeOK, NextIsCall
<1> QED BY <1>1, InitTypeOK, PTL DEF WriterSpec

-----------------------------------------------------------------------------
(* The totals.  One more record adds its own index, and no other, to the    *)
(* indices of its type.                                                     *)
OfType(recs, t) == {i \in DOMAIN recs : recs[i].type = t}

LEMMA OfTypeFinite ==
    ASSUME NEW S, NEW recs \in Seq(S), NEW t
    PROVE  IsFiniteSet(OfType(recs, t)) /\ Cardinality(OfType(recs, t)) \in Nat
<1>1. IsFiniteSet(1 .. Len(recs))
  BY FS_Interval
<1>2. OfType(recs, t) \subseteq 1 .. Len(recs)
  BY DEF OfType
<1> QED BY <1>1, <1>2, FS_Subset, FS_CardinalityType

LEMMA OfTypeAppend ==
    ASSUME NEW S, NEW recs \in Seq(S), NEW rec \in S, NEW t
    PROVE  Cardinality(OfType(Append(recs, rec), t)) =
               Cardinality(OfType(recs, t)) + (IF rec.type = t THEN 1 ELSE 0)
<1> DEFINE n == Len(recs) + 1
<1>1. n \notin OfType(recs, t)
  BY DEF OfType
<1>2. OfType(Append(recs, rec), t) =
          OfType(recs, t) \cup (IF rec.type = t THEN {n} ELSE {})
  BY DEF OfType
<1>3. CASE rec.type = t
  <2>1. OfType(Append(recs, rec), t) = OfType(recs, t) \cup {n}
    BY <1>2, <1>3
  <2> QED BY <2>1, <1>1, <1>3, OfTypeFinite, FS_AddElement
<1>4. CASE rec.type # t
  <2>1. OfType(Append(recs, rec), t) = OfType(recs, t)
    BY <1>2, <1>4
  <2> QED BY <2>1, <1>4, OfTypeFinite
<1> QED BY <1>3, <1>4

LEMMA TotalsAsCounts ==
    TotalsMatchRecords <=>
        /\ DOMAIN counts = {records[i].type : i \in DOMAIN records}
        /\ \A t \in DOMAIN counts : counts[t] = Cardinality(OfType(records, t))
        /\ regions = {records[i].region : i \in DOMAIN records} \ {NoRegion}
  BY DEF TotalsMatchRecords, IndicesOf, OfType

LEMMA InitTotals == WriterInit => TotalsMatchRecords
<1> SUFFICES ASSUME WriterInit PROVE TotalsMatchRecords
  OBVIOUS
<1>1. DOMAIN records = {} /\ DOMAIN counts = {} /\ regions = {}
  BY DEF WriterInit
<1> QED BY <1>1, TotalsAsCounts

LEMMA CountOfType ==
    ASSUME WriterTypeOK, TotalsMatchRecords, NEW t
    PROVE  Count(counts, t) = Cardinality(OfType(records, t))
<1>1. CASE t \in DOMAIN counts
  BY <1>1, TotalsAsCounts DEF Count
<1>2. CASE t \notin DOMAIN counts
  <2>1. OfType(records, t) = {}
    BY <1>2, TotalsAsCounts DEF OfType
  <2> QED BY <1>2, <2>1, FS_EmptySet DEF Count
<1> QED BY <1>1, <1>2

LEMMA AddResourceTotals ==
    ASSUME WriterTypeOK, TotalsMatchRecords,
           NEW type \in ResourceTypes, NEW region \in Regions,
           NEW id \in ResourceIds, NEW k \in Intent,
           AddResource(type, region, id, k)
    PROVE  TotalsMatchRecords'
<1>1. CASE Recorded(k)
  <2> DEFINE rec == [type |-> type, region |-> region, id |-> id, checks |-> k.checks]
  <2>1. rec \in Record /\ records \in Seq(Record)
    BY DEF Record, Intent, WriterTypeOK
  <2>2. /\ records' = Append(records, rec)
        /\ counts' = OneMore(counts, type)
        /\ regions' = regions \cup ({region} \ {NoRegion})
    BY <1>1 DEF AddResource
  <2>3. rec.type = type /\ rec.region = region
    OBVIOUS
  <2> HIDE DEF rec
  <2>4. counts \in Totals /\ DOMAIN counts' = DOMAIN counts \cup {type}
    BY <2>2, CountsAsTotals, OneMoreType DEF WriterTypeOK
  <2>5. \A t \in DOMAIN counts' : counts'[t] = Cardinality(OfType(records', t))
    <3> SUFFICES ASSUME NEW t \in DOMAIN counts'
                 PROVE  counts'[t] = Cardinality(OfType(records', t))
      OBVIOUS
    <3>1. Cardinality(OfType(records', t)) =
              Cardinality(OfType(records, t)) + (IF type = t THEN 1 ELSE 0)
      BY <2>1, <2>2, <2>3, OfTypeAppend
    <3>2. Count(counts, t) = Cardinality(OfType(records, t))
      BY CountOfType
    <3>3. counts'[t] = Count(counts, t) + (IF t = type THEN 1 ELSE 0)
      BY <2>2, <2>4 DEF OneMore
    <3> QED BY <3>1, <3>2, <3>3
  <2>6. DOMAIN counts' = {records'[i].type : i \in DOMAIN records'}
    <3>1. {records'[i].type : i \in DOMAIN records'} =
              {records[i].type : i \in DOMAIN records} \cup {type}
      BY <2>1, <2>2, <2>3
    <3> QED BY <3>1, <2>4, TotalsAsCounts
  <2>7. regions' = {records'[i].region : i \in DOMAIN records'} \ {NoRegion}
    <3>1. {records'[i].region : i \in DOMAIN records'} =
              {records[i].region : i \in DOMAIN records} \cup {region}
      BY <2>1, <2>2, <2>3
    <3> QED BY <3>1, <2>2, TotalsAsCounts
  <2> QED BY <2>5, <2>6, <2>7 DEF TotalsMatchRecords, IndicesOf, OfType
<1>2. CASE ~Recorded(k)
  <2>1. UNCHANGED <<records, counts, regions>>
    BY <1>2 DEF AddResource
  <2> QED BY <2>1 DEF TotalsMatchRecords, IndicesOf
<1> QED BY <1>1, <1>2

LEMMA CallTotals ==
    ASSUME WriterTypeOK, TotalsMatchRecords, [AnyCall]_writerVars
    PROVE  TotalsMatchRecords'
<1>1. CASE SomeAddResource
  BY <1>1, AddResourceTotals DEF SomeAddResource
<1>2. CASE ~SomeAddResource
  <2>1. UNCHANGED <<records, counts, regions>>
    BY <1>2 DEF AnyCall, SomeAddEdge, AddEdge, SomeAddError, AddError, WriteStep,
                WriteOpen, WriteLine, WriteClose, WriteFail, writerVars
  <2> QED BY <2>1 DEF TotalsMatchRecords, IndicesOf
<1> QED BY <1>1, <1>2

(* add_resource's running totals are those of the records kept, whatever calls
   are made and however many: the manifest cannot drift from the inventory. *)
THEOREM TotalsCorrect == WriterSpec => []TotalsMatchRecords
<1>1. WriterInit => WriterTypeOK /\ TotalsMatchRecords
  BY InitTypeOK, InitTotals
<1>2. WriterTypeOK /\ TotalsMatchRecords /\ [WriterNext]_writerVars
          => WriterTypeOK' /\ TotalsMatchRecords'
  BY CallTypeOK, CallTotals, NextIsCall
<1> QED BY <1>1, <1>2, PTL DEF WriterSpec

-----------------------------------------------------------------------------
(* write().  WrittenIsComplete says nothing of the steps before the last: the *)
(* invariant that carries it, and that makes a truncated file recognisable, is *)
(* that whatever this run wrote is a prefix of AllLines under a manifest that  *)
(* speaks of all of them.                                                      *)
FileInv ==
    /\ phase = "gathering" => file \in {NoFile, StaleFile}
    /\ phase = "writing" => ~file.closed
    /\ phase = "written" => file.closed /\ file.lines = AllLines
    /\ file \notin {NoFile, StaleFile} =>
           /\ file \in File
           /\ file.manifest = ManifestNow
           /\ file.lines = SubSeq(AllLines, 1, Len(file.lines))
           /\ Len(file.lines) <= Len(AllLines)

WriteInv == WriterTypeOK /\ FileInv

LEMMA ListsKept ==
    ASSUME WriteStep
    PROVE  AllLines' = AllLines /\ ManifestNow' = ManifestNow
  BY DEF WriteStep, WriteOpen, WriteLine, WriteClose, WriteFail, AllLines, LinesOf,
         ManifestNow, Count

LEMMA PrefixGrows ==
    ASSUME NEW S, NEW all \in Seq(S), NEW lines \in Seq(S),
           lines = SubSeq(all, 1, Len(lines)), Len(lines) < Len(all)
    PROVE  LET more == Append(lines, all[Len(lines) + 1])
           IN  more = SubSeq(all, 1, Len(more))
  OBVIOUS

LEMMA WriteStepInv ==
    ASSUME WriteInv, WriteStep
    PROVE  FileInv'
<1>1. AllLines \in Seq(Line) /\ AllLines' = AllLines /\ ManifestNow' = ManifestNow
  BY AllLinesType, ListsKept DEF WriteInv
<1>2. CASE WriteOpen
  <2>1. /\ file'.lines = <<>> /\ phase' = "writing" /\ file'.closed = FALSE
        /\ file'.manifest = ManifestNow
    BY <1>2 DEF WriteOpen
  <2>2. file' \in File
    <3>1. <<>> \in Seq(Line) OBVIOUS
    <3> QED BY <1>2, <3>1, ManifestNowType DEF WriteOpen, WriteInv, File
  <2> QED BY <2>1, <2>2, <1>1 DEF FileInv
<1>3. CASE WriteLine
  <2>1. file \in File /\ phase = "writing" /\ phase' = "writing"
    BY <1>3 DEF WriteLine, WriteInv, WriterTypeOK
  <2>2. file \notin {NoFile, StaleFile}
    BY <2>1, WriterAssumption
  <2>3. file.lines \in Seq(Line) /\ file.lines = SubSeq(AllLines, 1, Len(file.lines))
    BY <2>1, <2>2 DEF File, WriteInv, FileInv
  <2>4. /\ file'.lines = Append(file.lines, AllLines[Len(file.lines) + 1])
        /\ file'.closed = file.closed /\ file'.manifest = file.manifest
        /\ file' \in File
    <3>1. AllLines[Len(file.lines) + 1] \in Line
      BY <1>1, <1>3, <2>3 DEF WriteLine
    <3>2. Append(file.lines, AllLines[Len(file.lines) + 1]) \in Seq(Line)
      BY <2>3, <3>1
    <3> QED BY <1>3, <2>1, <3>2 DEF WriteLine, File
  <2>5. file'.lines = SubSeq(AllLines, 1, Len(file'.lines))
           /\ Len(file'.lines) <= Len(AllLines)
    BY <1>1, <1>3, <2>3, <2>4, PrefixGrows DEF WriteLine
  <2> QED BY <1>1, <2>1, <2>2, <2>4, <2>5 DEF WriteInv, FileInv
<1>4. CASE WriteClose
  <2>1. file \in File /\ phase = "writing" /\ phase' = "written"
    BY <1>4 DEF WriteClose, WriteInv, WriterTypeOK
  <2>2. file \notin {NoFile, StaleFile}
    BY <2>1, WriterAssumption
  <2>3. /\ file'.lines = file.lines /\ file'.closed = TRUE
        /\ file'.manifest = file.manifest /\ file' \in File
    BY <1>4, <2>1 DEF WriteClose, File
  <2>4. file.lines = SubSeq(AllLines, 1, Len(AllLines))
    BY <1>4, <2>1, <2>2 DEF WriteClose, WriteInv, FileInv
  <2>5. file.lines = AllLines
    BY <1>1, <2>4
  <2> QED BY <1>1, <2>1, <2>2, <2>3, <2>5 DEF WriteInv, FileInv
<1>5. CASE WriteFail
  <2>1. CASE phase = "gathering"
    BY <1>1, <1>5, <2>1 DEF WriteFail, WriteInv, FileInv
  <2>2. CASE phase = "writing"
    <3>1. file \in File
      BY <2>2 DEF WriteInv, WriterTypeOK
    <3>2. file \notin {NoFile, StaleFile}
      BY <3>1, WriterAssumption
    <3>3. /\ file'.lines = file.lines /\ file'.manifest = file.manifest
          /\ file' \in File
      BY <1>5, <2>2, <3>1 DEF WriteFail, File
    <3> QED BY <1>1, <1>5, <3>2, <3>3 DEF WriteFail, WriteInv, FileInv
  <2> QED BY <1>5, <2>1, <2>2 DEF WriteFail
<1> QED BY <1>2, <1>3, <1>4, <1>5 DEF WriteStep

LEMMA CallWriteInv ==
    ASSUME WriteInv, [AnyCall]_writerVars
    PROVE  WriteInv'
<1>1. WriterTypeOK'
  BY CallTypeOK DEF WriteInv
<1>2. CASE WriteStep
  BY <1>1, <1>2, WriteStepInv DEF WriteInv
<1>3. CASE SomeAddResource \/ SomeAddEdge \/ SomeAddError
  <2>1. phase = "gathering" /\ phase' = "gathering" /\ file' = file
    BY <1>3 DEF SomeAddResource, AddResource, SomeAddEdge, AddEdge,
                SomeAddError, AddError
  <2> QED BY <1>1, <2>1 DEF WriteInv, FileInv
<1>4. CASE UNCHANGED writerVars
  BY <1>1, <1>4 DEF WriteInv, FileInv, AllLines, LinesOf, ManifestNow, Count, writerVars
<1> QED BY <1>2, <1>3, <1>4 DEF AnyCall

LEMMA InitWriteInv == WriterInit => WriteInv
  BY InitTypeOK DEF WriterInit, WriteInv, FileInv

LEMMA WriteInvAlways == WriterSpec => []WriteInv
<1>1. WriteInv /\ [WriterNext]_writerVars => WriteInv'
  BY CallWriteInv, NextIsCall
<1> QED BY <1>1, InitWriteInv, PTL DEF WriterSpec

(* When write() has returned, the file is closed and holds every record, edge
   and error gathered, in that order. *)
THEOREM WriteCorrect == WriterSpec => []WrittenIsComplete
<1>1. WriteInv => WrittenIsComplete
  BY DEF WriteInv, FileInv, WrittenIsComplete
<1> QED BY <1>1, WriteInvAlways, PTL

-----------------------------------------------------------------------------
(* A truncated file.  AllLines is three blocks; where a prefix ends short of  *)
(* them, the block in which it ends has fewer lines than the manifest says.   *)
LEMMA ThreeBlocks ==
    ASSUME NEW S, NEW a \in Seq(S), NEW b \in Seq(S), NEW c \in Seq(S),
           NEW all, all = a \o b \o c
    PROVE  /\ all \in Seq(S) /\ Len(all) = Len(a) + Len(b) + Len(c)
           /\ \A i \in 1 .. Len(a) : all[i] = a[i]
           /\ \A i \in Len(a) + 1 .. Len(a) + Len(b) : all[i] = b[i - Len(a)]
           /\ \A i \in Len(a) + Len(b) + 1 .. Len(all) : all[i] = c[i - Len(a) - Len(b)]
<1>1. /\ a \o b \in Seq(S) /\ Len(a \o b) = Len(a) + Len(b)
      /\ Len(a) \in Nat /\ Len(b) \in Nat /\ Len(c) \in Nat
  OBVIOUS
<1>2. /\ \A i \in 1 .. Len(a) : (a \o b)[i] = a[i]
      /\ \A i \in Len(a) + 1 .. Len(a) + Len(b) : (a \o b)[i] = b[i - Len(a)]
  OBVIOUS
<1> DEFINE d == a \o b
<1>3. all = d \o c /\ d \in Seq(S)
  BY <1>1
<1> HIDE DEF d
<1>4. /\ all \in Seq(S) /\ Len(all) = Len(d) + Len(c)
      /\ \A i \in 1 .. Len(d) : all[i] = d[i]
      /\ \A i \in Len(d) + 1 .. Len(d) + Len(c) : all[i] = c[i - Len(d)]
  BY <1>3
<1>5. Len(d) = Len(a) + Len(b)
  BY <1>1 DEF d
<1>6. \A i \in 1 .. Len(a) : all[i] = a[i]
  BY <1>1, <1>2, <1>4, <1>5 DEF d
<1>7. \A i \in Len(a) + 1 .. Len(a) + Len(b) : all[i] = b[i - Len(a)]
  <2> SUFFICES ASSUME NEW i \in Len(a) + 1 .. Len(a) + Len(b)
               PROVE  all[i] = b[i - Len(a)]
    OBVIOUS
  <2>1. i \in 1 .. Len(d)
    BY <1>1, <1>5
  <2>2. d[i] = b[i - Len(a)]
    BY <1>2 DEF d
  <2> QED BY <2>1, <2>2, <1>4
<1>8. \A i \in Len(a) + Len(b) + 1 .. Len(all) : all[i] = c[i - Len(a) - Len(b)]
  <2> SUFFICES ASSUME NEW i \in Len(a) + Len(b) + 1 .. Len(all)
               PROVE  all[i] = c[i - Len(a) - Len(b)]
    OBVIOUS
  <2>1. i \in Len(d) + 1 .. Len(d) + Len(c)
    BY <1>1, <1>4, <1>5
  <2>2. i - Len(d) = i - Len(a) - Len(b)
    BY <1>1, <1>5, <2>1
  <2> QED BY <2>1, <2>2, <1>4
<1> QED BY <1>1, <1>4, <1>5, <1>6, <1>7, <1>8

LEMMA AllLinesBlocks ==
    ASSUME WriterTypeOK
    PROVE  LET r == Len(records)
               e == r + Len(edges)
               n == e + Len(errors)
           IN  /\ r \in Nat /\ e \in Nat /\ n \in Nat /\ r <= e /\ e <= n
               /\ AllLines \in Seq(Line) /\ Len(AllLines) = n
               /\ \A i \in 1 .. r : AllLines[i] = [kind |-> "resource", body |-> records[i]]
               /\ \A i \in r + 1 .. e : AllLines[i].kind = "edge"
               /\ \A i \in e + 1 .. n : AllLines[i].kind = "error"
<1> DEFINE R == LinesOf("resource", records)
           E == LinesOf("edge", edges)
           X == LinesOf("error", errors)
<1>1. R \in Seq(Line) /\ E \in Seq(Line) /\ X \in Seq(Line)
  BY LinesOfType
<1>2. /\ records \in Seq(Record) /\ edges \in Seq(Edge) /\ errors \in Seq(Error)
  BY DEF WriterTypeOK
<1>3. /\ Len(R) = Len(records) /\ Len(E) = Len(edges) /\ Len(X) = Len(errors)
  <2>1. DOMAIN R = 1 .. Len(records) /\ DOMAIN E = 1 .. Len(edges)
           /\ DOMAIN X = 1 .. Len(errors)
    BY <1>2 DEF LinesOf
  <2> HIDE DEF R, E, X
  <2> QED BY <1>1, <1>2, <2>1
<1>4. /\ \A i \in 1 .. Len(records) : R[i] = [kind |-> "resource", body |-> records[i]]
      /\ \A i \in 1 .. Len(edges) : E[i].kind = "edge"
      /\ \A i \in 1 .. Len(errors) : X[i].kind = "error"
  BY <1>2 DEF LinesOf
<1>5. AllLines = R \o E \o X
  BY DEF AllLines
<1> HIDE DEF R, E, X
<1>6. /\ Len(records) \in Nat /\ Len(edges) \in Nat /\ Len(errors) \in Nat
  BY <1>2
<1>7. /\ AllLines \in Seq(Line)
      /\ Len(AllLines) = Len(records) + Len(edges) + Len(errors)
      /\ \A i \in 1 .. Len(records) : AllLines[i] = R[i]
      /\ \A i \in Len(records) + 1 .. Len(records) + Len(edges) :
             AllLines[i] = E[i - Len(records)]
      /\ \A i \in Len(records) + Len(edges) + 1 .. Len(AllLines) :
             AllLines[i] = X[i - Len(records) - Len(edges)]
  <2>1. /\ AllLines \in Seq(Line)
        /\ Len(AllLines) = Len(R) + Len(E) + Len(X)
        /\ \A i \in 1 .. Len(R) : AllLines[i] = R[i]
        /\ \A i \in Len(R) + 1 .. Len(R) + Len(E) : AllLines[i] = E[i - Len(R)]
        /\ \A i \in Len(R) + Len(E) + 1 .. Len(AllLines) :
               AllLines[i] = X[i - Len(R) - Len(E)]
    BY <1>1, <1>5, ThreeBlocks
  <2> QED BY <1>3, <2>1
<1>8. \A i \in Len(records) + 1 .. Len(records) + Len(edges) : AllLines[i].kind = "edge"
  <2> SUFFICES ASSUME NEW i \in Len(records) + 1 .. Len(records) + Len(edges)
               PROVE  AllLines[i].kind = "edge"
    OBVIOUS
  <2>1. i - Len(records) \in 1 .. Len(edges)
    BY <1>6
  <2> QED BY <2>1, <1>4, <1>7
<1>9. \A i \in Len(records) + Len(edges) + 1 .. Len(AllLines) : AllLines[i].kind = "error"
  <2> SUFFICES ASSUME NEW i \in Len(records) + Len(edges) + 1 .. Len(AllLines)
               PROVE  AllLines[i].kind = "error"
    OBVIOUS
  <2>1. i - Len(records) - Len(edges) \in 1 .. Len(errors)
    BY <1>6, <1>7
  <2> QED BY <2>1, <1>4, <1>7
<1> QED BY <1>4, <1>6, <1>7, <1>8, <1>9

KindIn(lines, kind) == {i \in DOMAIN lines : lines[i].kind = kind}

LEMMA CountsOfPrefix ==
    ASSUME WriterTypeOK, NEW n \in 0 .. Len(AllLines), NEW lines,
           lines = SubSeq(AllLines, 1, n)
    PROVE  LET r == Len(records)
               e == r + Len(edges)
           IN  /\ Len(lines) = n
               /\ Cardinality(KindIn(lines, "resource")) = (IF n < r THEN n ELSE r)
               /\ n > r => Cardinality(KindIn(lines, "edge")) = (IF n < e THEN n ELSE e) - r
               /\ n <= r => Cardinality(KindIn(lines, "edge")) = 0
               /\ n > e => Cardinality(KindIn(lines, "error")) = n - e
               /\ n <= e => Cardinality(KindIn(lines, "error")) = 0
<1> DEFINE r == Len(records)
           e == r + Len(edges)
<1>1. /\ r \in Nat /\ e \in Nat /\ r <= e /\ e <= Len(AllLines)
      /\ AllLines \in Seq(Line)
  BY AllLinesBlocks
<1>2. Len(lines) = n /\ DOMAIN lines = 1 .. n /\ \A i \in 1 .. n : lines[i] = AllLines[i]
  BY <1>1
<1>3. /\ \A i \in 1 .. n : lines[i].kind = "resource" <=> i <= r
      /\ \A i \in 1 .. n : lines[i].kind = "edge" <=> r < i /\ i <= e
      /\ \A i \in 1 .. n : lines[i].kind = "error" <=> e < i
  <2> SUFFICES ASSUME NEW i \in 1 .. n
               PROVE  /\ lines[i].kind = "resource" <=> i <= r
                      /\ lines[i].kind = "edge" <=> r < i /\ i <= e
                      /\ lines[i].kind = "error" <=> e < i
    OBVIOUS
  <2>0. n \in Nat /\ n <= Len(AllLines) /\ i \in Nat
    BY <1>1
  <2>1. CASE i <= r
    <3>1. AllLines[i] = [kind |-> "resource", body |-> records[i]]
      BY <1>1, <2>0, <2>1, AllLinesBlocks
    <3>2. lines[i].kind = "resource"
      BY <1>2, <3>1
    <3> QED BY <1>1, <2>0, <2>1, <3>2
  <2>2. CASE r < i /\ i <= e
    <3>1. i \in r + 1 .. e
      BY <1>1, <2>0, <2>2
    <3>2. lines[i].kind = "edge"
      BY <1>2, <3>1, AllLinesBlocks
    <3> QED BY <1>1, <2>0, <2>2, <3>2
  <2>3. CASE e < i
    <3>1. i \in e + 1 .. Len(AllLines)
      BY <1>1, <2>0, <2>3
    <3>2. lines[i].kind = "error"
      BY <1>2, <3>1, AllLinesBlocks
    <3> QED BY <1>1, <2>0, <2>3, <3>2
  <2> QED BY <1>1, <2>1, <2>2, <2>3
<1> HIDE DEF r, e
<1>4. KindIn(lines, "resource") = 1 .. (IF n < r THEN n ELSE r)
  BY <1>1, <1>2, <1>3 DEF KindIn
<1>5. KindIn(lines, "edge") = r + 1 .. (IF n < e THEN n ELSE e)
  BY <1>1, <1>2, <1>3 DEF KindIn
<1>6. KindIn(lines, "error") = e + 1 .. n
  BY <1>1, <1>2, <1>3 DEF KindIn
<1>7. \A a, b \in Int : Cardinality(a .. b) = (IF a > b THEN 0 ELSE b - a + 1)
  BY FS_Interval
<1>8. Cardinality(KindIn(lines, "resource")) = (IF n < r THEN n ELSE r)
  BY <1>1, <1>4, <1>7
<1>9. Cardinality(KindIn(lines, "edge")) =
          (IF n <= r THEN 0 ELSE (IF n < e THEN n ELSE e) - r)
  <2> DEFINE to == IF n < e THEN n ELSE e
  <2>1. n \in Nat /\ to \in Nat /\ r + 1 \in Int
    BY <1>1
  <2>2. Cardinality(r + 1 .. to) = (IF r + 1 > to THEN 0 ELSE to - (r + 1) + 1)
    <3> HIDE DEF to
    <3> QED BY <1>7, <2>1
  <2>3. Cardinality(KindIn(lines, "edge")) = Cardinality(r + 1 .. to)
    BY <1>5
  <2> QED BY <1>1, <2>1, <2>2, <2>3
<1>10. Cardinality(KindIn(lines, "error")) = (IF n <= e THEN 0 ELSE n - e)
  <2>1. n \in Nat /\ e + 1 \in Int
    BY <1>1
  <2>2. Cardinality(e + 1 .. n) = (IF e + 1 > n THEN 0 ELSE n - (e + 1) + 1)
    BY <1>7, <2>1
  <2> QED BY <1>1, <1>6, <2>1, <2>2
<1> QED BY <1>1, <1>2, <1>8, <1>9, <1>10 DEF r, e

LEMMA TruncationSeen ==
    ASSUME WriteInv, TotalsMatchRecords, file \notin {NoFile, StaleFile}
    PROVE  CountsAsClaimed <=> file.lines = AllLines
<1> DEFINE n == Len(file.lines)
           r == Len(records)
           e == r + Len(edges)
<1>1. WriterTypeOK /\ file.manifest = ManifestNow /\ file.lines = SubSeq(AllLines, 1, n)
         /\ file.lines \in Seq(Line)
  BY DEF WriteInv, FileInv, File
<1>2. /\ r \in Nat /\ e \in Nat /\ r <= e /\ e <= Len(AllLines)
      /\ AllLines \in Seq(Line) /\ Len(AllLines) = e + Len(errors)
      /\ Len(edges) \in Nat /\ Len(errors) \in Nat
      /\ \A i \in 1 .. r : AllLines[i] = [kind |-> "resource", body |-> records[i]]
  BY <1>1, AllLinesBlocks DEF WriterTypeOK
<1>3. n \in 0 .. Len(AllLines)
  BY <1>1, <1>2 DEF WriteInv, FileInv
<1>4. /\ FileCount("resource") = (IF n < r THEN n ELSE r)
      /\ FileCount("edge") = (IF n <= r THEN 0 ELSE (IF n < e THEN n ELSE e) - r)
      /\ FileCount("error") = (IF n <= e THEN 0 ELSE n - e)
  <2>1. \A kind : FileCount(kind) = Cardinality(KindIn(file.lines, kind))
    BY DEF FileCount, IndicesOf, KindIn
  <2>2. /\ Cardinality(KindIn(file.lines, "resource")) = (IF n < r THEN n ELSE r)
        /\ n > r => Cardinality(KindIn(file.lines, "edge")) = (IF n < e THEN n ELSE e) - r
        /\ n <= r => Cardinality(KindIn(file.lines, "edge")) = 0
        /\ n > e => Cardinality(KindIn(file.lines, "error")) = n - e
        /\ n <= e => Cardinality(KindIn(file.lines, "error")) = 0
    BY <1>1, <1>3, CountsOfPrefix
  <2>3. n \in Nat
    BY <1>2, <1>3
  <2> HIDE DEF n, r, e
  <2> QED BY <1>2, <2>1, <2>2, <2>3
<1>5. /\ file.manifest.total_resources = r
      /\ file.manifest.total_edges = Len(edges)
      /\ file.manifest.error_count = Len(errors)
      /\ \A t \in ResourceTypes : file.manifest.resource_counts[t] = Count(counts, t)
  BY <1>1 DEF ManifestNow
<1>6. ASSUME CountsAsClaimed PROVE file.lines = AllLines
  <2>1. n = Len(AllLines)
    BY <1>2, <1>3, <1>4, <1>5, <1>6 DEF CountsAsClaimed
  <2> QED BY <1>1, <1>2, <2>1
<1>7. ASSUME file.lines = AllLines PROVE CountsAsClaimed
  <2>1. n = Len(AllLines)
    BY <1>7
  <2>2. /\ FileCount("resource") = r /\ FileCount("edge") = Len(edges)
        /\ FileCount("error") = Len(errors)
    BY <1>2, <1>4, <2>1
  <2>3. ASSUME NEW t \in ResourceTypes
        PROVE  file.manifest.resource_counts[t] =
                   Cardinality(IndicesOf(file.lines, LAMBDA l :
                       l.kind = "resource" /\ l.body.type = t))
    <3>1. {i \in DOMAIN AllLines : AllLines[i].kind = "resource" /\ AllLines[i].body.type = t}
              = OfType(records, t)
      <4>1. DOMAIN AllLines = 1 .. Len(AllLines) /\ DOMAIN records = 1 .. r
        BY <1>1, <1>2 DEF WriterTypeOK
      <4>2. \A i \in 1 .. Len(AllLines) : AllLines[i].kind = "resource" => i <= r
        BY <1>1, <1>2, AllLinesBlocks
      <4>3. \A i \in 1 .. r : i \in 1 .. Len(AllLines)
        BY <1>2
      <4>4. \A i \in 1 .. r : AllLines[i].kind = "resource" /\ AllLines[i].body = records[i]
        <5> SUFFICES ASSUME NEW i \in 1 .. r
                     PROVE  AllLines[i].kind = "resource" /\ AllLines[i].body = records[i]
          OBVIOUS
        <5>1. AllLines[i] = [kind |-> "resource", body |-> records[i]]
          BY <1>2
        <5> QED BY <5>1
      <4> HIDE DEF n, r, e
      <4>5. \A i : i \in 1 .. Len(AllLines) /\ AllLines[i].kind = "resource" => i \in 1 .. r
        BY <1>2, <4>2
      <4> QED BY <4>1, <4>3, <4>4, <4>5 DEF OfType
    <3>2. Count(counts, t) = Cardinality(OfType(records, t))
      BY <1>1, CountOfType
    <3> QED BY <1>5, <1>7, <3>1, <3>2 DEF IndicesOf
  <2> QED BY <1>5, <2>2, <2>3 DEF CountsAsClaimed
<1> QED BY <1>6, <1>7

(* write() is not atomic.  Wherever it stops, for any number of lines, its file
   betrays by its own manifest whether a line is missing. *)
THEOREM TruncationShows == WriterSpec => []TruncationIsVisible
<1>1. WriteInv /\ TotalsMatchRecords => TruncationIsVisible
  BY TruncationSeen DEF TruncationIsVisible
<1> QED BY <1>1, WriteInvAlways, TotalsCorrect, PTL
-----------------------------------------------------------------------------
(* Two lists told in the same order: one more entry at the end of both. *)
With(part, n, e) == [i \in DOMAIN part \cup {n} |-> IF i = n THEN e ELSE part[i]]

LEMMA SameOneMore ==
    ASSUME NEW part, NEW other, DOMAIN part \subseteq Nat, DOMAIN other \subseteq Nat,
           SameInOrder(part, other), NEW n \in Nat, NEW m \in Nat, NEW e,
           \A i \in DOMAIN part : i < n, \A j \in DOMAIN other : j < m
    PROVE  SameInOrder(With(part, n, e), With(other, m, e))
<1>1. PICK at \in [DOMAIN part -> DOMAIN other] :
          /\ \A i, j \in DOMAIN part : i < j => at[i] < at[j]
          /\ \A j \in DOMAIN other : \E i \in DOMAIN part : at[i] = j
          /\ \A i \in DOMAIN part : part[i] = other[at[i]]
  BY DEF SameInOrder
<1> DEFINE longer == [i \in DOMAIN part \cup {n} |-> IF i = n THEN m ELSE at[i]]
<1>2. DOMAIN With(part, n, e) = DOMAIN part \cup {n}
  BY DEF With
<1>3. DOMAIN With(other, m, e) = DOMAIN other \cup {m}
  BY DEF With
<1>4. n \notin DOMAIN part /\ m \notin DOMAIN other
  OBVIOUS
<1>5. longer[n] = m /\ \A i \in DOMAIN part : longer[i] = at[i]
  BY <1>4
<1>6. longer \in [DOMAIN With(part, n, e) -> DOMAIN With(other, m, e)]
  BY <1>2, <1>3
<1>7. \A i \in DOMAIN part : at[i] \in DOMAIN other /\ at[i] < m
  BY <1>1
<1> HIDE DEF longer
<1>8. ASSUME NEW i \in DOMAIN part \cup {n}, NEW j \in DOMAIN part \cup {n}, i < j
      PROVE  longer[i] < longer[j]
  <2>1. i \in DOMAIN part
    BY <1>8
  <2>2. CASE j \in DOMAIN part
    BY <1>1, <1>5, <1>8, <2>1, <2>2
  <2>3. CASE j = n
    BY <1>5, <1>7, <2>1, <2>3
  <2> QED BY <2>2, <2>3
<1>9. \A j \in DOMAIN other \cup {m} : \E i \in DOMAIN part \cup {n} : longer[i] = j
  BY <1>1, <1>5
<1>10. ASSUME NEW i \in DOMAIN part \cup {n}
       PROVE  With(part, n, e)[i] = With(other, m, e)[longer[i]]
  <2>1. CASE i = n
    BY <1>5, <2>1 DEF With
  <2>2. CASE i \in DOMAIN part
    BY <1>1, <1>4, <1>5, <1>7, <2>2 DEF With
  <2> QED BY <2>1, <2>2
<1>11. \A i, j \in DOMAIN With(part, n, e) : i < j => longer[i] < longer[j]
  BY <1>2, <1>8
<1>12. \A j \in DOMAIN With(other, m, e) : \E i \in DOMAIN With(part, n, e) : longer[i] = j
  BY <1>2, <1>3, <1>9
<1>13. \A i \in DOMAIN With(part, n, e) : With(part, n, e)[i] = With(other, m, e)[longer[i]]
  BY <1>2, <1>10
<1> QED BY <1>6, <1>11, <1>12, <1>13 DEF SameInOrder

LEMMA SameEmpty ==
    ASSUME NEW part, NEW other, DOMAIN part = {}, DOMAIN other = {}
    PROVE  SameInOrder(part, other)
<1>1. [i \in {} |-> 0] \in [DOMAIN part -> DOMAIN other]
  OBVIOUS
<1> QED BY <1>1 DEF SameInOrder

(* The positions of a list, and those of the list with one entry more. *)
LEMMA Positions ==
    ASSUME NEW S, NEW list \in Seq(S), NEW e \in S
    PROVE  /\ Len(list) + 1 \in Nat /\ DOMAIN list \subseteq Nat
           /\ \A i \in DOMAIN list : i < Len(list) + 1
           /\ DOMAIN Append(list, e) = DOMAIN list \cup {Len(list) + 1}
           /\ Append(list, e)[Len(list) + 1] = e
           /\ \A i \in DOMAIN list : Append(list, e)[i] = list[i]
  OBVIOUS

Kept == {i \in DOMAIN tagSuppressions : ~tagSuppressions[i].full}
Named == {i \in DOMAIN records : records[i].checks # {}}
KeptPart == [i \in Kept |-> AsRecord(tagSuppressions[i])]
NamedPart == [i \in Named |-> records[i]]

LEMMA AgreeAsParts == SuppressionsAgree <=> SameInOrder(KeptPart, NamedPart)
  BY DEF SuppressionsAgree, IndicesOf, KeptPart, NamedPart, Kept, Named

LEMMA AddResourceAgree ==
    ASSUME WriterTypeOK, SameInOrder(KeptPart, NamedPart),
           NEW t \in ResourceTypes, NEW r \in Regions, NEW i \in ResourceIds,
           NEW k \in Intent, AddResource(t, r, i, k)
    PROVE  SameInOrder(KeptPart, NamedPart)'
<1> DEFINE s == [type |-> t, region |-> r, id |-> i, full |-> k.full, checks |-> k.checks]
           rec == [type |-> t, region |-> r, id |-> i, checks |-> k.checks]
           n == Len(tagSuppressions) + 1
           m == Len(records) + 1
<1>1. k.full \in BOOLEAN /\ k.checks \in SUBSET CheckIds
  BY DEF Intent
<1>2. s \in Suppression /\ rec \in Record
  BY <1>1 DEF Suppression, Record
<1>3. s.full = k.full /\ s.checks = k.checks /\ AsRecord(s) = rec /\ rec.checks = k.checks
  BY DEF AsRecord
<1>4. /\ tagSuppressions' = IF k.full \/ k.checks # {} THEN Append(tagSuppressions, s)
                            ELSE tagSuppressions
      /\ records' = IF ~k.full THEN Append(records, rec) ELSE records
  BY DEF AddResource, Recorded
<1>5. tagSuppressions \in Seq(Suppression) /\ records \in Seq(Record)
  BY DEF WriterTypeOK
<1> HIDE DEF s, rec
<1>6. /\ n \in Nat /\ DOMAIN tagSuppressions \subseteq Nat
      /\ \A j \in DOMAIN tagSuppressions : j < n
      /\ DOMAIN Append(tagSuppressions, s) = DOMAIN tagSuppressions \cup {n}
      /\ Append(tagSuppressions, s)[n] = s
      /\ \A j \in DOMAIN tagSuppressions : Append(tagSuppressions, s)[j] = tagSuppressions[j]
  BY <1>2, <1>5, Positions
<1>7. /\ m \in Nat /\ DOMAIN records \subseteq Nat /\ \A j \in DOMAIN records : j < m
      /\ DOMAIN Append(records, rec) = DOMAIN records \cup {m}
      /\ Append(records, rec)[m] = rec
      /\ \A j \in DOMAIN records : Append(records, rec)[j] = records[j]
  BY <1>2, <1>5, Positions
<1> HIDE DEF n, m
<1>8. DOMAIN KeptPart = Kept /\ DOMAIN NamedPart = Named
  BY DEF KeptPart, NamedPart
<1>9. CASE k.full
  <2>1. tagSuppressions' = Append(tagSuppressions, s) /\ records' = records
    BY <1>4, <1>9
  <2>2. Kept' = Kept
    BY <1>3, <1>6, <1>9, <2>1 DEF Kept
  <2>3. KeptPart' = KeptPart
    <3>1. \A j \in Kept : tagSuppressions'[j] = tagSuppressions[j]
      BY <1>6, <2>1 DEF Kept
    <3> QED BY <2>2, <3>1 DEF KeptPart
  <2>4. NamedPart' = NamedPart
    BY <2>1 DEF NamedPart, Named
  <2> QED BY <2>3, <2>4
<1>10. CASE ~k.full /\ k.checks = {}
  <2>1. tagSuppressions' = tagSuppressions /\ records' = Append(records, rec)
    BY <1>4, <1>10
  <2>2. Named' = Named
    BY <1>3, <1>7, <1>10, <2>1 DEF Named
  <2>3. NamedPart' = NamedPart
    <3>1. \A j \in Named : records'[j] = records[j]
      BY <1>7, <2>1 DEF Named
    <3> QED BY <2>2, <3>1 DEF NamedPart
  <2>4. KeptPart' = KeptPart
    BY <2>1 DEF KeptPart, Kept
  <2> QED BY <2>3, <2>4
<1>11. CASE ~k.full /\ k.checks # {}
  <2>1. tagSuppressions' = Append(tagSuppressions, s) /\ records' = Append(records, rec)
    BY <1>4, <1>11
  <2>2. Kept' = Kept \cup {n} /\ n \notin Kept
    BY <1>3, <1>6, <1>11, <2>1 DEF Kept
  <2>3. Named' = Named \cup {m} /\ m \notin Named
    BY <1>3, <1>7, <1>11, <2>1 DEF Named
  <2>4. KeptPart' = With(KeptPart, n, rec)
    <3>1. \A j \in Kept : tagSuppressions'[j] = tagSuppressions[j]
      BY <1>6, <2>1 DEF Kept
    <3>2. AsRecord(tagSuppressions'[n]) = rec
      BY <1>3, <1>6, <2>1
    <3>3. KeptPart' = [j \in Kept \cup {n} |-> AsRecord(tagSuppressions'[j])]
      BY <2>2 DEF KeptPart
    <3>4. \A j \in Kept \cup {n} :
              AsRecord(tagSuppressions'[j]) = IF j = n THEN rec ELSE KeptPart[j]
      BY <2>2, <3>1, <3>2 DEF KeptPart
    <3> QED BY <1>8, <3>3, <3>4 DEF With
  <2>5. NamedPart' = With(NamedPart, m, rec)
    <3>1. \A j \in Named : records'[j] = records[j]
      BY <1>7, <2>1 DEF Named
    <3>2. records'[m] = rec
      BY <1>7, <2>1
    <3>3. NamedPart' = [j \in Named \cup {m} |-> records'[j]]
      BY <2>3 DEF NamedPart
    <3>4. \A j \in Named \cup {m} : records'[j] = IF j = m THEN rec ELSE NamedPart[j]
      BY <2>3, <3>1, <3>2 DEF NamedPart
    <3> QED BY <1>8, <3>3, <3>4 DEF With
  <2>6. /\ Kept \subseteq Nat /\ Named \subseteq Nat
        /\ \A j \in Kept : j < n
        /\ \A j \in Named : j < m
    BY <1>6, <1>7 DEF Kept, Named
  <2> QED BY <1>6, <1>7, <1>8, <2>4, <2>5, <2>6, SameOneMore
<1> QED BY <1>1, <1>9, <1>10, <1>11

(* What the inventory says of suppressed checks in its records and in
   tag_suppressions is one story (SuppressionsAgree), for any calls in any order:
   add_resource() adds to both or to neither. *)
THEOREM SuppressionsTold == WriterSpec => []SuppressionsAgree
<1>1. WriterInit => SameInOrder(KeptPart, NamedPart)
  <2> SUFFICES ASSUME WriterInit PROVE SameInOrder(KeptPart, NamedPart)
    OBVIOUS
  <2>1. DOMAIN KeptPart = {} /\ DOMAIN NamedPart = {}
    BY DEF WriterInit, KeptPart, NamedPart, Kept, Named
  <2> QED BY <2>1, SameEmpty
<1>2. WriterTypeOK /\ SameInOrder(KeptPart, NamedPart) /\ [WriterNext]_writerVars
          => SameInOrder(KeptPart, NamedPart)'
  <2> SUFFICES ASSUME WriterTypeOK, SameInOrder(KeptPart, NamedPart), [WriterNext]_writerVars
               PROVE  SameInOrder(KeptPart, NamedPart)'
    OBVIOUS
  <2>1. CASE SomeAddResource
    BY <2>1, AddResourceAgree DEF SomeAddResource
  <2>2. CASE UNCHANGED <<records, tagSuppressions>>
    BY <2>2 DEF KeptPart, NamedPart, Kept, Named
  <2>3. SomeAddResource \/ UNCHANGED <<records, tagSuppressions>>
    BY DEF WriterNext, writerVars, SomeAddEdge, AddEdge, SomeAddError, AddError, WriteStep,
           WriteOpen, WriteLine, WriteClose, WriteFail
  <2> QED BY <2>1, <2>2, <2>3
<1>3. WriterSpec => []SameInOrder(KeptPart, NamedPart)
  BY <1>1, <1>2, WriterTypeCorrect, PTL DEF WriterSpec
<1> QED BY <1>3, AgreeAsParts, PTL
=============================================================================
