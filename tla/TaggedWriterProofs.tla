--------------------------- MODULE TaggedWriterProofs ---------------------------
(***************************************************************************)
(* Proofs about TagSuppression and TaggedWriter: the shape in which tags   *)
(* arrive makes no difference, whatever the tags and their number.         *)
(***************************************************************************)
EXTENDS TaggedWriter, InventoryWriterProofs

(* _key() and _value() find the two fields by whichever names they have. *)
LEMMA FirstFound ==
    ASSUME NEW fields, NEW there, NEW n \in DOMAIN fields, n \in Nat,
           \A i \in DOMAIN fields : fields[i] \in there <=> i = n
    PROVE  FirstOf(fields, there) = fields[n]
<1>1. {i \in DOMAIN fields : fields[i] \in there} = {n}
  OBVIOUS
<1>2. (CHOOSE i \in {n} : \A j \in {n} : i <= j) = n
  OBVIOUS
<1> QED BY <1>1, <1>2 DEF FirstOf

LEMMA FieldsFound ==
    ASSUME NEW names \in FieldNames, NEW key, NEW text
    PROVE  /\ KeyOf(Tag(names, key, text)) = key
           /\ ValueOf(Tag(names, key, text)) = text
<1> DEFINE keyFields == <<"Key", "key", "TagKey">>
           valueFields == <<"Value", "value", "TagValue">>
<1>1. PICK n \in 1 .. 3 : names = <<keyFields[n], valueFields[n]>>
  <2>1. CASE names = <<"Key", "Value">>
    BY <2>1
  <2>2. CASE names = <<"key", "value">>
    BY <2>2
  <2>3. CASE names = <<"TagKey", "TagValue">>
    BY <2>3
  <2> QED BY <2>1, <2>2, <2>3 DEF FieldNames
<1>2. /\ DOMAIN Tag(names, key, text) = {names[1], names[2]}
      /\ Tag(names, key, text)[names[1]] = key
      /\ Tag(names, key, text)[names[2]] = text
  BY <1>1 DEF Tag
<1>3. /\ FirstOf(keyFields, DOMAIN Tag(names, key, text)) = names[1]
      /\ FirstOf(valueFields, DOMAIN Tag(names, key, text)) = names[2]
  <2>1. n \in DOMAIN keyFields /\ n \in DOMAIN valueFields /\ n \in Nat
    OBVIOUS
  <2>2. /\ DOMAIN Tag(names, key, text) = {keyFields[n], valueFields[n]}
        /\ names[1] = keyFields[n] /\ names[2] = valueFields[n]
    BY <1>1, <1>2
  <2>3. \A i \in DOMAIN keyFields : keyFields[i] \in {keyFields[n], valueFields[n]} <=> i = n
    OBVIOUS
  <2>4. \A i \in DOMAIN valueFields :
            valueFields[i] \in {keyFields[n], valueFields[n]} <=> i = n
    OBVIOUS
  <2> HIDE DEF keyFields, valueFields
  <2> QED BY <2>1, <2>2, <2>3, <2>4, FirstFound
<1>4. names[1] # NoField /\ names[2] # NoField
  <2>1. CASE names = <<"Key", "Value">>
    BY <2>1 DEF NoField
  <2>2. CASE names = <<"key", "value">>
    BY <2>2 DEF NoField
  <2>3. CASE names = <<"TagKey", "TagValue">>
    BY <2>3 DEF NoField
  <2> QED BY <2>1, <2>2, <2>3 DEF FieldNames
<1>5. KeyOf(Tag(names, key, text)) = key
  BY <1>2, <1>3, <1>4 DEF KeyOf
<1>6. ValueOf(Tag(names, key, text)) = text
  BY <1>2, <1>3, <1>4 DEF ValueOf
<1> QED BY <1>5, <1>6

(* A list of tags in any order, one for each key, is the dict of those tags. *)
LEMMA ListOfTags ==
    ASSUME NEW tags, tags = [key \in DOMAIN tags |-> tags[key]],
           NoField \notin DOMAIN tags,
           NEW order \in Orders(DOMAIN tags), NEW names \in FieldNames
    PROVE  NormalizeTags(Listed(tags, order, names)) = tags
<1> DEFINE list == [i \in DOMAIN order |-> Tag(names, order[i], tags[order[i]])]
           keys == {KeyOf(list[i]) : i \in DOMAIN list} \ {NoField}
           last(key) == CHOOSE i \in DOMAIN list :
                            /\ KeyOf(list[i]) = key
                            /\ \A j \in DOMAIN list : KeyOf(list[j]) = key => j <= i
<1>1. \A i \in DOMAIN list : KeyOf(list[i]) = order[i] /\ ValueOf(list[i]) = tags[order[i]]
  BY FieldsFound
<1>2. /\ DOMAIN list = DOMAIN order
      /\ DOMAIN order = 1 .. Cardinality(DOMAIN tags)
      /\ \A i \in DOMAIN order : order[i] \in DOMAIN tags
      /\ \A key \in DOMAIN tags : \E i \in DOMAIN order :
             \A j \in DOMAIN order : order[j] = key <=> j = i
  BY DEF Orders
<1>3. keys = DOMAIN tags
  <2> HIDE DEF list
  <2>1. \A i \in DOMAIN list : KeyOf(list[i]) \in DOMAIN tags
    BY <1>1, <1>2
  <2>2. ASSUME NEW key \in DOMAIN tags
        PROVE  \E i \in DOMAIN list : KeyOf(list[i]) = key
    <3>1. PICK i \in DOMAIN order : \A j \in DOMAIN order : order[j] = key <=> j = i
      BY <1>2
    <3>2. order[i] = key
      BY <3>1
    <3> QED BY <1>1, <1>2, <3>2
  <2> QED BY <2>1, <2>2
<1>4. ASSUME NEW key \in DOMAIN tags
      PROVE  ValueOf(list[last(key)]) = tags[key]
  <2>1. PICK i \in DOMAIN order : \A j \in DOMAIN order : order[j] = key <=> j = i
    BY <1>2
  <2>2. i \in DOMAIN list /\ \A j \in DOMAIN list : KeyOf(list[j]) = key <=> j = i
    <3> HIDE DEF list
    <3> QED BY <1>1, <1>2, <2>1
  <2>3. i <= i
    <3>1. i \in 1 .. Cardinality(DOMAIN tags)
      BY <1>2
    <3>2. i \in Int
      BY <3>1
    <3> QED BY <3>2
  <2>4. last(key) = i
    <3> HIDE DEF list
    <3> QED BY <2>2, <2>3
  <2> HIDE DEF list, last
  <2> QED BY <1>1, <2>1, <2>2, <2>4
<1>5. FromList(list) = [key \in keys |-> ValueOf(list[last(key)])]
  BY DEF FromList
<1>6. FromList(list) = [key \in DOMAIN tags |-> tags[key]]
  <2> HIDE DEF list, keys, last
  <2> QED BY <1>3, <1>4, <1>5
<1>7. NormalizeTags(List(list)) = FromList(list)
  <2> HIDE DEF list
  <2> QED BY DEF NormalizeTags, List
<1> QED BY <1>6, <1>7 DEF Listed

(* _normalize_tags: a set of tags is the same whether it comes as a dict, or as a
   list of dicts in any order under any of the three pairs of field names, or, when
   empty, as None. *)
THEOREM ShapesNormalized ==
    ASSUME NEW tags, tags = [key \in DOMAIN tags |-> tags[key]],
           NoField \notin DOMAIN tags, NEW given \in Shapes(tags)
    PROVE  NormalizeTags(given) = tags
<1>1. CASE given = Dict(tags)
  BY <1>1 DEF NormalizeTags, Dict
<1>2. CASE \E order \in Orders(DOMAIN tags), names \in FieldNames :
              given = Listed(tags, order, names)
  BY <1>2, ListOfTags
<1>3. CASE given = NoTags /\ tags = <<>>
  BY <1>3 DEF NormalizeTags, NoTags
<1> QED BY <1>1, <1>2, <1>3 DEF Shapes

(* What is asked for in tags that name checks is an intent. *)
LEMMA AskedInTags ==
    ASSUME NEW wish \in DOMAIN Writings, NEW tags \in Writings[wish],
           NEW given \in Shapes(tags)
    PROVE  ParseTagSuppression(given) \in Intent
<1>1. NormalizeTags(given) = tags
  BY ShapesNormalized, TaggedAssumption
<1>2. NamedIn(Get(tags, SuppressChecksTagKey)) \in SUBSET CheckIds
  BY TaggedAssumption
<1>3. MeansTrue(Get(tags, SuppressTagKey)) \in BOOLEAN
  BY DEF MeansTrue
<1> QED BY <1>1, <1>2, <1>3 DEF ParseTagSuppression, Intent

(* The writer that is given tags is the writer that is given what they ask for, so
   that what is proved of InventoryWriter holds of it. *)
THEOREM TaggedImplementsWriter == TaggedSpec => WriterSpec
<1>1. TaggedInit => WriterInit
  BY DEF TaggedInit
<1>2. [TaggedNext]_taggedVars => [WriterNext]_writerVars
  <2> SUFFICES ASSUME [TaggedNext]_taggedVars PROVE [WriterNext]_writerVars
    OBVIOUS
  <2>1. CASE RoomLeft /\ SomeAddTagged
    <3>1. PICK t \in ResourceTypes, r \in Regions, i \in ResourceIds,
               wish \in DOMAIN Writings :
                   \E tags \in Writings[wish] : \E given \in Shapes(tags) :
                       AddTagged(t, r, i, given)
      BY <2>1 DEF SomeAddTagged
    <3>2. PICK tags \in Writings[wish] : \E given \in Shapes(tags) :
                       AddTagged(t, r, i, given)
      BY <3>1
    <3>3. PICK given \in Shapes(tags) : AddTagged(t, r, i, given)
      BY <3>2
    <3>4. ParseTagSuppression(given) \in Intent
      BY AskedInTags
    <3>5. SomeAddResource
      BY <3>3, <3>4 DEF AddTagged, SomeAddResource
    <3> QED BY <2>1, <3>5 DEF WriterNext
  <2>2. CASE RoomLeft /\ (SomeAddEdge \/ SomeAddError)
    BY <2>2 DEF WriterNext
  <2>3. CASE WriteStep
    BY <2>3 DEF WriterNext
  <2>4. CASE UNCHANGED taggedVars
    BY <2>4 DEF taggedVars
  <2> QED BY <2>1, <2>2, <2>3, <2>4 DEF TaggedNext
<1> QED BY <1>1, <1>2, PTL DEF TaggedSpec, WriterSpec
-----------------------------------------------------------------------------
(* Wishes and what became of them. *)
Unsuppressed == {i \in DOMAIN wishes : ~wishes[i].full}
Told == {i \in DOMAIN wishes : wishes[i].full \/ wishes[i].checks # {}}
WishedRecords == [i \in Unsuppressed |-> AsRecord(wishes[i])]
WishedSuppressions == [i \in Told |-> wishes[i]]

WishInv ==
    /\ wishes \in Seq(Suppression)
    /\ SameInOrder(WishedRecords, records)
    /\ SameInOrder(WishedSuppressions, tagSuppressions)

LEMMA AppendAsWith ==
    ASSUME NEW S, NEW list \in Seq(S), NEW e \in S
    PROVE  Append(list, e) = With(list, Len(list) + 1, e)
<1>1. /\ DOMAIN Append(list, e) = DOMAIN list \cup {Len(list) + 1}
      /\ Append(list, e)[Len(list) + 1] = e
      /\ \A i \in DOMAIN list : Append(list, e)[i] = list[i]
  BY Positions
<1>2. Append(list, e) = [i \in DOMAIN Append(list, e) |-> Append(list, e)[i]]
  <2>1. Append(list, e) \in Seq(S)
    OBVIOUS
  <2>2. \A s \in Seq(S) : s = [i \in DOMAIN s |-> s[i]]
    <3> TAKE s \in Seq(S)
    <3>1. s \in [1 .. Len(s) -> S]
      OBVIOUS
    <3> QED BY <3>1
  <2> QED BY <2>1, <2>2
<1>3. \A i \in DOMAIN list \cup {Len(list) + 1} :
          Append(list, e)[i] = IF i = Len(list) + 1 THEN e ELSE list[i]
  BY <1>1, Positions
<1> QED BY <1>1, <1>2, <1>3 DEF With

LEMMA AddTaggedWishes ==
    ASSUME WrittenAsWished, WriterTypeOK, WishInv, SomeAddTagged
    PROVE  WishInv'
<1>1. PICK t \in ResourceTypes, r \in Regions, i \in ResourceIds, wish \in DOMAIN Writings :
          /\ \E tags \in Writings[wish] : \E given \in Shapes(tags) :
                 AddTagged(t, r, i, given)
          /\ wishes' = Append(wishes, [type |-> t, region |-> r, id |-> i,
                                       full |-> wish.full, checks |-> wish.checks])
  BY DEF SomeAddTagged
<1>2. PICK tags \in Writings[wish] : \E given \in Shapes(tags) : AddTagged(t, r, i, given)
  BY <1>1
<1>3. PICK given \in Shapes(tags) : AddTagged(t, r, i, given)
  BY <1>2
<1>4. wish \in Intent
  BY TaggedAssumption
<1>5. wish.full \in BOOLEAN /\ wish.checks \in SUBSET CheckIds
  BY <1>4 DEF Intent
<1>6. /\ ParseTagSuppression(given).full = wish.full
      /\ ParseTagSuppression(given).checks = wish.checks
  <2>1. NormalizeTags(given) = tags
    BY ShapesNormalized, TaggedAssumption
  <2> QED BY <2>1 DEF ParseTagSuppression, WrittenAsWished
<1> DEFINE s == [type |-> t, region |-> r, id |-> i, full |-> wish.full,
                 checks |-> wish.checks]
           rec == [type |-> t, region |-> r, id |-> i, checks |-> wish.checks]
           k == Len(wishes) + 1
           n == Len(tagSuppressions) + 1
           m == Len(records) + 1
<1>7. s \in Suppression /\ rec \in Record
  BY <1>5 DEF Suppression, Record
<1>8. s.full = wish.full /\ s.checks = wish.checks /\ AsRecord(s) = rec
  BY DEF AsRecord
<1>9. /\ tagSuppressions' = IF wish.full \/ wish.checks # {} THEN Append(tagSuppressions, s)
                            ELSE tagSuppressions
      /\ records' = IF ~wish.full THEN Append(records, rec) ELSE records
  BY <1>3, <1>6 DEF AddTagged, AddResource, Recorded
<1>10. wishes' = Append(wishes, s)
  BY <1>1
<1>11. tagSuppressions \in Seq(Suppression) /\ records \in Seq(Record)
       /\ wishes \in Seq(Suppression)
  BY DEF WriterTypeOK, WishInv
<1> HIDE DEF s, rec
<1>12. /\ k \in Nat /\ DOMAIN wishes \subseteq Nat /\ \A j \in DOMAIN wishes : j < k
       /\ DOMAIN Append(wishes, s) = DOMAIN wishes \cup {k}
       /\ Append(wishes, s)[k] = s
       /\ \A j \in DOMAIN wishes : Append(wishes, s)[j] = wishes[j]
  BY <1>7, <1>11, Positions
<1>13. /\ n \in Nat /\ DOMAIN tagSuppressions \subseteq Nat
       /\ \A j \in DOMAIN tagSuppressions : j < n
       /\ Append(tagSuppressions, s) = With(tagSuppressions, n, s)
  BY <1>7, <1>11, Positions, AppendAsWith
<1>14. /\ m \in Nat /\ DOMAIN records \subseteq Nat /\ \A j \in DOMAIN records : j < m
       /\ Append(records, rec) = With(records, m, rec)
  BY <1>7, <1>11, Positions, AppendAsWith
<1>15. wishes' \in Seq(Suppression)
  BY <1>7, <1>10, <1>11
<1> HIDE DEF k, n, m
<1>16. SameInOrder(WishedRecords, records)'
  <2>1. CASE wish.full
    <3>1. Unsuppressed' = Unsuppressed /\ records' = records
      BY <1>8, <1>9, <1>10, <1>12, <2>1 DEF Unsuppressed
    <3>2. \A j \in Unsuppressed : wishes'[j] = wishes[j]
      BY <1>10, <1>12 DEF Unsuppressed
    <3>3. WishedRecords' = WishedRecords
      BY <3>1, <3>2 DEF WishedRecords
    <3> QED BY <3>1, <3>3 DEF WishInv
  <2>2. CASE ~wish.full
    <3>1. Unsuppressed' = Unsuppressed \cup {k} /\ k \notin Unsuppressed
      BY <1>8, <1>10, <1>12, <2>2 DEF Unsuppressed
    <3>2. records' = With(records, m, rec)
      BY <1>9, <1>14, <2>2
    <3>3. \A j \in Unsuppressed : wishes'[j] = wishes[j]
      BY <1>10, <1>12 DEF Unsuppressed
    <3>4. AsRecord(wishes'[k]) = rec
      BY <1>8, <1>10, <1>12
    <3>5. WishedRecords' = [j \in Unsuppressed \cup {k} |-> AsRecord(wishes'[j])]
      BY <3>1 DEF WishedRecords
    <3>6. \A j \in Unsuppressed \cup {k} :
              AsRecord(wishes'[j]) = IF j = k THEN rec ELSE WishedRecords[j]
      BY <3>1, <3>3, <3>4 DEF WishedRecords
    <3>7. DOMAIN WishedRecords = Unsuppressed
      BY DEF WishedRecords
    <3>8. WishedRecords' = With(WishedRecords, k, rec)
      BY <3>5, <3>6, <3>7 DEF With
    <3>9. Unsuppressed \subseteq Nat /\ \A j \in Unsuppressed : j < k
      BY <1>12 DEF Unsuppressed
    <3>10. SameInOrder(With(WishedRecords, k, rec), With(records, m, rec))
      BY <1>12, <1>14, <3>7, <3>9, SameOneMore DEF WishInv
    <3> QED BY <3>2, <3>8, <3>10
  <2> QED BY <2>1, <2>2
<1>17. SameInOrder(WishedSuppressions, tagSuppressions)'
  <2>1. CASE ~(wish.full \/ wish.checks # {})
    <3>1. Told' = Told /\ tagSuppressions' = tagSuppressions
      BY <1>8, <1>9, <1>10, <1>12, <2>1 DEF Told
    <3>2. \A j \in Told : wishes'[j] = wishes[j]
      BY <1>10, <1>12 DEF Told
    <3>3. WishedSuppressions' = WishedSuppressions
      BY <3>1, <3>2 DEF WishedSuppressions
    <3> QED BY <3>1, <3>3 DEF WishInv
  <2>2. CASE wish.full \/ wish.checks # {}
    <3>1. Told' = Told \cup {k} /\ k \notin Told
      BY <1>8, <1>10, <1>12, <2>2 DEF Told
    <3>2. tagSuppressions' = With(tagSuppressions, n, s)
      BY <1>9, <1>13, <2>2
    <3>3. \A j \in Told : wishes'[j] = wishes[j]
      BY <1>10, <1>12 DEF Told
    <3>4. wishes'[k] = s
      BY <1>10, <1>12
    <3>5. WishedSuppressions' = [j \in Told \cup {k} |-> wishes'[j]]
      BY <3>1 DEF WishedSuppressions
    <3>6. \A j \in Told \cup {k} : wishes'[j] = IF j = k THEN s ELSE WishedSuppressions[j]
      BY <3>1, <3>3, <3>4 DEF WishedSuppressions
    <3>7. DOMAIN WishedSuppressions = Told
      BY DEF WishedSuppressions
    <3>8. WishedSuppressions' = With(WishedSuppressions, k, s)
      BY <3>5, <3>6, <3>7 DEF With
    <3>9. Told \subseteq Nat /\ \A j \in Told : j < k
      BY <1>12 DEF Told
    <3>10. SameInOrder(With(WishedSuppressions, k, s), With(tagSuppressions, n, s))
      BY <1>12, <1>13, <3>7, <3>9, SameOneMore DEF WishInv
    <3> QED BY <3>2, <3>8, <3>10
  <2> QED BY <2>1, <2>2
<1> QED BY <1>15, <1>16, <1>17 DEF WishInv

(* README, "Suppressing resources with tags": if each wish is written as the README
   says, then however many resources are handed over, in whichever shape the SDK
   returns their tags, what is recorded and what is told in tag_suppressions are the
   wishes, in the order they came. *)
THEOREM WishesKept ==
    ASSUME WrittenAsWished
    PROVE  TaggedSpec => []WishesAreKept
<1>1. TaggedInit => WishInv
  <2> SUFFICES ASSUME TaggedInit PROVE WishInv
    OBVIOUS
  <2>1. wishes = <<>> /\ records = <<>> /\ tagSuppressions = <<>>
    BY DEF TaggedInit, WriterInit
  <2>2. DOMAIN WishedRecords = {} /\ DOMAIN WishedSuppressions = {}
    BY <2>1 DEF WishedRecords, WishedSuppressions, Unsuppressed, Told
  <2> QED BY <2>1, <2>2, SameEmpty DEF WishInv
<1>2. WriterTypeOK /\ WishInv /\ [TaggedNext]_taggedVars => WishInv'
  <2> SUFFICES ASSUME WriterTypeOK, WishInv, [TaggedNext]_taggedVars PROVE WishInv'
    OBVIOUS
  <2>1. CASE SomeAddTagged
    BY <2>1, AddTaggedWishes
  <2>2. CASE UNCHANGED <<records, tagSuppressions, wishes>>
    BY <2>2 DEF WishInv, WishedRecords, WishedSuppressions, Unsuppressed, Told
  <2>3. SomeAddTagged \/ UNCHANGED <<records, tagSuppressions, wishes>>
    BY DEF TaggedNext, taggedVars, writerVars, SomeAddEdge, AddEdge, SomeAddError, AddError,
           WriteStep, WriteOpen, WriteLine, WriteClose, WriteFail
  <2> QED BY <2>1, <2>2, <2>3
<1>3. TaggedSpec => []WriterTypeOK
  BY TaggedImplementsWriter, WriterTypeCorrect
<1>4. WishInv => WishesAreKept
  BY DEF WishInv, WishesAreKept, IndicesOf, WishedRecords, WishedSuppressions, Unsuppressed,
         Told
<1> QED BY <1>1, <1>2, <1>3, <1>4, PTL DEF TaggedSpec
=================================================================================
