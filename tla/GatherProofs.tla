------------------------------ MODULE GatherProofs ------------------------------
(***************************************************************************)
(* Proofs about GatherModule for every gather function that is well formed *)
(* from the statements of GatherLanguage, for every account and number of  *)
(* events.  They rest on GatherInv: what is left to run is about resources *)
(* that were listed, these are numbered without a gap, two of them with    *)
(* one number ask for the same, and so does what was recorded under it.    *)
(* What holds only of some gather functions is proved of those of a form   *)
(* that GatherForms defines; MCGather shows which have it.                 *)
(***************************************************************************)
EXTENDS GatherForms, InventoryWriterProofs, WellFoundedInduction

Outsides == {Outside(section) : section \in Nat}

Items(known) == known \cup Outsides

(* The frames, the items of which are among those known. *)
Frame(known) ==
    [stmt : Statements
            \cup [op : {"next"}, body : Seq(Statements), rest : Seq(known)]
            \cup [op : {"except", "end"},
                  what : {w \in {s.what : s \in Statements} \cup {"gather"} :
                             \A n \in 0 .. MaxEvents : Source(w, n) \in Sources}],
     item : Items(known)]

Numbers(known) == {x.n : x \in known} \ {0}

(* What is left ends where gather() does. *)
EndsInEnd(frames) == frames # <<>> => frames[Len(frames)].stmt.op = "end"

TodoInv == todo \in Seq(Frame(listed)) /\ EndsInEnd(todo)

ListedInv ==
    /\ listed \in SUBSET Item /\ IsFiniteSet(listed) /\ IsFiniteSet(faults)
    /\ Numbers(listed) = 1 .. Numbered
    /\ \A x, y \in Items(listed) : x.n = y.n => x.intent = y.intent

RecordsInv ==
    \A i \in DOMAIN records : \E x \in Items(listed) :
        x.n = records[i].id /\ (x.intent.full => TagsUnread(x))

GatherInv ==
    /\ WriterTypeOK /\ module \in DOMAIN Programs /\ region \in Regions
    /\ \A f \in faults : f.fail \in {"raise", "error", "skip", "return", "silent", "drop",
                                     "unread", "repeated"}
    /\ TodoInv /\ ListedInv /\ RecordsInv

-----------------------------------------------------------------------------
(* Sequences of frames. *)
LEMMA OutsideItems ==
    ASSUME NEW x \in Outsides
    PROVE  /\ x.n = 0 /\ x.type = NotAResource /\ x.intent = NoIntent /\ x.parent = 0
           /\ x.section \in Nat /\ x = Outside(x.section)
  BY DEF Outsides, Outside

LEMMA FramesGrow ==
    ASSUME NEW known, NEW more, known \subseteq more
    PROVE  Frame(known) \subseteq Frame(more)
<1>1. Seq(known) \subseteq Seq(more)
  OBVIOUS
<1> QED BY <1>1 DEF Frame, Items

LEMMA FramesOfBody ==
    ASSUME NEW known, NEW body \in Seq(Statements), NEW x \in Items(known)
    PROVE  Frames(body, x) \in Seq(Frame(known))
<1>1. \A i \in DOMAIN body : [stmt |-> body[i], item |-> x] \in Frame(known)
  BY DEF Frame
<1>2. DOMAIN body = 1 .. Len(body) /\ Len(body) \in Nat
  OBVIOUS
<1>3. Frames(body, x) \in [1 .. Len(body) -> Frame(known)]
  BY <1>1, <1>2 DEF Frames
<1> QED BY <1>2, <1>3

LEMMA LoopFrames ==
    ASSUME NEW known, NEW items \in Seq(known), NEW body \in Seq(Statements),
           NEW outer \in Items(known)
    PROVE  Loop(items, body, outer) \in Seq(Frame(known))
<1>1. CASE items = <<>>
  BY <1>1 DEF Loop
<1>2. CASE items # <<>>
  <2>1. Head(items) \in known /\ Tail(items) \in Seq(known)
    BY <1>2
  <2>2. Frames(body, Head(items)) \in Seq(Frame(known))
    BY <2>1, FramesOfBody DEF Items
  <2> DEFINE next == [stmt |-> [op |-> "next", body |-> body, rest |-> Tail(items)],
                      item |-> outer]
  <2>3. next \in Frame(known)
    BY <2>1 DEF Frame
  <2>4. <<next>> \in Seq(Frame(known))
    <3> HIDE DEF next
    <3> QED BY <2>3
  <2>5. Loop(items, body, outer) = Frames(body, Head(items)) \o <<next>>
    BY <1>2 DEF Loop
  <2> HIDE DEF next
  <2> QED BY <2>2, <2>4, <2>5
<1> QED BY <1>1, <1>2

LEMMA NoneLeft ==
    ASSUME NEW S, NEW frames \in Seq(S), Len(frames) = 0
    PROVE  frames = <<>>
  OBVIOUS

(* To put frames before the rest of what was left keeps its end. *)
LEMMA PushFrames ==
    ASSUME NEW F, NEW frames \in Seq(F), frames # <<>>, EndsInEnd(frames),
           NEW S, F \subseteq S, NEW before \in Seq(S)
    PROVE  /\ before \o Tail(frames) \in Seq(S)
           /\ before = <<>> \/ frames[1].stmt.op # "end" => EndsInEnd(before \o Tail(frames))
<1>1. Tail(frames) \in Seq(S) /\ Len(Tail(frames)) = Len(frames) - 1
  <2>1. Tail(frames) \in Seq(F)
    OBVIOUS
  <2>2. Seq(F) \subseteq Seq(S)
    OBVIOUS
  <2> QED BY <2>1, <2>2
<1>2. ASSUME Len(frames) > 1
      PROVE  EndsInEnd(before \o Tail(frames))
  <2>1. Len(frames) \in Nat
    OBVIOUS
  <2>2. Len(before \o Tail(frames)) = Len(before) + (Len(frames) - 1)
    BY <1>1
  <2>3. (before \o Tail(frames))[Len(before) + (Len(frames) - 1)] = Tail(frames)[Len(frames) - 1]
    BY <1>1, <1>2, <2>1
  <2>4. Tail(frames)[Len(frames) - 1] = frames[Len(frames)]
    BY <1>2, <2>1
  <2> QED BY <1>2, <2>1, <2>2, <2>3, <2>4 DEF EndsInEnd
<1>3. CASE Len(frames) = 1
  <2>1. Tail(frames) = <<>>
    <3>1. Tail(frames) \in Seq(S) /\ Len(Tail(frames)) = 0
      BY <1>1, <1>3
    <3> QED BY <3>1, NoneLeft
  <2>2. before = <<>> => EndsInEnd(before \o Tail(frames))
    BY <2>1 DEF EndsInEnd
  <2>3. frames[1].stmt.op = "end"
    BY <1>3 DEF EndsInEnd
  <2> QED BY <1>1, <2>2, <2>3
<1>4. Len(frames) \in Nat /\ Len(frames) # 0
  OBVIOUS
<1> QED BY <1>1, <1>2, <1>3, <1>4

LEMMA LeastNumber ==
    ASSUME NEW S \in SUBSET Nat, S # {}
    PROVE  \E n \in S : \A m \in S : n <= m
<1>1. PICK n \in S : \A m \in S : <<m, n>> \notin OpToRel(<, Nat)
  BY NatLessThanWellFounded, WFMin
<1>2. \A m \in S : ~(m < n)
  BY <1>1 DEF OpToRel
<1> QED BY <1>2

(* Control that leaves for a mark finds one. *)
LEMMA MarkFound ==
    ASSUME NEW F, todo \in Seq(F), todo # <<>>, EndsInEnd(todo), NEW ops
    PROVE  /\ LeaveTo(ops) \in Seq(F) /\ LeaveTo(ops) # <<>>
           /\ EndsInEnd(LeaveTo(ops))
           /\ LeaveTo(ops)[1].stmt.op \in ops \cup {"end"}
<1> DEFINE marks == {i \in DOMAIN todo : todo[i].stmt.op \in ops \cup {"end"}}
           first == CHOOSE i \in marks : \A j \in marks : i <= j
<1>1. Len(todo) \in Nat /\ DOMAIN todo = 1 .. Len(todo) /\ Len(todo) \in 1 .. Len(todo)
  OBVIOUS
<1>2. marks \in SUBSET Nat /\ Len(todo) \in marks
  BY <1>1 DEF EndsInEnd
<1>3. first \in marks
  <2> HIDE DEF marks
  <2>1. \E i \in marks : \A j \in marks : i <= j
    BY <1>2, LeastNumber
  <2> QED BY <2>1
<1>4. first \in 1 .. Len(todo) /\ todo[first].stmt.op \in ops \cup {"end"}
  BY <1>1, <1>3
<1>5. LeaveTo(ops) = SubSeq(todo, first, Len(todo))
  BY DEF LeaveTo
<1> HIDE DEF marks, first
<1>6. /\ SubSeq(todo, first, Len(todo)) \in Seq(F)
      /\ Len(SubSeq(todo, first, Len(todo))) = Len(todo) - first + 1
      /\ \A i \in 1 .. Len(todo) - first + 1 :
             SubSeq(todo, first, Len(todo))[i] = todo[first + i - 1]
  BY <1>1, <1>4
<1>7. /\ SubSeq(todo, first, Len(todo))[1] = todo[first]
      /\ SubSeq(todo, first, Len(todo))[Len(todo) - first + 1] = todo[Len(todo)]
  BY <1>1, <1>4, <1>6
<1>8. LeaveTo(ops) # <<>>
  <2>1. Len(LeaveTo(ops)) > 0
    BY <1>1, <1>4, <1>5, <1>6
  <2>2. Len(<<>>) = 0
    OBVIOUS
  <2> QED BY <2>1, <2>2
<1> QED BY <1>4, <1>5, <1>6, <1>7, <1>8 DEF EndsInEnd

-----------------------------------------------------------------------------
(* The statement at hand and the resource it is about. *)
LEMMA AtHand ==
    ASSUME TodoInv, todo # <<>>
    PROVE  /\ item \in Items(listed)
           /\ stmt.op \notin Marks => stmt \in Statements
           /\ stmt.op = "next" => stmt.body \in Seq(Statements) /\ stmt.rest \in Seq(listed)
           /\ stmt = todo[1].stmt
<1>1. Head(todo) \in Frame(listed) /\ Head(todo) = todo[1]
  BY DEF TodoInv
<1>2. \A s \in Statements : s.op \notin Marks
  BY ProgramAssumption DEF WellFormed
<1> QED BY <1>1, <1>2 DEF Frame, stmt, item, Marks

LEMMA MarkNames ==
    ASSUME NEW f \in Frame(listed), f.stmt.op \in {"except", "end"}, NEW n \in 0 .. MaxEvents
    PROVE  Source(f.stmt.what, n) \in Sources
<1>1. f.stmt \notin Statements
  BY ProgramAssumption DEF WellFormed, Marks
<1> QED BY <1>1 DEF Frame

LEMMA ItemTypes ==
    ASSUME ListedInv, NEW x \in Items(listed)
    PROVE  /\ x.n \in 0 .. MaxEvents /\ x.parent \in 0 .. MaxEvents /\ x.section \in Nat
           /\ x.type \in ResourceTypes /\ x.intent \in Intents
<1>1. CASE x \in listed
  BY <1>1 DEF ListedInv, Item
<1>2. CASE x \in Outsides
  BY <1>2, OutsideItems, GatherAssumption, ProgramAssumption
<1> QED BY <1>1, <1>2 DEF Items

LEMMA EventsInRoom ==
    ASSUME WriterTypeOK, ListedInv
    PROVE  /\ Numbered \in Nat
           /\ \A k \in 0 .. Room : Numbered + k \in 0 .. MaxEvents
<1>1. Numbers(listed) \subseteq 1 .. MaxEvents
  BY GatherAssumption DEF ListedInv, Item, Numbers
<1>2. IsFiniteSet(Numbers(listed))
  <2>1. IsFiniteSet(1 .. MaxEvents)
    <3>1. MaxEvents \in Int
      BY GatherAssumption
    <3> QED BY <3>1, FS_Interval
  <2> QED BY <1>1, <2>1, FS_Subset
<1>3. Numbered \in Nat
  BY <1>2, FS_CardinalityType DEF Numbered, Numbers
<1>4. Cardinality(faults) \in Nat /\ Len(edges) \in Nat
  BY FS_CardinalityType DEF ListedInv, WriterTypeOK
<1> QED BY <1>3, <1>4, GatherAssumption DEF Room, Events

-----------------------------------------------------------------------------
(* What a list call returns. *)
LEMMA NewItemType ==
    ASSUME GatherInv, Running("each"), NEW n \in 0 .. MaxEvents, NEW intent \in Intents
    PROVE  NewItem(n, intent) \in Item
<1>1. stmt \in Statements /\ item \in Items(listed)
  BY AtHand DEF GatherInv, Running, Marks
<1>2. stmt.what \in ResourceTypes /\ stmt.aside \in BOOLEAN
  BY <1>1, ProgramAssumption DEF WellFormed, Running
<1>3. item.n \in 0 .. MaxEvents /\ item.section \in Nat
  BY <1>1, ItemTypes DEF GatherInv
<1> QED BY <1>2, <1>3 DEF NewItem, Item

LEMMA RangeFinite ==
    ASSUME NEW S, NEW s \in Seq(S)
    PROVE  IsFiniteSet({s[i] : i \in DOMAIN s}) /\ {s[i] : i \in DOMAIN s} \subseteq S
<1>1. Len(s) \in Nat /\ DOMAIN s = 1 .. Len(s)
  OBVIOUS
<1>2. s \in Surjection(1 .. Len(s), {s[i] : i \in DOMAIN s})
  BY <1>1 DEF Surjection
<1>3. IsFiniteSet(1 .. Len(s))
  BY <1>1, FS_Interval
<1> QED BY <1>2, <1>3, FS_Surjection

(* Nothing changes for the numbers when what is listed was numbered before. *)
Numbering(known) ==
    /\ known \in SUBSET Item /\ IsFiniteSet(known)
    /\ Numbers(known) = 1 .. Cardinality(Numbers(known))
    /\ \A x, y \in Items(known) : x.n = y.n => x.intent = y.intent

LEMMA SeenAgain ==
    ASSUME GatherInv, NEW items \in Seq(Item),
           \A i \in DOMAIN items : \E x \in Items(listed) :
               items[i].n = x.n /\ items[i].intent = x.intent
    PROVE  Numbering(listed \cup {items[i] : i \in DOMAIN items})
<1> DEFINE new == {items[i] : i \in DOMAIN items}
<1>1. IsFiniteSet(new) /\ new \subseteq Item
  BY RangeFinite
<1>2. \A y \in new : \E x \in Items(listed) : y.n = x.n /\ y.intent = x.intent
  OBVIOUS
<1> HIDE DEF new
<1>3. IsFiniteSet(listed \cup new) /\ listed \cup new \subseteq Item
  BY <1>1, FS_Union DEF GatherInv, ListedInv
<1>4. Numbers(listed \cup new) = Numbers(listed)
  <2>1. \A x \in Items(listed) : x.n \in Numbers(listed) \cup {0}
    BY OutsideItems DEF Items, Numbers
  <2>2. \A y \in new : y.n \in Numbers(listed) \cup {0}
    BY <1>2, <2>1
  <2> QED BY <2>2 DEF Numbers
<1>5. \A x, y \in Items(listed \cup new) : x.n = y.n => x.intent = y.intent
  <2>1. \A y \in Items(listed \cup new) : \E x \in Items(listed) :
            y.n = x.n /\ y.intent = x.intent
    BY <1>2 DEF Items
  <2> QED BY <2>1 DEF GatherInv, ListedInv
<1>6. Numbers(listed) = 1 .. Cardinality(Numbers(listed))
  BY DEF GatherInv, ListedInv, Numbered, Numbers
<1> QED BY <1>3, <1>4, <1>5, <1>6 DEF Numbering, new

(* New resources are numbered on from where the numbers stand. *)
LEMMA SeenFirst ==
    ASSUME GatherInv, Running("each"), NEW items \in NewItems, PossibleIntents \subseteq Intents
    PROVE  items \in Seq(Item) /\ Numbering(listed \cup {items[i] : i \in DOMAIN items})
<1>1. PICK k \in 0 .. Room : \E intents \in [1 .. k -> PossibleIntents] :
          items = [i \in 1 .. k |-> NewItem(Numbered + i, intents[i])]
  BY DEF NewItems
<1>2. PICK intents \in [1 .. k -> PossibleIntents] :
          items = [i \in 1 .. k |-> NewItem(Numbered + i, intents[i])]
  BY <1>1
<1>3. Numbered \in Nat /\ k \in Nat /\ Numbered + k \in 0 .. MaxEvents
  BY <1>1, EventsInRoom DEF GatherInv
<1>4. \A i \in 1 .. k : Numbered + i \in 0 .. MaxEvents /\ intents[i] \in Intents
  BY <1>3, GatherAssumption
<1>5. \A i \in 1 .. k : NewItem(Numbered + i, intents[i]) \in Item
  BY <1>4, NewItemType
<1>6. items \in Seq(Item) /\ DOMAIN items = 1 .. k
  <2>1. items \in [1 .. k -> Item]
    BY <1>2, <1>5
  <2> QED BY <1>3, <2>1
<1>7. \A i \in 1 .. k : items[i].n = Numbered + i
  BY <1>2 DEF NewItem
<1> DEFINE new == {items[i] : i \in DOMAIN items}
<1>8. IsFiniteSet(new) /\ new \subseteq Item
  BY <1>6, RangeFinite
<1>9. {x.n : x \in new} = Numbered + 1 .. Numbered + k
  <2>1. \A n \in Numbered + 1 .. Numbered + k : \E i \in 1 .. k : n = Numbered + i
    <3> TAKE n \in Numbered + 1 .. Numbered + k
    <3>1. n - Numbered \in 1 .. k /\ n = Numbered + (n - Numbered)
      BY <1>3
    <3> QED BY <3>1
  <2>2. \A i \in 1 .. k : Numbered + i \in Numbered + 1 .. Numbered + k
    BY <1>3
  <2>3. \A x \in new : x.n \in Numbered + 1 .. Numbered + k
    BY <1>6, <1>7, <2>2
  <2>4. ASSUME NEW n \in Numbered + 1 .. Numbered + k PROVE \E x \in new : x.n = n
    <3>1. PICK i \in 1 .. k : n = Numbered + i
      BY <2>1
    <3>2. items[i] \in new /\ items[i].n = n
      BY <1>6, <1>7, <3>1
    <3> QED BY <3>2
  <2> HIDE DEF new
  <2> QED BY <2>3, <2>4
<1>10. \A x, y \in new : x.n = y.n => x = y
  <2> SUFFICES ASSUME NEW i \in 1 .. k, NEW j \in 1 .. k, items[i].n = items[j].n
               PROVE  i = j
    BY <1>6
  <2> QED BY <1>3, <1>7
<1> HIDE DEF new
<1>11. IsFiniteSet(listed \cup new) /\ listed \cup new \subseteq Item
  BY <1>8, FS_Union DEF GatherInv, ListedInv
<1>12. Numbers(listed) = 1 .. Numbered
  BY DEF GatherInv, ListedInv
<1>13. Numbers(listed \cup new) = 1 .. Numbered + k
  <2>1. Numbers(listed \cup new) = Numbers(listed) \cup (Numbered + 1 .. Numbered + k)
    <3>1. 0 \notin Numbered + 1 .. Numbered + k
      BY <1>3
    <3>2. Numbers(listed \cup new) = Numbers(listed) \cup ({x.n : x \in new} \ {0})
      BY DEF Numbers
    <3> QED BY <1>9, <3>1, <3>2
  <2>2. (1 .. Numbered) \cup (Numbered + 1 .. Numbered + k) = 1 .. Numbered + k
    BY <1>3
  <2> QED BY <1>12, <2>1, <2>2
<1>14. Cardinality(1 .. Numbered + k) = Numbered + k
  BY <1>3, FS_Interval
<1>15. \A x, y \in Items(listed \cup new) : x.n = y.n => x.intent = y.intent
  <2>1. \A x \in Items(listed) : x.n \in 0 .. Numbered
    <3>1. \A x \in Items(listed) : x.n \in Numbers(listed) \cup {0}
      BY OutsideItems DEF Items, Numbers
    <3> QED BY <1>3, <1>12, <3>1
  <2>2. \A x \in new : x.n \notin 0 .. Numbered
    <3>1. \A x \in new : x.n \in Numbered + 1 .. Numbered + k
      BY <1>9
    <3> QED BY <1>3, <3>1
  <2>3. \A x, y \in Items(listed) : x.n = y.n => x.intent = y.intent
    BY DEF GatherInv, ListedInv
  <2>4. Items(listed \cup new) = Items(listed) \cup new
    BY DEF Items
  <2> QED BY <1>10, <2>1, <2>2, <2>3, <2>4
<1> QED BY <1>6, <1>11, <1>13, <1>14, <1>15 DEF Numbering, new

LEMMA InOrderOf ==
    ASSUME NEW S \in SUBSET Item, IsFiniteSet(S), NEW items \in InOrder(S)
    PROVE  items \in Seq(S) /\ \A i \in DOMAIN items : items[i] \in S
<1>1. Cardinality(S) \in Nat /\ items \in [1 .. Cardinality(S) -> S]
  BY FS_CardinalityType DEF InOrder
<1> QED BY <1>1

LEMMA ListedItems ==
    ASSUME GatherInv, Running("each"), NEW items \in Listing
    PROVE  items \in Seq(Item) /\ Numbering(listed \cup {items[i] : i \in DOMAIN items})
<1>1. stmt \in Statements /\ item \in Items(listed)
  BY AtHand DEF GatherInv, Running, Marks
<1>2. /\ stmt.tags \in {"own", "parent", "none"}
      /\ stmt.form \in {"fresh", "first page", "repaged", "shared", "single", "known"}
  BY <1>1, ProgramAssumption DEF WellFormed, Running
<1>3. PossibleIntents \subseteq Intents
  BY <1>1, <1>2, ItemTypes, GatherAssumption DEF PossibleIntents, GatherInv
<1>4. \A x \in Items(listed) : NewItem(x.n, x.intent) \in Item
  BY ItemTypes, NewItemType DEF GatherInv
<1>5. \A n, intent : NewItem(n, intent).n = n /\ NewItem(n, intent).intent = intent
  BY DEF NewItem
<1>6. CASE items \in NewItems
  BY <1>3, <1>6, SeenFirst
<1>7. ASSUME NEW x \in Items(listed), items = <<NewItem(x.n, x.intent)>>
      PROVE  items \in Seq(Item) /\ Numbering(listed \cup {items[i] : i \in DOMAIN items})
  <2>1. items \in Seq(Item) /\ \A i \in DOMAIN items : items[i] = NewItem(x.n, x.intent)
    BY <1>4, <1>7
  <2> QED BY <1>5, <2>1, SeenAgain
<1>8. CASE items \in SeenElsewhere
  <2>1. PICK x \in listed : items = <<NewItem(x.n, x.intent)>>
    BY <1>8 DEF SeenElsewhere, ListedOf
  <2> QED BY <1>7, <2>1 DEF Items
<1>9. CASE items = <<NewItem(0, NoIntent)>>
  <2>1. Outside(0) \in Items(listed) /\ Outside(0).n = 0 /\ Outside(0).intent = NoIntent
    BY DEF Items, Outsides, Outside
  <2> QED BY <1>7, <1>9, <2>1
<1>10. CASE items \in InOrder({NewItem(x.n, x.intent) : x \in ListedOf(stmt.what)})
  <2> DEFINE again == {NewItem(x.n, x.intent) : x \in ListedOf(stmt.what)}
  <2>1. again \in SUBSET Item
    BY <1>4 DEF ListedOf, Items
  <2>2. IsFiniteSet(again)
    <3>1. ListedOf(stmt.what) \in SUBSET listed /\ IsFiniteSet(listed)
      BY DEF ListedOf, GatherInv, ListedInv
    <3>2. IsFiniteSet(ListedOf(stmt.what))
      BY <3>1, FS_Subset
    <3> DEFINE f == [x \in ListedOf(stmt.what) |-> NewItem(x.n, x.intent)]
    <3>3. f \in Surjection(ListedOf(stmt.what), again)
      BY DEF Surjection
    <3> QED BY <3>2, <3>3, FS_Surjection
  <2>3. \A y \in again : \E x \in Items(listed) : y.n = x.n /\ y.intent = x.intent
    BY <1>5 DEF ListedOf, Items
  <2> HIDE DEF again
  <2>4. items \in Seq(again) /\ \A i \in DOMAIN items : items[i] \in again
    BY <1>10, <2>1, <2>2, InOrderOf DEF again
  <2>5. items \in Seq(Item)
    BY <2>1, <2>4
  <2> QED BY <2>3, <2>4, <2>5, SeenAgain
<1> QED BY <1>2, <1>6, <1>8, <1>9, <1>10 DEF Listing

-----------------------------------------------------------------------------
(* The steps. *)
Unchanged == UNCHANGED <<writerVars, module, region, faults>>

LEMMA RecordsKept ==
    ASSUME RecordsInv, records' = records, listed \subseteq listed', faults \subseteq faults'
    PROVE  RecordsInv'
<1>1. \A x : TagsUnread(x) => TagsUnread(x)'
  BY DEF TagsUnread
<1> QED BY <1>1 DEF RecordsInv, Items

LEMMA WriterUntouched == WriterTypeOK /\ UNCHANGED writerVars => WriterTypeOK'
  BY DEF WriterTypeOK, writerVars

LEMMA FrameAtHand ==
    ASSUME TodoInv, todo # <<>>, NEW S, Frame(listed) \subseteq S, NEW before \in Seq(S),
           before = <<>> \/ stmt.op # "end"
    PROVE  before \o Tail(todo) \in Seq(S) /\ EndsInEnd(before \o Tail(todo))
<1>1. stmt.op = todo[1].stmt.op
  BY AtHand
<1> QED BY <1>1, PushFrames DEF TodoInv

(* a list call that returned these, and a loop over them *)
LEMMA ListedStep ==
    ASSUME GatherInv, Running("each"), NEW items \in Seq(Item),
           LET new == {items[i] : i \in DOMAIN items}
           IN  Numbering(listed \cup new) /\ listed' = listed \cup new,
           NEW over \in Seq({items[i] : i \in DOMAIN items}),
           todo' = Loop(over, stmt.body, item) \o Tail(todo),
           IsFiniteSet(faults'), faults \subseteq faults',
           \A f \in faults' : f.fail \in {"raise", "error", "skip", "return", "silent", "drop",
                                          "unread", "repeated"},
           UNCHANGED <<writerVars, module, region>>
    PROVE  GatherInv'
<1>1. stmt \in Statements /\ item \in Items(listed) /\ stmt.op # "end" /\ todo # <<>>
  BY AtHand DEF GatherInv, Running, Marks
<1>2. stmt.body \in Seq(Statements)
  BY <1>1, ProgramAssumption DEF WellFormed, Running
<1>3. Loop(over, stmt.body, item) \in Seq(Frame(listed'))
  <2>1. over \in Seq(listed')
    OBVIOUS
  <2>2. item \in Items(listed')
    BY <1>1 DEF Items
  <2> QED BY <1>2, <2>1, <2>2, LoopFrames
<1>4. Frame(listed) \subseteq Frame(listed')
  BY FramesGrow
<1>5. TodoInv'
  BY <1>1, <1>3, <1>4, FrameAtHand DEF GatherInv, TodoInv
<1>6. ListedInv'
  BY DEF Numbering, ListedInv, Numbered, Numbers
<1>7. RecordsInv'
  BY RecordsKept DEF GatherInv, writerVars
<1>8. WriterTypeOK'
  BY WriterUntouched DEF GatherInv
<1> QED BY <1>5, <1>6, <1>7, <1>8 DEF GatherInv

(* a step that neither lists nor fails *)
LEMMA QuietStep ==
    ASSUME GatherInv, todo # <<>>, NEW before \in Seq(Frame(listed)),
           before = <<>> \/ stmt.op # "end", todo' = before \o Tail(todo),
           WriterTypeOK', RecordsInv', UNCHANGED <<module, region, listed, faults>>
    PROVE  GatherInv'
<1>1. TodoInv'
  BY FrameAtHand DEF GatherInv, TodoInv
<1>2. ListedInv'
  BY DEF GatherInv, ListedInv, Numbered, Numbers
<1> QED BY <1>1, <1>2 DEF GatherInv

(* a call that fails *)
LEMMA FailedStep ==
    ASSUME GatherInv,
           NEW fail \in {"raise", "error", "skip", "return", "silent", "drop"}, CallFails(fail),
           todo' \in Seq(Frame(listed)), EndsInEnd(todo'), WriterTypeOK', records' = records
    PROVE  GatherInv'
<1>1. TodoInv'
  BY DEF CallFails, TodoInv
<1>2. IsFiniteSet(faults') /\ faults \subseteq faults'
  BY FS_AddElement DEF CallFails, GatherInv, ListedInv
<1>3. ListedInv'
  BY <1>2 DEF CallFails, GatherInv, ListedInv, Numbered, Numbers
<1>4. RecordsInv'
  BY <1>2, RecordsKept DEF CallFails, GatherInv
<1>5. Failure(fail).fail = fail
  BY DEF Failure
<1> QED BY <1>1, <1>3, <1>4, <1>5 DEF CallFails, GatherInv

LEMMA InitInv == GatherInit => GatherInv
<1> SUFFICES ASSUME GatherInit PROVE GatherInv
  OBVIOUS
<1>1. WriterTypeOK
  BY InitTypeOK DEF GatherInit
<1>2. Programs[module] \in Seq(Statements)
  BY ProgramAssumption DEF WellFormed, GatherInit
<1> DEFINE body == [i \in DOMAIN Programs[module] |->
                       [stmt |-> Programs[module][i], item |-> Outside(i)]]
           last == [stmt |-> [op |-> "end", what |-> "gather"], item |-> Outside(0)]
<1>3. body \in Seq(Frame({}))
  <2>1. /\ Len(Programs[module]) \in Nat
        /\ DOMAIN Programs[module] = 1 .. Len(Programs[module])
        /\ \A i \in DOMAIN Programs[module] : Programs[module][i] \in Statements
    BY <1>2
  <2>2. \A i \in DOMAIN Programs[module] : Outside(i) \in Items({})
    BY <2>1 DEF Items, Outsides
  <2>3. body \in [1 .. Len(Programs[module]) -> Frame({})]
    BY <2>1, <2>2 DEF Frame
  <2> QED BY <2>1, <2>3
<1>4. last \in Frame({})
  BY ProgramAssumption DEF Frame, Items, Outsides
<1>5. todo = body \o <<last>>
  BY DEF GatherInit, Start
<1>6. TodoInv
  <2> HIDE DEF body, last
  <2>1. todo \in Seq(Frame({})) /\ todo[Len(todo)] = last
    BY <1>3, <1>4, <1>5
  <2>2. last.stmt.op = "end"
    BY DEF last
  <2>3. listed = {}
    BY DEF GatherInit
  <2> QED BY <2>1, <2>2, <2>3 DEF TodoInv, EndsInEnd
<1>7. ListedInv
  <2>1. Numbers({}) = {} /\ Cardinality({}) = 0 /\ IsFiniteSet({})
    BY FS_EmptySet DEF Numbers
  <2>2. \A x, y \in Items({}) : x.intent = y.intent
    BY OutsideItems DEF Items
  <2> QED BY <2>1, <2>2 DEF GatherInit, ListedInv, Numbered, Numbers
<1>8. RecordsInv
  BY DEF GatherInit, WriterInit, RecordsInv
<1> QED BY <1>1, <1>6, <1>7, <1>8 DEF GatherInit, GatherInv

LEMMA ListingStep ==
    ASSUME GatherInv, ListResources \/ ListFirstPage \/ ListFromFirstPage
    PROVE  GatherInv' /\ UNCHANGED writerVars
<1> DEFINE range(items) == {items[i] : i \in DOMAIN items}
<1>1. \A f \in faults : f.fail \in {"raise", "error", "skip", "return", "silent", "drop",
                                    "unread", "repeated"}
  BY DEF GatherInv
<1>2. IsFiniteSet(faults)
  BY DEF GatherInv, ListedInv
<1>3. \A fail : Failure(fail).fail = fail /\ IsFiniteSet(faults \cup {Failure(fail)})
  BY <1>2, FS_AddElement DEF Failure
<1>4. \A items \in Seq(Item) : items \in Seq(range(items))
  OBVIOUS
<1>5. CASE ListResources
  <2>1. PICK items \in Listing : /\ listed' = listed \cup range(items)
                                 /\ todo' = Loop(items, stmt.body, item) \o Tail(todo)
    BY <1>5 DEF ListResources
  <2>2. items \in Seq(Item) /\ Numbering(listed \cup range(items))
    BY <1>5, ListedItems DEF ListResources
  <2> QED BY <1>1, <1>2, <1>4, <1>5, <2>1, <2>2, ListedStep DEF ListResources
<1>6. CASE ListFirstPage
  <2>1. PICK items \in Listing : /\ listed' = listed \cup range(items)
                                 /\ todo' = Loop(items, stmt.body, item) \o Tail(todo)
    BY <1>6 DEF ListFirstPage
  <2>2. items \in Seq(Item) /\ Numbering(listed \cup range(items))
    BY <1>6, ListedItems DEF ListFirstPage
  <2> QED BY <1>1, <1>3, <1>4, <1>6, <2>1, <2>2, ListedStep DEF ListFirstPage
<1>7. CASE ListFromFirstPage
  <2>1. PICK items \in Listing : \E k \in DOMAIN items :
            /\ listed' = listed \cup range(items)
            /\ todo' = Loop(SubSeq(items, 1, k) \o items, stmt.body, item) \o Tail(todo)
    BY <1>7 DEF ListFromFirstPage
  <2>2. PICK k \in DOMAIN items :
            /\ listed' = listed \cup range(items)
            /\ todo' = Loop(SubSeq(items, 1, k) \o items, stmt.body, item) \o Tail(todo)
    BY <2>1
  <2>3. items \in Seq(Item) /\ Numbering(listed \cup range(items))
    BY <1>7, ListedItems DEF ListFromFirstPage
  <2>4. SubSeq(items, 1, k) \o items \in Seq(range(items))
    <3>1. items \in Seq(range(items)) /\ k \in 1 .. Len(items)
      BY <1>4, <2>3
    <3>2. SubSeq(items, 1, k) \in Seq(range(items))
      <4> HIDE DEF range
      <4> QED BY <3>1
    <3> HIDE DEF range
    <3> QED BY <3>1, <3>2
  <2> QED BY <1>1, <1>3, <1>7, <2>2, <2>3, <2>4, ListedStep DEF ListFromFirstPage
<1> QED BY <1>5, <1>6, <1>7

LEMMA QuietSteps ==
    ASSUME GatherInv,
           LoopAgain \/ Branch \/ NextItem \/ FetchDetail \/ FetchAndUse \/ EnterTry
               \/ LeaveTry \/ NoEdge
    PROVE  GatherInv' /\ UNCHANGED writerVars
<1>1. todo # <<>> /\ UNCHANGED <<writerVars, module, region, listed, faults>>
  BY DEF LoopAgain, Branch, NextItem, FetchDetail, FetchAndUse, EnterTry, LeaveTry, NoEdge,
         Running
<1>2. WriterTypeOK' /\ RecordsInv'
  BY <1>1, WriterUntouched, RecordsKept DEF GatherInv, writerVars
<1>3. /\ item \in Items(listed)
      /\ stmt.op \notin Marks => stmt \in Statements
      /\ stmt.op = "next" => stmt.body \in Seq(Statements) /\ stmt.rest \in Seq(listed)
  BY <1>1, AtHand DEF GatherInv
<1>4. stmt.op \in {"again", "if", "when", "guard", "call"} =>
          stmt \in Statements /\ stmt.body \in Seq(Statements)
  BY <1>3, ProgramAssumption DEF WellFormed, Marks
<1>5. \E before \in Seq(Frame(listed)) :
          todo' = before \o Tail(todo) /\ (before = <<>> \/ stmt.op # "end")
  <2>1. <<>> \in Seq(Frame(listed))
    OBVIOUS
  <2>2. Tail(todo) = <<>> \o Tail(todo)
    BY <1>1 DEF GatherInv, TodoInv
  <2>3. CASE LoopAgain
    <3>1. PICK items \in InOrder(ListedOf(stmt.what)) :
              todo' = Loop(items, stmt.body, item) \o Tail(todo)
      BY <2>3 DEF LoopAgain
    <3>2. ListedOf(stmt.what) \in SUBSET listed /\ listed \in SUBSET Item /\ IsFiniteSet(listed)
      BY DEF ListedOf, GatherInv, ListedInv
    <3>3. IsFiniteSet(ListedOf(stmt.what))
      BY <3>2, FS_Subset
    <3>4. items \in Seq(listed)
      <4>1. items \in Seq(ListedOf(stmt.what))
        BY <3>2, <3>3, InOrderOf
      <4> QED BY <3>2, <4>1
    <3>5. Loop(items, stmt.body, item) \in Seq(Frame(listed))
      BY <1>3, <1>4, <2>3, <3>4, LoopFrames DEF LoopAgain, Running
    <3> QED BY <2>3, <3>1, <3>5 DEF LoopAgain, Running
  <2>4. CASE NextItem
    <3>1. Loop(stmt.rest, stmt.body, item) \in Seq(Frame(listed))
      BY <1>3, <2>4, LoopFrames DEF NextItem, Running
    <3> QED BY <2>4, <3>1 DEF NextItem, Running
  <2>5. CASE Branch \/ FetchAndUse
    <3>1. Frames(stmt.body, item) \in Seq(Frame(listed)) /\ stmt.op # "end"
      BY <1>3, <1>4, <2>5, FramesOfBody DEF Branch, FetchAndUse, Running
    <3>2. todo' = Frames(stmt.body, item) \o Tail(todo) \/ todo' = <<>> \o Tail(todo)
      BY <2>5 DEF Branch, FetchAndUse
    <3> QED BY <2>1, <3>1, <3>2
  <2>6. CASE EnterTry
    <3> DEFINE kind == IF stmt.op = "guard" THEN "except" ELSE "end"
               mark == [stmt |-> [op |-> kind, what |-> stmt.what], item |-> item]
    <3>1. stmt \in Statements /\ stmt.body \in Seq(Statements) /\ stmt.op # "end"
      BY <1>4, <2>6 DEF EnterTry
    <3>2. \A n \in 0 .. MaxEvents : Source(stmt.what, n) \in Sources
      BY <3>1, <2>6, ProgramAssumption DEF WellFormed, EnterTry
    <3>3. mark \in Frame(listed)
      BY <1>3, <3>1, <3>2 DEF Frame
    <3>4. Frames(stmt.body, item) \in Seq(Frame(listed))
      BY <1>3, <3>1, FramesOfBody
    <3>5. todo' = Frames(stmt.body, item) \o <<mark>> \o Tail(todo)
      BY <2>6 DEF EnterTry
    <3> HIDE DEF mark
    <3>6. Frames(stmt.body, item) \o <<mark>> \in Seq(Frame(listed))
      BY <3>3, <3>4
    <3> QED BY <3>1, <3>5, <3>6
  <2>7. CASE FetchDetail \/ LeaveTry \/ NoEdge
    BY <2>1, <2>2, <2>7 DEF FetchDetail, LeaveTry, NoEdge
  <2> QED BY <2>3, <2>4, <2>5, <2>6, <2>7
<1>6. PICK before \in Seq(Frame(listed)) :
          todo' = before \o Tail(todo) /\ (before = <<>> \/ stmt.op # "end")
  BY <1>5
<1> QED BY <1>1, <1>2, <1>6, QuietStep

(* Failed calls: what is told is an entry of the list of errors. *)
LEMMA ToldOrNot ==
    ASSUME GatherInv,
           \/ \E n \in 0 .. MaxEvents : \E w :
                  Source(w, n) \in Sources /\ AddError(region, Source(w, n))
           \/ UNCHANGED writerVars
    PROVE  WriterTypeOK' /\ records' = records /\ [AnyCall]_writerVars
<1>1. region \in Regions /\ WriterTypeOK
  BY DEF GatherInv
<1>2. CASE UNCHANGED writerVars
  BY <1>1, <1>2, WriterUntouched DEF writerVars
<1>3. CASE \E n \in 0 .. MaxEvents : \E w :
              Source(w, n) \in Sources /\ AddError(region, Source(w, n))
  <2>1. PICK s \in Sources : AddError(region, s)
    BY <1>3
  <2> QED BY <1>1, <2>1, AddErrorTypeOK DEF AddError, AnyCall, SomeAddError
<1> QED BY <1>2, <1>3

LEMMA FailedSteps ==
    ASSUME GatherInv,
           Swallow \/ Drop \/ ReportAndGoOn \/ ReportAndSkip \/ ReportAndLeave \/ Unwind
    PROVE  GatherInv' /\ [AnyCall]_writerVars
<1>1. PICK fail \in {"raise", "error", "skip", "return", "silent", "drop"} : CallFails(fail)
  BY DEF Swallow, Drop, ReportAndGoOn, ReportAndSkip, ReportAndLeave, Unwind
<1>2. todo # <<>> /\ stmt.op \in {"each", "fetch", "when"}
  BY <1>1 DEF CallFails
<1>3. TodoInv /\ ListedInv /\ WriterTypeOK
  BY DEF GatherInv
<1>4. item \in Items(listed) /\ stmt \in Statements
  BY <1>2, <1>3, AtHand DEF Marks
<1>5. item.n \in 0 .. MaxEvents /\ Source(stmt.what, item.n) \in Sources
  BY <1>2, <1>3, <1>4, ItemTypes, ProgramAssumption DEF WellFormed
<1>6. Tail(todo) \in Seq(Frame(listed)) /\ EndsInEnd(Tail(todo))
  <2>1. <<>> \in Seq(Frame(listed)) /\ <<>> \o Tail(todo) = Tail(todo)
    BY <1>2, <1>3 DEF TodoInv
  <2> QED BY <1>2, <1>3, <2>1, FrameAtHand
<1>7. \A ops : LeaveTo(ops) \in Seq(Frame(listed)) /\ EndsInEnd(LeaveTo(ops))
  BY <1>2, <1>3, MarkFound DEF TodoInv
<1>8. CASE Swallow \/ Drop
  BY <1>1, <1>6, <1>7, <1>8, ToldOrNot, FailedStep DEF Swallow, Drop
<1>9. CASE ReportAndGoOn \/ ReportAndSkip \/ ReportAndLeave
  <2>1. AddError(region, Source(stmt.what, item.n))
    BY <1>9 DEF ReportAndGoOn, ReportAndSkip, ReportAndLeave
  <2>2. WriterTypeOK' /\ records' = records /\ [AnyCall]_writerVars
    BY <1>5, <2>1, ToldOrNot
  <2> QED BY <1>1, <1>6, <1>7, <1>9, <2>2, FailedStep
          DEF ReportAndGoOn, ReportAndSkip, ReportAndLeave
<1>10. CASE Unwind
  <2> DEFINE handler == LeaveTo({"except"})
  <2>1. /\ handler \in Seq(Frame(listed)) /\ handler # <<>> /\ EndsInEnd(handler)
        /\ handler[1].stmt.op \in {"except", "end"}
    BY <1>2, <1>3, MarkFound DEF TodoInv
  <2>2. /\ todo' = Tail(handler)
        /\ AddError(region, Source(Head(handler).stmt.what, Head(handler).item.n))
    BY <1>10 DEF Unwind, Handled
  <2> HIDE DEF handler
  <2>3. Head(handler) \in Frame(listed) /\ Head(handler) = handler[1]
    BY <2>1
  <2>4. Head(handler).item \in Items(listed)
    BY <2>3 DEF Frame
  <2>5. Head(handler).item.n \in 0 .. MaxEvents
    BY <1>3, <2>4, ItemTypes
  <2>6. Source(Head(handler).stmt.what, Head(handler).item.n) \in Sources
    BY <2>1, <2>3, <2>5, MarkNames
  <2>7. WriterTypeOK' /\ records' = records /\ [AnyCall]_writerVars
    BY <2>2, <2>5, <2>6, ToldOrNot
  <2>8. Tail(handler) \in Seq(Frame(listed)) /\ EndsInEnd(Tail(handler))
    <3>1. <<>> \in Seq(Frame(listed)) /\ <<>> \o Tail(handler) = Tail(handler)
      BY <2>1
    <3> QED BY <2>1, <3>1, PushFrames
  <2> QED BY <1>1, <2>2, <2>7, <2>8, FailedStep
<1> QED BY <1>8, <1>9, <1>10

(* A resource is recorded whose tags do not suppress it or could not be read. *)
LEMMA RecordStep ==
    ASSUME GatherInv, RecordResource
    PROVE  GatherInv' /\ [AnyCall]_writerVars
<1>1. /\ todo # <<>> /\ stmt.op = "add"
      /\ AddResource(item.type, region, item.n, IntentSeen(item))
      /\ UNCHANGED <<module, region, listed, faults>>
  BY DEF RecordResource, Running
<1>2. item \in Items(listed) /\ stmt \in Statements
  BY <1>1, AtHand DEF GatherInv, Marks
<1>3. /\ item.type \in ResourceTypes /\ item.n \in ResourceIds /\ region \in Regions
      /\ IntentSeen(item) \in Intent
  BY <1>2, ItemTypes, GatherAssumption DEF GatherInv, IntentSeen
<1>4. WriterTypeOK' /\ [AnyCall]_writerVars
  BY <1>1, <1>3, AddResourceTypeOK DEF GatherInv, AnyCall, SomeAddResource
<1>5. RecordsInv'
  <2> DEFINE entry == [type |-> item.type, region |-> region, id |-> item.n,
                       checks |-> IntentSeen(item).checks]
  <2>1. \A x : TagsUnread(x)' <=> TagsUnread(x)
    BY <1>1 DEF TagsUnread
  <2>2. CASE ~Recorded(IntentSeen(item))
    <3>1. records' = records
      BY <1>1, <2>2 DEF AddResource
    <3> QED BY <1>1, <3>1, RecordsKept DEF GatherInv
  <2>3. CASE Recorded(IntentSeen(item))
    <3>1. item.intent.full => TagsUnread(item)
      BY <2>3 DEF Recorded, IntentSeen
    <3>2. records' = Append(records, entry)
      BY <1>1, <2>3 DEF AddResource
    <3>3. \A i \in DOMAIN records' : \/ i \in DOMAIN records /\ records'[i] = records[i]
                                    \/ records'[i] = entry
      <4>1. records \in Seq(Record)
        BY DEF GatherInv, WriterTypeOK
      <4> HIDE DEF entry
      <4> QED BY <3>2, <4>1
    <3>4. entry.id = item.n
      OBVIOUS
    <3> SUFFICES ASSUME NEW i \in DOMAIN records'
                 PROVE  \E x \in Items(listed) :
                            x.n = records'[i].id /\ (x.intent.full => TagsUnread(x))
      BY <1>1, <2>1 DEF RecordsInv
    <3>5. CASE i \in DOMAIN records /\ records'[i] = records[i]
      BY <3>5 DEF GatherInv, RecordsInv
    <3>6. CASE records'[i] = entry
      <4> HIDE DEF entry
      <4> QED BY <1>2, <3>1, <3>4, <3>6
    <3> QED BY <3>3, <3>5, <3>6
  <2> QED BY <2>2, <2>3
<1>6. stmt.body \in Seq(Statements)
  BY <1>1, <1>2, ProgramAssumption DEF WellFormed
<1>7. \E before \in Seq(Frame(listed)) : todo' = before \o Tail(todo)
  <2>1. Frames(stmt.body, item) \in Seq(Frame(listed)) /\ <<>> \in Seq(Frame(listed))
    BY <1>2, <1>6, FramesOfBody
  <2> QED BY <2>1 DEF RecordResource
<1>8. PICK before \in Seq(Frame(listed)) : todo' = before \o Tail(todo)
  BY <1>7
<1>9. stmt.op # "end"
  BY <1>1
<1> QED BY <1>1, <1>4, <1>5, <1>8, <1>9, QuietStep

LEMMA EdgeStep ==
    ASSUME GatherInv, DeriveEdge
    PROVE  GatherInv' /\ SomeAddEdge /\ [AnyCall]_writerVars
<1>1. /\ todo # <<>> /\ stmt.op = "edge" /\ todo' = Tail(todo)
      /\ UNCHANGED <<module, region, listed, faults>>
  BY DEF DeriveEdge, Running
<1>2. item \in Items(listed) /\ stmt \in Statements
  BY <1>1, AtHand DEF GatherInv, Marks
<1>3. /\ item.type \in ResourceTypes /\ item.n \in 0 .. MaxEvents
      /\ item.parent \in 0 .. MaxEvents
      /\ \A x \in listed : x.n \in 0 .. MaxEvents
  BY <1>2, ItemTypes DEF GatherInv, Items
<1>4. 0 .. MaxEvents \subseteq ResourceIds
  BY GatherAssumption
<1>5. Self \in Endpoint
  BY <1>3, <1>4 DEF Self, Endpoint
<1>6. (IF stmt.from = "self" THEN stmt.to ELSE stmt.from) \in ResourceTypes
  BY <1>1, <1>2, ProgramAssumption DEF WellFormed
<1>7. PICK n \in Targets :
          IF stmt.from = "self" THEN AddEdge(Self, [type |-> stmt.to, id |-> n])
                                ELSE AddEdge([type |-> stmt.from, id |-> n], Self)
  BY DEF DeriveEdge
<1>8. n \in ResourceIds
  <2>1. stmt.among \in {"any", "listed", "recorded", "parent", "recorded parent"}
    BY <1>1, <1>2, ProgramAssumption DEF WellFormed
  <2>2. \A x \in ListedOf(stmt.to) : x \in listed
    BY DEF ListedOf
  <2>3. n \in 0 .. MaxEvents
    <3>1. \/ n \in {x.n : x \in ListedOf(stmt.to)}
          \/ n = item.parent
          \/ n \in 1 .. MaxEvents
      BY <1>7, <2>1 DEF Targets
    <3>2. n \in {x.n : x \in ListedOf(stmt.to)} => n \in 0 .. MaxEvents
      BY <1>3, <2>2
    <3> QED BY <1>3, <3>1, <3>2, GatherAssumption
  <2> QED BY <1>4, <2>3
<1>9. SomeAddEdge
  <2>1. CASE stmt.from = "self"
    <3>1. [type |-> stmt.to, id |-> n] \in Endpoint
      BY <1>6, <1>8, <2>1 DEF Endpoint
    <3> QED BY <1>5, <1>7, <2>1, <3>1 DEF SomeAddEdge
  <2>2. CASE stmt.from # "self"
    <3>1. [type |-> stmt.from, id |-> n] \in Endpoint
      BY <1>6, <1>8, <2>2 DEF Endpoint
    <3> QED BY <1>5, <1>7, <2>2, <3>1 DEF SomeAddEdge
  <2> QED BY <2>1, <2>2
<1>10. WriterTypeOK' /\ records' = records /\ [AnyCall]_writerVars
  BY <1>9, AddEdgeTypeOK DEF SomeAddEdge, AddEdge, AnyCall, GatherInv
<1>11. RecordsInv'
  BY <1>1, <1>10, RecordsKept DEF GatherInv
<1>12. <<>> \in Seq(Frame(listed)) /\ <<>> \o Tail(todo) = Tail(todo)
  BY <1>1 DEF GatherInv, TodoInv
<1> QED BY <1>1, <1>9, <1>10, <1>11, <1>12, QuietStep

-----------------------------------------------------------------------------
LEMMA StepInv ==
    ASSUME GatherInv, [GatherStep]_vars
    PROVE  GatherInv' /\ [AnyCall]_writerVars
<1>1. CASE ListResources \/ ListFirstPage \/ ListFromFirstPage
  BY <1>1, ListingStep
<1>2. CASE LoopAgain \/ Branch \/ NextItem \/ FetchDetail \/ FetchAndUse \/ EnterTry
               \/ LeaveTry \/ NoEdge
  BY <1>2, QuietSteps
<1>3. CASE Swallow \/ Drop \/ ReportAndGoOn \/ ReportAndSkip \/ ReportAndLeave \/ Unwind
  BY <1>3, FailedSteps
<1>4. CASE RecordResource
  BY <1>4, RecordStep
<1>5. CASE DeriveEdge
  BY <1>5, EdgeStep
<1>6. CASE UNCHANGED vars
  <2>1. UNCHANGED writerVars /\ UNCHANGED <<module, region, todo, listed, faults>>
    BY <1>6 DEF vars, gatherVars
  <2>2. WriterTypeOK' /\ RecordsInv'
    BY <2>1, WriterUntouched, RecordsKept DEF GatherInv, writerVars
  <2> QED BY <2>1, <2>2 DEF GatherInv, TodoInv, ListedInv, Numbered, Numbers
<1> QED BY <1>1, <1>2, <1>3, <1>4, <1>5, <1>6 DEF GatherStep

LEMMA InvAlways == GatherSpec => []GatherInv
<1>1. GatherInv /\ [GatherStep]_vars => GatherInv'
  BY StepInv
<1> QED BY <1>1, InitInv, PTL DEF GatherSpec

(* Whatever gather function is written of the statements, and whatever fails, what is
   left to run is about resources that were listed, and what was handed to the writer
   is of the types it expects. *)
THEOREM GatherTypeCorrect == GatherSpec => []GatherTypeOK
<1>1. GatherInv => GatherTypeOK
  <2> SUFFICES ASSUME GatherInv PROVE GatherTypeOK
    OBVIOUS
  <2>1. listed \in SUBSET Item
    BY DEF GatherInv, ListedInv
  <2>2. ASSUME NEW i \in DOMAIN todo
        PROVE  todo[i].item \in Item \/ todo[i].item = Outside(todo[i].item.section)
    <3>1. todo[i] \in Frame(listed)
      BY DEF GatherInv, TodoInv
    <3>2. todo[i].item \in Items(listed)
      BY <3>1 DEF Frame
    <3> QED BY <2>1, <3>2, OutsideItems DEF Items
  <2>3. edges \in Seq(Edge) /\ errors \in Seq(Error) /\ records \in Seq(Record)
    BY DEF GatherInv, WriterTypeOK
  <2> QED BY <2>1, <2>2, <2>3 DEF GatherInv, GatherTypeOK
<1> QED BY <1>1, InvAlways, PTL

(* README.md, "Suppress a resource entirely": no gather function that is written of
   these statements, however they are nested and whatever fails, records a resource
   tagged lensix-suppress=true, but one the tags of which could not be read. *)
THEOREM SuppressionEffective == GatherSpec => []SuppressedUnlessUnread
<1>1. GatherInv => SuppressedUnlessUnread
  <2> SUFFICES ASSUME GatherInv, NEW x \in Candidates, x.intent.full, IsRecorded(EndOf(x))
               PROVE  TagsUnread(x)
    BY DEF SuppressedUnlessUnread
  <2>1. PICK i \in DOMAIN records : records[i].id = x.n
    BY DEF IsRecorded, EndOf
  <2>2. PICK y \in Items(listed) : y.n = x.n /\ (y.intent.full => TagsUnread(y))
    BY <2>1 DEF GatherInv, RecordsInv
  <2>3. x \in Items(listed)
    BY DEF Candidates, Items
  <2>4. y.intent = x.intent
    BY <2>2, <2>3 DEF GatherInv, ListedInv
  <2> QED BY <2>2, <2>4 DEF TagsUnread
<1> QED BY <1>1, InvAlways, PTL

(* The gather functions use the writer by its interface, so that its totals are those
   of its records (TotalsMatchRecords) after any of them, at any of its failures. *)
THEOREM GatherTotals == GatherSpec => []TotalsMatchRecords
<1>1. GatherInit => TotalsMatchRecords
  BY InitTotals DEF GatherInit
<1>2. GatherInv /\ TotalsMatchRecords /\ [GatherStep]_vars => TotalsMatchRecords'
  BY StepInv, CallTotals DEF GatherInv
<1> QED BY <1>1, <1>2, InvAlways, PTL DEF GatherSpec

-----------------------------------------------------------------------------
(* How a step changes what is left to run.  Either some of it is left out from the
   head on, or the body of the statement at the head takes its place, for the same
   item or for that of a loop, with a mark of its end or without. *)
Leaves(k) ==
    /\ k \in 2 .. Len(todo) + 1
    /\ Len(todo') = Len(todo) - k + 1
    /\ \A i \in 1 .. Len(todo') : todo'[i] = todo[k + i - 1]

Opens(x, d) ==
    /\ todo' \in Seq(Frame(listed'))
    /\ d \in {0, 1}
    /\ Len(todo') = Len(stmt.body) + d + Len(todo) - 1
    /\ \A i \in 1 .. Len(stmt.body) : todo'[i] = [stmt |-> stmt.body[i], item |-> x]
    /\ \A i \in 2 .. Len(todo) : todo'[Len(stmt.body) + d + i - 1] = todo[i]

Mark == todo'[Len(stmt.body) + 1]

EntersBody ==
    /\ stmt.op \in {"if", "when", "add"} /\ Opens(item, 0)
    /\ stmt.op = "add" => RecordResource /\ Recorded(IntentSeen(item))

EntersTry ==
    /\ stmt.op \in {"guard", "call"} /\ Opens(item, 1)
    /\ Mark.stmt.op = (IF stmt.op = "guard" THEN "except" ELSE "end")
    /\ Mark.stmt.what = stmt.what /\ Mark.item = item

LoopOver(over) ==
    /\ stmt.op = "next" => over = stmt.rest
    /\ stmt.op # "next" => \A i \in DOMAIN over : over[i].type = stmt.what

EntersLoop(over) ==
    /\ stmt.op \in {"each", "again", "next"} /\ LoopOver(over)
    /\ over \in Seq(listed') /\ over # <<>> /\ Opens(Head(over), 1)
    /\ Mark.stmt.op = "next" /\ Mark.stmt.body = stmt.body
    /\ Mark.stmt.rest = Tail(over) /\ Mark.item = item

Enters == EntersBody \/ EntersTry \/ \E over : EntersLoop(over)

LEMMA LeftFrom ==
    ASSUME NEW S, todo \in Seq(S), NEW k \in 2 .. Len(todo) + 1,
           todo' = SubSeq(todo, k, Len(todo))
    PROVE  Leaves(k)
<1>1. Len(todo) \in Nat
  OBVIOUS
<1>2. /\ Len(SubSeq(todo, k, Len(todo))) = Len(todo) - k + 1
      /\ \A i \in 1 .. Len(todo) - k + 1 : SubSeq(todo, k, Len(todo))[i] = todo[k + i - 1]
  BY <1>1
<1> QED BY <1>1, <1>2 DEF Leaves

LEMMA TailLeft ==
    ASSUME NEW S, todo \in Seq(S), todo # <<>>, todo' = Tail(todo)
    PROVE  Leaves(2)
<1>1. /\ Len(todo) \in Nat \ {0} /\ Len(Tail(todo)) = Len(todo) - 1
      /\ \A i \in 1 .. Len(todo) - 1 : Tail(todo)[i] = todo[i + 1]
  OBVIOUS
<1> QED BY <1>1 DEF Leaves

LEMMA PutBefore ==
    ASSUME NEW S, todo \in Seq(S), todo # <<>>, NEW T, NEW before \in Seq(T),
           todo' = before \o Tail(todo)
    PROVE  /\ Len(todo') = Len(before) + Len(todo) - 1
           /\ \A i \in 1 .. Len(before) : todo'[i] = before[i]
           /\ \A i \in 2 .. Len(todo) : todo'[Len(before) + i - 1] = todo[i]
<1>1. /\ Len(todo) \in Nat \ {0} /\ Len(Tail(todo)) = Len(todo) - 1
      /\ \A i \in 1 .. Len(todo) - 1 : Tail(todo)[i] = todo[i + 1]
      /\ Tail(todo) \in Seq(S)
  OBVIOUS
<1>2. /\ Len(before) \in Nat
      /\ Len(before \o Tail(todo)) = Len(before) + Len(Tail(todo))
      /\ \A i \in 1 .. Len(before) : (before \o Tail(todo))[i] = before[i]
      /\ \A i \in 1 .. Len(Tail(todo)) : (before \o Tail(todo))[Len(before) + i] = Tail(todo)[i]
  BY <1>1
<1>3. \A i \in 2 .. Len(todo) : /\ i - 1 \in 1 .. Len(todo) - 1
                                /\ Len(before) + (i - 1) = Len(before) + i - 1
                               /\ (i - 1) + 1 = i
  BY <1>1, <1>2
<1> QED BY <1>1, <1>2, <1>3

LEMMA FramesAre ==
    ASSUME NEW body \in Seq(Statements), NEW x
    PROVE  /\ Frames(body, x) \in Seq([stmt : Statements, item : {x}])
           /\ Len(Frames(body, x)) = Len(body) /\ Len(body) \in Nat
           /\ \A i \in 1 .. Len(body) : Frames(body, x)[i] = [stmt |-> body[i], item |-> x]
<1> DEFINE F == [stmt : Statements, item : {x}]
<1>1. Len(body) \in Nat /\ DOMAIN body = 1 .. Len(body)
  OBVIOUS
<1>2. Frames(body, x) \in [1 .. Len(body) -> F]
  BY <1>1 DEF Frames
<1>3. Frames(body, x) \in Seq(F) /\ Len(Frames(body, x)) = Len(body)
  <2> HIDE DEF F
  <2> QED BY <1>1, <1>2
<1> QED BY <1>1, <1>3 DEF Frames

(* a body, with or without a mark of its end, put before the rest *)
LEMMA BodyAndMark ==
    ASSUME TodoInv, todo # <<>>, stmt.body \in Seq(Statements), NEW x, NEW mark,
           todo' = (Frames(stmt.body, x) \o <<mark>>) \o Tail(todo),
           todo' \in Seq(Frame(listed'))
    PROVE  Opens(x, 1) /\ Mark = mark
<1> DEFINE F == [stmt : Statements, item : {x}]
           G == F \cup {mark}
           body == Frames(stmt.body, x)
           before == body \o <<mark>>
           n == Len(stmt.body)
<1>1. /\ body \in Seq(F) /\ Len(body) = n /\ n \in Nat
      /\ \A i \in 1 .. n : body[i] = [stmt |-> stmt.body[i], item |-> x]
  BY FramesAre
<1> HIDE DEF F, body
<1>2. body \in Seq(G) /\ <<mark>> \in Seq(G)
  <2>1. Seq(F) \subseteq Seq(G)
    OBVIOUS
  <2> QED BY <1>1, <2>1
<1> HIDE DEF G
<1>3. /\ before \in Seq(G) /\ Len(before) = n + 1
      /\ \A i \in 1 .. n : before[i] = body[i]
      /\ before[n + 1] = mark
  <2> HIDE DEF n
  <2>1. Len(<<mark>>) = 1 /\ <<mark>>[1] = mark
    OBVIOUS
  <2>2. before \in Seq(G) /\ Len(before) = n + 1
    BY <1>1, <1>2, <2>1
  <2>3. \A i \in 1 .. n : before[i] = body[i]
    BY <1>1, <1>2, <2>1
  <2>4. before[n + 1] = mark
    <3>1. before[Len(before)] = mark
      BY <1>2
    <3> QED BY <2>2, <3>1
  <2> QED BY <2>2, <2>3, <2>4
<1>4. todo' = before \o Tail(todo)
  BY DEF body
<1> HIDE DEF before
<1>5. todo \in Seq(Frame(listed)) /\ Len(todo) \in Nat
  BY DEF TodoInv
<1>6. /\ Len(todo') = Len(before) + Len(todo) - 1
      /\ \A i \in 1 .. Len(before) : todo'[i] = before[i]
      /\ \A i \in 2 .. Len(todo) : todo'[Len(before) + i - 1] = todo[i]
  BY <1>3, <1>4, <1>5, PutBefore
<1>7. /\ Len(todo') = n + 1 + Len(todo) - 1
      /\ \A i \in 1 .. n : todo'[i] = [stmt |-> stmt.body[i], item |-> x]
      /\ \A i \in 2 .. Len(todo) : todo'[n + 1 + i - 1] = todo[i]
      /\ todo'[n + 1] = mark
  <2>1. Len(todo') = n + 1 + Len(todo) - 1
    <3>1. Len(todo') = Len(before) + Len(todo) - 1 /\ Len(before) = n + 1
      BY <1>3, <1>6
    <3>2. n \in Nat /\ Len(todo) \in Nat
      BY <1>1, <1>5
    <3> HIDE DEF n
    <3> QED BY <3>1, <3>2
  <2>2. \A i \in 1 .. n : todo'[i] = [stmt |-> stmt.body[i], item |-> x]
    <3> SUFFICES ASSUME NEW i \in 1 .. n
                 PROVE  todo'[i] = [stmt |-> stmt.body[i], item |-> x]
      OBVIOUS
    <3>1. i \in 1 .. Len(before) /\ before[i] = [stmt |-> stmt.body[i], item |-> x]
      BY <1>1, <1>3
    <3> QED BY <1>6, <3>1
  <2>3. \A i \in 2 .. Len(todo) : todo'[n + 1 + i - 1] = todo[i]
    BY <1>1, <1>3, <1>5, <1>6
  <2>4. todo'[n + 1] = mark
    <3>1. n + 1 \in 1 .. Len(before)
      BY <1>1, <1>3
    <3> QED BY <1>3, <1>6, <3>1
  <2> QED BY <2>1, <2>2, <2>3, <2>4
<1> QED BY <1>7 DEF Opens, Mark

LEMMA BodyAlone ==
    ASSUME TodoInv, todo # <<>>, stmt.body \in Seq(Statements), NEW x,
           todo' = Frames(stmt.body, x) \o Tail(todo), todo' \in Seq(Frame(listed'))
    PROVE  Opens(x, 0)
<1> DEFINE F == [stmt : Statements, item : {x}]
           body == Frames(stmt.body, x)
           n == Len(stmt.body)
<1>1. /\ body \in Seq(F) /\ Len(body) = n /\ n \in Nat
      /\ \A i \in 1 .. n : body[i] = [stmt |-> stmt.body[i], item |-> x]
  BY FramesAre
<1>2. todo' = body \o Tail(todo)
  OBVIOUS
<1> HIDE DEF F, body
<1>3. todo \in Seq(Frame(listed)) /\ Len(todo) \in Nat
  BY DEF TodoInv
<1>4. /\ Len(todo') = Len(body) + Len(todo) - 1
      /\ \A i \in 1 .. Len(body) : todo'[i] = body[i]
      /\ \A i \in 2 .. Len(todo) : todo'[Len(body) + i - 1] = todo[i]
  BY <1>1, <1>2, <1>3, PutBefore
<1>5. /\ Len(todo') = n + 0 + Len(todo) - 1
      /\ \A i \in 1 .. n : todo'[i] = [stmt |-> stmt.body[i], item |-> x]
      /\ \A i \in 2 .. Len(todo) : todo'[n + 0 + i - 1] = todo[i]
  <2>1. Len(todo') = n + 0 + Len(todo) - 1
    BY <1>1, <1>3, <1>4
  <2>2. \A i \in 1 .. n : todo'[i] = [stmt |-> stmt.body[i], item |-> x]
    BY <1>1, <1>4
  <2>3. ASSUME NEW i \in 2 .. Len(todo) PROVE todo'[n + 0 + i - 1] = todo[i]
    <3>1. n + 0 + i - 1 = Len(body) + i - 1
      BY <1>1, <1>3
    <3> QED BY <1>4, <3>1
  <2> QED BY <2>1, <2>2, <2>3
<1> QED BY <1>5 DEF Opens

LEMMA LoopOpens ==
    ASSUME TodoInv, todo # <<>>, stmt.op \in {"each", "again", "next"},
           stmt.body \in Seq(Statements),
           NEW over \in Seq(listed'), LoopOver(over),
           todo' = Loop(over, stmt.body, item) \o Tail(todo),
           todo' \in Seq(Frame(listed'))
    PROVE  EntersLoop(over) \/ (over = <<>> /\ Leaves(2))
<1>1. CASE over = <<>>
  <2>1. Tail(todo) \in Seq(Frame(listed)) /\ todo \in Seq(Frame(listed))
    BY DEF TodoInv
  <2>2. todo' = Tail(todo)
    BY <1>1, <2>1 DEF Loop
  <2> QED BY <1>1, <2>1, <2>2, TailLeft
<1>2. CASE over # <<>>
  <2> DEFINE mark == [stmt |-> [op |-> "next", body |-> stmt.body, rest |-> Tail(over)],
                      item |-> item]
  <2>1. todo' = (Frames(stmt.body, Head(over)) \o <<mark>>) \o Tail(todo)
    BY <1>2 DEF Loop
  <2> HIDE DEF mark
  <2>2. Opens(Head(over), 1) /\ Mark = mark
    BY <2>1, BodyAndMark
  <2> QED BY <1>2, <2>2 DEF EntersLoop, mark
<1> QED BY <1>1, <1>2

(* Control that leaves for a mark takes the first. *)
FirstMark(k, ops) ==
    /\ k \in DOMAIN todo /\ todo[k].stmt.op \in ops \cup {"end"}
    /\ \A i \in 1 .. k - 1 : todo[i].stmt.op \notin ops \cup {"end"}

LEMMA MarkTaken ==
    ASSUME TodoInv, todo # <<>>, NEW ops
    PROVE  \E k \in 1 .. Len(todo) :
               FirstMark(k, ops) /\ LeaveTo(ops) = SubSeq(todo, k, Len(todo))
<1> DEFINE marks == {i \in DOMAIN todo : todo[i].stmt.op \in ops \cup {"end"}}
           first == CHOOSE i \in marks : \A j \in marks : i <= j
<1>1. Len(todo) \in Nat /\ DOMAIN todo = 1 .. Len(todo) /\ Len(todo) \in 1 .. Len(todo)
  BY DEF TodoInv
<1>2. marks \in SUBSET Nat /\ Len(todo) \in marks
  BY <1>1 DEF EndsInEnd, TodoInv
<1>3. first \in marks /\ \A j \in marks : first <= j
  <2> HIDE DEF marks
  <2>1. \E i \in marks : \A j \in marks : i <= j
    BY <1>2, LeastNumber
  <2> QED BY <2>1
<1>4. LeaveTo(ops) = SubSeq(todo, first, Len(todo))
  BY DEF LeaveTo
<1> HIDE DEF first
<1>5. FirstMark(first, ops)
  <2>1. first \in 1 .. Len(todo) /\ todo[first].stmt.op \in ops \cup {"end"}
    BY <1>1, <1>3
  <2>2. ASSUME NEW i \in 1 .. first - 1, todo[i].stmt.op \in ops \cup {"end"} PROVE FALSE
    <3>1. i \in 1 .. Len(todo) /\ i < first
      BY <1>1, <2>1
    <3>2. i \in marks
      BY <1>1, <2>2, <3>1
    <3> QED BY <1>1, <1>3, <2>1, <3>1, <3>2
  <2> QED BY <1>1, <2>1, <2>2 DEF FirstMark
<1>6. first \in 1 .. Len(todo)
  BY <1>1, <1>3
<1> QED BY <1>4, <1>5, <1>6

LEMMA HeadFirst ==
    ASSUME TodoInv, todo # <<>>
    PROVE  /\ Len(todo) \in Nat \ {0} /\ DOMAIN todo = 1 .. Len(todo)
           /\ todo[1].stmt = stmt /\ todo[1].item = item
           /\ todo[Len(todo)].stmt.op = "end"
<1>1. /\ Len(todo) \in Nat \ {0} /\ DOMAIN todo = 1 .. Len(todo) /\ Head(todo) = todo[1]
  BY DEF TodoInv
<1> QED BY <1>1 DEF stmt, item, TodoInv, EndsInEnd

(* A call that fails: control goes on, or leaves for a mark that is kept, or for one
   that is not. *)
LEMMA LeftToMark ==
    ASSUME TodoInv, todo # <<>>, stmt.op \notin Marks, NEW ops \in SUBSET Marks
    PROVE  /\ todo' = LeaveTo(ops) => \E k : Leaves(k) /\ FirstMark(k, ops)
           /\ todo' = Tail(LeaveTo(ops)) => \E k : Leaves(k + 1) /\ FirstMark(k, ops)
<1>1. PICK k \in 1 .. Len(todo) :
          FirstMark(k, ops) /\ LeaveTo(ops) = SubSeq(todo, k, Len(todo))
  BY MarkTaken
<1>2. todo \in Seq(Frame(listed)) /\ Len(todo) \in Nat \ {0}
  BY DEF TodoInv
<1>3. k # 1
  <2>1. todo[1].stmt = stmt
    BY HeadFirst
  <2> QED BY <1>1, <2>1 DEF FirstMark, Marks
<1>4. k \in 2 .. Len(todo) + 1 /\ k + 1 \in 2 .. Len(todo) + 1
  BY <1>2, <1>3
<1>5. todo' = LeaveTo(ops) => Leaves(k)
  BY <1>1, <1>2, <1>4, LeftFrom
<1>6. Tail(SubSeq(todo, k, Len(todo))) = SubSeq(todo, k + 1, Len(todo))
  BY <1>2, <1>4
<1>7. todo' = Tail(LeaveTo(ops)) => Leaves(k + 1)
  BY <1>1, <1>2, <1>4, <1>6, LeftFrom
<1> QED BY <1>1, <1>5, <1>7

(* What no step touches. *)
LEMMA Grows ==
    ASSUME GatherStep
    PROVE  /\ todo # <<>> /\ module' = module /\ region' = region
           /\ listed \subseteq listed' /\ faults \subseteq faults'
  BY DEF GatherStep, ListResources, ListFirstPage, ListFromFirstPage, LoopAgain, Branch,
         NextItem, FetchDetail, FetchAndUse, EnterTry, LeaveTry, Swallow, Drop, ReportAndGoOn,
         ReportAndSkip, ReportAndLeave, Unwind, RecordResource, DeriveEdge, NoEdge, Running,
         CallFails

LEMMA BodyAtHand ==
    ASSUME GatherInv, todo # <<>>, stmt.op \in Compound \cup {"next"}
    PROVE  stmt.body \in Seq(Statements)
<1>1. stmt.op # "next" => stmt \in Statements
  BY AtHand DEF GatherInv, Marks, Compound
<1> QED BY <1>1, AtHand, ProgramAssumption DEF GatherInv, WellFormed, Compound

(* What a list call returns: resources numbered on, or those returned before, or one
   without a number. *)
LEMMA NewOnes ==
    ASSUME GatherInv, Running("each"), NEW items \in Listing, NEW i \in DOMAIN items
    PROVE  /\ items[i] = NewItem(items[i].n, items[i].intent)
           /\ \/ /\ items[i].n = Numbered + i /\ i \in Nat \ {0}
                 /\ items[i].intent \in PossibleIntents
              \/ /\ stmt.form \in {"shared", "known"}
                 /\ \E x \in ListedOf(stmt.what) :
                        x.n = items[i].n /\ x.intent = items[i].intent
              \/ stmt.form = "single" /\ items[i].n = 0 /\ items[i].intent = NoIntent
<1>1. \A n, intent : NewItem(n, intent).n = n /\ NewItem(n, intent).intent = intent
  BY DEF NewItem
<1>2. CASE items \in NewItems
  <2>1. PICK k \in 0 .. Room : \E intents \in [1 .. k -> PossibleIntents] :
            items = [m \in 1 .. k |-> NewItem(Numbered + m, intents[m])]
    BY <1>2 DEF NewItems
  <2>2. PICK intents \in [1 .. k -> PossibleIntents] :
            items = [m \in 1 .. k |-> NewItem(Numbered + m, intents[m])]
    BY <2>1
  <2>3. i \in 1 .. k /\ items[i] = NewItem(Numbered + i, intents[i])
    BY <2>2
  <2>4. k \in Int /\ i \in Nat \ {0}
    BY <2>1, <2>3
  <2> QED BY <1>1, <2>2, <2>3, <2>4
<1>3. CASE stmt.form = "shared" /\ items \in SeenElsewhere
  <2>1. PICK x \in listed : x.type = stmt.what /\ items = <<NewItem(x.n, x.intent)>>
    BY <1>3 DEF SeenElsewhere, ListedOf
  <2>2. items[i] = NewItem(x.n, x.intent)
    BY <2>1
  <2> QED BY <1>1, <1>3, <2>1, <2>2 DEF ListedOf
<1>4. CASE stmt.form = "single" /\ items \in {<<NewItem(0, NoIntent)>>}
  <2>1. items[i] = NewItem(0, NoIntent)
    BY <1>4
  <2> QED BY <1>1, <1>4, <2>1
<1>5. CASE /\ stmt.form = "known"
           /\ items \in InOrder({NewItem(x.n, x.intent) : x \in ListedOf(stmt.what)})
  <2> DEFINE S == {NewItem(x.n, x.intent) : x \in ListedOf(stmt.what)}
  <2>1. items \in [1 .. Cardinality(S) -> S]
    BY <1>5 DEF InOrder
  <2>2. items[i] \in S
    BY <2>1
  <2>3. PICK x \in ListedOf(stmt.what) : items[i] = NewItem(x.n, x.intent)
    BY <2>2
  <2> QED BY <1>1, <1>5, <2>3
<1>6. stmt.form \in {"fresh", "first page", "repaged", "shared", "single", "known"}
  <2>1. stmt \in Statements
    BY AtHand DEF GatherInv, Running, Marks
  <2> QED BY <2>1, ProgramAssumption DEF WellFormed, Running
<1> QED BY <1>2, <1>3, <1>4, <1>5, <1>6 DEF Listing

LEMMA ListingForm ==
    ASSUME GatherInv, ListResources \/ ListFirstPage \/ ListFromFirstPage, GatherInv'
    PROVE  /\ stmt.op = "each" /\ UNCHANGED writerVars
           /\ \E items \in Listing : \E over \in Seq(listed') :
                  /\ items \in Seq(Item) /\ listed' = listed \cup {items[i] : i \in DOMAIN items}
                  /\ {over[i] : i \in DOMAIN over} = {items[i] : i \in DOMAIN items}
                  /\ LoopOver(over)
                  /\ EntersLoop(over) \/ (over = <<>> /\ Leaves(2))
<1> DEFINE range(items) == {items[i] : i \in DOMAIN items}
<1>1. Running("each") /\ todo # <<>> /\ stmt.op = "each" /\ UNCHANGED writerVars
  BY DEF ListResources, ListFirstPage, ListFromFirstPage, Running
<1>2. \E items \in Listing : \E over :
          /\ listed' = listed \cup range(items)
          /\ over = items \/ \E k \in DOMAIN items : over = SubSeq(items, 1, k) \o items
          /\ todo' = Loop(over, stmt.body, item) \o Tail(todo)
  BY DEF ListResources, ListFirstPage, ListFromFirstPage
<1>3. PICK items \in Listing : \E over :
          /\ listed' = listed \cup range(items)
          /\ over = items \/ \E k \in DOMAIN items : over = SubSeq(items, 1, k) \o items
          /\ todo' = Loop(over, stmt.body, item) \o Tail(todo)
  BY <1>2
<1>4. PICK over :
          /\ listed' = listed \cup range(items)
          /\ over = items \/ \E k \in DOMAIN items : over = SubSeq(items, 1, k) \o items
          /\ todo' = Loop(over, stmt.body, item) \o Tail(todo)
  BY <1>3
<1>5. items \in Seq(Item) /\ items \in Seq(range(items))
  <2>1. items \in Seq(Item)
    BY <1>1, ListedItems
  <2> QED BY <2>1
<1>6. over \in Seq(range(items)) /\ range(over) = range(items)
  <2>1. CASE over = items
    BY <1>5, <2>1
  <2>2. ASSUME NEW k \in DOMAIN items, over = SubSeq(items, 1, k) \o items
        PROVE  over \in Seq(range(items)) /\ range(over) = range(items)
    <3> DEFINE S == range(items)
    <3>1. items \in Seq(S) /\ k \in 1 .. Len(items) /\ Len(items) \in Nat
      BY <1>5
    <3>2. \A y \in S : \E i \in 1 .. Len(items) : items[i] = y
      BY <1>5
    <3> HIDE DEF S
    <3>3. SubSeq(items, 1, k) \in Seq(S) /\ Len(SubSeq(items, 1, k)) = k
      BY <3>1
    <3>4. over \in Seq(S) /\ Len(over) = k + Len(items)
      BY <2>2, <3>1, <3>3
    <3>5. \A i \in 1 .. Len(items) : over[k + i] = items[i] /\ k + i \in DOMAIN over
      BY <2>2, <3>1, <3>3, <3>4
    <3>6. \A y \in S : \E i \in DOMAIN over : over[i] = y
      BY <3>2, <3>5
    <3>7. \A i \in DOMAIN over : over[i] \in S
      BY <3>4
    <3>8. range(over) = S
      BY <3>6, <3>7
    <3> QED BY <3>4, <3>8 DEF S
  <2> QED BY <1>4, <2>1, <2>2
<1>7. over \in Seq(listed')
  <2>1. range(items) \subseteq listed'
    BY <1>4
  <2> HIDE DEF range
  <2> QED BY <1>6, <2>1
<1>9. LoopOver(over)
  <2>1. \A i \in DOMAIN items : items[i].type = stmt.what
    <3>1. \A n, intent : NewItem(n, intent).type = stmt.what
      BY DEF NewItem
    <3> QED BY <1>1, <3>1, NewOnes
  <2>2. \A i \in DOMAIN over : over[i] \in range(items)
    BY <1>6
  <2> QED BY <1>1, <2>1, <2>2 DEF LoopOver
<1>8. EntersLoop(over) \/ (over = <<>> /\ Leaves(2))
  <2>1. stmt.body \in Seq(Statements)
    BY <1>1, BodyAtHand DEF Compound
  <2>2. todo' \in Seq(Frame(listed'))
    BY DEF GatherInv, TodoInv
  <2> QED BY <1>1, <1>4, <1>7, <1>9, <2>1, <2>2, LoopOpens DEF GatherInv
<1> QED BY <1>1, <1>4, <1>5, <1>6, <1>7, <1>8, <1>9

(* A second loop is over all that the list calls returned of its type. *)
LEMMA InOrderAll ==
    ASSUME NEW S \in SUBSET Item, IsFiniteSet(S), NEW items \in InOrder(S)
    PROVE  /\ items \in Seq(S) /\ {items[i] : i \in DOMAIN items} = S
           /\ \A i, j \in DOMAIN items : items[i] = items[j] => i = j
<1>1. Cardinality(S) \in Nat
  BY FS_CardinalityType
<1>2. /\ items \in [1 .. Cardinality(S) -> S]
      /\ \A i, j \in DOMAIN items : i < j => items[i] # items[j]
  BY DEF InOrder
<1>3. items \in Injection(1 .. Cardinality(S), S)
  <2>1. ASSUME NEW i \in 1 .. Cardinality(S), NEW j \in 1 .. Cardinality(S),
               items[i] = items[j]
        PROVE  i = j
    <3>1. ~(i < j) /\ ~(j < i)
      BY <1>2, <2>1
    <3>2. i \in Nat /\ j \in Nat
      BY <1>1
    <3> QED BY <3>1, <3>2
  <2> QED BY <1>2, <2>1 DEF Injection, IsInjective
<1>4. IsFiniteSet(1 .. Cardinality(S)) /\ Cardinality(1 .. Cardinality(S)) = Cardinality(S)
  BY <1>1, FS_Interval
<1>5. items \in Surjection(1 .. Cardinality(S), S)
  BY <1>3, <1>4, FS_Injection
<1> QED BY <1>1, <1>2, <1>3, <1>5 DEF Surjection, Injection

LEMMA AgainForm ==
    ASSUME GatherInv, LoopAgain, GatherInv'
    PROVE  /\ stmt.op = "again" /\ UNCHANGED <<writerVars, module, region, listed, faults>>
           /\ \E over \in Seq(listed') :
                  /\ {over[i] : i \in DOMAIN over} = ListedOf(stmt.what)
                  /\ \A i, j \in DOMAIN over : over[i] = over[j] => i = j
                  /\ LoopOver(over)
                  /\ EntersLoop(over) \/ (over = <<>> /\ Leaves(2))
<1>1. /\ todo # <<>> /\ stmt.op = "again"
      /\ UNCHANGED <<writerVars, module, region, listed, faults>>
  BY DEF LoopAgain, Running
<1>2. PICK over \in InOrder(ListedOf(stmt.what)) :
          todo' = Loop(over, stmt.body, item) \o Tail(todo)
  BY DEF LoopAgain
<1>3. ListedOf(stmt.what) \in SUBSET listed /\ listed \in SUBSET Item /\ IsFiniteSet(listed)
  BY DEF ListedOf, GatherInv, ListedInv
<1>4. IsFiniteSet(ListedOf(stmt.what)) /\ ListedOf(stmt.what) \in SUBSET Item
  BY <1>3, FS_Subset
<1>5. /\ over \in Seq(ListedOf(stmt.what))
      /\ {over[i] : i \in DOMAIN over} = ListedOf(stmt.what)
      /\ \A i, j \in DOMAIN over : over[i] = over[j] => i = j
  BY <1>2, <1>4, InOrderAll
<1>6. over \in Seq(listed')
  BY <1>1, <1>3, <1>5
<1>7. stmt.body \in Seq(Statements) /\ todo' \in Seq(Frame(listed'))
  BY <1>1, BodyAtHand DEF Compound, GatherInv, TodoInv
<1>9. LoopOver(over)
  BY <1>1, <1>5 DEF LoopOver, ListedOf
<1>8. EntersLoop(over) \/ (over = <<>> /\ Leaves(2))
  BY <1>1, <1>2, <1>6, <1>7, <1>9, LoopOpens DEF GatherInv
<1> QED BY <1>1, <1>5, <1>6, <1>8, <1>9

LEMMA NextForm ==
    ASSUME GatherInv, NextItem, GatherInv'
    PROVE  /\ stmt.op = "next" /\ UNCHANGED <<writerVars, module, region, listed, faults>>
           /\ EntersLoop(stmt.rest) \/ (stmt.rest = <<>> /\ Leaves(2))
<1>1. /\ todo # <<>> /\ stmt.op = "next"
      /\ UNCHANGED <<writerVars, module, region, listed, faults>>
      /\ todo' = Loop(stmt.rest, stmt.body, item) \o Tail(todo)
  BY DEF NextItem, Running
<1>2. stmt.body \in Seq(Statements) /\ stmt.rest \in Seq(listed')
  BY <1>1, AtHand DEF GatherInv
<1>3. todo' \in Seq(Frame(listed'))
  BY DEF GatherInv, TodoInv
<1>4. LoopOver(stmt.rest)
  BY <1>1 DEF LoopOver
<1> QED BY <1>1, <1>2, <1>3, <1>4, LoopOpens DEF GatherInv

LEMMA BodyForm ==
    ASSUME GatherInv, Branch \/ FetchAndUse \/ RecordResource, GatherInv'
    PROVE  /\ UNCHANGED <<module, region, listed, faults, errors, edges>>
           /\ stmt.op \in {"if", "when", "add"}
           /\ EntersBody \/ Leaves(2)
           /\ stmt.op # "add" => records' = records
           /\ stmt.op = "add" =>
                 /\ AddResource(item.type, region, item.n, IntentSeen(item))
                 /\ IF Recorded(IntentSeen(item)) THEN EntersBody ELSE Leaves(2)
<1>1. /\ todo # <<>> /\ stmt.op \in {"if", "when", "add"}
      /\ UNCHANGED <<module, region, listed, faults, errors, edges>>
      /\ stmt.op # "add" => records' = records
  BY DEF Branch, FetchAndUse, RecordResource, Running, writerVars, AddResource
<1>2. stmt.body \in Seq(Statements) /\ todo' \in Seq(Frame(listed'))
  BY <1>1, BodyAtHand DEF Compound, GatherInv, TodoInv
<1>3. todo \in Seq(Frame(listed)) /\ Tail(todo) \in Seq(Frame(listed))
  BY <1>1 DEF GatherInv, TodoInv
<1>4. todo' = Frames(stmt.body, item) \o Tail(todo) => Opens(item, 0)
  BY <1>1, <1>2, BodyAlone DEF GatherInv
<1>5. todo' = <<>> \o Tail(todo) => Leaves(2)
  BY <1>1, <1>3, TailLeft
<1>6. \/ todo' = Frames(stmt.body, item) \o Tail(todo)
      \/ todo' = <<>> \o Tail(todo)
  BY DEF Branch, FetchAndUse, RecordResource
<1>7. stmt.op = "add" =>
          /\ AddResource(item.type, region, item.n, IntentSeen(item)) /\ RecordResource
          /\ todo' = (IF Recorded(IntentSeen(item)) THEN Frames(stmt.body, item) ELSE <<>>)
                        \o Tail(todo)
  BY DEF Branch, FetchAndUse, RecordResource, Running
<1> QED BY <1>1, <1>4, <1>5, <1>6, <1>7 DEF EntersBody

LEMMA TryForm ==
    ASSUME GatherInv, EnterTry, GatherInv'
    PROVE  EntersTry /\ UNCHANGED <<writerVars, module, region, listed, faults>>
<1> DEFINE kind == IF stmt.op = "guard" THEN "except" ELSE "end"
           mark == [stmt |-> [op |-> kind, what |-> stmt.what], item |-> item]
<1>1. /\ todo # <<>> /\ stmt.op \in {"guard", "call"}
      /\ UNCHANGED <<writerVars, module, region, listed, faults>>
      /\ todo' = (Frames(stmt.body, item) \o <<mark>>) \o Tail(todo)
  BY DEF EnterTry
<1>2. stmt.body \in Seq(Statements) /\ todo' \in Seq(Frame(listed'))
  BY <1>1, BodyAtHand DEF Compound, GatherInv, TodoInv
<1>3. mark.stmt.op = kind /\ mark.stmt.what = stmt.what /\ mark.item = item
  OBVIOUS
<1> HIDE DEF mark
<1>4. Opens(item, 1) /\ Mark = mark
  BY <1>1, <1>2, BodyAndMark DEF GatherInv
<1> QED BY <1>1, <1>3, <1>4 DEF EntersTry

LEMMA QuietForm ==
    ASSUME GatherInv, FetchDetail \/ LeaveTry \/ NoEdge \/ DeriveEdge
    PROVE  Leaves(2) /\ UNCHANGED <<module, region, listed, faults, records, errors>>
<1>1. todo # <<>> /\ todo' = Tail(todo) /\ UNCHANGED <<module, region, listed, faults>>
  BY DEF FetchDetail, LeaveTry, NoEdge, DeriveEdge, Running
<1>2. UNCHANGED <<records, errors>>
  BY DEF FetchDetail, LeaveTry, NoEdge, DeriveEdge, AddEdge, writerVars
<1>3. todo \in Seq(Frame(listed))
  BY DEF GatherInv, TodoInv
<1> QED BY <1>1, <1>2, <1>3, TailLeft

(* What a call that fails leaves behind. *)
Told(s) == errors' = Append(errors, [region |-> region, source |-> s])

LEMMA FailForm ==
    ASSUME GatherInv,
           Swallow \/ Drop \/ ReportAndGoOn \/ ReportAndSkip \/ ReportAndLeave \/ Unwind
    PROVE  /\ stmt \in Statements /\ stmt.op \in {"each", "fetch", "when"}
           /\ faults' = faults \cup {Failure(stmt.fail)}
           /\ UNCHANGED <<module, region, listed, records, edges>>
           /\ \/ /\ stmt.fail \in {"silent", "error"} /\ Leaves(2)
              \/ /\ stmt.fail \in {"skip", "drop"}
                 /\ \E k : Leaves(k) /\ FirstMark(k, {"next"})
              \/ stmt.fail = "return" /\ \E k : Leaves(k) /\ FirstMark(k, {})
              \/ /\ stmt.fail = "raise"
                 /\ \E k : /\ Leaves(k + 1) /\ FirstMark(k, {"except"})
                           /\ Told(Source(todo[k].stmt.what, todo[k].item.n))
           /\ stmt.fail \in {"silent", "drop"} => errors' = errors
           /\ stmt.fail \in {"error", "skip", "return"} => Told(Source(stmt.what, item.n))
<1>1. /\ todo # <<>> /\ stmt.op \in {"each", "fetch", "when"}
      /\ faults' = faults \cup {Failure(stmt.fail)}
      /\ UNCHANGED <<module, region, listed>>
  BY DEF Swallow, Drop, ReportAndGoOn, ReportAndSkip, ReportAndLeave, Unwind, CallFails
<1>2. UNCHANGED <<records, edges>>
  BY DEF Swallow, Drop, ReportAndGoOn, ReportAndSkip, ReportAndLeave, Unwind, Handled,
         AddError, writerVars
<1>3. stmt.op \notin Marks /\ stmt \in Statements
  BY <1>1, AtHand DEF GatherInv, Marks
<1>4. todo \in Seq(Frame(listed)) /\ TodoInv
  BY DEF GatherInv, TodoInv
<1>5. {"next"} \in SUBSET Marks /\ {"except"} \in SUBSET Marks /\ {} \in SUBSET Marks
  BY DEF Marks
<1>6. CASE Swallow \/ ReportAndGoOn
  <2>1. todo' = Tail(todo) /\ stmt.fail \in {"silent", "error"}
    BY <1>6 DEF Swallow, ReportAndGoOn, CallFails
  <2>2. Leaves(2)
    BY <1>1, <1>4, <2>1, TailLeft
  <2>3. /\ stmt.fail = "silent" => errors' = errors
        /\ stmt.fail = "error" => Told(Source(stmt.what, item.n))
    BY <1>6 DEF Swallow, ReportAndGoOn, CallFails, AddError, Told, writerVars
  <2> QED BY <1>1, <1>2, <1>3, <2>1, <2>2, <2>3
<1>7. CASE Drop \/ ReportAndSkip
  <2>1. todo' = LeaveTo({"next"}) /\ stmt.fail \in {"skip", "drop"}
    BY <1>7 DEF Drop, ReportAndSkip, CallFails
  <2>2. \E k : Leaves(k) /\ FirstMark(k, {"next"})
    BY <1>1, <1>3, <1>4, <1>5, <2>1, LeftToMark
  <2>3. /\ stmt.fail = "drop" => errors' = errors
        /\ stmt.fail = "skip" => Told(Source(stmt.what, item.n))
    BY <1>7 DEF Drop, ReportAndSkip, CallFails, AddError, Told, writerVars
  <2> QED BY <1>1, <1>2, <1>3, <2>1, <2>2, <2>3
<1>8. CASE ReportAndLeave
  <2>1. todo' = LeaveTo({}) /\ stmt.fail = "return"
    BY <1>8 DEF ReportAndLeave, CallFails
  <2>2. \E k : Leaves(k) /\ FirstMark(k, {})
    BY <1>1, <1>3, <1>4, <1>5, <2>1, LeftToMark
  <2>3. Told(Source(stmt.what, item.n))
    BY <1>8 DEF ReportAndLeave, AddError, Told
  <2> QED BY <1>1, <1>2, <1>3, <2>1, <2>2, <2>3
<1>9. CASE Unwind
  <2> DEFINE handler == LeaveTo({"except"})
  <2>1. /\ stmt.fail = "raise" /\ todo' = Tail(handler)
        /\ Told(Source(Head(handler).stmt.what, Head(handler).item.n))
    BY <1>9 DEF Unwind, CallFails, Handled, AddError, Told
  <2>2. PICK k : Leaves(k + 1) /\ FirstMark(k, {"except"})
    BY <1>1, <1>3, <1>4, <1>5, <2>1, LeftToMark
  <2>3. Head(handler) = todo[k]
    <3>1. PICK m \in 1 .. Len(todo) :
              FirstMark(m, {"except"}) /\ handler = SubSeq(todo, m, Len(todo))
      BY <1>1, <1>4, MarkTaken
    <3>2. Len(todo) \in Nat /\ DOMAIN todo = 1 .. Len(todo)
      BY <1>4
    <3>3. k \in 1 .. Len(todo) /\ ~(k < m) /\ ~(m < k)
      <4>1. k \in 1 .. Len(todo)
        BY <2>2, <3>2 DEF FirstMark
      <4>2. ASSUME k < m PROVE FALSE
        <5>1. k \in 1 .. m - 1
          BY <3>2, <4>1, <4>2
        <5> QED BY <2>2, <3>1, <5>1 DEF FirstMark
      <4>3. ASSUME m < k PROVE FALSE
        <5>1. m \in 1 .. k - 1
          BY <3>2, <4>1, <4>3
        <5> QED BY <2>2, <3>1, <5>1 DEF FirstMark
      <4> QED BY <4>1, <4>2, <4>3
    <3>4. m = k
      BY <3>2, <3>3
    <3>5. Head(SubSeq(todo, m, Len(todo))) = todo[m]
      <4>1. /\ SubSeq(todo, m, Len(todo)) \in Seq(Frame(listed))
            /\ Len(SubSeq(todo, m, Len(todo))) = Len(todo) - m + 1
            /\ SubSeq(todo, m, Len(todo))[1] = todo[m]
        BY <1>4, <3>2
      <4> QED BY <3>2, <4>1
    <3> QED BY <3>1, <3>4, <3>5
  <2> HIDE DEF handler
  <2>4. Told(Source(todo[k].stmt.what, todo[k].item.n))
    BY <2>1, <2>3
  <2> QED BY <1>1, <1>2, <1>3, <2>1, <2>2, <2>4
<1> QED BY <1>6, <1>7, <1>8, <1>9

(* In every step what is left to run changes in one of the two ways. *)
LEMMA StepForm ==
    ASSUME GatherInv, GatherStep, GatherInv'
    PROVE  Enters \/ \E k : Leaves(k)
<1>1. CASE ListResources \/ ListFirstPage \/ ListFromFirstPage
  BY <1>1, ListingForm DEF Enters
<1>2. CASE LoopAgain
  BY <1>2, AgainForm DEF Enters
<1>3. CASE NextItem
  BY <1>3, NextForm DEF Enters
<1>4. CASE Branch \/ FetchAndUse \/ RecordResource
  BY <1>4, BodyForm DEF Enters
<1>5. CASE EnterTry
  BY <1>5, TryForm DEF Enters
<1>6. CASE FetchDetail \/ LeaveTry \/ NoEdge \/ DeriveEdge
  BY <1>6, QuietForm
<1>7. CASE Swallow \/ Drop \/ ReportAndGoOn \/ ReportAndSkip \/ ReportAndLeave \/ Unwind
  BY <1>7, FailForm
<1> QED BY <1>1, <1>2, <1>3, <1>4, <1>5, <1>6, <1>7 DEF GatherStep

(* The frames that are put there are these. *)
InBody(f) == \E k \in DOMAIN stmt.body : f.stmt = stmt.body[k]

InLoop(x) == /\ x \in listed'
             /\ stmt.op = "next" => \E i \in DOMAIN stmt.rest : x = stmt.rest[i]
             /\ stmt.op # "next" => x.type = stmt.what

Entered(f) ==
    \/ /\ stmt.op \in {"if", "when", "add", "guard", "call"} /\ InBody(f) /\ f.item = item
       /\ stmt.op = "add" => RecordResource /\ Recorded(IntentSeen(item))
    \/ stmt.op \in {"each", "again", "next"} /\ InBody(f) /\ InLoop(f.item)
    \/ /\ stmt.op \in {"each", "again", "next"}
       /\ f.stmt.op = "next" /\ f.stmt.body = stmt.body /\ f.item = item
       /\ \A i \in DOMAIN f.stmt.rest : InLoop(f.stmt.rest[i])
    \/ /\ stmt.op \in {"guard", "call"}
       /\ f.stmt.op \in {"except", "end"} /\ f.stmt.what = stmt.what /\ f.item = item

LEMMA LoopItems ==
    ASSUME NEW over, EntersLoop(over)
    PROVE  /\ Opens(Head(over), 1) /\ stmt.op \in {"each", "again", "next"}
           /\ Mark.stmt.op = "next" /\ Mark.stmt.body = stmt.body /\ Mark.item = item
           /\ InLoop(Head(over)) /\ \A i \in DOMAIN Mark.stmt.rest : InLoop(Mark.stmt.rest[i])
<1>1. /\ Opens(Head(over), 1) /\ stmt.op \in {"each", "again", "next"} /\ LoopOver(over)
      /\ Mark.stmt.op = "next" /\ Mark.stmt.body = stmt.body /\ Mark.item = item
      /\ Mark.stmt.rest = Tail(over) /\ over \in Seq(listed') /\ over # <<>>
  BY DEF EntersLoop
<1>2. ASSUME NEW i \in DOMAIN over PROVE InLoop(over[i])
  <2>1. over[i] \in listed'
    BY <1>1
  <2> QED BY <1>1, <2>1 DEF InLoop, LoopOver
<1>3. 1 \in DOMAIN over /\ Head(over) = over[1]
  BY <1>1
<1>4. \A i \in DOMAIN Tail(over) : i + 1 \in DOMAIN over /\ Tail(over)[i] = over[i + 1]
  BY <1>1
<1> QED BY <1>1, <1>2, <1>3, <1>4

LEMMA OpenedFrames ==
    ASSUME GatherInv, todo # <<>>, GatherInv', Enters
    PROVE  /\ stmt.op \in Compound \cup {"next"} /\ stmt.body \in Seq(Statements)
           /\ Len(stmt.body) \in Nat
           /\ \E d \in {0, 1} : \E x : Opens(x, d)
           /\ \A i \in DOMAIN todo' :
                  \/ Entered(todo'[i])
                  \/ \E j \in 2 .. Len(todo) : todo'[i] = todo[j]
<1>1. stmt.op \in Compound \cup {"next"}
  BY DEF Enters, EntersBody, EntersTry, EntersLoop, Compound
<1>2. /\ stmt.body \in Seq(Statements)
      /\ Len(stmt.body) \in Nat /\ DOMAIN stmt.body = 1 .. Len(stmt.body)
  <2>1. stmt.body \in Seq(Statements)
    BY <1>1, BodyAtHand
  <2> QED BY <2>1
<1>3. Len(todo) \in Nat \ {0} /\ todo' \in Seq(Frame(listed')) /\ DOMAIN todo' = 1 .. Len(todo')
  BY DEF GatherInv, TodoInv
<1>4. ASSUME NEW x, NEW d \in {0, 1}, Opens(x, d), NEW i \in DOMAIN todo'
      PROVE  \/ i \in 1 .. Len(stmt.body) /\ todo'[i] = [stmt |-> stmt.body[i], item |-> x]
             \/ d = 1 /\ i = Len(stmt.body) + 1
             \/ \E j \in 2 .. Len(todo) : todo'[i] = todo[j]
  <2>1. i \in 1 .. Len(stmt.body) + d + Len(todo) - 1
    BY <1>3, <1>4 DEF Opens
  <2>2. CASE i \in 1 .. Len(stmt.body)
    BY <1>4, <2>2 DEF Opens
  <2>3. CASE i > Len(stmt.body) + d
    <3> DEFINE n == Len(stmt.body)
               m == Len(todo)
    <3>0. n \in Nat /\ m \in Nat \ {0} /\ i \in 1 .. n + d + m - 1 /\ i > n + d
      BY <1>2, <1>3, <2>1, <2>3
    <3>1. i - Len(stmt.body) - d + 1 \in 2 .. Len(todo)
      <4> HIDE DEF n, m
      <4>1. i - n - d + 1 \in 2 .. m
        BY <3>0
      <4> QED BY <4>1 DEF n, m
    <3>2. i = Len(stmt.body) + d + (i - Len(stmt.body) - d + 1) - 1
      <4> HIDE DEF n, m
      <4>1. i = n + d + (i - n - d + 1) - 1
        BY <3>0
      <4> QED BY <4>1 DEF n
    <3>3. todo'[i] = todo[i - Len(stmt.body) - d + 1]
      BY <1>4, <3>1, <3>2 DEF Opens
    <3> QED BY <3>1, <3>3
  <2> QED BY <1>2, <2>1, <2>2, <2>3
<1>5. CASE EntersBody
  <2>1. /\ Opens(item, 0) /\ stmt.op \in {"if", "when", "add"}
        /\ stmt.op = "add" => RecordResource /\ Recorded(IntentSeen(item))
    BY <1>5 DEF EntersBody
  <2> QED BY <1>1, <1>2, <1>4, <2>1 DEF Entered, InBody
<1>6. CASE EntersTry
  <2>1. /\ Opens(item, 1) /\ stmt.op \in {"guard", "call"}
        /\ Mark.stmt.op \in {"except", "end"} /\ Mark.stmt.what = stmt.what /\ Mark.item = item
    BY <1>6 DEF EntersTry
  <2> QED BY <1>1, <1>2, <1>4, <2>1 DEF Entered, InBody, Mark
<1>7. ASSUME NEW over, EntersLoop(over)
      PROVE  /\ \E d \in {0, 1} : \E x : Opens(x, d)
             /\ \A i \in DOMAIN todo' :
                    Entered(todo'[i]) \/ \E j \in 2 .. Len(todo) : todo'[i] = todo[j]
  <2>1. /\ Opens(Head(over), 1) /\ stmt.op \in {"each", "again", "next"}
        /\ Mark.stmt.op = "next" /\ Mark.stmt.body = stmt.body /\ Mark.item = item
        /\ InLoop(Head(over)) /\ \A i \in DOMAIN Mark.stmt.rest : InLoop(Mark.stmt.rest[i])
    BY <1>7, LoopItems
  <2> QED BY <1>4, <1>2, <2>1 DEF Entered, InBody, Mark
<1> QED BY <1>1, <1>2, <1>5, <1>6, <1>7 DEF Enters

(* So that what holds of all frames stays so, when it holds of those put there. *)
LEMMA EveryFrame ==
    ASSUME GatherInv, GatherStep, GatherInv', NEW S,
           \A i \in DOMAIN todo : todo[i] \in S,
           \A f \in Frame(listed') : Enters /\ Entered(f) => f \in S
    PROVE  \A i \in DOMAIN todo' : todo'[i] \in S
<1>1. todo # <<>> /\ Len(todo) \in Nat \ {0} /\ DOMAIN todo = 1 .. Len(todo)
  BY Grows DEF GatherInv, TodoInv
<1>2. todo' \in Seq(Frame(listed')) /\ DOMAIN todo' = 1 .. Len(todo')
  BY DEF GatherInv, TodoInv
<1>3. CASE Enters
  <2> SUFFICES ASSUME NEW i \in DOMAIN todo' PROVE todo'[i] \in S
    OBVIOUS
  <2>1. todo'[i] \in Frame(listed')
    BY <1>2
  <2>2. Entered(todo'[i]) \/ \E j \in 2 .. Len(todo) : todo'[i] = todo[j]
    BY <1>1, <1>3, OpenedFrames
  <2> QED BY <1>1, <1>3, <2>1, <2>2
<1>4. ASSUME NEW k, Leaves(k) PROVE \A i \in DOMAIN todo' : todo'[i] \in S
  <2> SUFFICES ASSUME NEW i \in DOMAIN todo' PROVE todo'[i] \in S
    OBVIOUS
  <2>1. i \in 1 .. Len(todo) - k + 1 /\ k \in 2 .. Len(todo) + 1 /\ todo'[i] = todo[k + i - 1]
    BY <1>2, <1>4 DEF Leaves
  <2>2. k + i - 1 \in 1 .. Len(todo)
    BY <1>1, <2>1
  <2> QED BY <1>1, <2>1, <2>2
<1> QED BY <1>3, <1>4, StepForm

-----------------------------------------------------------------------------
(* What every proof about a form needs. *)
LEMMA StartFrames ==
    ASSUME GatherInit
    PROVE  /\ Programs[module] \in Seq(Statements) /\ Len(Programs[module]) \in Nat
           /\ Len(todo) = Len(Programs[module]) + 1 /\ DOMAIN todo = 1 .. Len(todo)
           /\ \A i \in 1 .. Len(Programs[module]) :
                  todo[i] = [stmt |-> Programs[module][i], item |-> Outside(i)]
           /\ todo[Len(todo)].stmt.op = "end" /\ todo[Len(todo)].stmt.what = "gather"
           /\ todo[Len(todo)].item = Outside(0)
<1> DEFINE n == Len(Programs[module])
           body == [i \in DOMAIN Programs[module] |->
                       [stmt |-> Programs[module][i], item |-> Outside(i)]]
           last == [stmt |-> [op |-> "end", what |-> "gather"], item |-> Outside(0)]
           S == {body[i] : i \in 1 .. n} \cup {last}
<1>1. Programs[module] \in Seq(Statements) /\ n \in Nat /\ DOMAIN Programs[module] = 1 .. n
  <2>1. Programs[module] \in Seq(Statements)
    BY ProgramAssumption DEF WellFormed, GatherInit
  <2> QED BY <2>1
<1>2. /\ \A i \in 1 .. n : body[i] = [stmt |-> Programs[module][i], item |-> Outside(i)]
      /\ body \in [1 .. n -> S]
  BY <1>1
<1>3. todo = body \o <<last>> /\ last \in S
  BY DEF GatherInit, Start
<1> HIDE DEF body, last, S
<1>4. body \in Seq(S) /\ Len(body) = n /\ <<last>> \in Seq(S) /\ Len(<<last>>) = 1
  <2>1. n \in Nat /\ body \in [1 .. n -> S]
    BY <1>1, <1>2
  <2>2. <<last>> \in Seq(S) /\ Len(<<last>>) = 1
    BY <1>3
  <2> HIDE DEF n
  <2>3. body \in Seq(S) /\ Len(body) = n
    BY <2>1
  <2> QED BY <2>2, <2>3
<1>5. todo \in Seq(S) /\ Len(todo) = n + 1
  BY <1>1, <1>3, <1>4
<1>6. \A i \in 1 .. n : todo[i] = body[i]
  BY <1>1, <1>3, <1>4
<1>7. todo[Len(todo)] = last
  BY <1>1, <1>3, <1>4, <1>5
<1>8. last.stmt.op = "end" /\ last.stmt.what = "gather" /\ last.item = Outside(0)
  BY DEF last
<1> QED BY <1>1, <1>2, <1>5, <1>6, <1>7, <1>8

LEMMA BodyRange ==
    ASSUME NEW S, NEW body \in Seq(S), NEW i \in DOMAIN body
    PROVE  body[i] \in S /\ i \in 1 .. Len(body) /\ Len(body) \in Nat
  OBVIOUS

LEMMA RecordsKeptOrOne ==
    ASSUME GatherInv, GatherStep
    PROVE  \/ records' = records
           \/ /\ stmt.op = "add" /\ Recorded(IntentSeen(item))
              /\ records' = Append(records, [type |-> item.type, region |-> region,
                                             id |-> item.n,
                                             checks |-> IntentSeen(item).checks])
<1>1. CASE RecordResource
  BY <1>1 DEF RecordResource, AddResource, Running
<1>2. CASE DeriveEdge
  BY <1>2 DEF DeriveEdge, AddEdge
<1>3. CASE ReportAndGoOn \/ ReportAndSkip \/ ReportAndLeave \/ Unwind
  BY <1>3 DEF ReportAndGoOn, ReportAndSkip, ReportAndLeave, Unwind, Handled, AddError
<1>4. CASE UNCHANGED writerVars
  BY <1>4 DEF writerVars
<1> QED BY <1>1, <1>2, <1>3, <1>4
        DEF GatherStep, ListResources, ListFirstPage, ListFromFirstPage, LoopAgain, Branch,
            NextItem, FetchDetail, FetchAndUse, EnterTry, LeaveTry, Swallow, Drop, NoEdge

(* What was recorded stays so. *)
LEMMA RecordedStays ==
    ASSUME GatherInv, GatherStep, NEW end, IsRecorded(end)
    PROVE  IsRecorded(end)'
<1>1. PICK i \in DOMAIN records : records[i].type = end.type /\ records[i].id = end.id
  BY DEF IsRecorded
<1>2. records \in Seq(Record)
  BY DEF GatherInv, WriterTypeOK
<1>3. i \in DOMAIN records' /\ records'[i] = records[i]
  <2>1. ASSUME NEW r, records' = Append(records, r)
        PROVE  i \in DOMAIN records' /\ records'[i] = records[i]
    BY <1>1, <1>2, <2>1
  <2> QED BY <1>1, <2>1, RecordsKeptOrOne
<1> QED BY <1>1, <1>3 DEF IsRecorded

LEMMA JustRecorded ==
    ASSUME GatherInv, RecordResource, Recorded(IntentSeen(item)), NEW x, x = item
    PROVE  IsRecorded(EndOf(x))'
<1> DEFINE r == [type |-> item.type, region |-> region, id |-> item.n,
                 checks |-> IntentSeen(item).checks]
<1>1. records' = Append(records, r)
  BY DEF RecordResource, AddResource
<1>2. records \in Seq(Record)
  BY DEF GatherInv, WriterTypeOK
<1>3. r.type = item.type /\ r.id = item.n
  OBVIOUS
<1> HIDE DEF r
<1>4. Len(records) \in Nat /\ Len(records) + 1 \in DOMAIN records' /\ records'[Len(records) + 1] = r
  BY <1>1, <1>2
<1> QED BY <1>3, <1>4 DEF IsRecorded, EndOf

-----------------------------------------------------------------------------
(* The edges. *)
LEMMA EdgesKeptOrOne ==
    ASSUME GatherInv, GatherStep
    PROVE  \/ edges' = edges
           \/ DeriveEdge /\ stmt \in Statements /\ stmt.op = "edge"
<1>1. CASE DeriveEdge
  BY <1>1, AtHand DEF DeriveEdge, Running, GatherInv, Marks
<1>2. CASE ReportAndGoOn \/ ReportAndSkip \/ ReportAndLeave \/ Unwind \/ RecordResource
  BY <1>2 DEF ReportAndGoOn, ReportAndSkip, ReportAndLeave, Unwind, Handled, AddError,
              RecordResource, AddResource
<1>3. CASE UNCHANGED writerVars
  BY <1>3 DEF writerVars
<1> QED BY <1>1, <1>2, <1>3
        DEF GatherStep, ListResources, ListFirstPage, ListFromFirstPage, LoopAgain, Branch,
            NextItem, FetchDetail, FetchAndUse, EnterTry, LeaveTry, Swallow, Drop, NoEdge

LEMMA EdgeAdded ==
    ASSUME GatherInv, DeriveEdge
    PROVE  \E n \in Targets : \E edge :
               /\ edges' = Append(edges, edge) /\ records' = records
               /\ IF stmt.from = "self"
                    THEN edge.from = EndOf(item) /\ edge.to = [type |-> stmt.to, id |-> n]
                    ELSE edge.from = [type |-> stmt.from, id |-> n] /\ edge.to = EndOf(item)
<1>1. PICK n \in Targets :
          IF stmt.from = "self" THEN AddEdge(Self, [type |-> stmt.to, id |-> n])
                                ELSE AddEdge([type |-> stmt.from, id |-> n], Self)
  BY DEF DeriveEdge
<1>2. Self = EndOf(item)
  BY DEF Self, EndOf
<1> QED BY <1>1, <1>2 DEF AddEdge

(* A property of each edge is kept if the new one has it. *)
LEMMA EachEdge ==
    ASSUME NEW S, \A i \in DOMAIN edges : edges[i] \in S, GatherInv,
           edges' = edges \/ \E e \in S : edges' = Append(edges, e)
    PROVE  \A i \in DOMAIN edges' : edges'[i] \in S
<1>1. edges \in Seq(Edge)
  BY DEF GatherInv, WriterTypeOK
<1>2. ASSUME NEW e \in S, edges' = Append(edges, e)
      PROVE  \A i \in DOMAIN edges' : edges'[i] \in S
  <2>1. /\ Len(edges) \in Nat /\ DOMAIN edges = 1 .. Len(edges)
        /\ DOMAIN edges' = 1 .. Len(edges) + 1
        /\ edges'[Len(edges) + 1] = e
        /\ \A i \in 1 .. Len(edges) : edges'[i] = edges[i]
    BY <1>1, <1>2
  <2>2. \A i \in 1 .. Len(edges) + 1 : i \in 1 .. Len(edges) \/ i = Len(edges) + 1
    BY <2>1
  <2> QED BY <1>2, <2>1, <2>2
<1> QED BY <1>2

-----------------------------------------------------------------------------
(* Networks: the edges to them are derived when they are found recorded. *)
MadeOfParts(parts) ==
    \A i \in DOMAIN todo : /\ todo[i].stmt.op \notin Marks => todo[i].stmt \in parts
                           /\ todo[i].stmt.op = "next" => todo[i].stmt.body \in Seq(parts)

LEMMA PartsStart ==
    ASSUME GatherInit, NEW parts, MadeOf(Programs[module], parts)
    PROVE  MadeOfParts(parts)
<1> SUFFICES ASSUME NEW i \in DOMAIN todo
             PROVE  /\ todo[i].stmt.op \notin Marks => todo[i].stmt \in parts
                    /\ todo[i].stmt.op = "next" => todo[i].stmt.body \in Seq(parts)
  BY DEF MadeOfParts
<1> DEFINE n == Len(Programs[module])
<1>1. /\ n \in Nat /\ DOMAIN todo = 1 .. n + 1
      /\ \A k \in 1 .. n : todo[k].stmt = Programs[module][k]
      /\ todo[n + 1].stmt.op = "end"
  <2>1. n \in Nat /\ Len(todo) = n + 1 /\ DOMAIN todo = 1 .. Len(todo)
    BY StartFrames
  <2>2. ASSUME NEW k \in 1 .. n PROVE todo[k].stmt = Programs[module][k]
    <3>1. todo[k] = [stmt |-> Programs[module][k], item |-> Outside(k)]
      BY StartFrames
    <3> QED BY <3>1
  <2>3. todo[Len(todo)].stmt.op = "end"
    BY StartFrames
  <2> QED BY <2>1, <2>2, <2>3
<1>2. \A k \in 1 .. n : Programs[module][k] \in parts /\ Programs[module][k].op \notin Marks
  <2>1. Programs[module] \in Seq(parts) /\ Programs[module] \in Seq(Statements)
    BY StartFrames DEF MadeOf
  <2>2. DOMAIN Programs[module] = 1 .. n
    BY <2>1
  <2>3. \A k \in 1 .. n : Programs[module][k] \in parts /\ Programs[module][k] \in Statements
    BY <2>1, <2>2, BodyRange
  <2> QED BY <2>3, ProgramAssumption DEF WellFormed
<1>3. i \in 1 .. n \/ i = n + 1
  BY <1>1
<1> QED BY <1>1, <1>2, <1>3 DEF Marks

LEMMA PartsStay ==
    ASSUME GatherInv, GatherStep, GatherInv', NEW parts, MadeOf(Programs[module], parts),
           MadeOfParts(parts)
    PROVE  MadeOfParts(parts)'
<1> DEFINE S == {f \in Frame(listed') :
                    /\ f.stmt.op \notin Marks => f.stmt \in parts
                    /\ f.stmt.op = "next" => f.stmt.body \in Seq(parts)}
<1>1. todo # <<>> /\ Frame(listed) \subseteq Frame(listed')
  BY Grows, FramesGrow
<1>2. \A i \in DOMAIN todo : todo[i] \in S
  BY <1>1 DEF MadeOfParts, GatherInv, TodoInv
<1>3. ASSUME NEW f \in Frame(listed'), Enters, Entered(f) PROVE f \in S
  <2>1. stmt.op \in Compound \cup {"next"} /\ stmt.body \in Seq(Statements)
    BY <1>1, <1>3, OpenedFrames
  <2>2. stmt.body \in Seq(parts)
    <3>1. todo[1].stmt = stmt /\ 1 \in DOMAIN todo
      BY <1>1, HeadFirst DEF GatherInv
    <3>2. stmt.op = "next" => stmt.body \in Seq(parts)
      BY <3>1 DEF MadeOfParts
    <3>3. stmt.op # "next" => stmt \in parts
      BY <2>1, <3>1 DEF MadeOfParts, Compound, Marks
    <3> QED BY <2>1, <3>2, <3>3 DEF MadeOf
  <2>3. CASE InBody(f)
    <3>1. f.stmt \in parts /\ f.stmt \in Statements
      BY <2>1, <2>2, <2>3, BodyRange DEF InBody
    <3>2. f.stmt.op # "next"
      BY <3>1, ProgramAssumption DEF WellFormed, Marks
    <3> QED BY <3>1, <3>2
  <2>4. CASE f.stmt.op = "next" /\ f.stmt.body = stmt.body
    BY <2>2, <2>4 DEF Marks
  <2>5. CASE f.stmt.op \in {"except", "end"}
    BY <2>5 DEF Marks
  <2> QED BY <1>3, <2>3, <2>4, <2>5 DEF Entered
<1> HIDE DEF S
<1>4. \A i \in DOMAIN todo' : todo'[i] \in S
  BY <1>2, <1>3, EveryFrame
<1> QED BY <1>4 DEF S, MadeOfParts

(* gcp/vpc.py, resolve_network_by_name(): in a gather function that derives edges to
   networks only where it found them among those recorded, none of them dangles,
   whichever networks are suppressed or were left out by a failure. *)
NetworksInv(parts) ==
    /\ MadeOfParts(parts)
    /\ \A i \in DOMAIN edges : ~Dangling(edges[i])

LEMMA NetworksStep ==
    ASSUME GatherInv, [GatherStep]_vars, GatherInv', NEW parts,
           MadeOf(Programs[module], parts), NetworksResolved(parts), NetworksInv(parts)
    PROVE  NetworksInv(parts)'
<1>1. CASE UNCHANGED vars
  BY <1>1 DEF vars, gatherVars, writerVars, NetworksInv, MadeOfParts, Dangling, IsRecorded
<1>2. CASE GatherStep
  <2>1. MadeOfParts(parts)'
    BY <1>2, PartsStay DEF NetworksInv
  <2> DEFINE S == {e : e \in {edges[i] : i \in DOMAIN edges} \cup {edges'[i] : i \in DOMAIN edges'}}
             G == {e \in S : ~Dangling(e)'}
  <2>2. \A e : Dangling(e)' => Dangling(e)
    BY <1>2, RecordedStays DEF Dangling
  <2>3. \A i \in DOMAIN edges : edges[i] \in G
    BY <2>2 DEF NetworksInv
  <2>4. edges' = edges \/ \E e \in G : edges' = Append(edges, e)
    <3>1. CASE DeriveEdge /\ stmt.op = "edge"
      <4>1. todo # <<>> /\ stmt \in parts
        <5>1. todo # <<>>
          BY <1>2, Grows
        <5> QED BY <3>1, <5>1, HeadFirst DEF GatherInv, NetworksInv, MadeOfParts, Marks
      <4>2. /\ stmt.from = "self"
            /\ stmt.to \in Networking => stmt.among \in {"recorded", "recorded parent"}
        BY <3>1, <4>1 DEF NetworksResolved
      <4>3. PICK n \in Targets : \E edge :
                edges' = Append(edges, edge) /\ records' = records
                /\ edge.to = [type |-> stmt.to, id |-> n]
        BY <3>1, <4>2, EdgeAdded
      <4>4. PICK edge : /\ edges' = Append(edges, edge) /\ records' = records
                        /\ edge.to = [type |-> stmt.to, id |-> n]
        BY <4>3
      <4>5. ~Dangling(edge)'
        <5>1. stmt.to \in Networking => IsRecorded([type |-> stmt.to, id |-> n])
          BY <4>2, <4>3 DEF Targets
        <5> QED BY <4>4, <5>1 DEF Dangling, IsRecorded
      <4>6. edge \in S
        <5>1. edges \in Seq(Edge)
          BY DEF GatherInv, WriterTypeOK
        <5>2. Len(edges) + 1 \in DOMAIN edges' /\ edges'[Len(edges) + 1] = edge
          BY <4>4, <5>1
        <5> QED BY <5>2
      <4> QED BY <4>4, <4>5, <4>6
    <3> QED BY <1>2, <3>1, EdgesKeptOrOne
  <2> HIDE DEF G
  <2>5. \A i \in DOMAIN edges' : edges'[i] \in G
    BY <2>3, <2>4, EachEdge
  <2> QED BY <2>1, <2>5 DEF G, NetworksInv
<1> QED BY <1>1, <1>2

LEMMA NameStays ==
    ASSUME [GatherStep]_vars
    PROVE  module' = module
  BY Grows DEF vars, gatherVars

(* gcp/vpc.py, add_edge() calls: where every edge to a network or subnet is derived
   from one looked up among those that were recorded, none dangles. *)
THEOREM NetworksLand ==
    ASSUME \A name \in Claims["NetworkEdgesLand"] \cap DOMAIN Programs : \E parts :
               MadeOf(Programs[name], parts) /\ NetworksResolved(parts)
    PROVE  GatherSpec => []NetworkEdgesLand
<1> DEFINE Inv == \/ Unclaimed("NetworkEdgesLand")
                  \/ \E parts : /\ MadeOf(Programs[module], parts) /\ NetworksResolved(parts)
                                /\ NetworksInv(parts)
<1>1. GatherInit => Inv
  <2> SUFFICES ASSUME GatherInit, ~Unclaimed("NetworkEdgesLand") PROVE Inv
    OBVIOUS
  <2>1. module \in Claims["NetworkEdgesLand"] \cap DOMAIN Programs
    BY DEF GatherInit, Unclaimed
  <2>2. PICK parts : MadeOf(Programs[module], parts) /\ NetworksResolved(parts)
    BY <2>1
  <2>3. edges = <<>>
    BY DEF GatherInit, WriterInit
  <2>4. NetworksInv(parts)
    BY <2>2, <2>3, PartsStart DEF NetworksInv
  <2> QED BY <2>2, <2>4
<1>2. GatherInv /\ GatherInv' /\ Inv /\ [GatherStep]_vars => Inv'
  <2> SUFFICES ASSUME GatherInv, GatherInv', Inv, [GatherStep]_vars PROVE Inv'
    OBVIOUS
  <2>1. module' = module
    BY NameStays
  <2>2. CASE Unclaimed("NetworkEdgesLand")
    BY <2>1, <2>2 DEF Unclaimed
  <2>3. ASSUME NEW parts, MadeOf(Programs[module], parts), NetworksResolved(parts),
               NetworksInv(parts)
        PROVE  Inv'
    <3>1. NetworksInv(parts)'
      BY <2>3, NetworksStep
    <3> QED BY <2>1, <2>3, <3>1 DEF NetworksResolved
  <2> QED BY <2>2, <2>3
<1>3. Inv => NetworkEdgesLand
  BY DEF NetworksInv, NetworkEdgesLand
<1> HIDE DEF Inv
<1> QED BY <1>1, <1>2, <1>3, InvAlways, PTL DEF GatherSpec

-----------------------------------------------------------------------------
(* Owners: where edges are derived only inside `if writer.add_resource(...)`, the
   item at hand is recorded. *)
Owned(outside, inside) ==
    \A i \in DOMAIN todo :
        /\ todo[i].stmt.op \notin Marks =>
               \/ todo[i].stmt \in outside
               \/ todo[i].stmt \in inside /\ IsRecorded(EndOf(todo[i].item))
        /\ todo[i].stmt.op = "next" => todo[i].stmt.body \in Seq(outside)

LEMMA OwnedStart ==
    ASSUME GatherInit, NEW outside, NEW inside, EdgesUnderAdd(Programs[module], outside, inside)
    PROVE  Owned(outside, inside)
<1> SUFFICES ASSUME NEW i \in DOMAIN todo
             PROVE  /\ todo[i].stmt.op \notin Marks => todo[i].stmt \in outside
                    /\ todo[i].stmt.op # "next"
  BY DEF Owned
<1> DEFINE n == Len(Programs[module])
<1>1. n \in Nat /\ DOMAIN todo = 1 .. n + 1 /\ todo[n + 1].stmt.op = "end"
  BY StartFrames
<1>2. ASSUME NEW k \in 1 .. n
      PROVE  todo[k].stmt \in outside /\ todo[k].stmt \in Statements
  <2>1. todo[k].stmt = Programs[module][k]
    <3>1. todo[k] = [stmt |-> Programs[module][k], item |-> Outside(k)]
      BY StartFrames
    <3> QED BY <3>1
  <2>2. Programs[module] \in Seq(outside) /\ Programs[module] \in Seq(Statements)
    BY StartFrames DEF EdgesUnderAdd
  <2>3. k \in DOMAIN Programs[module]
    BY <2>2
  <2> QED BY <2>1, <2>2, <2>3, BodyRange
<1>3. i \in 1 .. n \/ i = n + 1
  BY <1>1
<1>4. \A s \in Statements : s.op # "next"
  BY ProgramAssumption DEF WellFormed, Marks
<1> QED BY <1>1, <1>2, <1>3, <1>4 DEF Marks

LEMMA OwnedStay ==
    ASSUME GatherInv, GatherStep, GatherInv', NEW outside, NEW inside,
           EdgesUnderAdd(Programs[module], outside, inside), Owned(outside, inside)
    PROVE  Owned(outside, inside)'
<1> DEFINE S == {f \in Frame(listed') :
                    /\ f.stmt.op \notin Marks =>
                           \/ f.stmt \in outside
                           \/ f.stmt \in inside /\ IsRecorded(EndOf(f.item))'
                    /\ f.stmt.op = "next" => f.stmt.body \in Seq(outside)}
<1>1. todo # <<>> /\ Frame(listed) \subseteq Frame(listed')
  BY Grows, FramesGrow
<1>2. \A i \in DOMAIN todo : todo[i] \in S
  <2> SUFFICES ASSUME NEW i \in DOMAIN todo PROVE todo[i] \in S
    OBVIOUS
  <2>1. todo[i] \in Frame(listed')
    BY <1>1 DEF GatherInv, TodoInv
  <2>2. ASSUME NEW x, IsRecorded(EndOf(x)) PROVE IsRecorded(EndOf(x))'
    BY <2>2, RecordedStays
  <2>3. PICK f : f = todo[i]
    OBVIOUS
  <2>4. IsRecorded(EndOf(f.item)) => IsRecorded(EndOf(f.item))'
    BY <2>2
  <2>5. f \in S
    BY <2>1, <2>3, <2>4 DEF Owned
  <2> QED BY <2>3, <2>5
<1>3. ASSUME NEW f \in Frame(listed'), Enters, Entered(f) PROVE f \in S
  <2>1. stmt.op \in Compound \cup {"next"} /\ stmt.body \in Seq(Statements)
    BY <1>1, <1>3, OpenedFrames
  <2>2. todo[1].stmt = stmt /\ todo[1].item = item /\ 1 \in DOMAIN todo
    BY <1>1, HeadFirst DEF GatherInv
  <2>3. stmt.op = "next" => stmt.body \in Seq(outside)
    BY <2>2 DEF Owned
  <2>4. stmt.op # "next" => \/ stmt \in outside
                            \/ stmt \in inside /\ IsRecorded(EndOf(item))
    BY <2>1, <2>2 DEF Owned, Compound, Marks
  <2>5. stmt.op \in {"each", "again", "next"} => stmt.body \in Seq(outside)
    BY <2>3, <2>4 DEF EdgesUnderAdd, Compound
  <2>6. CASE InBody(f) /\ stmt.op \in {"each", "again", "next"}
    <3>1. f.stmt \in outside /\ f.stmt \in Statements
      BY <2>1, <2>5, <2>6, BodyRange DEF InBody
    <3>2. f.stmt.op # "next"
      BY <3>1, ProgramAssumption DEF WellFormed, Marks
    <3> QED BY <3>1, <3>2
  <2>7. CASE InBody(f) /\ stmt.op \in {"if", "when", "add", "guard", "call"} /\ f.item = item
    <3>1. PICK x : x = item
      OBVIOUS
    <3>2. IsRecorded(EndOf(item)) => IsRecorded(EndOf(x))'
      BY <3>1, RecordedStays, <1>3
    <3>3. stmt.op = "add" => IsRecorded(EndOf(x))'
      BY <1>3, <2>7, <3>1, JustRecorded DEF Entered
    <3>4. f.stmt \in Statements /\ stmt.body \in Seq(Statements)
      BY <2>1, <2>7, BodyRange DEF InBody
    <3>5. f.stmt.op # "next"
      BY <3>4, ProgramAssumption DEF WellFormed, Marks
    <3>6. CASE stmt \in outside
      <4>1. f.stmt \in outside \/ (stmt.op = "add" /\ f.stmt \in inside)
        <5>1. stmt.op # "add" => stmt.body \in Seq(outside)
          BY <2>7, <3>6 DEF EdgesUnderAdd, Compound
        <5>2. stmt.op = "add" => stmt.body \in Seq(inside)
          BY <3>6 DEF EdgesUnderAdd
        <5>3. PICK k \in DOMAIN stmt.body : f.stmt = stmt.body[k]
          BY <2>7 DEF InBody
        <5>4. stmt.op # "add" => f.stmt \in outside
          BY <5>1, <5>3, BodyRange
        <5>5. stmt.op = "add" => f.stmt \in inside
          BY <5>2, <5>3, BodyRange
        <5> QED BY <5>4, <5>5
      <4> QED BY <2>7, <3>1, <3>3, <3>5, <4>1
    <3>7. CASE stmt \in inside /\ IsRecorded(EndOf(item))
      <4>1. stmt.body \in Seq(inside)
        BY <2>7, <3>7 DEF EdgesUnderAdd, Compound
      <4>2. f.stmt \in inside
        BY <2>7, <4>1, BodyRange DEF InBody
      <4> QED BY <2>7, <3>1, <3>2, <3>5, <3>7, <4>2
    <3> QED BY <2>4, <2>7, <3>6, <3>7
  <2>8. CASE f.stmt.op = "next" /\ f.stmt.body = stmt.body /\ stmt.op \in {"each", "again", "next"}
    BY <2>5, <2>8 DEF Marks
  <2>9. CASE f.stmt.op \in {"except", "end"}
    BY <2>9 DEF Marks
  <2>10. \/ InBody(f) /\ stmt.op \in {"each", "again", "next"}
         \/ InBody(f) /\ stmt.op \in {"if", "when", "add", "guard", "call"} /\ f.item = item
         \/ f.stmt.op = "next" /\ f.stmt.body = stmt.body /\ stmt.op \in {"each", "again", "next"}
         \/ f.stmt.op \in {"except", "end"}
    BY <1>3 DEF Entered
  <2> QED BY <2>6, <2>7, <2>8, <2>9, <2>10
<1> HIDE DEF S
<1>4. \A i \in DOMAIN todo' : todo'[i] \in S
  BY <1>2, <1>3, EveryFrame
<1> QED BY <1>4 DEF S, Owned, IsRecorded, EndOf

OwnersInv(outside, inside) ==
    /\ Owned(outside, inside)
    /\ \A i \in DOMAIN edges : IsRecorded(edges[i].from) \/ IsRecorded(edges[i].to)

(* What holds of the new edge holds of all. *)
LEMMA OwnersStep ==
    ASSUME GatherInv, GatherStep, GatherInv', NEW outside, NEW inside,
           EdgesUnderAdd(Programs[module], outside, inside), Owned(outside, inside)
    PROVE  \/ edges' = edges
           \/ /\ stmt \in inside /\ stmt.op = "edge"
              /\ \E edge : /\ edges' = Append(edges, edge)
                           /\ IsRecorded(edge.from)' \/ IsRecorded(edge.to)'
                           /\ stmt.from = "self" => IsRecorded(edge.from)'
<1> SUFFICES ASSUME DeriveEdge, stmt \in Statements, stmt.op = "edge"
             PROVE  /\ stmt \in inside
                    /\ \E edge : /\ edges' = Append(edges, edge)
                                 /\ IsRecorded(edge.from)' \/ IsRecorded(edge.to)'
                                 /\ stmt.from = "self" => IsRecorded(edge.from)'
  BY EdgesKeptOrOne
<1>1. todo # <<>>
  BY Grows
<1>2. todo[1].stmt = stmt /\ todo[1].item = item /\ 1 \in DOMAIN todo
  BY <1>1, HeadFirst DEF GatherInv
<1>3. stmt \in inside /\ IsRecorded(EndOf(item))
  BY <1>2 DEF Owned, EdgesUnderAdd, Marks
<1>4. PICK n \in Targets : \E edge :
          /\ edges' = Append(edges, edge) /\ records' = records
          /\ IF stmt.from = "self"
               THEN edge.from = EndOf(item) /\ edge.to = [type |-> stmt.to, id |-> n]
               ELSE edge.from = [type |-> stmt.from, id |-> n] /\ edge.to = EndOf(item)
  BY EdgeAdded
<1>5. PICK edge :
          /\ edges' = Append(edges, edge) /\ records' = records
          /\ IF stmt.from = "self"
               THEN edge.from = EndOf(item) /\ edge.to = [type |-> stmt.to, id |-> n]
               ELSE edge.from = [type |-> stmt.from, id |-> n] /\ edge.to = EndOf(item)
  BY <1>4
<1>6. \A end : IsRecorded(end) => IsRecorded(end)'
  BY RecordedStays
<1>7. PICK end : end = EndOf(item)
  OBVIOUS
<1>8. IsRecorded(end)'
  BY <1>3, <1>6, <1>7
<1> QED BY <1>3, <1>5, <1>7, <1>8

LEMMA EdgesOwned ==
    ASSUME GatherInv, [GatherStep]_vars, GatherInv', NEW outside, NEW inside,
           EdgesUnderAdd(Programs[module], outside, inside), Owned(outside, inside)
    PROVE  /\ Owned(outside, inside)'
           /\ OwnersInv(outside, inside) => OwnersInv(outside, inside)'
           /\ EdgesFromSelf(inside) /\ (\A i \in DOMAIN edges : IsRecorded(edges[i].from)) =>
                  (\A i \in DOMAIN edges : IsRecorded(edges[i].from))'
<1>1. CASE UNCHANGED vars
  BY <1>1 DEF vars, gatherVars, writerVars, Owned, OwnersInv, IsRecorded, EndOf
<1>2. CASE GatherStep
  <2>1. Owned(outside, inside)'
    BY <1>2, OwnedStay
  <2> DEFINE All == {edges[i] : i \in DOMAIN edges} \cup {edges'[i] : i \in DOMAIN edges'}
             S == {e \in All : IsRecorded(e.from)' \/ IsRecorded(e.to)'}
             T == {e \in All : IsRecorded(e.from)'}
  <2>2. \A end : IsRecorded(end) => IsRecorded(end)'
    BY <1>2, RecordedStays
  <2>3. edges \in Seq(Edge)
    BY DEF GatherInv, WriterTypeOK
  <2>4. \A edge : edges' = Append(edges, edge) => edge \in All
    <3> SUFFICES ASSUME NEW edge, edges' = Append(edges, edge) PROVE edge \in All
      OBVIOUS
    <3>1. Len(edges) + 1 \in DOMAIN edges' /\ edges'[Len(edges) + 1] = edge
      BY <2>3
    <3> QED BY <3>1
  <2>5. ASSUME OwnersInv(outside, inside) PROVE OwnersInv(outside, inside)'
    <3>1. \A i \in DOMAIN edges : edges[i] \in S
      BY <2>2, <2>5 DEF OwnersInv
    <3>2. edges' = edges \/ \E e \in S : edges' = Append(edges, e)
      BY <1>2, <2>4, OwnersStep
    <3> HIDE DEF S
    <3>3. \A i \in DOMAIN edges' : edges'[i] \in S
      BY <3>1, <3>2, EachEdge
    <3> QED BY <2>1, <3>3 DEF S, OwnersInv
  <2>6. ASSUME EdgesFromSelf(inside), \A i \in DOMAIN edges : IsRecorded(edges[i].from)
        PROVE  (\A i \in DOMAIN edges : IsRecorded(edges[i].from))'
    <3>1. \A i \in DOMAIN edges : edges[i] \in T
      BY <2>2, <2>6
    <3>2. edges' = edges \/ \E e \in T : edges' = Append(edges, e)
      BY <1>2, <2>4, <2>6, OwnersStep DEF EdgesFromSelf
    <3> HIDE DEF T
    <3>3. \A i \in DOMAIN edges' : edges'[i] \in T
      BY <3>1, <3>2, EachEdge
    <3> QED BY <3>3 DEF T
  <2> QED BY <2>1, <2>5, <2>6
<1> QED BY <1>1, <1>2

(* writer.py, add_edge(): where a gather function derives edges only inside
   `if writer.add_resource(...)`, no edge is left of two resources that are both absent
   from the inventory, wherever gather() stops. *)
THEOREM OwnersRecorded ==
    ASSUME \A name \in Claims["EdgeOwnersRecorded"] \cap DOMAIN Programs :
               \E outside, inside : EdgesUnderAdd(Programs[name], outside, inside)
    PROVE  GatherSpec => []EdgeOwnersRecorded
<1> DEFINE Inv == \/ Unclaimed("EdgeOwnersRecorded")
                  \/ \E outside, inside : /\ EdgesUnderAdd(Programs[module], outside, inside)
                                          /\ OwnersInv(outside, inside)
<1>1. GatherInit => Inv
  <2> SUFFICES ASSUME GatherInit, ~Unclaimed("EdgeOwnersRecorded") PROVE Inv
    OBVIOUS
  <2>1. PICK outside, inside : EdgesUnderAdd(Programs[module], outside, inside)
    BY DEF GatherInit, Unclaimed
  <2>2. edges = <<>>
    BY DEF GatherInit, WriterInit
  <2>3. OwnersInv(outside, inside)
    BY <2>1, <2>2, OwnedStart DEF OwnersInv
  <2> QED BY <2>1, <2>3
<1>2. GatherInv /\ GatherInv' /\ Inv /\ [GatherStep]_vars => Inv'
  <2> SUFFICES ASSUME GatherInv, GatherInv', Inv, [GatherStep]_vars PROVE Inv'
    OBVIOUS
  <2>1. module' = module
    BY NameStays
  <2>2. CASE Unclaimed("EdgeOwnersRecorded")
    BY <2>1, <2>2 DEF Unclaimed
  <2>3. ASSUME NEW outside, NEW inside, EdgesUnderAdd(Programs[module], outside, inside),
               OwnersInv(outside, inside)
        PROVE  Inv'
    <3>1. OwnersInv(outside, inside)'
      BY <2>3, EdgesOwned DEF OwnersInv
    <3>2. EdgesUnderAdd(Programs[module'], outside, inside)
      BY <2>1, <2>3
    <3> QED BY <3>1, <3>2 DEF EdgesUnderAdd
  <2> QED BY <2>2, <2>3
<1>3. Inv => EdgeOwnersRecorded
  BY DEF OwnersInv, EdgeOwnersRecorded
<1> HIDE DEF Inv
<1> QED BY <1>1, <1>2, <1>3, InvAlways, PTL DEF GatherSpec

(* writer.py, add_edge(): "every gather() guards" the edges of a resource on its own
   add_resource().  Where it does, and every edge starts at that resource, the `from`
   end of every edge is a record. *)
THEOREM FromRecorded ==
    ASSUME \A name \in Claims["EdgesFromRecorded"] \cap DOMAIN Programs :
               \E outside, inside : /\ EdgesUnderAdd(Programs[name], outside, inside)
                                    /\ EdgesFromSelf(inside)
    PROVE  GatherSpec => []EdgesFromRecorded
<1> DEFINE StartRecorded == \A i \in DOMAIN edges : IsRecorded(edges[i].from)
           Inv == \/ Unclaimed("EdgesFromRecorded")
                  \/ \E outside, inside : /\ EdgesUnderAdd(Programs[module], outside, inside)
                                          /\ EdgesFromSelf(inside)
                                          /\ Owned(outside, inside) /\ StartRecorded
<1>1. GatherInit => Inv
  <2> SUFFICES ASSUME GatherInit, ~Unclaimed("EdgesFromRecorded") PROVE Inv
    OBVIOUS
  <2>1. PICK outside, inside : /\ EdgesUnderAdd(Programs[module], outside, inside)
                               /\ EdgesFromSelf(inside)
    BY DEF GatherInit, Unclaimed
  <2>2. edges = <<>>
    BY DEF GatherInit, WriterInit
  <2> QED BY <2>1, <2>2, OwnedStart
<1>2. GatherInv /\ GatherInv' /\ Inv /\ [GatherStep]_vars => Inv'
  <2> SUFFICES ASSUME GatherInv, GatherInv', Inv, [GatherStep]_vars PROVE Inv'
    OBVIOUS
  <2>1. module' = module
    BY NameStays
  <2>2. CASE Unclaimed("EdgesFromRecorded")
    BY <2>1, <2>2 DEF Unclaimed
  <2>3. ASSUME NEW outside, NEW inside, EdgesUnderAdd(Programs[module], outside, inside),
               EdgesFromSelf(inside), Owned(outside, inside), StartRecorded
        PROVE  Inv'
    <3>1. Owned(outside, inside)' /\ StartRecorded'
      BY <2>3, EdgesOwned
    <3>2. EdgesUnderAdd(Programs[module'], outside, inside)
      BY <2>1, <2>3
    <3> HIDE DEF StartRecorded
    <3> QED BY <2>3, <3>1, <3>2 DEF EdgesUnderAdd, EdgesFromSelf
  <2> QED BY <2>2, <2>3
<1>3. Inv => EdgesFromRecorded
  BY DEF EdgesFromRecorded
<1> HIDE DEF Inv
<1> QED BY <1>1, <1>2, <1>3, InvAlways, PTL DEF GatherSpec

-----------------------------------------------------------------------------
(* What the steps do to the errors and the failures. *)
LEMMA FailuresForm ==
    ASSUME GatherInv, GatherStep
    PROVE  \/ UNCHANGED <<faults, errors>>
           \/ /\ ListFirstPage \/ ListFromFirstPage
              /\ errors' = errors /\ stmt \in Statements /\ stmt.op = "each"
              /\ \/ stmt.form = "first page" /\ faults' = faults \cup {Failure("unread")}
                 \/ faults' = faults \cup {Failure("repeated")}
           \/ Swallow \/ Drop \/ ReportAndGoOn \/ ReportAndSkip \/ ReportAndLeave \/ Unwind
<1>1. CASE ListFirstPage \/ ListFromFirstPage
  <2>1. Running("each") /\ UNCHANGED writerVars
    BY <1>1 DEF ListFirstPage, ListFromFirstPage
  <2>2. stmt \in Statements /\ stmt.op = "each" /\ errors' = errors
    BY <2>1, AtHand DEF Running, GatherInv, Marks, writerVars
  <2> QED BY <1>1, <2>2 DEF ListFirstPage, ListFromFirstPage
<1>2. CASE RecordResource \/ DeriveEdge
  BY <1>2 DEF RecordResource, DeriveEdge, AddResource, AddEdge
<1>3. CASE UNCHANGED writerVars /\ faults' = faults
  BY <1>3 DEF writerVars
<1> QED BY <1>1, <1>2, <1>3
        DEF GatherStep, ListResources, LoopAgain, Branch, NextItem, FetchDetail, FetchAndUse,
            EnterTry, LeaveTry, NoEdge

LEMMA ToldOne ==
    ASSUME GatherInv, NEW s, Told(s)
    PROVE  /\ Len(errors) \in Nat /\ Len(errors') = Len(errors) + 1
           /\ \A i \in DOMAIN errors : i \in DOMAIN errors' /\ errors'[i] = errors[i]
           /\ Len(errors) + 1 \in DOMAIN errors'
           /\ errors'[Len(errors) + 1].source = s
           /\ \A i \in DOMAIN errors' : i \in DOMAIN errors \/ i = Len(errors) + 1
<1> DEFINE e == [region |-> region, source |-> s]
<1>1. errors \in Seq(Error) /\ errors' = Append(errors, e) /\ e.source = s
  BY DEF GatherInv, WriterTypeOK, Told
<1> HIDE DEF e
<1>2. /\ Len(errors) \in Nat /\ Len(errors') = Len(errors) + 1
      /\ DOMAIN errors' = 1 .. Len(errors) + 1 /\ DOMAIN errors = 1 .. Len(errors)
      /\ \A i \in 1 .. Len(errors) : errors'[i] = errors[i]
      /\ errors'[Len(errors) + 1] = e
  BY <1>1
<1>3. \A i \in 1 .. Len(errors) + 1 : i \in 1 .. Len(errors) \/ i = Len(errors) + 1
  BY <1>2
<1> QED BY <1>1, <1>2, <1>3

ListsLost == {f \in faults : f.call \in {"each", "when"} /\ f.fail # "repeated"}

TellsInv(parts) == MadeOfParts(parts) /\ Cardinality(ListsLost) <= Len(errors)

LEMMA TellsStep ==
    ASSUME GatherInv, [GatherStep]_vars, GatherInv', NEW parts,
           MadeOf(Programs[module], parts), ListsTold(parts), TellsInv(parts)
    PROVE  TellsInv(parts)'
<1>1. CASE UNCHANGED vars
  BY <1>1 DEF vars, gatherVars, writerVars, TellsInv, MadeOfParts, ListsLost
<1>2. CASE GatherStep
  <2>1. MadeOfParts(parts)'
    BY <1>2, PartsStay DEF TellsInv
  <2>2. /\ IsFiniteSet(ListsLost) /\ Cardinality(ListsLost) \in Nat /\ Len(errors) \in Nat
        /\ Cardinality(ListsLost) <= Len(errors)
    <3>1. IsFiniteSet(ListsLost)
      BY FS_Subset DEF ListsLost, GatherInv, ListedInv
    <3>2. Len(errors) \in Nat
      BY DEF GatherInv, WriterTypeOK
    <3> QED BY <3>1, <3>2, FS_CardinalityType DEF TellsInv
  <2>3. todo # <<>> /\ todo[1].stmt = stmt /\ 1 \in DOMAIN todo
    BY <1>2, Grows, HeadFirst DEF GatherInv
  <2>4. stmt.op \in {"each", "when", "fetch"} => stmt \in parts
    BY <2>3 DEF TellsInv, MadeOfParts, Marks
  <2>5. Cardinality(ListsLost)' <= Len(errors')
    <3>1. CASE UNCHANGED <<faults, errors>>
      BY <2>2, <3>1 DEF ListsLost
    <3>2. CASE /\ stmt.op = "each" /\ errors' = errors
               /\ \/ stmt.form = "first page" /\ faults' = faults \cup {Failure("unread")}
                  \/ faults' = faults \cup {Failure("repeated")}
      <4>1. stmt.form # "first page"
        BY <2>4, <3>2 DEF ListsTold
      <4>2. Failure("repeated").fail = "repeated"
        BY DEF Failure
      <4>3. ListsLost' = ListsLost
        BY <3>2, <4>1, <4>2 DEF ListsLost
      <4> QED BY <2>2, <3>2, <4>3
    <3>3. CASE Swallow \/ Drop \/ ReportAndGoOn \/ ReportAndSkip \/ ReportAndLeave \/ Unwind
      <4>1. /\ stmt.op \in {"each", "fetch", "when"}
            /\ faults' = faults \cup {Failure(stmt.fail)}
            /\ \/ stmt.fail \in {"silent", "drop"} /\ errors' = errors
               \/ \E s : Told(s)
        BY <3>3, FailForm
      <4>2. Failure(stmt.fail).call = stmt.op
        BY DEF Failure
      <4>3. CASE stmt.op = "fetch"
        <5>1. ListsLost' = ListsLost
          BY <4>1, <4>2, <4>3 DEF ListsLost
        <5>2. Len(errors) <= Len(errors')
          BY <2>2, <4>1, ToldOne
        <5>3. Len(errors') \in Nat
          BY DEF GatherInv, WriterTypeOK
        <5> QED BY <2>2, <5>1, <5>2, <5>3
      <4>4. CASE stmt.op # "fetch"
        <5>1. Len(errors') = Len(errors) + 1
          BY <2>4, <4>1, <4>4, ToldOne DEF ListsTold
        <5>2. ListsLost' \subseteq ListsLost \cup {Failure(stmt.fail)}
          BY <4>1 DEF ListsLost
        <5>3. /\ IsFiniteSet(ListsLost \cup {Failure(stmt.fail)})
              /\ Cardinality(ListsLost \cup {Failure(stmt.fail)}) <= Cardinality(ListsLost) + 1
          <6> DEFINE f == Failure(stmt.fail)
          <6> HIDE DEF f
          <6>1. /\ IsFiniteSet(ListsLost \cup {f})
                /\ Cardinality(ListsLost \cup {f}) =
                       IF f \in ListsLost THEN Cardinality(ListsLost)
                                         ELSE Cardinality(ListsLost) + 1
            BY <2>2, FS_AddElement
          <6> QED BY <2>2, <6>1 DEF f
        <5>4. Cardinality(ListsLost') <= Cardinality(ListsLost \cup {Failure(stmt.fail)})
          BY <5>2, <5>3, FS_Subset
        <5>5. Cardinality(ListsLost') \in Nat
              /\ Cardinality(ListsLost \cup {Failure(stmt.fail)}) \in Nat
          BY <5>2, <5>3, FS_Subset, FS_CardinalityType
        <5> QED BY <2>2, <5>1, <5>3, <5>4, <5>5
      <4> QED BY <4>3, <4>4
    <3> QED BY <1>2, <3>1, <3>2, <3>3, FailuresForm
  <2> QED BY <2>1, <2>5 DEF TellsInv
<1> QED BY <1>1, <1>2

(* writer.py, add_error(): where no list call fails silently and each reads all its
   pages, there are as many entries as list calls that failed, at any time. *)
THEOREM LossTold ==
    ASSUME \A name \in Claims["NoSilentLoss"] \cap DOMAIN Programs : \E parts :
               MadeOf(Programs[name], parts) /\ ListsTold(parts)
    PROVE  GatherSpec => []NoSilentLoss
<1> DEFINE Inv == \/ Unclaimed("NoSilentLoss")
                  \/ \E parts : /\ MadeOf(Programs[module], parts) /\ ListsTold(parts)
                                /\ TellsInv(parts)
<1>1. GatherInit => Inv
  <2> SUFFICES ASSUME GatherInit, ~Unclaimed("NoSilentLoss") PROVE Inv
    OBVIOUS
  <2>1. PICK parts : MadeOf(Programs[module], parts) /\ ListsTold(parts)
    BY DEF GatherInit, Unclaimed
  <2>2. faults = {} /\ errors = <<>>
    BY DEF GatherInit, WriterInit
  <2>3. Cardinality(ListsLost) <= Len(errors)
    <3>1. ListsLost = {}
      BY <2>2 DEF ListsLost
    <3>2. Len(errors) = 0
      BY <2>2
    <3> QED BY <3>1, <3>2, FS_EmptySet
  <2>4. TellsInv(parts)
    BY <2>1, <2>3, PartsStart DEF TellsInv
  <2> QED BY <2>1, <2>4
<1>2. GatherInv /\ GatherInv' /\ Inv /\ [GatherStep]_vars => Inv'
  <2> SUFFICES ASSUME GatherInv, GatherInv', Inv, [GatherStep]_vars PROVE Inv'
    OBVIOUS
  <2>1. module' = module
    BY NameStays
  <2>2. CASE Unclaimed("NoSilentLoss")
    BY <2>1, <2>2 DEF Unclaimed
  <2>3. ASSUME NEW parts, MadeOf(Programs[module], parts), ListsTold(parts), TellsInv(parts)
        PROVE  Inv'
    <3>1. TellsInv(parts)'
      BY <2>3, TellsStep
    <3> QED BY <2>1, <2>3, <3>1 DEF ListsTold, MadeOf
  <2> QED BY <2>2, <2>3
<1>3. Inv => NoSilentLoss
  BY DEF TellsInv, NoSilentLoss, ListsLost
<1> HIDE DEF Inv
<1> QED BY <1>1, <1>2, <1>3, InvAlways, PTL DEF GatherSpec

-----------------------------------------------------------------------------
(* Sections: a call that may raise is inside a try. *)
Caught(i) == \E j \in DOMAIN todo : /\ i < j /\ j < Len(todo)
                                    /\ todo[j].stmt.op \in {"except", "end"}

NamedMark(i) ==
    i < Len(todo) /\ todo[i].stmt.op \in {"except", "end"} => todo[i].stmt.what # "gather"

Harmless(f, open) == /\ f.stmt.op \notin Marks => f.stmt \in open
                     /\ f.stmt.op = "next" => f.stmt.body \in Seq(open)

Isolated(open) ==
    /\ \A i \in DOMAIN todo : NamedMark(i) /\ (Caught(i) \/ Harmless(todo[i], open))
    /\ \A i \in DOMAIN errors : ~ReachedEnd(errors[i])

LEMMA IsolatedStart ==
    ASSUME GatherInit, NEW open, RaisesInTry(Programs[module], open)
    PROVE  Isolated(open)
<1> DEFINE n == Len(Programs[module])
<1>1. n \in Nat /\ Len(todo) = n + 1 /\ DOMAIN todo = 1 .. n + 1 /\ todo[n + 1].stmt.op = "end"
  BY StartFrames
<1>2. ASSUME NEW k \in 1 .. n
      PROVE  todo[k].stmt \in open /\ todo[k].stmt.op \notin Marks
  <2>1. todo[k].stmt = Programs[module][k]
    <3>1. todo[k] = [stmt |-> Programs[module][k], item |-> Outside(k)]
      BY StartFrames
    <3> QED BY <3>1
  <2>2. Programs[module] \in Seq(open) /\ Programs[module] \in Seq(Statements)
    BY StartFrames DEF RaisesInTry
  <2>3. k \in DOMAIN Programs[module]
    BY <2>2
  <2> QED BY <2>1, <2>2, <2>3, BodyRange, ProgramAssumption DEF WellFormed
<1>3. \A i \in DOMAIN todo : i \in 1 .. n \/ (i = n + 1 /\ ~(i < Len(todo)))
  BY <1>1
<1>4. errors = <<>>
  BY DEF GatherInit, WriterInit
<1>5. \A i \in DOMAIN todo : NamedMark(i) /\ Harmless(todo[i], open)
  BY <1>1, <1>2, <1>3 DEF NamedMark, Harmless, Marks
<1> QED BY <1>4, <1>5 DEF Isolated

(* a frame of the body *)
LEMMA BodyFrame ==
    ASSUME NEW x, NEW d, Opens(x, d), NEW i \in DOMAIN stmt.body, stmt.body \in Seq(Statements)
    PROVE  InBody(todo'[i]) /\ todo'[i].item = x
<1>1. i \in 1 .. Len(stmt.body)
  OBVIOUS
<1>2. todo'[i] = [stmt |-> stmt.body[i], item |-> x]
  BY <1>1 DEF Opens
<1>3. todo'[i].stmt = stmt.body[i] /\ todo'[i].item = x
  BY <1>2
<1> QED BY <1>3 DEF InBody

(* Of the frames after one that opens, the first are those of its body and the mark. *)
LEMMA EnteredFirst ==
    ASSUME GatherInv, todo # <<>>, GatherInv', Enters
    PROVE  \E d \in {0, 1} : \E x :
               /\ Opens(x, d) /\ (d = 1 => Mark.stmt.op \in Marks)
               /\ \A i \in 1 .. Len(stmt.body) + d : Entered(todo'[i])
<1> DEFINE n == Len(stmt.body)
<1>1. stmt.body \in Seq(Statements) /\ n \in Nat /\ DOMAIN stmt.body = 1 .. n
  <2>1. stmt.body \in Seq(Statements) /\ n \in Nat
    BY OpenedFrames
  <2> QED BY <2>1
<1>2. /\ 0 \in {0, 1} /\ 1 \in {0, 1}
      /\ \A i \in 1 .. n + 0 : i \in 1 .. n
      /\ \A i \in 1 .. n + 1 : i \in 1 .. n \/ i = n + 1
  BY <1>1
<1>3. CASE EntersBody
  <2>1. /\ Opens(item, 0) /\ stmt.op \in {"if", "when", "add"}
        /\ stmt.op = "add" => RecordResource /\ Recorded(IntentSeen(item))
    BY <1>3 DEF EntersBody
  <2>2. \A i \in 1 .. n + 0 : InBody(todo'[i]) /\ todo'[i].item = item
    BY <1>1, <1>2, <2>1, BodyFrame
  <2>3. \A i \in 1 .. n + 0 : Entered(todo'[i])
    BY <2>1, <2>2 DEF Entered
  <2> QED BY <1>2, <2>1, <2>3
<1>4. CASE EntersTry
  <2>1. /\ Opens(item, 1) /\ stmt.op \in {"guard", "call"}
        /\ Mark.stmt.op \in {"except", "end"} /\ Mark.stmt.op \in Marks
        /\ Mark.stmt.what = stmt.what /\ Mark.item = item
    BY <1>4 DEF EntersTry, Marks
  <2>2. \A i \in 1 .. n : InBody(todo'[i]) /\ todo'[i].item = item
    BY <1>1, <2>1, BodyFrame
  <2>3. Entered(todo'[n + 1])
    BY <2>1 DEF Entered, Mark
  <2>4. \A i \in 1 .. n + 1 : Entered(todo'[i])
    BY <1>2, <2>1, <2>2, <2>3 DEF Entered
  <2> QED BY <1>2, <2>1, <2>4
<1>5. ASSUME NEW over, EntersLoop(over)
      PROVE  \E d \in {0, 1} : \E x :
                 /\ Opens(x, d) /\ (d = 1 => Mark.stmt.op \in Marks)
                 /\ \A i \in 1 .. n + d : Entered(todo'[i])
  <2>1. /\ Opens(Head(over), 1) /\ stmt.op \in {"each", "again", "next"}
        /\ Mark.stmt.op = "next" /\ Mark.stmt.op \in Marks
        /\ Mark.stmt.body = stmt.body /\ Mark.item = item
        /\ InLoop(Head(over)) /\ \A i \in DOMAIN Mark.stmt.rest : InLoop(Mark.stmt.rest[i])
    BY <1>5, LoopItems DEF Marks
  <2>2. \A i \in 1 .. n : InBody(todo'[i]) /\ InLoop(todo'[i].item)
    BY <1>1, <2>1, BodyFrame
  <2>3. Entered(todo'[n + 1])
    BY <2>1 DEF Entered, Mark
  <2>4. \A i \in 1 .. n + 1 : Entered(todo'[i])
    BY <1>2, <2>1, <2>2, <2>3 DEF Entered
  <2> QED BY <1>2, <2>1, <2>4
<1> QED BY <1>3, <1>4, <1>5 DEF Enters

Placed(i, x, d) ==
    /\ i \in Nat /\ Len(todo) \in Nat \ {0} /\ Len(todo') = Len(stmt.body) + d + Len(todo) - 1
    /\ DOMAIN todo = 1 .. Len(todo) /\ DOMAIN todo' = 1 .. Len(todo')
    /\ \/ i \in 1 .. Len(stmt.body) /\ todo'[i] = [stmt |-> stmt.body[i], item |-> x]
       \/ d = 1 /\ i = Len(stmt.body) + 1
       \/ \E j \in 2 .. Len(todo) : i = Len(stmt.body) + d + j - 1 /\ todo'[i] = todo[j]
    /\ \A j \in 2 .. Len(todo) : /\ Len(stmt.body) + d + j - 1 \in DOMAIN todo'
                                 /\ todo'[Len(stmt.body) + d + j - 1] = todo[j]

(* The frames after one that opens, and after control has left, in terms of before. *)
LEMMA OpenedAt ==
    ASSUME GatherInv, todo # <<>>, GatherInv', NEW x, NEW d \in {0, 1}, Opens(x, d),
           Len(stmt.body) \in Nat, NEW i \in DOMAIN todo'
    PROVE  Placed(i, x, d)
<1>1. Len(todo) \in Nat \ {0} /\ DOMAIN todo = 1 .. Len(todo)
  BY DEF GatherInv, TodoInv
<1>2. DOMAIN todo' = 1 .. Len(todo') /\ Len(todo') = Len(stmt.body) + d + Len(todo) - 1
  BY DEF Opens
<1>3. i \in 1 .. Len(stmt.body) + d + Len(todo) - 1
  BY <1>2
<1>4. i \in 1 .. Len(stmt.body) => todo'[i] = [stmt |-> stmt.body[i], item |-> x]
  BY DEF Opens
<1>5. ASSUME i > Len(stmt.body) + d
      PROVE  \E j \in 2 .. Len(todo) : i = Len(stmt.body) + d + j - 1 /\ todo'[i] = todo[j]
  <2> DEFINE n == Len(stmt.body)
             j == i - n - d + 1
  <2>1. n \in Nat /\ d \in Nat /\ i \in Nat /\ i =< n + d + Len(todo) - 1 /\ i > n + d
    BY <1>1, <1>3, <1>5
  <2> HIDE DEF n
  <2>2. j \in 2 .. Len(todo) /\ i = n + d + j - 1
    BY <1>1, <2>1
  <2>3. todo'[n + d + j - 1] = todo[j]
    BY <2>2 DEF Opens, n
  <2> HIDE DEF j
  <2>4. \E m \in 2 .. Len(todo) : i = n + d + m - 1 /\ todo'[i] = todo[m]
    BY <2>2, <2>3
  <2> QED BY <2>4 DEF n
<1>6. i \in 1 .. Len(stmt.body) \/ i > Len(stmt.body) + d \/ (d = 1 /\ i = Len(stmt.body) + 1)
  BY <1>1, <1>3
<1>7. ASSUME NEW j \in 2 .. Len(todo)
      PROVE  /\ Len(stmt.body) + d + j - 1 \in DOMAIN todo'
             /\ todo'[Len(stmt.body) + d + j - 1] = todo[j]
  <2>1. Len(stmt.body) + d + j - 1 \in 1 .. Len(stmt.body) + d + Len(todo) - 1
    BY <1>1
  <2> QED BY <1>2, <2>1 DEF Opens
<1>8. \/ i \in 1 .. Len(stmt.body) /\ todo'[i] = [stmt |-> stmt.body[i], item |-> x]
      \/ d = 1 /\ i = Len(stmt.body) + 1
      \/ \E j \in 2 .. Len(todo) : i = Len(stmt.body) + d + j - 1 /\ todo'[i] = todo[j]
  BY <1>4, <1>5, <1>6
<1>9. i \in Nat
  BY <1>2
<1> QED BY <1>1, <1>2, <1>7, <1>8, <1>9 DEF Placed

LEMMA LeftAt ==
    ASSUME GatherInv, todo # <<>>, GatherInv', NEW k, Leaves(k), NEW i \in DOMAIN todo'
    PROVE  /\ i \in Nat /\ Len(todo) \in Nat \ {0} /\ Len(todo') = Len(todo) - k + 1
           /\ DOMAIN todo = 1 .. Len(todo) /\ DOMAIN todo' = 1 .. Len(todo')
           /\ k \in 2 .. Len(todo) + 1
           /\ k + i - 1 \in 2 .. Len(todo) /\ todo'[i] = todo[k + i - 1]
           /\ \A j \in k .. Len(todo) : j - k + 1 \in DOMAIN todo' /\ todo'[j - k + 1] = todo[j]
<1>1. Len(todo) \in Nat \ {0} /\ DOMAIN todo = 1 .. Len(todo)
  BY DEF GatherInv, TodoInv
<1>2. DOMAIN todo' = 1 .. Len(todo')
  BY DEF GatherInv, TodoInv
<1>3. k \in 2 .. Len(todo) + 1 /\ Len(todo') = Len(todo) - k + 1
  BY DEF Leaves
<1>4. i \in 1 .. Len(todo) - k + 1 /\ todo'[i] = todo[k + i - 1]
  BY <1>2, <1>3 DEF Leaves
<1>5. k + i - 1 \in 2 .. Len(todo)
  BY <1>1, <1>3, <1>4
<1>6. ASSUME NEW j \in k .. Len(todo)
      PROVE  j - k + 1 \in DOMAIN todo' /\ todo'[j - k + 1] = todo[j]
  <2>1. j - k + 1 \in 1 .. Len(todo) - k + 1 /\ k + (j - k + 1) - 1 = j
    BY <1>1, <1>3
  <2> QED BY <1>2, <1>3, <2>1 DEF Leaves
<1> QED BY <1>1, <1>2, <1>3, <1>4, <1>5, <1>6

LEMMA IsolatedTodo ==
    ASSUME GatherInv, GatherStep, GatherInv', NEW open, RaisesInTry(Programs[module], open),
           Isolated(open), NEW i \in DOMAIN todo'
    PROVE  NamedMark(i)' /\ (Caught(i)' \/ Harmless(todo'[i], open))
<1>1. todo # <<>> /\ todo[1].stmt = stmt /\ todo[1].item = item
  BY Grows, HeadFirst DEF GatherInv
<1>2. ASSUME NEW k, Leaves(k)
      PROVE  NamedMark(i)' /\ (Caught(i)' \/ Harmless(todo'[i], open))
  <2>1. /\ i \in Nat /\ Len(todo) \in Nat \ {0} /\ Len(todo') = Len(todo) - k + 1
        /\ DOMAIN todo = 1 .. Len(todo) /\ DOMAIN todo' = 1 .. Len(todo')
        /\ k \in 2 .. Len(todo) + 1
        /\ k + i - 1 \in 2 .. Len(todo) /\ todo'[i] = todo[k + i - 1]
        /\ \A j \in k .. Len(todo) : j - k + 1 \in DOMAIN todo' /\ todo'[j - k + 1] = todo[j]
    BY <1>1, <1>2, LeftAt
  <2>2. k + i - 1 \in DOMAIN todo
    BY <2>1
  <2>3. NamedMark(k + i - 1) /\ (Caught(k + i - 1) \/ Harmless(todo[k + i - 1], open))
    BY <2>2 DEF Isolated
  <2>4. i < Len(todo') => k + i - 1 < Len(todo)
    BY <2>1
  <2>5. NamedMark(i)'
    BY <2>1, <2>3, <2>4 DEF NamedMark
  <2>6. ASSUME Caught(k + i - 1) PROVE Caught(i)'
    <3>1. PICK j \in DOMAIN todo : /\ k + i - 1 < j /\ j < Len(todo)
                                   /\ todo[j].stmt.op \in {"except", "end"}
      BY <2>6 DEF Caught
    <3>2. j \in k .. Len(todo) /\ i < j - k + 1 /\ j - k + 1 < Len(todo')
      BY <2>1, <3>1
    <3>3. j - k + 1 \in DOMAIN todo' /\ todo'[j - k + 1] = todo[j]
      BY <2>1, <3>2
    <3> QED BY <3>1, <3>2, <3>3 DEF Caught
  <2> QED BY <2>1, <2>3, <2>5, <2>6
<1>3. CASE Enters
  <2>1. /\ stmt.op \in Compound \cup {"next"} /\ stmt.body \in Seq(Statements)
        /\ Len(stmt.body) \in Nat
    BY <1>1, <1>3, OpenedFrames
  <2> DEFINE n == Len(stmt.body)
  <2>2. PICK d \in {0, 1} :
            \E x : Opens(x, d) /\ \A m \in 1 .. n + d : Entered(todo'[m])
    BY <1>1, <1>3, EnteredFirst
  <2>3. PICK x : Opens(x, d) /\ \A m \in 1 .. n + d : Entered(todo'[m])
    BY <2>2
  <2>4. /\ i \in Nat /\ Len(todo) \in Nat \ {0} /\ Len(todo') = n + d + Len(todo) - 1
        /\ DOMAIN todo = 1 .. Len(todo) /\ DOMAIN todo' = 1 .. Len(todo')
        /\ \/ i \in 1 .. n /\ todo'[i] = [stmt |-> stmt.body[i], item |-> x]
           \/ d = 1 /\ i = n + 1
           \/ \E j \in 2 .. Len(todo) : i = n + d + j - 1 /\ todo'[i] = todo[j]
        /\ \A j \in 2 .. Len(todo) : /\ n + d + j - 1 \in DOMAIN todo'
                                     /\ todo'[n + d + j - 1] = todo[j]
    <3>1. Opens(x, d) /\ d \in {0, 1}
      BY <2>3
    <3>2. Placed(i, x, d)
      BY <1>1, <2>1, <3>1, OpenedAt
    <3> QED BY <3>2 DEF Placed
  <2>5. Len(todo) > 1
    <3>1. todo[Len(todo)].stmt.op = "end"
      BY <1>1, HeadFirst DEF GatherInv
    <3>2. Len(todo) # 1
      BY <1>1, <2>1, <3>1 DEF Compound
    <3> QED BY <2>4, <3>2
  <2>6. CASE \E j \in 2 .. Len(todo) : i = n + d + j - 1 /\ todo'[i] = todo[j]
    <3>1. PICK j \in 2 .. Len(todo) : i = n + d + j - 1 /\ todo'[i] = todo[j]
      BY <2>6
    <3>2. j \in DOMAIN todo /\ (i < Len(todo') => j < Len(todo))
      BY <2>1, <2>4, <3>1
    <3>3. NamedMark(j) /\ (Caught(j) \/ Harmless(todo[j], open))
      BY <3>2 DEF Isolated
    <3>4. NamedMark(i)'
      BY <3>1, <3>2, <3>3 DEF NamedMark
    <3>5. ASSUME Caught(j) PROVE Caught(i)'
      <4>1. PICK m \in DOMAIN todo : /\ j < m /\ m < Len(todo)
                                     /\ todo[m].stmt.op \in {"except", "end"}
        BY <3>5 DEF Caught
      <4>2. m \in 2 .. Len(todo) /\ i < n + d + m - 1 /\ n + d + m - 1 < Len(todo')
        <5>1. n \in Nat /\ d \in Nat /\ m \in Nat /\ j \in Nat /\ j < m /\ m < Len(todo) /\ 2 =< j
          BY <2>1, <2>4, <3>1, <4>1
        <5> HIDE DEF n
        <5>2. Len(todo') = n + d + Len(todo) - 1 /\ i = n + d + j - 1
          BY <2>4, <3>1 DEF n
        <5> QED BY <2>4, <5>1, <5>2
      <4>3. n + d + m - 1 \in DOMAIN todo' /\ todo'[n + d + m - 1] = todo[m]
        BY <2>4, <4>2
      <4> QED BY <4>1, <4>2, <4>3 DEF Caught
    <3> QED BY <3>1, <3>3, <3>4, <3>5
  <2>7. CASE i \in 1 .. n + d /\ Entered(todo'[i])
    <3>1. ASSUME InBody(todo'[i])
          PROVE  todo'[i].stmt \in Statements /\ todo'[i].stmt.op \notin Marks
      <4>1. todo'[i].stmt \in Statements
        BY <2>1, <3>1, BodyRange DEF InBody
      <4> QED BY <4>1, ProgramAssumption DEF WellFormed
    <3>2. NamedMark(i)'
      <4>1. CASE InBody(todo'[i])
        BY <3>1, <4>1 DEF NamedMark, Marks
      <4>2. CASE todo'[i].stmt.op = "next"
        BY <4>2 DEF NamedMark
      <4>3. CASE stmt.op \in {"guard", "call"} /\ todo'[i].stmt.what = stmt.what
        <5>1. stmt \in Statements
          BY <1>1, <4>3, AtHand DEF GatherInv, Marks
        <5>2. stmt.what # "gather"
          BY <4>3, <5>1, ProgramAssumption DEF WellFormed
        <5> QED BY <4>3, <5>2 DEF NamedMark
      <4> QED BY <2>7, <4>1, <4>2, <4>3 DEF Entered
    <3>3. ASSUME Caught(1) PROVE Caught(i)'
      <4>1. PICK m \in DOMAIN todo : /\ 1 < m /\ m < Len(todo)
                                     /\ todo[m].stmt.op \in {"except", "end"}
        BY <3>3 DEF Caught
      <4>2. m \in 2 .. Len(todo) /\ i < n + d + m - 1 /\ n + d + m - 1 < Len(todo')
        <5>1. /\ n \in Nat /\ d \in Nat /\ m \in Nat /\ 1 < m /\ m < Len(todo)
              /\ i \in Nat /\ i =< n + d
          BY <2>1, <2>4, <2>7, <4>1
        <5> HIDE DEF n
        <5>2. Len(todo') = n + d + Len(todo) - 1
          BY <2>4 DEF n
        <5> QED BY <2>4, <5>1, <5>2
      <4>3. n + d + m - 1 \in DOMAIN todo' /\ todo'[n + d + m - 1] = todo[m]
        BY <2>4, <4>2
      <4> QED BY <4>1, <4>2, <4>3 DEF Caught
    <3>4. ASSUME Harmless(todo[1], open), stmt.op \notin {"guard", "call"}
          PROVE  Harmless(todo'[i], open)
      <4>1. stmt.body \in Seq(open)
        <5>1. stmt.op = "next" => stmt.body \in Seq(open)
          BY <1>1, <3>4 DEF Harmless
        <5>2. stmt.op # "next" => stmt \in open
          BY <1>1, <2>1, <3>4 DEF Harmless, Compound, Marks
        <5> QED BY <2>1, <3>4, <5>1, <5>2 DEF RaisesInTry
      <4>2. CASE InBody(todo'[i])
        <5>1. todo'[i].stmt \in open
          BY <4>1, <4>2, BodyRange DEF InBody
        <5> QED BY <3>1, <4>2, <5>1 DEF Harmless, Marks
      <4>3. CASE todo'[i].stmt.op = "next" /\ todo'[i].stmt.body = stmt.body
        BY <4>1, <4>3 DEF Harmless, Marks
      <4> QED BY <2>7, <3>4, <4>2, <4>3 DEF Entered
    <3>5. ASSUME stmt.op \in {"guard", "call"} PROVE Caught(i)' \/ Harmless(todo'[i], open)
      <4>1. EntersTry
        BY <1>3, <3>5 DEF Enters, EntersBody, EntersLoop
      <4>2. /\ Len(todo') = n + 1 + Len(todo) - 1
            /\ todo'[n + 1].stmt.op \in {"except", "end"}
        BY <4>1 DEF EntersTry, Opens, Mark
      <4>3. n + 1 \in DOMAIN todo' /\ n + 1 < Len(todo')
        BY <2>1, <2>4, <2>5, <4>2
      <4>4. i <= n + 1
        BY <2>1, <2>4, <2>7
      <4>5. i < n + 1 => Caught(i)'
        BY <4>2, <4>3 DEF Caught
      <4>6. i = n + 1 => Harmless(todo'[i], open)
        BY <4>2 DEF Harmless, Marks
      <4> QED BY <2>1, <2>4, <4>4, <4>5, <4>6
    <3>6. Caught(1) \/ Harmless(todo[1], open)
      BY <2>4 DEF Isolated
    <3> QED BY <3>2, <3>3, <3>4, <3>5, <3>6
  <2>8. i \in 1 .. n => i \in 1 .. n + d
    BY <2>1
  <2>9. d = 1 /\ i = n + 1 => i \in 1 .. n + d
    BY <2>1
  <2> QED BY <2>3, <2>4, <2>6, <2>7, <2>8, <2>9
<1> QED BY <1>2, <1>3, StepForm

LEMMA IsolatedErrors ==
    ASSUME GatherInv, GatherStep, NEW open, RaisesInTry(Programs[module], open),
           Isolated(open), NEW i \in DOMAIN errors'
    PROVE  ~ReachedEnd(errors'[i])
<1>1. \A j \in DOMAIN errors : ~ReachedEnd(errors[j])
  BY DEF Isolated
<1>2. ASSUME NEW s, Told(s), s.what # "gather"
      PROVE  ~ReachedEnd(errors'[i])
  <2>1. /\ \A j \in DOMAIN errors : j \in DOMAIN errors' /\ errors'[j] = errors[j]
        /\ errors'[Len(errors) + 1].source = s
        /\ i \in DOMAIN errors \/ i = Len(errors) + 1
    BY <1>2, ToldOne
  <2>2. Source("gather", 0).what = "gather"
    BY DEF Source
  <2> QED BY <1>1, <1>2, <2>1, <2>2 DEF ReachedEnd
<1>3. CASE Swallow \/ Drop \/ ReportAndGoOn \/ ReportAndSkip \/ ReportAndLeave \/ Unwind
  <2>1. /\ stmt \in Statements /\ stmt.op \in {"each", "fetch", "when"}
        /\ stmt.fail \in {"silent", "drop"} => errors' = errors
        /\ stmt.fail \in {"error", "skip", "return"} => Told(Source(stmt.what, item.n))
        /\ stmt.fail = "raise" => \E k : /\ FirstMark(k, {"except"})
                                         /\ Told(Source(todo[k].stmt.what, todo[k].item.n))
        /\ stmt.fail \in {"silent", "error", "skip", "drop", "return", "raise"}
    BY <1>3, FailForm
  <2>2. stmt.what # "gather"
    BY <2>1, ProgramAssumption DEF WellFormed
  <2>3. CASE stmt.fail \in {"silent", "drop"}
    BY <1>1, <2>1, <2>3
  <2>4. CASE stmt.fail \in {"error", "skip", "return"}
    <3>1. Source(stmt.what, item.n).what # "gather"
      BY <2>2 DEF Source
    <3> QED BY <1>2, <2>1, <2>4, <3>1
  <2>5. CASE stmt.fail = "raise"
    <3>1. PICK k : /\ FirstMark(k, {"except"})
                   /\ Told(Source(todo[k].stmt.what, todo[k].item.n))
      BY <2>1, <2>5
    <3>2. todo # <<>>
      BY Grows
    <3>3. /\ Len(todo) \in Nat \ {0} /\ DOMAIN todo = 1 .. Len(todo) /\ todo[1].stmt = stmt
      BY <3>2, HeadFirst DEF GatherInv
    <3>4. ~Harmless(todo[1], open)
      BY <2>1, <2>5, <3>3 DEF Harmless, RaisesInTry, Marks
    <3>5. PICK j \in DOMAIN todo : /\ 1 < j /\ j < Len(todo)
                                   /\ todo[j].stmt.op \in {"except", "end"}
      BY <3>3, <3>4 DEF Isolated, Caught
    <3>6. k \in 1 .. Len(todo) /\ k < Len(todo)
      <4>1. k \in 1 .. Len(todo) /\ ~(j \in 1 .. k - 1)
        BY <3>1, <3>3, <3>5 DEF FirstMark
      <4> QED BY <3>3, <3>5, <4>1
    <3>7. todo[k].stmt.op \in {"except", "end"} /\ NamedMark(k)
      BY <3>1, <3>3, <3>6 DEF FirstMark, Isolated
    <3>8. Source(todo[k].stmt.what, todo[k].item.n).what # "gather"
      BY <3>6, <3>7 DEF NamedMark, Source
    <3> QED BY <1>2, <3>1, <3>8
  <2> QED BY <2>1, <2>3, <2>4, <2>5
<1>4. CASE errors' = errors
  BY <1>1, <1>4
<1> QED BY <1>3, <1>4, FailuresForm

LEMMA IsolatedStep ==
    ASSUME GatherInv, [GatherStep]_vars, GatherInv', NEW open,
           RaisesInTry(Programs[module], open), Isolated(open)
    PROVE  Isolated(open)'
<1>1. CASE UNCHANGED vars
  BY <1>1 DEF vars, gatherVars, writerVars, Isolated, NamedMark, Caught
<1>2. CASE GatherStep
  <2>1. \A i \in DOMAIN todo' : NamedMark(i)' /\ (Caught(i)' \/ Harmless(todo'[i], open))
    BY <1>2, IsolatedTodo
  <2>2. \A i \in DOMAIN errors' : ~ReachedEnd(errors'[i])
    BY <1>2, IsolatedErrors
  <2> QED BY <2>1, <2>2 DEF Isolated, Harmless, ReachedEnd
<1> QED BY <1>1, <1>2

(* A gather function all of whose sections stand inside a try is not abandoned: no
   exception of a call reaches the handler in run(), whatever fails. *)
THEOREM SectionsApart ==
    ASSUME \A name \in Claims["SectionsIsolated"] \cap DOMAIN Programs :
               \E open : RaisesInTry(Programs[name], open)
    PROVE  GatherSpec => []SectionsIsolated
<1> DEFINE Inv == \/ Unclaimed("SectionsIsolated")
                  \/ \E open : RaisesInTry(Programs[module], open) /\ Isolated(open)
<1>1. GatherInit => Inv
  <2> SUFFICES ASSUME GatherInit, ~Unclaimed("SectionsIsolated") PROVE Inv
    OBVIOUS
  <2>1. PICK open : RaisesInTry(Programs[module], open)
    BY DEF Unclaimed, GatherInit
  <2> QED BY <2>1, IsolatedStart
<1>2. GatherInv /\ Inv /\ [GatherStep]_vars /\ GatherInv' => Inv'
  <2> SUFFICES ASSUME GatherInv, Inv, [GatherStep]_vars, GatherInv' PROVE Inv'
    OBVIOUS
  <2>1. module' = module
    BY NameStays
  <2>2. CASE Unclaimed("SectionsIsolated")
    BY <2>1, <2>2 DEF Unclaimed
  <2>3. CASE ~Unclaimed("SectionsIsolated")
    <3>1. PICK open : RaisesInTry(Programs[module], open) /\ Isolated(open)
      BY <2>3
    <3>2. Isolated(open)'
      BY <3>1, IsolatedStep
    <3> QED BY <2>1, <3>1, <3>2
  <2> QED BY <2>2, <2>3
<1>3. Inv => SectionsIsolated
  BY DEF Isolated, SectionsIsolated
<1> HIDE DEF Inv
<1> QED BY <1>1, <1>2, <1>3, InvAlways, PTL DEF GatherSpec

-----------------------------------------------------------------------------
(* Types: what is left to run is for items of the types it is written for. *)
TypedTodo(typed, heirs) ==
    \A i \in DOMAIN todo :
        /\ todo[i].stmt.op \notin Marks => <<todo[i].stmt, todo[i].item.type>> \in typed
        /\ todo[i].stmt.op = "next" =>
               \A k \in DOMAIN todo[i].stmt.rest :
                   Fitting(todo[i].stmt.body, todo[i].stmt.rest[k].type, typed, heirs)

LEMMA TypedStart ==
    ASSUME GatherInit, NEW typed, NEW heirs, Fits(Programs[module], typed, heirs)
    PROVE  TypedTodo(typed, heirs)
<1> SUFFICES ASSUME NEW i \in DOMAIN todo
             PROVE  /\ todo[i].stmt.op \notin Marks =>
                           <<todo[i].stmt, todo[i].item.type>> \in typed
                    /\ todo[i].stmt.op # "next"
  BY DEF TypedTodo
<1> DEFINE n == Len(Programs[module])
<1>1. n \in Nat /\ DOMAIN todo = 1 .. n + 1 /\ todo[n + 1].stmt.op = "end"
  BY StartFrames
<1>2. ASSUME NEW k \in 1 .. n
      PROVE  <<todo[k].stmt, todo[k].item.type>> \in typed /\ todo[k].stmt \in Statements
  <2>1. todo[k] = [stmt |-> Programs[module][k], item |-> Outside(k)]
    BY StartFrames
  <2>2. todo[k].stmt = Programs[module][k] /\ todo[k].item = Outside(k)
    BY <2>1
  <2>3. Programs[module] \in Seq(Statements) /\ k \in DOMAIN Programs[module]
    <3>1. Programs[module] \in Seq(Statements)
      BY StartFrames
    <3> QED BY <3>1
  <2>4. <<Programs[module][k], NotAResource>> \in typed
    BY <2>3 DEF Fits, Fitting
  <2>5. Outside(k).type = NotAResource
    BY DEF Outside
  <2> QED BY <2>2, <2>3, <2>4, <2>5, BodyRange
<1>3. i \in 1 .. n \/ i = n + 1
  BY <1>1
<1>4. \A s \in Statements : s.op # "next"
  BY ProgramAssumption DEF WellFormed, Marks
<1> QED BY <1>1, <1>2, <1>3, <1>4 DEF Marks

(* The body that a step opens is written for the item that it is opened for. *)
LEMMA FittingAtHand ==
    ASSUME GatherInv, todo # <<>>, NEW typed, NEW heirs, Fits(Programs[module], typed, heirs),
           TypedTodo(typed, heirs), stmt.op \in Compound \cup {"next"}
    PROVE  /\ stmt.op \in {"if", "when", "add", "guard", "call"} =>
                  Fitting(stmt.body, item.type, typed, heirs)
           /\ stmt.op \in {"each", "again", "next"} =>
                  \A x : InLoop(x) => Fitting(stmt.body, x.type, typed, heirs)
<1>1. todo[1].stmt = stmt /\ todo[1].item = item /\ 1 \in DOMAIN todo
  BY HeadFirst DEF GatherInv
<1>2. stmt.op # "next" => <<stmt, item.type>> \in typed
  BY <1>1 DEF TypedTodo, Compound, Marks
<1>3. stmt.op # "next" =>
          Fitting(stmt.body, IF stmt.op \in {"each", "again"} THEN stmt.what ELSE item.type,
                  typed, heirs)
  <2> SUFFICES ASSUME stmt.op # "next"
               PROVE  Fitting(stmt.body,
                              IF stmt.op \in {"each", "again"} THEN stmt.what ELSE item.type,
                              typed, heirs)
    OBVIOUS
  <2>1. PICK p \in typed : p = <<stmt, item.type>>
    BY <1>2
  <2>2. p[1] = stmt /\ p[2] = item.type
    BY <2>1
  <2> QED BY <2>2 DEF Fits
<1>4. stmt.op = "next" => \A k \in DOMAIN stmt.rest :
                              Fitting(stmt.body, stmt.rest[k].type, typed, heirs)
  BY <1>1 DEF TypedTodo
<1> QED BY <1>3, <1>4 DEF InLoop

LEMMA TypedStay ==
    ASSUME GatherInv, GatherStep, GatherInv', NEW typed, NEW heirs,
           Fits(Programs[module], typed, heirs), TypedTodo(typed, heirs)
    PROVE  TypedTodo(typed, heirs)'
<1> DEFINE S == {f \in Frame(listed') :
                    /\ f.stmt.op \notin Marks => <<f.stmt, f.item.type>> \in typed
                    /\ f.stmt.op = "next" => \A k \in DOMAIN f.stmt.rest :
                           Fitting(f.stmt.body, f.stmt.rest[k].type, typed, heirs)}
<1>1. todo # <<>> /\ Frame(listed) \subseteq Frame(listed')
  BY Grows, FramesGrow
<1>2. \A i \in DOMAIN todo : todo[i] \in S
  BY <1>1 DEF TypedTodo, GatherInv, TodoInv
<1>3. ASSUME NEW f \in Frame(listed'), Enters, Entered(f) PROVE f \in S
  <2>1. stmt.op \in Compound \cup {"next"} /\ stmt.body \in Seq(Statements)
    BY <1>1, <1>3, OpenedFrames
  <2>2. /\ stmt.op \in {"if", "when", "add", "guard", "call"} =>
               Fitting(stmt.body, item.type, typed, heirs)
        /\ stmt.op \in {"each", "again", "next"} =>
               \A x : InLoop(x) => Fitting(stmt.body, x.type, typed, heirs)
    BY <1>1, <2>1, FittingAtHand
  <2>3. CASE InBody(f)
    <3>1. f.stmt \in Statements
      BY <2>1, <2>3, BodyRange DEF InBody
    <3>2. f.stmt.op \notin Marks
      BY <3>1, ProgramAssumption DEF WellFormed
    <3>3. Fitting(stmt.body, f.item.type, typed, heirs)
      BY <1>3, <2>2, <3>2 DEF Entered, Marks
    <3>4. <<f.stmt, f.item.type>> \in typed
      BY <2>3, <3>3 DEF InBody, Fitting
    <3> QED BY <3>2, <3>4 DEF Marks
  <2>4. CASE /\ stmt.op \in {"each", "again", "next"} /\ f.stmt.op = "next"
             /\ f.stmt.body = stmt.body /\ \A i \in DOMAIN f.stmt.rest : InLoop(f.stmt.rest[i])
    BY <2>2, <2>4 DEF Marks
  <2>5. CASE f.stmt.op \in {"except", "end"}
    BY <2>5 DEF Marks
  <2> QED BY <1>3, <2>3, <2>4, <2>5 DEF Entered
<1> HIDE DEF S
<1>4. \A i \in DOMAIN todo' : todo'[i] \in S
  BY <1>2, <1>3, EveryFrame
<1> QED BY <1>4 DEF S, TypedTodo

-----------------------------------------------------------------------------
(* What a step lists. *)
Came(x) ==
    /\ x = NewItem(x.n, x.intent)
    /\ \/ x.n \notin Numbers(listed) \cup {0} /\ x.intent \in PossibleIntents
       \/ /\ stmt.form \in {"shared", "known"}
          /\ \E y \in ListedOf(stmt.what) : y.n = x.n /\ y.intent = x.intent
       \/ stmt.form = "single" /\ x.n = 0 /\ x.intent = NoIntent

LEMMA ListedGrows ==
    ASSUME GatherInv, GatherStep, GatherInv'
    PROVE  \/ listed' = listed
           \/ /\ stmt.op = "each" /\ stmt \in Statements /\ UNCHANGED writerVars
              /\ \A x \in listed' : x \in listed \/ Came(x)
<1>1. CASE ListResources \/ ListFirstPage \/ ListFromFirstPage
  <2>1. stmt.op = "each" /\ UNCHANGED writerVars
    BY <1>1, ListingForm
  <2>2. PICK items \in Listing : listed' = listed \cup {items[i] : i \in DOMAIN items}
    BY <1>1, ListingForm
  <2>3. Running("each")
    BY <1>1 DEF ListResources, ListFirstPage, ListFromFirstPage
  <2>4. stmt \in Statements
    BY <2>3, AtHand DEF GatherInv, Running, Marks
  <2>5. ASSUME NEW i \in DOMAIN items PROVE Came(items[i])
    <3>1. ASSUME items[i].n = Numbered + i, i \in Nat \ {0}
          PROVE  items[i].n \notin Numbers(listed) \cup {0}
      <4>1. Numbers(listed) = 1 .. Numbered /\ Numbered \in Nat
        BY EventsInRoom DEF GatherInv, ListedInv
      <4>2. Numbered + i \notin 1 .. Numbered /\ Numbered + i # 0
        BY <3>1, <4>1
      <4> QED BY <3>1, <4>1, <4>2
    <3> QED BY <2>3, <3>1, NewOnes DEF Came
  <2> QED BY <2>1, <2>2, <2>4, <2>5
<1>2. CASE UNCHANGED listed
  BY <1>2
<1> QED BY <1>1, <1>2
        DEF GatherStep, LoopAgain, Branch, NextItem, FetchDetail, FetchAndUse, EnterTry,
            LeaveTry, Swallow, Drop, ReportAndGoOn, ReportAndSkip, ReportAndLeave, Unwind,
            CallFails, RecordResource, DeriveEdge, NoEdge

(* A number is that of one resource, whose type does not change. *)
SameType == \A x, y \in listed : x.n = y.n /\ x.n # 0 => x.type = y.type

LEMMA SameTypeStays ==
    ASSUME GatherInv, GatherStep, GatherInv', SameType
    PROVE  SameType'
<1>1. CASE listed' = listed
  BY <1>1 DEF SameType
<1>2. CASE \A x \in listed' : x \in listed \/ Came(x)
  <2> SUFFICES ASSUME NEW x \in listed', NEW y \in listed', x.n = y.n, x.n # 0
               PROVE  x.type = y.type
    BY DEF SameType
  <2>1. ASSUME NEW z \in listed', z.n # 0, Came(z)
        PROVE  /\ z.type = stmt.what
               /\ \A w \in listed : w.n = z.n => w.type = stmt.what
    <3>1. z.type = stmt.what
      BY <2>1 DEF Came, NewItem
    <3>2. ASSUME z.n \notin Numbers(listed), NEW w \in listed, w.n = z.n PROVE FALSE
      BY <2>1, <3>2 DEF Numbers
    <3>3. ASSUME NEW v \in ListedOf(stmt.what), v.n = z.n, NEW w \in listed, w.n = z.n
          PROVE  w.type = stmt.what
      BY <2>1, <3>3 DEF SameType, ListedOf
    <3> QED BY <2>1, <3>1, <3>2, <3>3 DEF Came
  <2> QED BY <1>2, <2>1 DEF SameType
<1> QED BY <1>1, <1>2, ListedGrows

-----------------------------------------------------------------------------
(* The ways in which some of what is left is left out: the statement at hand is done
   with, or its call failed and control left for a mark. *)
Jumps(k) ==
    /\ stmt \in Statements /\ stmt.op \in {"each", "fetch", "when"}
    /\ k \in DOMAIN todo /\ todo[k].stmt.op \in Marks /\ (Leaves(k) \/ Leaves(k + 1))

Passes == /\ Leaves(2)
          /\ stmt.op = "add" => ~Recorded(IntentSeen(item))

LEMMA StepWays ==
    ASSUME GatherInv, GatherStep, GatherInv'
    PROVE  Enters \/ Passes \/ \E k : Jumps(k)
<1>1. CASE ListResources \/ ListFirstPage \/ ListFromFirstPage
  BY <1>1, ListingForm DEF Enters, Passes
<1>2. CASE LoopAgain
  BY <1>2, AgainForm DEF Enters, Passes
<1>3. CASE NextItem
  BY <1>3, NextForm DEF Enters, Passes
<1>4. CASE Branch \/ FetchAndUse \/ RecordResource
  BY <1>4, BodyForm DEF Enters, Passes
<1>5. CASE EnterTry
  BY <1>5, TryForm DEF Enters
<1>6. CASE FetchDetail \/ LeaveTry \/ NoEdge \/ DeriveEdge
  <2>1. stmt.op # "add"
    BY <1>6 DEF FetchDetail, LeaveTry, NoEdge, DeriveEdge, Running
  <2> QED BY <1>6, <2>1, QuietForm DEF Passes
<1>7. CASE Swallow \/ Drop \/ ReportAndGoOn \/ ReportAndSkip \/ ReportAndLeave \/ Unwind
  <2>1. /\ stmt \in Statements /\ stmt.op \in {"each", "fetch", "when"}
        /\ \/ Leaves(2)
           \/ \E k : Leaves(k) /\ FirstMark(k, {"next"})
           \/ \E k : Leaves(k) /\ FirstMark(k, {})
           \/ \E k : Leaves(k + 1) /\ FirstMark(k, {"except"})
    BY <1>7, FailForm
  <2>2. \A k, ops : ops \in SUBSET Marks /\ FirstMark(k, ops) =>
            k \in DOMAIN todo /\ todo[k].stmt.op \in Marks
    BY DEF FirstMark, Marks
  <2>3. {"next"} \in SUBSET Marks /\ {} \in SUBSET Marks /\ {"except"} \in SUBSET Marks
    BY DEF Marks
  <2> QED BY <2>1, <2>2, <2>3 DEF Passes, Jumps
<1> QED BY <1>1, <1>2, <1>3, <1>4, <1>5, <1>6, <1>7 DEF GatherStep

(* Two frames between which there is no mark stay so, or the second is gone, when the
   first is not at the head. *)
Together(j, i) == /\ j \in DOMAIN todo /\ i \in DOMAIN todo /\ j < i
                  /\ \A m \in DOMAIN todo : j <= m /\ m <= i => todo[m].stmt.op \notin Marks

LEMMA TogetherLeft ==
    ASSUME GatherInv, todo # <<>>, GatherInv', Passes \/ \E k : Jumps(k), NEW i \in DOMAIN todo'
    PROVE  \E m \in 2 .. Len(todo) :
               /\ todo'[i] = todo[m]
               /\ \A j : Together(j, m) => j = 1 \/ \E h : todo'[h] = todo[j] /\ Together(h, i)'
<1> DEFINE n == Len(todo)
<1>1. ASSUME NEW k, Leaves(k),
             k = 2 \/ \E q \in DOMAIN todo : todo[q].stmt.op \in Marks /\ (k = q \/ k = q + 1)
      PROVE  \E m \in 2 .. n :
               /\ todo'[i] = todo[m]
               /\ \A j : Together(j, m) => j = 1 \/ \E h : todo'[h] = todo[j] /\ Together(h, i)'
  <2>1. /\ i \in Nat /\ n \in Nat \ {0} /\ Len(todo') = n - k + 1
        /\ DOMAIN todo = 1 .. n /\ DOMAIN todo' = 1 .. Len(todo')
        /\ k \in 2 .. n + 1
        /\ k + i - 1 \in 2 .. n /\ todo'[i] = todo[k + i - 1]
        /\ \A j \in k .. n : j - k + 1 \in DOMAIN todo' /\ todo'[j - k + 1] = todo[j]
    BY <1>1, LeftAt
  <2> HIDE DEF n
  <2>2. ASSUME NEW j, Together(j, k + i - 1), j # 1
        PROVE  \E h : todo'[h] = todo[j] /\ Together(h, i)'
    <3>1. j \in 1 .. n /\ j < k + i - 1
      BY <2>1, <2>2 DEF Together
    <3>2. j >= k
      <4>1. CASE k = 2
        BY <2>1, <2>2, <3>1, <4>1
      <4>2. ASSUME NEW q \in DOMAIN todo, todo[q].stmt.op \in Marks, k = q \/ k = q + 1, j < k
            PROVE  FALSE
        <5>1. q \in 1 .. n /\ j <= q /\ q <= k + i - 1
          <6>1. q \in 1 .. n /\ i >= 1 /\ i \in Nat /\ j \in Nat
            BY <2>1, <3>1, <4>2
          <6>2. DOMAIN todo' = 1 .. Len(todo') /\ i \in 1 .. Len(todo')
            BY <2>1
          <6> QED BY <2>1, <4>2, <6>1, <6>2
        <5> QED BY <2>1, <2>2, <4>2, <5>1 DEF Together
      <4> QED BY <1>1, <2>1, <3>1, <4>1, <4>2
    <3>3. j \in k .. n /\ j - k + 1 \in DOMAIN todo' /\ todo'[j - k + 1] = todo[j]
      BY <2>1, <3>1, <3>2
    <3>4. j - k + 1 < i
      BY <2>1, <3>1, <3>2
    <3>5. ASSUME NEW m \in DOMAIN todo', j - k + 1 <= m, m <= i
          PROVE  todo'[m].stmt.op \notin Marks
      <4>1. m \in 1 .. Len(todo') /\ todo'[m] = todo[k + m - 1] /\ k + m - 1 \in DOMAIN todo
        <5>1. todo'[m] = todo[k + m - 1] /\ k + m - 1 \in 2 .. Len(todo)
          BY <1>1, LeftAt
        <5> QED BY <2>1, <5>1 DEF n
      <4>2. j <= k + m - 1 /\ k + m - 1 <= k + i - 1
        <5>1. m \in Nat /\ k \in Int /\ i \in Nat /\ j \in Nat
          BY <2>1, <3>1, <4>1
        <5> QED BY <3>5, <5>1
      <4> QED BY <2>2, <4>1, <4>2 DEF Together
    <3> QED BY <3>3, <3>4, <3>5 DEF Together
  <2> QED BY <2>1, <2>2
<1>2. CASE Passes
  <2>1. Leaves(2)
    BY <1>2 DEF Passes
  <2> QED BY <1>1, <2>1
<1>3. ASSUME NEW k, Jumps(k)
      PROVE \E m \in 2 .. n :
               /\ todo'[i] = todo[m]
               /\ \A j : Together(j, m) => j = 1 \/ \E h : todo'[h] = todo[j] /\ Together(h, i)'
  <2>1. k \in DOMAIN todo /\ todo[k].stmt.op \in Marks /\ (Leaves(k) \/ Leaves(k + 1))
    BY <1>3 DEF Jumps
  <2>2. CASE Leaves(k)
    BY <1>1, <2>1, <2>2
  <2>3. CASE Leaves(k + 1)
    BY <1>1, <2>1, <2>3
  <2> QED BY <2>1, <2>2, <2>3
<1> QED BY <1>2, <1>3

LEMMA TogetherOpened ==
    ASSUME GatherInv, todo # <<>>, GatherInv', NEW x, NEW d \in {0, 1}, Opens(x, d),
           stmt.body \in Seq(Statements), NEW i \in DOMAIN todo'
    PROVE  \/ /\ i \in DOMAIN stmt.body /\ todo'[i] = [stmt |-> stmt.body[i], item |-> x]
              /\ \A j \in DOMAIN stmt.body : j < i =>
                     /\ Together(j, i)'
                     /\ todo'[j] = [stmt |-> stmt.body[j], item |-> x]
           \/ d = 1 /\ i = Len(stmt.body) + 1
           \/ \E m \in 2 .. Len(todo) :
                 /\ todo'[i] = todo[m]
                 /\ \A j : Together(j, m) =>
                        j = 1 \/ \E h : todo'[h] = todo[j] /\ Together(h, i)'
<1> DEFINE n == Len(stmt.body)
           l == Len(todo)
<1>1. n \in Nat /\ DOMAIN stmt.body = 1 .. n
  OBVIOUS
<1>2. /\ i \in Nat /\ l \in Nat \ {0} /\ Len(todo') = n + d + l - 1
      /\ DOMAIN todo = 1 .. l /\ DOMAIN todo' = 1 .. Len(todo')
      /\ \/ i \in 1 .. n /\ todo'[i] = [stmt |-> stmt.body[i], item |-> x]
         \/ d = 1 /\ i = n + 1
         \/ \E j \in 2 .. l : i = n + d + j - 1 /\ todo'[i] = todo[j]
      /\ \A j \in 2 .. l : /\ n + d + j - 1 \in DOMAIN todo'
                           /\ todo'[n + d + j - 1] = todo[j]
  BY <1>1, OpenedAt DEF Placed
<1>3. \A m \in 1 .. n : /\ todo'[m] = [stmt |-> stmt.body[m], item |-> x]
                        /\ todo'[m].stmt.op \notin Marks /\ m \in DOMAIN todo'
  <2> SUFFICES ASSUME NEW m \in 1 .. n
               PROVE  /\ todo'[m] = [stmt |-> stmt.body[m], item |-> x]
                      /\ todo'[m].stmt.op \notin Marks /\ m \in DOMAIN todo'
    OBVIOUS
  <2>1. todo'[m] = [stmt |-> stmt.body[m], item |-> x]
    BY DEF Opens
  <2>2. todo'[m].stmt = stmt.body[m] /\ stmt.body[m] \in Statements
    BY <2>1, BodyRange
  <2>3. todo'[m].stmt.op \notin Marks
    BY <2>2, ProgramAssumption DEF WellFormed
  <2>4. m \in DOMAIN todo'
    <3> HIDE DEF n, l
    <3> QED BY <1>1, <1>2
  <2> QED BY <2>1, <2>3, <2>4
<1> HIDE DEF n, l
<1>4. CASE i \in 1 .. n /\ todo'[i] = [stmt |-> stmt.body[i], item |-> x]
  <2>1. ASSUME NEW j \in DOMAIN stmt.body, j < i
        PROVE  Together(j, i)' /\ todo'[j] = [stmt |-> stmt.body[j], item |-> x]
    <3>1. \A m \in DOMAIN todo' : m <= i => todo'[m].stmt.op \notin Marks
      <4> SUFFICES ASSUME NEW m \in DOMAIN todo', m <= i PROVE todo'[m].stmt.op \notin Marks
        OBVIOUS
      <4>1. m \in 1 .. n
        BY <1>1, <1>2, <1>4
      <4> QED BY <1>3, <4>1
    <3>2. j \in DOMAIN todo' /\ i \in DOMAIN todo'
      BY <1>1, <1>3
    <3> QED BY <1>1, <1>3, <2>1, <3>1, <3>2 DEF Together
  <2> QED BY <1>1, <1>4, <2>1
<1>5. ASSUME NEW m \in 2 .. l, i = n + d + m - 1, todo'[i] = todo[m]
      PROVE  \A j : Together(j, m) => j = 1 \/ \E h : todo'[h] = todo[j] /\ Together(h, i)'
  <2> SUFFICES ASSUME NEW j, Together(j, m), j # 1
               PROVE  \E h : todo'[h] = todo[j] /\ Together(h, i)'
    OBVIOUS
  <2>1. j \in 2 .. l /\ j < m
    BY <1>2 DEF Together
  <2>2. n + d + j - 1 \in DOMAIN todo' /\ todo'[n + d + j - 1] = todo[j] /\ n + d + j - 1 < i
    BY <1>1, <1>2, <1>5, <2>1
  <2>3. ASSUME NEW q \in DOMAIN todo', n + d + j - 1 <= q, q <= i
        PROVE  todo'[q].stmt.op \notin Marks
    <3>4. /\ n \in Nat /\ d \in Nat /\ l \in Nat /\ j \in Nat /\ m \in Nat /\ q \in Nat
          /\ 2 =< j /\ m =< l /\ n + d + j - 1 =< q /\ q =< n + d + m - 1
      BY <1>1, <1>2, <1>5, <2>1, <2>3
    <3>1. q - n - d + 1 \in 2 .. l /\ j <= q - n - d + 1 /\ q - n - d + 1 <= m
      BY <3>4
    <3>2. q = n + d + (q - n - d + 1) - 1
      BY <3>4
    <3>3. todo'[q] = todo[q - n - d + 1]
      BY <1>2, <3>1, <3>2
    <3> QED BY <1>2, <3>1, <3>3 DEF Together
  <2> QED BY <2>2, <2>3 DEF Together
<1> QED BY <1>2, <1>4, <1>5 DEF n, l

-----------------------------------------------------------------------------
(* Heirs: when the items that have the tags of another are listed, that one was handed
   to the writer. *)
Decided(x) == x.intent.full \/ IsRecorded(EndOf(x))

HeirReady(i, heirs) ==
    todo[i].stmt.op = "each" /\ <<todo[i].stmt.what, todo[i].item.type>> \in heirs =>
        \/ Decided(todo[i].item)
        \/ \E j : Together(j, i) /\ todo[j].stmt.op = "add" /\ todo[j].item = todo[i].item

HeirsReady(heirs) == \A i \in DOMAIN todo : HeirReady(i, heirs)

LEMMA DecidedStays ==
    ASSUME GatherInv, GatherStep, NEW x, Decided(x)
    PROVE  Decided(x)'
<1>1. IsRecorded(EndOf(x)) => IsRecorded(EndOf(x))'
  BY RecordedStays
<1> QED BY <1>1 DEF Decided

LEMMA HandedOver ==
    ASSUME GatherInv, GatherStep, GatherInv', stmt.op = "add", NEW x, x = item
    PROVE  Decided(x)'
<1>1. CASE Passes
  <2>1. x.intent.full
    BY <1>1 DEF Passes, Recorded, IntentSeen, NoIntent
  <2> QED BY <2>1 DEF Decided
<1>2. CASE Enters
  <2>1. RecordResource /\ Recorded(IntentSeen(item))
    BY <1>2 DEF Enters, EntersBody, EntersTry, EntersLoop
  <2> QED BY <2>1, JustRecorded DEF Decided
<1> QED BY <1>1, <1>2, StepWays DEF Jumps

LEMMA HeirsStart ==
    ASSUME GatherInit, NEW heirs, \A h \in heirs : h[2] # NotAResource
    PROVE  HeirsReady(heirs)
<1> SUFFICES ASSUME NEW i \in DOMAIN todo, todo[i].stmt.op = "each",
                    <<todo[i].stmt.what, todo[i].item.type>> \in heirs
             PROVE  FALSE
  BY DEF HeirsReady, HeirReady
<1> DEFINE n == Len(Programs[module])
<1>1. n \in Nat /\ DOMAIN todo = 1 .. n + 1 /\ todo[n + 1].stmt.op = "end"
  BY StartFrames
<1>2. i \in 1 .. n
  BY <1>1
<1>3. todo[i] = [stmt |-> Programs[module][i], item |-> Outside(i)]
  BY <1>2, StartFrames
<1>4. todo[i].item.type = NotAResource
  BY <1>3 DEF Outside
<1>5. PICK h \in heirs : h = <<todo[i].stmt.what, todo[i].item.type>>
  OBVIOUS
<1> QED BY <1>4, <1>5

LEMMA HeirsReadyStay ==
    ASSUME GatherInv, GatherStep, GatherInv', NEW typed, NEW heirs,
           Fits(Programs[module], typed, heirs), TypedTodo(typed, heirs), HeirsReady(heirs)
    PROVE  HeirsReady(heirs)'
<1> SUFFICES ASSUME NEW i \in DOMAIN todo', todo'[i].stmt.op = "each",
                    <<todo'[i].stmt.what, todo'[i].item.type>> \in heirs
             PROVE  \E x : /\ x = todo'[i].item
                           /\ \/ Decided(x)'
                              \/ \E j : Together(j, i)' /\ todo'[j].stmt.op = "add"
                                        /\ todo'[j].item = x
  BY DEF HeirsReady, HeirReady, Decided, EndOf, IsRecorded
<1>1. todo # <<>> /\ todo[1].stmt = stmt /\ todo[1].item = item /\ DOMAIN todo = 1 .. Len(todo)
  BY Grows, HeadFirst DEF GatherInv
<1>2. PICK x : x = todo'[i].item
  OBVIOUS
<1>3. ASSUME NEW m \in 2 .. Len(todo), todo'[i] = todo[m],
             \A j : Together(j, m) => j = 1 \/ \E h : todo'[h] = todo[j] /\ Together(h, i)'
      PROVE  \/ Decided(x)'
             \/ \E j : Together(j, i)' /\ todo'[j].stmt.op = "add" /\ todo'[j].item = x
  <2>1. m \in DOMAIN todo /\ x = todo[m].item
    BY <1>1, <1>2, <1>3
  <2>2. \/ Decided(todo[m].item)
        \/ \E j : Together(j, m) /\ todo[j].stmt.op = "add" /\ todo[j].item = todo[m].item
    BY <1>3, <2>1 DEF HeirsReady, HeirReady
  <2>3. CASE Decided(todo[m].item)
    <3>1. Decided(x)
      BY <2>1, <2>3
    <3> QED BY <3>1, DecidedStays
  <2>4. ASSUME NEW j, Together(j, m), todo[j].stmt.op = "add", todo[j].item = todo[m].item
        PROVE  \/ Decided(x)'
               \/ \E h : Together(h, i)' /\ todo'[h].stmt.op = "add" /\ todo'[h].item = x
    <3>1. CASE j = 1
      <4>1. stmt.op = "add" /\ x = item
        BY <1>1, <2>1, <2>4, <3>1
      <4> QED BY <4>1, HandedOver
    <3>2. ASSUME NEW h, todo'[h] = todo[j], Together(h, i)'
          PROVE  Together(h, i)' /\ todo'[h].stmt.op = "add" /\ todo'[h].item = x
      BY <2>1, <2>4, <3>2
    <3> QED BY <1>3, <2>4, <3>1, <3>2
  <2> QED BY <2>2, <2>3, <2>4
<1>4. CASE Passes \/ \E k : Jumps(k)
  <2>1. PICK m \in 2 .. Len(todo) :
            /\ todo'[i] = todo[m]
            /\ \A j : Together(j, m) => j = 1 \/ \E h : todo'[h] = todo[j] /\ Together(h, i)'
    BY <1>1, <1>4, TogetherLeft
  <2> QED BY <1>2, <1>3, <2>1
<1>5. CASE Enters
  <2>1. /\ stmt.op \in Compound \cup {"next"} /\ stmt.body \in Seq(Statements)
        /\ Len(stmt.body) \in Nat /\ DOMAIN stmt.body = 1 .. Len(stmt.body)
    <3>1. stmt.op \in Compound \cup {"next"} /\ stmt.body \in Seq(Statements)
      BY <1>1, <1>5, OpenedFrames
    <3> QED BY <3>1
  <2>2. PICK d \in {0, 1} : \E y :
            /\ Opens(y, d) /\ (d = 1 => Mark.stmt.op \in Marks)
            /\ \A m \in 1 .. Len(stmt.body) + d : Entered(todo'[m])
    BY <1>1, <1>5, EnteredFirst
  <2>3. PICK y : /\ Opens(y, d) /\ (d = 1 => Mark.stmt.op \in Marks)
                 /\ \A m \in 1 .. Len(stmt.body) + d : Entered(todo'[m])
    BY <2>2
  <2>4. CASE /\ i \in DOMAIN stmt.body /\ todo'[i] = [stmt |-> stmt.body[i], item |-> y]
             /\ \A j \in DOMAIN stmt.body : j < i =>
                    Together(j, i)' /\ todo'[j] = [stmt |-> stmt.body[j], item |-> y]
    <3>1. todo'[i].stmt = stmt.body[i] /\ todo'[i].item = y /\ x = y
      BY <1>2, <2>4
    <3>2. Entered(todo'[i])
      <4>1. i \in 1 .. Len(stmt.body) + d
        BY <2>1, <2>4
      <4> QED BY <2>3, <4>1
    <3>3. Fitting(stmt.body, y.type, typed, heirs)
      BY <1>1, <2>1, <3>1, <3>2, FittingAtHand DEF Entered
    <3>4. PICK j \in DOMAIN stmt.body : j < i /\ stmt.body[j].op = "add"
      BY <2>4, <3>1, <3>3 DEF Fitting
    <3>5. Together(j, i)' /\ todo'[j] = [stmt |-> stmt.body[j], item |-> y]
      BY <2>4, <3>4
    <3>6. todo'[j].stmt = stmt.body[j] /\ todo'[j].item = y
      BY <3>5
    <3> QED BY <1>2, <3>1, <3>4, <3>5, <3>6
  <2>5. CASE d = 1 /\ i = Len(stmt.body) + 1
    BY <2>3, <2>5 DEF Mark, Marks
  <2>6. CASE \E m \in 2 .. Len(todo) :
                 /\ todo'[i] = todo[m]
                 /\ \A j : Together(j, m) =>
                        j = 1 \/ \E h : todo'[h] = todo[j] /\ Together(h, i)'
    BY <1>2, <1>3, <2>6
  <2> QED BY <1>1, <2>1, <2>3, <2>4, <2>5, <2>6, TogetherOpened
<1> QED BY <1>4, <1>5, StepWays

(* Whose loop a resource was listed in. *)
ParentOf(x, typed, heirs) ==
    \E y \in Items(listed) :
        /\ y.n = x.parent /\ <<x.type, y.type>> \in Nests(typed)
        /\ <<x.type, y.type>> \in heirs => x.intent.full \/ IsRecorded(EndOf(y))

Kin(typed, heirs) ==
    \A x \in listed : ParentOf(x, typed, heirs) /\ (x.n = 0 => x.type \in Singles(typed))

LEMMA KinStay ==
    ASSUME GatherInv, GatherStep, GatherInv', NEW typed, NEW heirs,
           Inherits(typed, heirs), TypedTodo(typed, heirs), HeirsReady(heirs),
           Kin(typed, heirs)
    PROVE  Kin(typed, heirs)'
<1>1. /\ todo # <<>> /\ todo[1].stmt = stmt /\ todo[1].item = item /\ 1 \in DOMAIN todo
      /\ DOMAIN todo \subseteq Nat \ {0} /\ listed \subseteq listed'
  BY Grows, HeadFirst DEF GatherInv
<1>2. ASSUME NEW x \in listed
      PROVE  ParentOf(x, typed, heirs)' /\ (x.n = 0 => x.type \in Singles(typed))
  <2>1. PICK y \in Items(listed) :
            /\ y.n = x.parent /\ <<x.type, y.type>> \in Nests(typed)
            /\ <<x.type, y.type>> \in heirs => x.intent.full \/ IsRecorded(EndOf(y))
    BY DEF Kin, ParentOf
  <2>2. IsRecorded(EndOf(y)) => IsRecorded(EndOf(y))'
    BY RecordedStays
  <2>3. y \in Items(listed')
    BY <1>1 DEF Items
  <2> QED BY <2>1, <2>2, <2>3 DEF Kin, ParentOf
<1>3. ASSUME NEW x \in listed', stmt.op = "each", stmt \in Statements, Came(x)
      PROVE  ParentOf(x, typed, heirs)' /\ (x.n = 0 => x.type \in Singles(typed))
  <2>1. x.type = stmt.what /\ x.parent = item.n
    BY <1>3 DEF Came, NewItem
  <2>2. PICK p \in typed : p = <<stmt, item.type>>
    BY <1>1, <1>3 DEF TypedTodo, Marks
  <2>3. p[1] = stmt /\ p[2] = item.type
    BY <2>2
  <2>4. <<x.type, item.type>> \in Nests(typed)
    BY <1>3, <2>1, <2>3 DEF Nests
  <2>5. PICK y : y = item
    OBVIOUS
  <2>6. y \in Items(listed')
    <3>1. item \in Items(listed)
      BY <1>1, AtHand DEF GatherInv
    <3> QED BY <1>1, <2>5, <3>1 DEF Items
  <2>7. ASSUME <<x.type, y.type>> \in heirs PROVE x.intent.full \/ IsRecorded(EndOf(y))'
    <3>1. stmt.tags = "parent" /\ stmt.form = "fresh"
      BY <1>3, <2>1, <2>3, <2>5, <2>7 DEF Inherits
    <3>2. x.intent = item.intent
      BY <1>3, <3>1 DEF Came, PossibleIntents
    <3>3. Decided(item)
      BY <1>1, <1>3, <2>1, <2>5, <2>7 DEF HeirsReady, HeirReady, Together
    <3>4. IsRecorded(EndOf(item)) => IsRecorded(EndOf(y))'
      <4>1. IsRecorded(EndOf(y)) => IsRecorded(EndOf(y))'
        BY RecordedStays
      <4> QED BY <2>5, <4>1
    <3> QED BY <3>2, <3>3, <3>4 DEF Decided
  <2>8. ParentOf(x, typed, heirs)'
    BY <2>1, <2>4, <2>5, <2>6, <2>7 DEF ParentOf
  <2>9. ASSUME x.n = 0 PROVE x.type \in Singles(typed)
    <3>1. CASE stmt.form = "single"
      BY <1>3, <2>1, <2>3, <3>1 DEF Singles
    <3>2. ASSUME NEW z \in ListedOf(stmt.what), z.n = x.n PROVE x.type \in Singles(typed)
      BY <2>1, <2>9, <3>2 DEF ListedOf, Kin
    <3> QED BY <1>3, <2>9, <3>1, <3>2 DEF Came
  <2> QED BY <2>8, <2>9
<1>4. \A x \in listed' : x \in listed \/ (stmt.op = "each" /\ stmt \in Statements /\ Came(x))
  BY ListedGrows
<1> QED BY <1>2, <1>3, <1>4 DEF Kin

NoTagsLost(heirs) == heirs # {} => \A f \in faults : f.what # "tags"

LEMMA NoTagsStay ==
    ASSUME GatherInv, GatherStep, NEW typed, NEW heirs,
           Inherits(typed, heirs), TypedTodo(typed, heirs), NoTagsLost(heirs)
    PROVE  NoTagsLost(heirs)'
<1> SUFFICES ASSUME heirs # {}, NEW f \in faults', f.what = "tags" PROVE FALSE
  BY DEF NoTagsLost
<1>1. todo # <<>> /\ todo[1].stmt = stmt /\ todo[1].item = item /\ 1 \in DOMAIN todo
  BY Grows, HeadFirst DEF GatherInv
<1>2. \A fail : Failure(fail).what = stmt.what
  BY DEF Failure
<1>3. stmt.op \in {"each", "fetch", "when"} => stmt.what # "tags"
  <2> SUFFICES ASSUME stmt.op \in {"each", "fetch", "when"} PROVE stmt.what # "tags"
    OBVIOUS
  <2>1. PICK p \in typed : p = <<stmt, item.type>>
    BY <1>1 DEF TypedTodo, Marks
  <2>2. p[1] = stmt
    BY <2>1
  <2> QED BY <2>2 DEF Inherits
<1>4. CASE Swallow \/ Drop \/ ReportAndGoOn \/ ReportAndSkip \/ ReportAndLeave \/ Unwind
  BY <1>2, <1>3, <1>4, FailForm DEF NoTagsLost
<1> QED BY <1>2, <1>3, <1>4, FailuresForm DEF NoTagsLost

(* What makes an edge land on the resource whose loop its owner is listed in. *)
Landed(e, typed, heirs) ==
    \/ IsRecorded(e.to)
    \/ <<e.from.type, e.to.type>> \in heirs /\ IsRecorded(e.from)
    \/ /\ <<e.from.type, e.to.type>> \notin Nests(typed)
       /\ e.to.type \notin Singles(typed) \/ e.to.id # 0

LEMMA EdgeLands ==
    ASSUME GatherInv, DeriveEdge, stmt \in Statements, NEW typed, NEW heirs,
           TypedTodo(typed, heirs), ParentsFound(typed, heirs),
           heirs = {} \/ IsRecorded(EndOf(item))
    PROVE  \E e : edges' = Append(edges, e) /\ records' = records /\ Landed(e, typed, heirs)
<1>1. /\ todo # <<>> /\ stmt.op = "edge"
  BY DEF DeriveEdge, Running
<1>2. todo[1].stmt = stmt /\ todo[1].item = item /\ 1 \in DOMAIN todo
  BY <1>1, HeadFirst DEF GatherInv
<1>3. PICK p \in typed : p = <<stmt, item.type>>
  BY <1>1, <1>2 DEF TypedTodo, Marks
<1>4. p[1] = stmt /\ p[2] = item.type
  BY <1>3
<1>5. IF stmt.from = "self"
        THEN \/ stmt.among \in {"recorded", "recorded parent"}
             \/ <<item.type, stmt.to>> \in heirs
             \/ /\ <<item.type, stmt.to>> \notin Nests(typed)
                /\ stmt.among = "any" \/ stmt.to \notin Singles(typed)
        ELSE <<stmt.from, item.type>> \notin Nests(typed) /\ item.type \notin Singles(typed)
  BY <1>1, <1>4 DEF ParentsFound
<1>6. PICK n \in Targets : \E edge :
          /\ edges' = Append(edges, edge) /\ records' = records
          /\ IF stmt.from = "self"
               THEN edge.from = EndOf(item) /\ edge.to = [type |-> stmt.to, id |-> n]
               ELSE edge.from = [type |-> stmt.from, id |-> n] /\ edge.to = EndOf(item)
  BY EdgeAdded
<1>7. PICK e : /\ edges' = Append(edges, e) /\ records' = records
               /\ IF stmt.from = "self"
                    THEN e.from = EndOf(item) /\ e.to = [type |-> stmt.to, id |-> n]
                    ELSE e.from = [type |-> stmt.from, id |-> n] /\ e.to = EndOf(item)
  BY <1>6
<1>8. Landed(e, typed, heirs)
  <2>1. EndOf(item).type = item.type
    BY DEF EndOf
  <2>2. CASE stmt.from # "self"
    <3>1. e.from.type = stmt.from /\ e.to.type = item.type
      BY <1>7, <2>1, <2>2
    <3> QED BY <1>5, <2>2, <3>1 DEF Landed
  <2>3. CASE stmt.from = "self"
    <3>1. e.from = EndOf(item) /\ e.from.type = item.type /\ e.to.type = stmt.to /\ e.to.id = n
      BY <1>7, <2>1, <2>3
    <3>2. stmt.among \in {"recorded", "recorded parent"} => IsRecorded(e.to)
      BY <1>6, <1>7, <2>3 DEF Targets
    <3>3. stmt.among = "any" => n # 0
      <4>1. stmt.among = "any" => n \in 1 .. MaxEvents
        BY <1>6 DEF Targets
      <4> QED BY <4>1
    <3> QED BY <1>5, <2>3, <3>1, <3>2, <3>3 DEF Landed
  <2> QED BY <2>2, <2>3
<1> QED BY <1>7, <1>8

ParentsInv(typed, heirs, outside, inside) ==
    /\ TypedTodo(typed, heirs) /\ HeirsReady(heirs) /\ NoTagsLost(heirs)
    /\ SameType /\ Kin(typed, heirs)
    /\ heirs = {} \/ Owned(outside, inside)
    /\ \A i \in DOMAIN edges : Landed(edges[i], typed, heirs)

OfParents(program, typed, heirs, outside, inside) ==
    /\ Fits(program, typed, heirs) /\ Inherits(typed, heirs) /\ ParentsFound(typed, heirs)
    /\ heirs = {} \/ EdgesUnderAdd(program, outside, inside)

LEMMA ParentsStart ==
    ASSUME GatherInit, NEW typed, NEW heirs, NEW outside, NEW inside,
           OfParents(Programs[module], typed, heirs, outside, inside)
    PROVE  ParentsInv(typed, heirs, outside, inside)
<1>1. listed = {} /\ faults = {} /\ edges = <<>>
  BY DEF GatherInit, WriterInit
<1>2. TypedTodo(typed, heirs)
  BY TypedStart DEF OfParents
<1>3. HeirsReady(heirs)
  BY HeirsStart DEF OfParents, Inherits
<1>4. heirs = {} \/ Owned(outside, inside)
  BY OwnedStart DEF OfParents
<1> QED BY <1>1, <1>2, <1>3, <1>4 DEF ParentsInv, NoTagsLost, SameType, Kin

LEMMA ParentsStep ==
    ASSUME GatherInv, [GatherStep]_vars, GatherInv', NEW typed, NEW heirs, NEW outside, NEW inside,
           OfParents(Programs[module], typed, heirs, outside, inside),
           ParentsInv(typed, heirs, outside, inside)
    PROVE  ParentsInv(typed, heirs, outside, inside)'
<1>1. CASE UNCHANGED vars
  BY <1>1 DEF vars, gatherVars, writerVars, ParentsInv, TypedTodo, HeirsReady, HeirReady, Together,
     Decided, NoTagsLost, SameType, Kin, ParentOf, Owned, Landed, IsRecorded, EndOf
<1>2. CASE GatherStep
  <2>1. /\ TypedTodo(typed, heirs)' /\ HeirsReady(heirs)' /\ NoTagsLost(heirs)'
        /\ SameType' /\ Kin(typed, heirs)'
    BY <1>2, TypedStay, HeirsReadyStay, NoTagsStay, SameTypeStays, KinStay
       DEF ParentsInv, OfParents
  <2>2. heirs = {} \/ Owned(outside, inside)'
    BY <1>2, OwnedStay DEF ParentsInv, OfParents
  <2> DEFINE All == {edges[i] : i \in DOMAIN edges} \cup {edges'[i] : i \in DOMAIN edges'}
             S == {e \in All : Landed(e, typed, heirs)'}
  <2>3. \A e : Landed(e, typed, heirs) => Landed(e, typed, heirs)'
    <3>1. \A end : IsRecorded(end) => IsRecorded(end)'
      BY <1>2, RecordedStays
    <3> QED BY <3>1 DEF Landed
  <2>4. \A i \in DOMAIN edges : edges[i] \in S
    BY <2>3 DEF ParentsInv
  <2>5. edges' = edges \/ \E e \in S : edges' = Append(edges, e)
    <3> SUFFICES ASSUME DeriveEdge, stmt \in Statements, stmt.op = "edge"
                 PROVE  \E e \in S : edges' = Append(edges, e)
      BY <1>2, EdgesKeptOrOne
    <3>1. todo # <<>>
      BY <1>2, Grows
    <3>2. todo[1].stmt = stmt /\ todo[1].item = item /\ 1 \in DOMAIN todo
      BY <3>1, HeadFirst DEF GatherInv
    <3>3. heirs = {} \/ IsRecorded(EndOf(item))
      BY <3>2 DEF ParentsInv, Owned, OfParents, EdgesUnderAdd, Marks
    <3>4. PICK e : edges' = Append(edges, e) /\ Landed(e, typed, heirs)
      BY <3>3, EdgeLands DEF ParentsInv, OfParents
    <3>5. e \in All
      <4>1. edges \in Seq(Edge)
        BY DEF GatherInv, WriterTypeOK
      <4>2. Len(edges) + 1 \in DOMAIN edges' /\ edges'[Len(edges) + 1] = e
        BY <3>4, <4>1
      <4> QED BY <4>2
    <3> QED BY <2>3, <3>4, <3>5
  <2> HIDE DEF S
  <2>6. \A i \in DOMAIN edges' : edges'[i] \in S
    BY <2>4, <2>5, EachEdge
  <2> QED BY <2>1, <2>2, <2>6 DEF S, ParentsInv
<1> QED BY <1>1, <1>2

LEMMA ParentsMeet ==
    ASSUME GatherInv, NEW typed, NEW heirs, NEW outside, NEW inside, Inherits(typed, heirs),
           ParentsInv(typed, heirs, outside, inside)
    PROVE  ParentEdgesLand
<1> SUFFICES ASSUME NEW i \in DOMAIN edges, NEW x \in listed, NEW y \in listed,
                    edges[i].from = EndOf(x), edges[i].to = EndOf(y), x.parent = y.n
             PROVE  IsRecorded(EndOf(y))
  BY DEF ParentEdgesLand, Candidates
<1>1. /\ EndOf(x).type = x.type /\ EndOf(x).id = x.n
      /\ EndOf(y).type = y.type /\ EndOf(y).id = y.n
  BY DEF EndOf
<1>2. Landed(edges[i], typed, heirs)
  BY DEF ParentsInv
<1>3. PICK z \in Items(listed) :
          /\ z.n = x.parent /\ <<x.type, z.type>> \in Nests(typed)
          /\ <<x.type, z.type>> \in heirs => x.intent.full \/ IsRecorded(EndOf(z))
  BY DEF ParentsInv, Kin, ParentOf
<1>4. y.n # 0 => EndOf(z) = EndOf(y) /\ z.type = y.type
  <2> SUFFICES ASSUME y.n # 0 PROVE EndOf(z) = EndOf(y) /\ z.type = y.type
    OBVIOUS
  <2>1. z \in listed
    BY <1>3, OutsideItems DEF Items
  <2>2. z.type = y.type
    BY <1>3, <2>1 DEF ParentsInv, SameType
  <2> QED BY <1>3, <2>2 DEF EndOf
<1>5. y.n = 0 => y.type \in Singles(typed)
  BY DEF ParentsInv, Kin
<1>6. ASSUME <<x.type, y.type>> \in heirs, IsRecorded(EndOf(x)) PROVE IsRecorded(EndOf(y))
  <2>1. PICK h \in heirs : h = <<x.type, y.type>>
    BY <1>6
  <2>2. h[2] = y.type /\ heirs # {}
    BY <2>1
  <2>3. y.n # 0
    BY <1>5, <2>2 DEF Inherits
  <2>4. ~x.intent.full
    <3>1. PICK k \in DOMAIN records : records[k].id = x.n
      BY <1>1, <1>6 DEF IsRecorded
    <3>2. PICK w \in Items(listed) : w.n = x.n /\ (w.intent.full => TagsUnread(w))
      BY <3>1 DEF GatherInv, RecordsInv
    <3>3. w.intent = x.intent
      BY <3>2 DEF GatherInv, ListedInv, Items
    <3>4. ~TagsUnread(w)
      BY <2>2 DEF ParentsInv, NoTagsLost, TagsUnread
    <3> QED BY <3>2, <3>3, <3>4
  <2> QED BY <1>3, <1>4, <1>6, <2>3, <2>4
<1>7. ASSUME <<x.type, y.type>> \notin Nests(typed),
             y.type \notin Singles(typed) \/ y.n # 0
      PROVE  FALSE
  BY <1>3, <1>4, <1>5, <1>7
<1> QED BY <1>1, <1>2, <1>6, <1>7 DEF Landed

(* azure/resources.py and its kin: where an edge to the resource of the outer loop is
   derived only when that one is found recorded, or by a resource that has its tags, no
   such edge dangles, whatever is suppressed and whatever fails. *)
THEOREM ParentsLand ==
    ASSUME \A name \in DOMAIN Programs : \E typed, heirs, outside, inside :
               /\ Fits(Programs[name], typed, heirs)
               /\ Inherits(typed, heirs) /\ ParentsFound(typed, heirs)
               /\ heirs = {} \/ EdgesUnderAdd(Programs[name], outside, inside)
    PROVE  GatherSpec => []ParentEdgesLand
<1> DEFINE Inv == \E typed, heirs, outside, inside :
                      /\ OfParents(Programs[module], typed, heirs, outside, inside)
                      /\ ParentsInv(typed, heirs, outside, inside)
<1>1. GatherInit => Inv
  <2> SUFFICES ASSUME GatherInit PROVE Inv
    OBVIOUS
  <2>1. PICK typed, heirs, outside, inside :
            OfParents(Programs[module], typed, heirs, outside, inside)
    BY DEF GatherInit, OfParents
  <2> QED BY <2>1, ParentsStart
<1>2. GatherInv /\ GatherInv' /\ Inv /\ [GatherStep]_vars => Inv'
  <2> SUFFICES ASSUME GatherInv, GatherInv', [GatherStep]_vars,
                      NEW typed, NEW heirs, NEW outside, NEW inside,
                      OfParents(Programs[module], typed, heirs, outside, inside),
                      ParentsInv(typed, heirs, outside, inside)
               PROVE  Inv'
    OBVIOUS
  <2>1. ParentsInv(typed, heirs, outside, inside)'
    BY ParentsStep
  <2>2. OfParents(Programs[module'], typed, heirs, outside, inside)
    BY NameStays
  <2> QED BY <2>1, <2>2 DEF OfParents, Fits, Fitting, Inherits, ParentsFound, EdgesUnderAdd
<1>3. GatherInv /\ Inv => ParentEdgesLand
  BY ParentsMeet DEF OfParents
<1> HIDE DEF Inv
<1> QED BY <1>1, <1>2, <1>3, InvAlways, PTL DEF GatherSpec

-----------------------------------------------------------------------------
(* Two frames, one before the other, in what is left after a step: they stood there
   before, with the same frames between them; or they were just opened; or one was. *)
Stays(i, a) ==
    /\ a \in DOMAIN todo /\ i \in DOMAIN todo' /\ todo'[i] = todo[a]
    /\ Caught(i)' => Caught(a)

Between(a, b, i, j) == \A m \in a .. b : \E h \in i .. j : todo'[h] = todo[m]

PairStays(i, j) ==
    \E a, b : Stays(i, a) /\ Stays(j, b) /\ a < b /\ 1 < b /\ Between(a, b, i, j)

Opening(x, d) ==
    /\ d \in {0, 1} /\ Opens(x, d) /\ Len(todo) > 1
    /\ stmt.body \in Seq(Statements) /\ Len(stmt.body) \in Nat
    /\ \/ stmt.op \in {"if", "when", "add"} /\ d = 0 /\ x = item
       \/ /\ stmt.op \in {"guard", "call"} /\ d = 1 /\ x = item
          /\ Mark.stmt.op \in {"except", "end"} /\ Mark.item = item
          /\ Mark.stmt.what = stmt.what
       \/ /\ stmt.op \in {"each", "again", "next"} /\ d = 1 /\ InLoop(x)
          /\ Mark.stmt.op = "next" /\ Mark.stmt.body = stmt.body /\ Mark.item = item

InBodyAt(i, x) ==
    i \in DOMAIN stmt.body /\ todo'[i] = [stmt |-> stmt.body[i], item |-> x]

CaughtThere(i) == Caught(i)' => Caught(1) \/ stmt.op \in {"guard", "call"}

PairOpens(i, j, x, d) ==
    /\ InBodyAt(i, x) \/ (d = 1 /\ i = Len(stmt.body) + 1)
    /\ CaughtThere(i)
    /\ \/ InBodyAt(i, x) /\ InBodyAt(j, x)
       \/ InBodyAt(i, x) /\ d = 1 /\ j = Len(stmt.body) + 1
       \/ /\ \E b \in 2 .. Len(todo) : Stays(j, b) /\ Between(2, b, i, j)
          /\ d = 1 => Len(stmt.body) + 1 \in i .. j

LEMMA OpeningFound ==
    ASSUME GatherInv, todo # <<>>, GatherInv', Enters
    PROVE  \E d \in {0, 1} : \E x : Opening(x, d)
<1>1. /\ stmt.op \in Compound \cup {"next"} /\ stmt.body \in Seq(Statements)
      /\ Len(stmt.body) \in Nat
  BY OpenedFrames
<1>2. Len(todo) > 1
  <2>1. Len(todo) \in Nat \ {0}
    BY HeadFirst DEF GatherInv
  <2>2. todo[1].stmt = stmt /\ todo[Len(todo)].stmt.op = "end"
    BY HeadFirst DEF GatherInv
  <2>3. stmt.op # "end"
    BY <1>1 DEF Compound
  <2>4. Len(todo) # 1
    BY <2>2, <2>3
  <2> QED BY <2>1, <2>4
<1>3. CASE EntersBody
  <2>1. Opening(item, 0)
    BY <1>1, <1>2, <1>3 DEF EntersBody, Opening
  <2> QED BY <2>1
<1>4. CASE EntersTry
  <2>1. Opening(item, 1)
    BY <1>1, <1>2, <1>4 DEF EntersTry, Opening
  <2> QED BY <2>1
<1>5. ASSUME NEW over, EntersLoop(over) PROVE \E d \in {0, 1} : \E x : Opening(x, d)
  <2>1. /\ Opens(Head(over), 1) /\ stmt.op \in {"each", "again", "next"}
        /\ Mark.stmt.op = "next" /\ Mark.stmt.body = stmt.body /\ Mark.item = item
        /\ InLoop(Head(over))
    BY <1>5, LoopItems
  <2>2. Opening(Head(over), 1)
    BY <1>1, <1>2, <2>1 DEF Opening
  <2> QED BY <2>2
<1> QED BY <1>3, <1>4, <1>5 DEF Enters

LEMMA LeftStays ==
    ASSUME GatherInv, todo # <<>>, GatherInv', NEW k, Leaves(k), NEW i \in DOMAIN todo'
    PROVE  Stays(i, k + i - 1)
<1>1. /\ i \in Nat /\ Len(todo) \in Nat \ {0} /\ Len(todo') = Len(todo) - k + 1
      /\ DOMAIN todo = 1 .. Len(todo) /\ DOMAIN todo' = 1 .. Len(todo')
      /\ k \in 2 .. Len(todo) + 1
      /\ k + i - 1 \in 2 .. Len(todo) /\ todo'[i] = todo[k + i - 1]
  BY LeftAt
<1>2. ASSUME Caught(i)' PROVE Caught(k + i - 1)
  <2>1. PICK j \in DOMAIN todo' : /\ i < j /\ j < Len(todo')
                                  /\ todo'[j].stmt.op \in {"except", "end"}
    BY <1>2 DEF Caught
  <2>2. k + j - 1 \in 2 .. Len(todo) /\ todo'[j] = todo[k + j - 1]
    BY LeftAt
  <2>3. k + j - 1 \in DOMAIN todo /\ k + i - 1 < k + j - 1 /\ k + j - 1 < Len(todo)
    BY <1>1, <2>1, <2>2
  <2> QED BY <2>1, <2>2, <2>3 DEF Caught
<1>3. k + i - 1 \in DOMAIN todo
  BY <1>1
<1> QED BY <1>1, <1>2, <1>3 DEF Stays

LEMMA LeftPair ==
    ASSUME GatherInv, todo # <<>>, GatherInv', NEW k, Leaves(k),
           NEW i \in DOMAIN todo', NEW j \in DOMAIN todo', i < j
    PROVE  PairStays(i, j)
<1>1. Stays(i, k + i - 1) /\ Stays(j, k + j - 1)
  BY LeftStays
<1>2. /\ i \in Nat /\ Len(todo) \in Nat \ {0} /\ Len(todo') = Len(todo) - k + 1
      /\ DOMAIN todo = 1 .. Len(todo) /\ DOMAIN todo' = 1 .. Len(todo')
      /\ k \in 2 .. Len(todo) + 1 /\ k + i - 1 \in 2 .. Len(todo)
      /\ \A m \in k .. Len(todo) : m - k + 1 \in DOMAIN todo' /\ todo'[m - k + 1] = todo[m]
  BY LeftAt
<1>3. j \in Nat /\ k + j - 1 \in 2 .. Len(todo)
  BY LeftAt
<1>4. k + i - 1 < k + j - 1 /\ 1 < k + j - 1
  <2>1. k \in Int /\ i \in Nat /\ j \in Nat /\ k + j - 1 \in 2 .. Len(todo)
    BY <1>2, <1>3
  <2> QED BY <2>1
<1>5. ASSUME NEW m \in k + i - 1 .. k + j - 1
      PROVE  \E h \in i .. j : todo'[h] = todo[m]
  <2>0. m \in Nat /\ k \in Nat /\ i \in Nat /\ j \in Nat /\ 1 <= i
    BY <1>2, <1>3
  <2>1. m \in k .. Len(todo) /\ m - k + 1 \in i .. j
    <3> DEFINE n == Len(todo)
    <3>1. k + j - 1 <= n /\ n \in Nat
      BY <1>2, <1>3
    <3> HIDE DEF n
    <3>2. m \in k .. n
      BY <1>5, <2>0, <3>1
    <3>3. m - k + 1 \in i .. j
      BY <1>5, <2>0
    <3> QED BY <3>2, <3>3 DEF n
  <2> QED BY <1>2, <2>1
<1>6. Between(k + i - 1, k + j - 1, i, j)
  BY <1>5 DEF Between
<1> QED BY <1>1, <1>4, <1>6 DEF PairStays

LEMMA OpenedStays ==
    ASSUME GatherInv, todo # <<>>, GatherInv', NEW x, NEW d, Opening(x, d),
           NEW i \in DOMAIN todo'
    PROVE  \/ InBodyAt(i, x) /\ CaughtThere(i) /\ i \in 1 .. Len(stmt.body)
           \/ d = 1 /\ i = Len(stmt.body) + 1 /\ CaughtThere(i)
           \/ \E b \in 2 .. Len(todo) : i = Len(stmt.body) + d + b - 1 /\ Stays(i, b)
<1> DEFINE n == Len(stmt.body)
<1>1. d \in {0, 1} /\ Opens(x, d) /\ n \in Nat /\ stmt.body \in Seq(Statements) /\ Len(todo) > 1
  BY DEF Opening
<1>2. \A j \in DOMAIN todo' : Placed(j, x, d)
  BY <1>1, OpenedAt
<1>3. /\ i \in Nat /\ Len(todo) \in Nat \ {0} /\ Len(todo') = n + d + Len(todo) - 1
      /\ DOMAIN todo = 1 .. Len(todo)
      /\ \/ i \in 1 .. n /\ todo'[i] = [stmt |-> stmt.body[i], item |-> x]
         \/ d = 1 /\ i = n + 1
         \/ \E j \in 2 .. Len(todo) : i = n + d + j - 1 /\ todo'[i] = todo[j]
  BY <1>2 DEF Placed
<1>4. ASSUME NEW j \in DOMAIN todo', i < j, j < Len(todo'), todo'[j].stmt.op \in {"except", "end"}
      PROVE  \/ stmt.op \in {"guard", "call"} /\ d = 1 /\ j = n + 1
             \/ \E m \in DOMAIN todo : /\ j = n + d + m - 1 /\ 2 <= m /\ m < Len(todo)
                                       /\ todo[m].stmt.op \in {"except", "end"}
  <2>1. /\ j \in Nat
        /\ \/ j \in 1 .. n /\ todo'[j] = [stmt |-> stmt.body[j], item |-> x]
           \/ d = 1 /\ j = n + 1
           \/ \E m \in 2 .. Len(todo) : j = n + d + m - 1 /\ todo'[j] = todo[m]
    BY <1>2 DEF Placed
  <2>2. CASE j \in 1 .. n /\ todo'[j] = [stmt |-> stmt.body[j], item |-> x]
    <3>1. stmt.body[j] \in Statements /\ todo'[j].stmt = stmt.body[j]
      BY <1>1, <2>2, BodyRange
    <3> QED BY <1>4, <3>1, ProgramAssumption DEF WellFormed, Marks
  <2>3. CASE d = 1 /\ j = n + 1
    BY <1>4, <2>3 DEF Opening, Mark
  <2>4. CASE \E m \in 2 .. Len(todo) : j = n + d + m - 1 /\ todo'[j] = todo[m]
    <3>1. PICK m \in 2 .. Len(todo) : j = n + d + m - 1 /\ todo'[j] = todo[m]
      BY <2>4
    <3>2. m \in DOMAIN todo /\ m < Len(todo) /\ 2 <= m
      <4> HIDE DEF n
      <4> QED BY <1>1, <1>3, <1>4, <3>1
    <3> QED BY <1>4, <3>1, <3>2
  <2> QED BY <2>1, <2>2, <2>3, <2>4
<1>5. ASSUME i <= n + d PROVE CaughtThere(i)
  <2>1. SUFFICES ASSUME Caught(i)' PROVE Caught(1) \/ stmt.op \in {"guard", "call"}
    BY DEF CaughtThere
  <2>2. PICK j \in DOMAIN todo' : /\ i < j /\ j < Len(todo')
                                  /\ todo'[j].stmt.op \in {"except", "end"}
    BY <2>1 DEF Caught
  <2>3. ASSUME NEW m \in DOMAIN todo, 2 <= m, m < Len(todo),
               todo[m].stmt.op \in {"except", "end"}
        PROVE  Caught(1)
    <3>1. 1 < m
      BY <1>3, <2>3
    <3> QED BY <2>3, <3>1 DEF Caught
  <2> QED BY <1>4, <2>2, <2>3
<1>6. ASSUME NEW b \in 2 .. Len(todo), i = n + d + b - 1, todo'[i] = todo[b]
      PROVE  Stays(i, b)
  <2>1. b \in DOMAIN todo
    BY <1>3
  <2>2. ASSUME Caught(i)' PROVE Caught(b)
    <3>1. PICK j \in DOMAIN todo' : /\ i < j /\ j < Len(todo')
                                    /\ todo'[j].stmt.op \in {"except", "end"}
      BY <2>2 DEF Caught
    <3>2. ~(d = 1 /\ j = n + 1)
      <4> HIDE DEF n
      <4> QED BY <1>1, <1>3, <1>6, <3>1
    <3>3. PICK m \in DOMAIN todo : /\ j = n + d + m - 1 /\ 2 <= m /\ m < Len(todo)
                                   /\ todo[m].stmt.op \in {"except", "end"}
      BY <1>4, <3>1, <3>2
    <3>4. b < m
      <4> HIDE DEF n
      <4> QED BY <1>1, <1>3, <1>6, <3>1, <3>3
    <3> QED BY <3>3, <3>4 DEF Caught
  <2> QED BY <1>6, <2>1, <2>2 DEF Stays
<1>7. (i \in 1 .. n => i <= n + d) /\ (d = 1 /\ i = n + 1 => i <= n + d)
  BY <1>1
<1>8. i \in 1 .. n => i \in DOMAIN stmt.body
  BY <1>1
<1> QED BY <1>3, <1>5, <1>6, <1>7, <1>8 DEF InBodyAt

LEMMA OpenedPair ==
    ASSUME GatherInv, todo # <<>>, GatherInv', NEW x, NEW d, Opening(x, d),
           NEW i \in DOMAIN todo', NEW j \in DOMAIN todo', i < j
    PROVE  PairStays(i, j) \/ PairOpens(i, j, x, d)
<1> DEFINE n == Len(stmt.body)
<1>1. d \in {0, 1} /\ Opens(x, d) /\ n \in Nat /\ Len(todo) > 1
  BY DEF Opening
<1>2. /\ i \in Nat /\ Len(todo) \in Nat \ {0}
      /\ \A m \in 2 .. Len(todo) : n + d + m - 1 \in DOMAIN todo' /\ todo'[n + d + m - 1] = todo[m]
  <2>1. Placed(i, x, d)
    BY <1>1, OpenedAt
  <2> QED BY <2>1 DEF Placed
<1>3. j \in Nat
  <2>1. Placed(j, x, d)
    BY <1>1, OpenedAt
  <2> QED BY <2>1 DEF Placed
<1>4. \/ InBodyAt(i, x) /\ CaughtThere(i) /\ i \in 1 .. n
      \/ d = 1 /\ i = n + 1 /\ CaughtThere(i)
      \/ \E b \in 2 .. Len(todo) : i = n + d + b - 1 /\ Stays(i, b)
  BY OpenedStays
<1>5. \/ InBodyAt(j, x) /\ CaughtThere(j) /\ j \in 1 .. n
      \/ d = 1 /\ j = n + 1 /\ CaughtThere(j)
      \/ \E b \in 2 .. Len(todo) : j = n + d + b - 1 /\ Stays(j, b)
  BY OpenedStays
<1>6. ASSUME NEW a \in 2 .. Len(todo), NEW b \in 2 .. Len(todo),
             i <= n + d + a - 1, j = n + d + b - 1
      PROVE  Between(a, b, i, j)
  <2>1. SUFFICES ASSUME NEW m \in a .. b PROVE \E h \in i .. j : todo'[h] = todo[m]
    BY DEF Between
  <2>2. m \in 2 .. Len(todo)
    BY <1>2
  <2>3. n + d + m - 1 \in i .. j
    <3>1. m \in Nat /\ a \in Nat /\ b \in Nat /\ a <= m /\ m <= b /\ d \in Nat
      BY <1>1, <1>2, <2>1
    <3> HIDE DEF n
    <3> QED BY <1>1, <1>2, <1>3, <1>6, <3>1
  <2> QED BY <1>2, <2>2, <2>3
<1>7. CASE \E a \in 2 .. Len(todo) : i = n + d + a - 1 /\ Stays(i, a)
  <2>1. PICK a \in 2 .. Len(todo) : i = n + d + a - 1 /\ Stays(i, a)
    BY <1>7
  <2>2. ~(j \in 1 .. n) /\ ~(d = 1 /\ j = n + 1)
    <3> HIDE DEF n
    <3> QED BY <1>1, <1>2, <1>3, <2>1
  <2>3. PICK b \in 2 .. Len(todo) : j = n + d + b - 1 /\ Stays(j, b)
    BY <1>5, <2>2
  <2>4. a < b /\ 1 < b /\ i <= n + d + a - 1
    <3> HIDE DEF n
    <3> QED BY <1>1, <1>2, <1>3, <2>1, <2>3
  <2>5. Between(a, b, i, j)
    BY <1>6, <2>3, <2>4
  <2> QED BY <2>1, <2>3, <2>4, <2>5 DEF PairStays
<1>8. CASE \/ InBodyAt(i, x) /\ CaughtThere(i) /\ i \in 1 .. n
           \/ d = 1 /\ i = n + 1 /\ CaughtThere(i)
  <2>1. CASE \E b \in 2 .. Len(todo) : j = n + d + b - 1 /\ Stays(j, b)
    <3>1. PICK b \in 2 .. Len(todo) : j = n + d + b - 1 /\ Stays(j, b)
      BY <2>1
    <3>2. i <= n + d + 2 - 1 /\ 2 \in 2 .. Len(todo) /\ (d = 1 => n + 1 \in i .. j)
      <4>1. i <= n + 1 /\ (d = 0 => i <= n)
        <5> HIDE DEF n
        <5> QED BY <1>1, <1>2, <1>8
      <4>2. b \in Nat /\ 2 <= b
        BY <1>2
      <4> HIDE DEF n
      <4> QED BY <1>1, <1>2, <1>3, <3>1, <4>1, <4>2
    <3>3. Between(2, b, i, j)
      BY <1>6, <3>1, <3>2
    <3> QED BY <1>8, <3>1, <3>2, <3>3 DEF PairOpens
  <2>2. CASE InBodyAt(j, x) /\ j \in 1 .. n
    <3>1. i \in 1 .. n /\ InBodyAt(i, x) /\ CaughtThere(i)
      <4>1. ~(i = n + 1)
        <5> HIDE DEF n
        <5> QED BY <1>1, <1>2, <1>3, <2>2
      <4> QED BY <1>8, <4>1
    <3> QED BY <2>2, <3>1 DEF PairOpens
  <2>3. CASE d = 1 /\ j = n + 1
    <3>1. InBodyAt(i, x) /\ CaughtThere(i)
      <4>1. ~(i = n + 1)
        <5> HIDE DEF n
        <5> QED BY <1>1, <1>2, <1>3, <2>3
      <4> QED BY <1>8, <4>1
    <3> QED BY <2>3, <3>1 DEF PairOpens
  <2> QED BY <1>5, <2>1, <2>2, <2>3
<1> QED BY <1>4, <1>7, <1>8

(* so that an invariant about pairs of frames needs to be looked at in these two cases *)
LEMMA PairWays ==
    ASSUME GatherInv, GatherStep, GatherInv',
           NEW i \in DOMAIN todo', NEW j \in DOMAIN todo', i < j
    PROVE  PairStays(i, j) \/ \E d \in {0, 1} : \E x : Opening(x, d) /\ PairOpens(i, j, x, d)
<1>1. todo # <<>>
  BY Grows
<1>2. CASE Enters
  <2>1. PICK d, x : d \in {0, 1} /\ Opening(x, d)
    BY <1>1, <1>2, OpeningFound
  <2> QED BY <1>1, <2>1, OpenedPair
<1> QED BY <1>1, <1>2, LeftPair, StepForm

LEMMA FrameWays ==
    ASSUME GatherInv, GatherStep, GatherInv', NEW i \in DOMAIN todo'
    PROVE  \/ \E a : Stays(i, a)
           \/ \E d \in {0, 1} : \E x :
                 /\ Opening(x, d) /\ CaughtThere(i)
                 /\ InBodyAt(i, x) \/ (d = 1 /\ i = Len(stmt.body) + 1)
<1>1. todo # <<>>
  BY Grows
<1>2. CASE Enters
  <2>1. PICK d, x : d \in {0, 1} /\ Opening(x, d)
    BY <1>1, <1>2, OpeningFound
  <2>2. \/ InBodyAt(i, x) /\ CaughtThere(i)
        \/ d = 1 /\ i = Len(stmt.body) + 1 /\ CaughtThere(i)
        \/ \E b \in 2 .. Len(todo) : Stays(i, b)
    BY <1>1, <2>1, OpenedStays
  <2> QED BY <2>1, <2>2
<1>3. ASSUME NEW k, Leaves(k) PROVE \E a : Stays(i, a)
  BY <1>1, <1>3, LeftStays
<1> QED BY <1>2, <1>3, StepForm

-----------------------------------------------------------------------------
(* What is left to run up to the end of a loop body is for one item. *)
AsOne(x, y) == x = y \/ (x \in Outsides /\ y \in Outsides)

SameItemAt(i, j) ==
    \/ AsOne(todo[i].item, todo[j].item)
    \/ \E m \in i .. j : todo[m].stmt.op = "next"

SameItems == \A i, j \in DOMAIN todo : i < j => SameItemAt(i, j)

LEMMA SameItemsStart == GatherInit => SameItems
<1> SUFFICES ASSUME GatherInit, NEW i \in DOMAIN todo PROVE todo[i].item \in Outsides
  BY DEF SameItems, SameItemAt, AsOne
<1> DEFINE n == Len(Programs[module])
<1>1. n \in Nat /\ DOMAIN todo = 1 .. n + 1 /\ todo[n + 1].item = Outside(0)
  BY StartFrames
<1>2. ASSUME NEW k \in 1 .. n PROVE todo[k].item \in Outsides
  <2>1. todo[k] = [stmt |-> Programs[module][k], item |-> Outside(k)]
    BY StartFrames
  <2>2. todo[k].item = Outside(k) /\ k \in Nat
    BY <1>1, <2>1
  <2> QED BY <2>2 DEF Outsides
<1>3. i \in 1 .. n \/ i = n + 1
  BY <1>1
<1> QED BY <1>1, <1>2, <1>3 DEF Outsides

LEMMA SameItemsStay ==
    ASSUME GatherInv, GatherStep, GatherInv', SameItems
    PROVE  SameItems'
<1> SUFFICES ASSUME NEW i \in DOMAIN todo', NEW j \in DOMAIN todo', i < j
             PROVE  SameItemAt(i, j)'
  BY DEF SameItems
<1>0. todo[1].item = item /\ todo[1].stmt = stmt /\ DOMAIN todo = 1 .. Len(todo)
  BY Grows, HeadFirst DEF GatherInv
<1>1. CASE PairStays(i, j)
  <2>1. PICK a, b : Stays(i, a) /\ Stays(j, b) /\ a < b /\ Between(a, b, i, j)
    BY <1>1 DEF PairStays
  <2>2. SameItemAt(a, b)
    BY <2>1 DEF SameItems, Stays
  <2>3. ASSUME NEW m \in a .. b, todo[m].stmt.op = "next" PROVE SameItemAt(i, j)'
    BY <2>1, <2>3 DEF Between, SameItemAt
  <2> QED BY <2>1, <2>2, <2>3 DEF SameItemAt, Stays
<1>2. ASSUME NEW d \in {0, 1}, NEW x, Opening(x, d), PairOpens(i, j, x, d)
      PROVE  SameItemAt(i, j)'
  <2> DEFINE n == Len(stmt.body)
  <2>1. ASSUME NEW k, InBodyAt(k, x) PROVE todo'[k].item = x
    BY <2>1 DEF InBodyAt
  <2>2. CASE stmt.op \in {"each", "again", "next"} /\ d = 1 /\ n + 1 \in i .. j
    <3>1. todo'[n + 1].stmt.op = "next"
      BY <1>2, <2>2 DEF Opening, Mark
    <3> QED BY <2>2, <3>1 DEF SameItemAt
  <2>3. CASE InBodyAt(i, x) /\ InBodyAt(j, x)
    BY <2>1, <2>3 DEF SameItemAt, AsOne
  <2>4. ASSUME d = 1, j = n + 1 \/ i = n + 1 PROVE n + 1 \in i .. j
    <3>1. i \in Nat /\ j \in Nat /\ i < j /\ n \in Nat
      <4>1. Len(todo') \in Nat /\ DOMAIN todo' = 1 .. Len(todo')
        BY <1>2 DEF GatherInv, TodoInv
      <4> QED BY <1>2, <4>1 DEF Opening
    <3> HIDE DEF n
    <3> QED BY <2>4, <3>1
  <2>5. n + 1 \in i .. j \/ d = 0 \/ (InBodyAt(i, x) /\ InBodyAt(j, x))
    BY <1>2, <2>4 DEF PairOpens
  <2>6. CASE stmt.op \notin {"each", "again", "next"}
    <3>1. x = item /\ (d = 1 => todo'[n + 1].item = item) /\ stmt.op # "next"
      BY <1>2, <2>6 DEF Opening, Mark
    <3>2. todo'[i].item = item
      BY <1>2, <2>1, <3>1 DEF PairOpens
    <3>3. CASE InBodyAt(j, x) \/ (d = 1 /\ j = n + 1)
      BY <2>1, <3>1, <3>2, <3>3 DEF SameItemAt, AsOne
    <3>4. CASE \E b \in 2 .. Len(todo) : Stays(j, b) /\ Between(2, b, i, j)
      <4>1. PICK b \in 2 .. Len(todo) : Stays(j, b) /\ Between(2, b, i, j)
        BY <3>4
      <4>2. 1 \in DOMAIN todo /\ b \in DOMAIN todo /\ 1 < b
        BY <1>0, <4>1
      <4>3. SameItemAt(1, b)
        BY <4>2 DEF SameItems
      <4>4. ASSUME NEW m \in 1 .. b, todo[m].stmt.op = "next" PROVE SameItemAt(i, j)'
        <5>1. m # 1
          BY <1>0, <3>1, <4>4
        <5>2. m \in 2 .. b
          BY <5>1
        <5> QED BY <4>1, <4>4, <5>2 DEF Between, SameItemAt
      <4> QED BY <1>0, <3>2, <4>1, <4>3, <4>4 DEF SameItemAt, Stays
    <3> QED BY <1>2, <3>3, <3>4 DEF PairOpens
  <2>7. stmt.op \in {"each", "again", "next"} => d = 1
    BY <1>2 DEF Opening
  <2> QED BY <2>2, <2>3, <2>5, <2>6, <2>7
<1> QED BY <1>1, <1>2, PairWays

-----------------------------------------------------------------------------
(* The marks of loops belong to loops of the program, so that what stands in the body
   that a step opens stands so in the program. *)
LoopTodo(typed) ==
    \A i \in DOMAIN todo : todo[i].stmt.op = "next" =>
        \E p \in typed : p[1].op \in {"each", "again"} /\ p[1].body = todo[i].stmt.body

LEMMA LoopStart ==
    ASSUME GatherInit, NEW typed
    PROVE  LoopTodo(typed)
<1> SUFFICES ASSUME NEW i \in DOMAIN todo PROVE todo[i].stmt.op # "next"
  BY DEF LoopTodo
<1> DEFINE n == Len(Programs[module])
<1>1. n \in Nat /\ DOMAIN todo = 1 .. n + 1 /\ todo[n + 1].stmt.op = "end"
  BY StartFrames
<1>2. ASSUME NEW k \in 1 .. n PROVE todo[k].stmt \in Statements
  <2>1. todo[k] = [stmt |-> Programs[module][k], item |-> Outside(k)]
    BY StartFrames
  <2>2. Programs[module] \in Seq(Statements) /\ k \in DOMAIN Programs[module]
    <3>1. Programs[module] \in Seq(Statements)
      BY StartFrames
    <3> QED BY <3>1
  <2> QED BY <2>1, <2>2, BodyRange
<1>3. i \in 1 .. n \/ i = n + 1
  BY <1>1
<1>4. \A s \in Statements : s.op # "next"
  BY ProgramAssumption DEF WellFormed, Marks
<1> QED BY <1>1, <1>2, <1>3, <1>4

LEMMA BodyOfProgram ==
    ASSUME GatherInv, todo # <<>>, NEW typed, NEW heirs, TypedTodo(typed, heirs), LoopTodo(typed),
           stmt.op \in Compound \cup {"next"}
    PROVE  /\ stmt.body \in Bodies(Programs[module], typed)
           /\ stmt.op \in {"each", "again", "next"} =>
                  \E p \in typed : p[1].op \in {"each", "again"} /\ p[1].body = stmt.body
           /\ stmt.op # "next" => \E p \in typed : p[1] = stmt /\ p[2] = item.type
<1>1. todo[1].stmt = stmt /\ todo[1].item = item /\ 1 \in DOMAIN todo
  BY HeadFirst DEF GatherInv
<1>2. stmt.op # "next" => \E p \in typed : p[1] = stmt /\ p[2] = item.type
  <2>1. SUFFICES ASSUME stmt.op # "next"
                 PROVE  \E p \in typed : p[1] = stmt /\ p[2] = item.type
    OBVIOUS
  <2>2. <<stmt, item.type>> \in typed
    BY <1>1, <2>1 DEF TypedTodo, Compound, Marks
  <2>3. PICK p \in typed : p = <<stmt, item.type>>
    BY <2>2
  <2> QED BY <2>3
<1>3. stmt.op = "next" =>
          \E p \in typed : p[1].op \in {"each", "again"} /\ p[1].body = stmt.body
  BY <1>1 DEF LoopTodo
<1>4. \E p \in typed : p[1].op \in Compound /\ p[1].body = stmt.body
  BY <1>2, <1>3 DEF Compound
<1>5. stmt.body \in Bodies(Programs[module], typed)
  BY <1>4 DEF Bodies
<1> QED BY <1>2, <1>3, <1>5

LEMMA LoopStay ==
    ASSUME GatherInv, GatherStep, GatherInv', NEW typed, NEW heirs, TypedTodo(typed, heirs),
           LoopTodo(typed)
    PROVE  LoopTodo(typed)'
<1> SUFFICES ASSUME NEW i \in DOMAIN todo', todo'[i].stmt.op = "next"
             PROVE  \E p \in typed : /\ p[1].op \in {"each", "again"}
                                     /\ p[1].body = todo'[i].stmt.body
  BY DEF LoopTodo
<1>1. ASSUME NEW a, Stays(i, a)
      PROVE  \E p \in typed : /\ p[1].op \in {"each", "again"}
                              /\ p[1].body = todo'[i].stmt.body
  BY <1>1 DEF Stays, LoopTodo
<1>2. ASSUME NEW d \in {0, 1}, NEW x, Opening(x, d)
      PROVE  /\ ~InBodyAt(i, x)
             /\ d = 1 /\ i = Len(stmt.body) + 1 =>
                    \E p \in typed : /\ p[1].op \in {"each", "again"}
                                     /\ p[1].body = todo'[i].stmt.body
  <2>1. ASSUME InBodyAt(i, x) PROVE FALSE
    <3>1. todo'[i].stmt = stmt.body[i] /\ i \in DOMAIN stmt.body
      BY <2>1 DEF InBodyAt
    <3>2. stmt.body[i] \in Statements
      BY <1>2, <3>1, BodyRange DEF Opening
    <3> QED BY <3>1, <3>2, ProgramAssumption DEF WellFormed, Marks
  <2>2. ASSUME d = 1, i = Len(stmt.body) + 1
        PROVE  stmt.op \in {"each", "again", "next"} /\ todo'[i].stmt.body = stmt.body
    BY <1>2, <2>2 DEF Opening, Mark
  <2> QED BY <2>1, <2>2, Grows, BodyOfProgram DEF Compound
<1> QED BY <1>1, <1>2, FrameWays

-----------------------------------------------------------------------------
(* Where an exception may lead out of a body: what stands inside a try. *)
TriedFrame(f, tried) ==
    /\ f.stmt.op \notin Marks => f.stmt \in tried
    /\ f.stmt.op = "next" =>
           \E s \in tried : s.op \in {"each", "again"} /\ s.body = f.stmt.body

TriedTodo(tried) == \A i \in DOMAIN todo : Caught(i) => TriedFrame(todo[i], tried)

LEMMA TriedStart ==
    ASSUME GatherInit, NEW tried
    PROVE  TriedTodo(tried)
<1> SUFFICES ASSUME NEW i \in DOMAIN todo, NEW j \in DOMAIN todo, i < j, j < Len(todo),
                    todo[j].stmt.op \in {"except", "end"}
             PROVE  FALSE
  BY DEF TriedTodo, Caught
<1> DEFINE n == Len(Programs[module])
<1>1. n \in Nat /\ DOMAIN todo = 1 .. n + 1 /\ Len(todo) = n + 1
  BY StartFrames
<1>2. j \in 1 .. n
  <2> HIDE DEF n
  <2> QED BY <1>1
<1>3. todo[j] = [stmt |-> Programs[module][j], item |-> Outside(j)]
  BY <1>2, StartFrames
<1>4. Programs[module] \in Seq(Statements) /\ j \in DOMAIN Programs[module]
  <2>1. Programs[module] \in Seq(Statements)
    BY StartFrames
  <2> QED BY <1>2, <2>1
<1>5. todo[j].stmt \in Statements
  BY <1>3, <1>4, BodyRange
<1> QED BY <1>5, ProgramAssumption DEF WellFormed, Marks

TriedForm(typed, tried) ==
    \A s \in tried \cup {p[1] : p \in {q \in typed : q[1].op \in {"guard", "call"}}} :
        s.op \in Compound => s.body \in Seq(tried)

(* What was opened inside a try, or by one. *)
LEMMA TriedBody ==
    ASSUME GatherInv, todo # <<>>, NEW typed, NEW heirs, NEW tried, TypedTodo(typed, heirs),
           TriedTodo(tried), Caught(1) \/ stmt.op \in {"guard", "call"},
           stmt.op \in Compound \cup {"next"}
    PROVE  \E s \in tried \cup {p[1] : p \in {q \in typed : q[1].op \in {"guard", "call"}}} :
               /\ s.op \in Compound /\ s.body = stmt.body
               /\ stmt.op \in {"each", "again", "next"} => s \in tried /\ s.op \in {"each", "again"}
<1>1. todo[1].stmt = stmt /\ todo[1].item = item /\ 1 \in DOMAIN todo
  BY HeadFirst DEF GatherInv
<1>2. CASE stmt.op \in {"guard", "call"}
  <2>1. <<stmt, item.type>> \in typed
    BY <1>1, <1>2 DEF TypedTodo, Marks
  <2>2. PICK p \in typed : p = <<stmt, item.type>>
    BY <2>1
  <2>3. p[1] = stmt
    BY <2>2
  <2>4. stmt \in {q[1] : q \in {r \in typed : r[1].op \in {"guard", "call"}}}
    BY <1>2, <2>3
  <2> QED BY <1>2, <2>4 DEF Compound
<1>3. CASE Caught(1)
  <2>1. TriedFrame(todo[1], tried)
    BY <1>1, <1>3 DEF TriedTodo
  <2>2. CASE stmt.op = "next"
    <3>1. PICK s \in tried : s.op \in {"each", "again"} /\ s.body = stmt.body
      BY <1>1, <2>1, <2>2 DEF TriedFrame
    <3> QED BY <3>1 DEF Compound
  <2>3. CASE stmt.op # "next"
    <3>1. stmt \in tried /\ stmt.op \in Compound
      BY <1>1, <2>1, <2>3 DEF TriedFrame, Compound, Marks
    <3> QED BY <2>3, <3>1
  <2> QED BY <2>2, <2>3
<1> QED BY <1>2, <1>3

LEMMA TriedStay ==
    ASSUME GatherInv, GatherStep, GatherInv', NEW typed, NEW heirs, NEW tried,
           TypedTodo(typed, heirs), TriedForm(typed, tried), TriedTodo(tried)
    PROVE  TriedTodo(tried)'
<1> SUFFICES ASSUME NEW i \in DOMAIN todo', Caught(i)' PROVE TriedFrame(todo'[i], tried)
  BY DEF TriedTodo, TriedFrame
<1>0. todo # <<>>
  BY Grows
<1>1. ASSUME NEW a, Stays(i, a) PROVE TriedFrame(todo'[i], tried)
  BY <1>1 DEF Stays, TriedTodo
<1>2. ASSUME NEW d \in {0, 1}, NEW x, Opening(x, d), CaughtThere(i)
      PROVE  /\ InBodyAt(i, x) => TriedFrame(todo'[i], tried)
             /\ d = 1 /\ i = Len(stmt.body) + 1 => TriedFrame(todo'[i], tried)
  <2>1. /\ Caught(1) \/ stmt.op \in {"guard", "call"}
        /\ stmt.op \in Compound \cup {"next"}
    BY <1>2 DEF CaughtThere, Opening, Compound
  <2>2. PICK s \in tried \cup {p[1] : p \in {q \in typed : q[1].op \in {"guard", "call"}}} :
            /\ s.op \in Compound /\ s.body = stmt.body
            /\ stmt.op \in {"each", "again", "next"} => s \in tried /\ s.op \in {"each", "again"}
    BY <1>0, <2>1, TriedBody
  <2>3. stmt.body \in Seq(tried)
    BY <2>2 DEF TriedForm
  <2>4. ASSUME InBodyAt(i, x) PROVE TriedFrame(todo'[i], tried)
    <3>1. todo'[i].stmt = stmt.body[i] /\ i \in DOMAIN stmt.body
      BY <2>4 DEF InBodyAt
    <3>2. stmt.body[i] \in tried /\ stmt.body[i] \in Statements
      BY <1>2, <2>3, <3>1, BodyRange DEF Opening
    <3>3. todo'[i].stmt.op \notin Marks
      BY <3>1, <3>2, ProgramAssumption DEF WellFormed
    <3> QED BY <3>1, <3>2, <3>3 DEF TriedFrame, Marks
  <2>5. ASSUME d = 1, i = Len(stmt.body) + 1 PROVE TriedFrame(todo'[i], tried)
    <3>1. CASE todo'[i].stmt.op \in {"except", "end"}
      BY <3>1 DEF TriedFrame, Marks
    <3>2. CASE /\ stmt.op \in {"each", "again", "next"} /\ todo'[i].stmt.op = "next"
               /\ todo'[i].stmt.body = stmt.body
      BY <2>2, <3>2 DEF TriedFrame, Marks
    <3> QED BY <1>2, <2>5, <3>1, <3>2 DEF Opening, Mark
  <2> QED BY <2>4, <2>5
<1> QED BY <1>1, <1>2, FrameWays

-----------------------------------------------------------------------------
(* Inside a try, what may raise comes after what hands resources over. *)
CalmFrame(f, calm) ==
    /\ f.stmt.op \notin Marks => f.stmt \in calm
    /\ f.stmt.op = "next" => f.stmt.body \in Seq(calm)

KeepingFrame(f, keeps) ==
    \/ f.stmt.op \notin Marks /\ Keeping(f.stmt, keeps)
    \/ f.stmt.op = "next" /\ HasOne(f.stmt.body, keeps)

SteadyAt(i, j, keeps, calm) ==
    \/ CalmFrame(todo[i], calm) \/ ~KeepingFrame(todo[j], keeps)
    \/ \E m \in i .. j : todo[m].stmt.op \in {"except", "end"}
    \/ ~Caught(i)

SteadyTodo(keeps, calm) == \A i, j \in DOMAIN todo : i < j => SteadyAt(i, j, keeps, calm)

LEMMA SteadyStart ==
    ASSUME GatherInit, NEW keeps, NEW calm, TriedTodo({})
    PROVE  SteadyTodo(keeps, calm)
<1> SUFFICES ASSUME NEW i \in DOMAIN todo, Caught(i) PROVE CalmFrame(todo[i], calm)
  BY DEF SteadyTodo, SteadyAt
<1>1. TriedFrame(todo[i], {})
  BY DEF TriedTodo
<1> QED BY <1>1 DEF TriedFrame, CalmFrame

LEMMA SteadyStay ==
    ASSUME GatherInv, GatherStep, GatherInv', NEW typed, NEW heirs, NEW keeps, NEW calm, NEW tried,
           TypedTodo(typed, heirs), RaisesLate(typed, keeps, calm, tried),
           TriedTodo(tried), SteadyTodo(keeps, calm)
    PROVE  SteadyTodo(keeps, calm)'
<1> SUFFICES ASSUME NEW i \in DOMAIN todo', NEW j \in DOMAIN todo', i < j
             PROVE  SteadyAt(i, j, keeps, calm)'
  BY DEF SteadyTodo
<1>0. /\ todo # <<>> /\ todo[1].item = item /\ todo[1].stmt = stmt
      /\ DOMAIN todo = 1 .. Len(todo)
  BY Grows, HeadFirst DEF GatherInv
<1>1. CASE PairStays(i, j)
  <2>1. PICK a, b : Stays(i, a) /\ Stays(j, b) /\ a < b /\ Between(a, b, i, j)
    BY <1>1 DEF PairStays
  <2>2. SteadyAt(a, b, keeps, calm)
    BY <2>1 DEF SteadyTodo, Stays
  <2>3. ASSUME NEW m \in a .. b, todo[m].stmt.op \in {"except", "end"}
        PROVE  SteadyAt(i, j, keeps, calm)'
    BY <2>1, <2>3 DEF Between, SteadyAt
  <2> QED BY <2>1, <2>2, <2>3 DEF SteadyAt, Stays, CalmFrame, KeepingFrame
<1>2. ASSUME NEW d \in {0, 1}, NEW x, Opening(x, d), PairOpens(i, j, x, d), Caught(i)'
      PROVE  SteadyAt(i, j, keeps, calm)'
  <2> DEFINE n == Len(stmt.body)
  <2>0. /\ stmt.op \in Compound \cup {"next"} /\ stmt.body \in Seq(Statements)
        /\ Caught(1) \/ stmt.op \in {"guard", "call"}
    BY <1>2 DEF Opening, PairOpens, CaughtThere, Compound
  <2>1. PICK s \in tried \cup {p[1] : p \in {q \in typed : q[1].op \in {"guard", "call"}}} :
            /\ s.op \in Compound /\ s.body = stmt.body
            /\ stmt.op \in {"each", "again", "next"} => s \in tried /\ s.op \in {"each", "again"}
    BY <1>0, <2>0, TriedBody
  <2>2. Steady(stmt.body, keeps, calm)
    BY <2>1 DEF RaisesLate
  <2>3. ASSUME NEW k, InBodyAt(k, x)
        PROVE  /\ k \in DOMAIN stmt.body /\ todo'[k].stmt = stmt.body[k]
               /\ todo'[k].stmt.op \notin Marks
    <3>1. k \in DOMAIN stmt.body /\ todo'[k].stmt = stmt.body[k]
      BY <2>3 DEF InBodyAt
    <3>2. stmt.body[k] \in Statements
      BY <2>0, <3>1, BodyRange
    <3> QED BY <3>1, <3>2, ProgramAssumption DEF WellFormed
  <2>4. CASE InBodyAt(i, x) /\ InBodyAt(j, x)
    <3>1. stmt.body[i] \in calm \/ ~Keeping(stmt.body[j], keeps)
      BY <1>2, <2>2, <2>3, <2>4 DEF Steady
    <3>2. CalmFrame(todo'[i], calm) \/ ~KeepingFrame(todo'[j], keeps)
      BY <2>3, <2>4, <3>1 DEF CalmFrame, KeepingFrame, Marks
    <3> QED BY <3>2 DEF SteadyAt, CalmFrame, KeepingFrame
  <2>5. ASSUME d = 1, n + 1 \in i .. j, stmt.op \in {"guard", "call"}
        PROVE  SteadyAt(i, j, keeps, calm)'
    <3>1. todo'[n + 1].stmt.op \in {"except", "end"}
      BY <1>2, <2>5 DEF Opening, Mark
    <3> QED BY <2>5, <3>1 DEF SteadyAt
  <2>6. ASSUME InBodyAt(i, x), stmt.body \in Seq(calm) PROVE CalmFrame(todo'[i], calm)
    <3>1. stmt.body[i] \in calm
      BY <2>3, <2>6, BodyRange
    <3> QED BY <2>3, <2>6, <3>1 DEF CalmFrame, Marks
  <2>7. CASE InBodyAt(i, x) /\ d = 1 /\ j = n + 1
    <3>1. CASE stmt.op \in {"guard", "call"}
      <4>1. n + 1 \in i .. j
        <5>1. i \in Nat /\ n \in Nat
          <6>1. Len(todo') \in Nat /\ DOMAIN todo' = 1 .. Len(todo')
            BY DEF GatherInv, TodoInv
          <6> QED BY <1>2, <6>1 DEF Opening
        <5> HIDE DEF n
        <5> QED BY <2>7, <5>1
      <4> QED BY <2>5, <2>7, <3>1, <4>1
    <3>2. CASE stmt.op \in {"each", "again", "next"}
      <4>1. stmt.body \in Seq(calm) \/ ~HasOne(stmt.body, keeps)
        BY <2>1, <3>2 DEF RaisesLate
      <4>2. todo'[j].stmt.op = "next" /\ todo'[j].stmt.body = stmt.body
        BY <1>2, <2>7, <3>2 DEF Opening, Mark
      <4>3. ASSUME ~HasOne(stmt.body, keeps) PROVE ~KeepingFrame(todo'[j], keeps)
        BY <4>2, <4>3 DEF KeepingFrame, Marks
      <4>4. CalmFrame(todo'[i], calm) \/ ~KeepingFrame(todo'[j], keeps)
        BY <2>6, <2>7, <4>1, <4>3
      <4> QED BY <4>4 DEF SteadyAt, CalmFrame, KeepingFrame
    <3> QED BY <1>2, <2>7, <3>1, <3>2 DEF Opening
  <2>8. CASE /\ \E b \in 2 .. Len(todo) : Stays(j, b) /\ Between(2, b, i, j)
             /\ d = 1 => n + 1 \in i .. j
    <3>1. PICK b \in 2 .. Len(todo) : Stays(j, b) /\ Between(2, b, i, j)
      BY <2>8
    <3>2. CASE stmt.op \in {"guard", "call"}
      BY <1>2, <2>5, <2>8, <3>2 DEF Opening
    <3>3. CASE stmt.op \notin {"guard", "call"}
      <4>1. 1 \in DOMAIN todo /\ b \in DOMAIN todo /\ 1 < b /\ Caught(1)
        BY <1>0, <2>0, <3>1, <3>3
      <4>2. SteadyAt(1, b, keeps, calm)
        BY <4>1 DEF SteadyTodo
      <4>3. ASSUME NEW m \in 1 .. b, todo[m].stmt.op \in {"except", "end"}
            PROVE  SteadyAt(i, j, keeps, calm)'
        <5>1. m # 1
          BY <1>0, <2>0, <4>3 DEF Compound
        <5>2. m \in 2 .. b
          BY <5>1
        <5> QED BY <3>1, <4>3, <5>2 DEF Between, SteadyAt
      <4>4. ASSUME CalmFrame(todo[1], calm) PROVE CalmFrame(todo'[i], calm)
        <5>1. stmt.body \in Seq(calm)
          <6>1. CASE stmt.op = "next"
            BY <1>0, <4>4, <6>1 DEF CalmFrame
          <6>2. CASE stmt.op # "next"
            <7>1. stmt \in calm /\ stmt.op \in Compound \ {"guard", "call"}
              BY <1>0, <2>0, <3>3, <4>4, <6>2 DEF CalmFrame, Compound, Marks
            <7> QED BY <7>1 DEF RaisesLate
          <6> QED BY <6>1, <6>2
        <5>2. CASE InBodyAt(i, x)
          BY <2>6, <5>1, <5>2
        <5>3. CASE d = 1 /\ i = n + 1
          <6>1. todo'[i].stmt.op = "next" /\ todo'[i].stmt.body = stmt.body
            BY <1>2, <3>3, <5>3 DEF Opening, Mark
          <6> QED BY <5>1, <6>1 DEF CalmFrame, Marks
        <5> QED BY <1>2, <5>2, <5>3 DEF PairOpens
      <4>5. ~KeepingFrame(todo[b], keeps) => ~KeepingFrame(todo'[j], keeps)
        BY <3>1 DEF Stays
      <4>6. CalmFrame(todo'[i], calm) \/ ~KeepingFrame(todo'[j], keeps) =>
                SteadyAt(i, j, keeps, calm)'
        BY DEF SteadyAt, CalmFrame, KeepingFrame
      <4> QED BY <4>1, <4>2, <4>3, <4>4, <4>5, <4>6 DEF SteadyAt
    <3> QED BY <3>2, <3>3
  <2> QED BY <1>2, <2>4, <2>7, <2>8 DEF PairOpens
<1>3. ~Caught(i)' => SteadyAt(i, j, keeps, calm)'
  BY DEF SteadyAt
<1> QED BY <1>1, <1>2, <1>3, PairWays

-----------------------------------------------------------------------------
(* `return` comes before anything is listed. *)
QuietFrame(f, quiet) ==
    /\ f.stmt.op \notin Marks => f.stmt \in quiet
    /\ f.stmt.op = "next" => f.stmt.body \in Seq(quiet)

LateTodo(quiet, late) ==
    \A i, j \in DOMAIN todo : i < j => QuietFrame(todo[i], quiet) \/ QuietFrame(todo[j], late)

NothingListed(late) == Candidates = {} \/ \A i \in DOMAIN todo : QuietFrame(todo[i], late)

LEMMA LateStart ==
    ASSUME GatherInit, NEW typed, NEW quiet, NEW late,
           Precedes(Programs[module], typed, quiet, late)
    PROVE  LateTodo(quiet, late) /\ NothingListed(late)
<1>1. NothingListed(late)
  BY DEF GatherInit, NothingListed, Candidates
<1> SUFFICES ASSUME NEW i \in DOMAIN todo, NEW j \in DOMAIN todo, i < j
             PROVE  QuietFrame(todo[i], quiet) \/ QuietFrame(todo[j], late)
  BY <1>1 DEF LateTodo
<1> DEFINE n == Len(Programs[module])
<1>2. /\ n \in Nat /\ DOMAIN todo = 1 .. n + 1 /\ Programs[module] \in Seq(Statements)
      /\ todo[n + 1].stmt.op = "end"
  BY StartFrames
<1>3. ASSUME NEW k \in 1 .. n
      PROVE  /\ k \in DOMAIN Programs[module] /\ todo[k].stmt = Programs[module][k]
             /\ todo[k].stmt.op \notin Marks
  <2>1. todo[k] = [stmt |-> Programs[module][k], item |-> Outside(k)]
    BY StartFrames
  <2>2. k \in DOMAIN Programs[module] /\ todo[k].stmt = Programs[module][k]
    BY <1>2, <2>1
  <2>3. todo[k].stmt \in Statements
    BY <1>2, <2>2, BodyRange
  <2> QED BY <2>2, <2>3, ProgramAssumption DEF WellFormed
<1>4. i \in 1 .. n /\ (j \in 1 .. n \/ j = n + 1)
  <2> HIDE DEF n
  <2> QED BY <1>2
<1>5. CASE j = n + 1
  BY <1>2, <1>5 DEF QuietFrame, Marks
<1>6. CASE j \in 1 .. n
  <2>1. Programs[module][i] \in quiet \/ Programs[module][j] \in late
    BY <1>3, <1>4, <1>6 DEF Precedes, Bodies
  <2> QED BY <1>3, <1>4, <1>6, <2>1 DEF QuietFrame, Marks
<1> QED BY <1>4, <1>5, <1>6

(* A closed set of statements holds whatever is opened by one of them. *)
LEMMA QuietOpened ==
    ASSUME GatherInv, todo # <<>>, NEW set, NEW x, NEW d, Opening(x, d), stmt.body \in Seq(set),
           NEW i, InBodyAt(i, x) \/ (d = 1 /\ i = Len(stmt.body) + 1)
    PROVE  QuietFrame(todo'[i], set)
<1>1. CASE InBodyAt(i, x)
  <2>1. todo'[i].stmt = stmt.body[i] /\ i \in DOMAIN stmt.body
    BY <1>1 DEF InBodyAt
  <2>2. stmt.body[i] \in set /\ stmt.body[i] \in Statements
    BY <2>1, BodyRange DEF Opening
  <2>3. todo'[i].stmt.op \notin Marks
    BY <2>1, <2>2, ProgramAssumption DEF WellFormed
  <2> QED BY <2>1, <2>2, <2>3 DEF QuietFrame, Marks
<1>2. CASE d = 1 /\ i = Len(stmt.body) + 1
  <2>1. todo'[i].stmt.op \in Marks /\ (todo'[i].stmt.op = "next" => todo'[i].stmt.body = stmt.body)
    BY <1>2 DEF Opening, Mark, Marks
  <2> QED BY <2>1 DEF QuietFrame
<1> QED BY <1>1, <1>2

LEMMA QuietHead ==
    ASSUME GatherInv, todo # <<>>, NEW set, ClosedIn(set), QuietFrame(todo[1], set),
           stmt.op \in Compound \cup {"next"}
    PROVE  stmt.body \in Seq(set)
<1>1. todo[1].stmt = stmt
  BY HeadFirst DEF GatherInv
<1> QED BY <1>1 DEF QuietFrame, ClosedIn, Compound, Marks

LEMMA LateStay ==
    ASSUME GatherInv, GatherStep, GatherInv', NEW typed, NEW heirs, NEW quiet, NEW late,
           TypedTodo(typed, heirs), LoopTodo(typed),
           Precedes(Programs[module], typed, quiet, late), LateTodo(quiet, late)
    PROVE  LateTodo(quiet, late)'
<1> SUFFICES ASSUME NEW i \in DOMAIN todo', NEW j \in DOMAIN todo', i < j
             PROVE  QuietFrame(todo'[i], quiet) \/ QuietFrame(todo'[j], late)
  BY DEF LateTodo, QuietFrame
<1>0. /\ todo # <<>> /\ todo[1].stmt = stmt /\ DOMAIN todo = 1 .. Len(todo)
      /\ ClosedIn(quiet) /\ ClosedIn(late)
  BY Grows, HeadFirst DEF GatherInv, Precedes, ClosedIn
<1>1. CASE PairStays(i, j)
  BY <1>1 DEF PairStays, Stays, LateTodo
<1>2. ASSUME NEW d \in {0, 1}, NEW x, Opening(x, d), PairOpens(i, j, x, d)
      PROVE  QuietFrame(todo'[i], quiet) \/ QuietFrame(todo'[j], late)
  <2> DEFINE n == Len(stmt.body)
  <2>0. stmt.op \in Compound \cup {"next"} /\ stmt.body \in Seq(Statements)
    BY <1>2 DEF Opening, Compound
  <2>1. /\ stmt.body \in Bodies(Programs[module], typed)
        /\ stmt.op \in {"each", "again", "next"} =>
               \E p \in typed : p[1].op \in {"each", "again"} /\ p[1].body = stmt.body
    BY <1>0, <2>0, BodyOfProgram
  <2>2. CASE InBodyAt(i, x) /\ InBodyAt(j, x)
    <3>1. /\ i \in DOMAIN stmt.body /\ todo'[i].stmt = stmt.body[i]
          /\ j \in DOMAIN stmt.body /\ todo'[j].stmt = stmt.body[j]
      BY <2>2 DEF InBodyAt
    <3>2. stmt.body[i] \in quiet \/ stmt.body[j] \in late
      BY <1>2, <2>1, <3>1 DEF Precedes
    <3>3. stmt.body[i].op \notin Marks /\ stmt.body[j].op \notin Marks
      BY <2>0, <3>1, BodyRange, ProgramAssumption DEF WellFormed
    <3> QED BY <3>1, <3>2, <3>3 DEF QuietFrame, Marks
  <2>3. CASE InBodyAt(i, x) /\ d = 1 /\ j = n + 1
    <3>1. CASE stmt.op \in {"guard", "call"}
      <4>1. todo'[j].stmt.op \in {"except", "end"}
        BY <1>2, <2>3, <3>1 DEF Opening, Mark
      <4> QED BY <4>1 DEF QuietFrame, Marks
    <3>2. CASE stmt.op \in {"each", "again", "next"}
      <4>1. PICK p \in typed : p[1].op \in {"each", "again"} /\ p[1].body = stmt.body
        BY <2>1, <3>2
      <4>2. p[1] \in quiet \/ stmt.body \in Seq(late)
        BY <4>1 DEF Precedes
      <4>3. stmt.body \in Seq(quiet) \/ stmt.body \in Seq(late)
        BY <1>0, <4>1, <4>2 DEF ClosedIn, Compound
      <4> QED BY <1>0, <1>2, <2>3, <4>3, QuietOpened
    <3> QED BY <1>2, <2>3, <3>1, <3>2 DEF Opening
  <2>4. CASE \E b \in 2 .. Len(todo) : Stays(j, b) /\ Between(2, b, i, j)
    <3>1. PICK b \in 2 .. Len(todo) : Stays(j, b)
      BY <2>4
    <3>2. 1 \in DOMAIN todo /\ b \in DOMAIN todo /\ 1 < b
      BY <1>0, <3>1
    <3>3. QuietFrame(todo[1], quiet) \/ QuietFrame(todo[b], late)
      BY <3>2 DEF LateTodo
    <3>4. ASSUME QuietFrame(todo[1], quiet) PROVE QuietFrame(todo'[i], quiet)
      <4>1. stmt.body \in Seq(quiet)
        BY <1>0, <2>0, <3>4, QuietHead
      <4> QED BY <1>0, <1>2, <4>1, QuietOpened DEF PairOpens
    <3> QED BY <3>1, <3>3, <3>4 DEF Stays
  <2> QED BY <1>2, <2>2, <2>3, <2>4 DEF PairOpens
<1> QED BY <1>1, <1>2, PairWays

LEMMA NothingListedStays ==
    ASSUME GatherInv, GatherStep, GatherInv', NEW typed, NEW heirs, NEW quiet, NEW late,
           TypedTodo(typed, heirs), LoopTodo(typed),
           ReturnsEarly(Programs[module], typed, quiet, late), LateTodo(quiet, late),
           NothingListed(late)
    PROVE  NothingListed(late)'
<1>0. /\ todo # <<>> /\ todo[1].stmt = stmt /\ DOMAIN todo = 1 .. Len(todo)
      /\ 1 \in DOMAIN todo /\ ClosedIn(quiet) /\ ClosedIn(late)
  BY Grows, HeadFirst DEF GatherInv, ReturnsEarly, Precedes
<1>1. CASE Candidates' = {}
  BY <1>1 DEF NothingListed
<1>2. CASE \A i \in DOMAIN todo : QuietFrame(todo[i], late)
  <2>1. ASSUME NEW i \in DOMAIN todo' PROVE QuietFrame(todo'[i], late)
    <3>1. ASSUME NEW a, Stays(i, a) PROVE QuietFrame(todo'[i], late)
      BY <1>2, <3>1 DEF Stays
    <3>2. ASSUME NEW d \in {0, 1}, NEW x, Opening(x, d),
                 InBodyAt(i, x) \/ (d = 1 /\ i = Len(stmt.body) + 1)
          PROVE  QuietFrame(todo'[i], late)
      <4>1. stmt.op \in Compound \cup {"next"}
        BY <3>2 DEF Opening, Compound
      <4>2. stmt.body \in Seq(late)
        BY <1>0, <1>2, <4>1, QuietHead
      <4> QED BY <1>0, <3>2, <4>2, QuietOpened
    <3> QED BY <3>1, <3>2, FrameWays
  <2> QED BY <2>1 DEF NothingListed, QuietFrame
<1>3. CASE Candidates = {} /\ Candidates' # {}
  <2>1. /\ listed' # listed /\ stmt.op = "each" /\ stmt \in Statements
        /\ \A x \in listed' : x \in listed \/ Came(x)
    BY <1>3, ListedGrows DEF Candidates
  <2>2. ~stmt.aside
    <3>1. PICK x \in listed' : ~x.aside /\ x \notin listed
      BY <1>3 DEF Candidates
    <3>2. x = NewItem(x.n, x.intent)
      BY <2>1, <3>1 DEF Came
    <3>3. x.aside = stmt.aside
      BY <3>2 DEF NewItem
    <3> QED BY <3>1, <3>3
  <2>3. stmt \notin quiet
    BY <2>1, <2>2 DEF ReturnsEarly
  <2>4. \A b \in 2 .. Len(todo) : QuietFrame(todo[b], late)
    <3>1. SUFFICES ASSUME NEW b \in 2 .. Len(todo) PROVE QuietFrame(todo[b], late)
      OBVIOUS
    <3>2. b \in DOMAIN todo /\ 1 < b
      BY <1>0
    <3>3. ~QuietFrame(todo[1], quiet)
      BY <1>0, <2>1, <2>3 DEF QuietFrame, Marks
    <3> QED BY <1>0, <3>2, <3>3 DEF LateTodo
  <2>5. stmt.body \in Seq(late)
    <3>1. PICK p \in typed : p[1] = stmt
      BY <1>0, <2>1, BodyOfProgram DEF Compound
    <3> QED BY <2>1, <2>3, <3>1 DEF ReturnsEarly, Precedes
  <2>6. ASSUME NEW i \in DOMAIN todo' PROVE QuietFrame(todo'[i], late)
    <3>1. CASE Enters
      <4>1. PICK d, x : d \in {0, 1} /\ Opening(x, d)
        BY <1>0, <3>1, OpeningFound
      <4>2. \/ InBodyAt(i, x)
            \/ d = 1 /\ i = Len(stmt.body) + 1
            \/ \E b \in 2 .. Len(todo) : Stays(i, b)
        BY <1>0, <4>1, OpenedStays
      <4>3. ASSUME NEW b \in 2 .. Len(todo), Stays(i, b) PROVE QuietFrame(todo'[i], late)
        BY <2>4, <4>3 DEF Stays
      <4> QED BY <1>0, <2>5, <4>1, <4>2, <4>3, QuietOpened
    <3>2. ASSUME NEW k, Leaves(k) PROVE QuietFrame(todo'[i], late)
      <4>1. k + i - 1 \in 2 .. Len(todo) /\ todo'[i] = todo[k + i - 1]
        BY <1>0, <3>2, LeftAt
      <4> QED BY <2>4, <4>1
    <3> QED BY <3>1, <3>2, StepForm
  <2> QED BY <2>6 DEF NothingListed, QuietFrame
<1> QED BY <1>1, <1>2, <1>3 DEF NothingListed

-----------------------------------------------------------------------------
(* What comes after a frame that stays comes after it still. *)
Followed(i, a) ==
    /\ Stays(i, a)
    /\ \A b \in DOMAIN todo : a < b =>
           \E j \in DOMAIN todo' : i < j /\ todo'[j] = todo[b]

LEMMA FollowWays ==
    ASSUME GatherInv, GatherStep, GatherInv', NEW i \in DOMAIN todo'
    PROVE  \/ \E a : Followed(i, a)
           \/ \E d \in {0, 1} : \E x :
                 /\ Opening(x, d)
                 /\ \/ /\ InBodyAt(i, x)
                       /\ \A j \in DOMAIN stmt.body : j \in DOMAIN todo' /\ InBodyAt(j, x)
                    \/ d = 1 /\ i = Len(stmt.body) + 1
<1>0. todo # <<>>
  BY Grows
<1>1. ASSUME NEW k, Leaves(k) PROVE \E a : Followed(i, a)
  <2>1. Stays(i, k + i - 1)
    BY <1>0, <1>1, LeftStays
  <2>2. /\ i \in Nat /\ Len(todo) \in Nat \ {0} /\ DOMAIN todo = 1 .. Len(todo)
        /\ k \in 2 .. Len(todo) + 1
        /\ \A j \in k .. Len(todo) : j - k + 1 \in DOMAIN todo' /\ todo'[j - k + 1] = todo[j]
    BY <1>0, <1>1, LeftAt
  <2>3. i \in 1 .. Len(todo')
    BY <1>0, <1>1, LeftAt
  <2>4. ASSUME NEW b \in DOMAIN todo, k + i - 1 < b
        PROVE  \E j \in DOMAIN todo' : i < j /\ todo'[j] = todo[b]
    <3>1. b \in k .. Len(todo) /\ i < b - k + 1
      BY <2>2, <2>3, <2>4
    <3> QED BY <2>2, <3>1
  <2> QED BY <2>1, <2>4 DEF Followed
<1>2. CASE Enters
  <2>1. PICK d, x : d \in {0, 1} /\ Opening(x, d)
    BY <1>0, <1>2, OpeningFound
  <2> DEFINE n == Len(stmt.body)
  <2>2. \/ InBodyAt(i, x)
        \/ d = 1 /\ i = n + 1
        \/ \E b \in 2 .. Len(todo) : i = n + d + b - 1 /\ Stays(i, b)
    BY <1>0, <2>1, OpenedStays
  <2>3. /\ d \in {0, 1} /\ Opens(x, d) /\ n \in Nat /\ Len(todo) > 1
        /\ stmt.body \in Seq(Statements)
    BY <2>1 DEF Opening
  <2>4. /\ Len(todo) \in Nat \ {0} /\ Len(todo') = n + d + Len(todo) - 1
        /\ DOMAIN todo = 1 .. Len(todo) /\ DOMAIN todo' = 1 .. Len(todo')
        /\ \A m \in 2 .. Len(todo) :
               n + d + m - 1 \in DOMAIN todo' /\ todo'[n + d + m - 1] = todo[m]
    <3>1. Placed(i, x, d)
      BY <1>0, <2>3, OpenedAt
    <3> QED BY <3>1 DEF Placed
  <2>5. ASSUME NEW a \in 2 .. Len(todo), i = n + d + a - 1, Stays(i, a) PROVE Followed(i, a)
    <3>1. ASSUME NEW b \in DOMAIN todo, a < b
          PROVE  \E j \in DOMAIN todo' : i < j /\ todo'[j] = todo[b]
      <4>1. b \in 2 .. Len(todo) /\ i < n + d + b - 1
        <5> HIDE DEF n
        <5> QED BY <2>3, <2>4, <2>5, <3>1
      <4> QED BY <2>4, <4>1
    <3> QED BY <2>5, <3>1 DEF Followed
  <2>6. \A j \in DOMAIN stmt.body : j \in DOMAIN todo' /\ InBodyAt(j, x)
    <3>1. SUFFICES ASSUME NEW j \in DOMAIN stmt.body PROVE j \in DOMAIN todo' /\ InBodyAt(j, x)
      OBVIOUS
    <3>2. j \in 1 .. n
      BY <2>3
    <3>3. j \in 1 .. Len(todo')
      <4> HIDE DEF n
      <4> QED BY <2>3, <2>4, <3>2
    <3> QED BY <2>3, <2>4, <3>2, <3>3 DEF Opens, InBodyAt
  <2> QED BY <2>1, <2>2, <2>5, <2>6
<1> QED BY <1>1, <1>2, StepForm

(* What is listed and not handed over in the same loop is so in a later one; and a
   resource whose tags are looked up is handed over after that. *)
NeedsMore(s, keeps, told) ==
    \/ s.op = "each" /\ ~s.aside /\ ~HasOne(s.body, keeps)
    \/ told /\ s.op = "fetch" /\ s.what = "tags"

Answers(s, t, keeps) ==
    \/ s.op = "each" /\ t.op = "again" /\ t.what = s.what /\ HasOne(t.body, keeps)
    \/ s.op = "fetch" /\ t \in keeps

AnsweredAt(i, keeps) ==
    \E j \in DOMAIN todo : /\ i < j /\ Answers(todo[i].stmt, todo[j].stmt, keeps)
                           /\ AsOne(todo[i].item, todo[j].item)

AnsweredTodo(keeps, told) ==
    \A i \in DOMAIN todo : NeedsMore(todo[i].stmt, keeps, told) => AnsweredAt(i, keeps)

LEMMA AnsweredBody ==
    ASSUME NEW program, NEW typed, NEW keeps, NEW told \in BOOLEAN,
           HandsOver(program, typed, keeps), told => TellsOfItems(program, typed, keeps),
           NEW body \in Bodies(program, typed), NEW i \in DOMAIN body,
           NeedsMore(body[i], keeps, told)
    PROVE  \E j \in DOMAIN body : i < j /\ Answers(body[i], body[j], keeps)
<1>1. CASE body[i].op = "each" /\ ~body[i].aside /\ ~HasOne(body[i].body, keeps)
  <2>1. PICK j \in DOMAIN body :
            /\ i < j /\ body[j].op = "again" /\ body[j].what = body[i].what
            /\ HasOne(body[j].body, keeps)
    BY <1>1 DEF HandsOver
  <2> QED BY <1>1, <2>1 DEF Answers
<1>2. CASE told /\ body[i].op = "fetch" /\ body[i].what = "tags"
  <2>1. PICK j \in DOMAIN body : i < j /\ body[j] \in keeps
    BY <1>2 DEF TellsOfItems
  <2> QED BY <1>2, <2>1 DEF Answers
<1> QED BY <1>1, <1>2 DEF NeedsMore

LEMMA NoMoreAtMarks ==
    ASSUME NEW s, s.op \in Marks, NEW keeps, NEW told
    PROVE  ~NeedsMore(s, keeps, told)
BY DEF NeedsMore, Marks

LEMMA AnsweredStart ==
    ASSUME GatherInit, NEW typed, NEW keeps, NEW told \in BOOLEAN,
           HandsOver(Programs[module], typed, keeps),
           told => TellsOfItems(Programs[module], typed, keeps)
    PROVE  AnsweredTodo(keeps, told)
<1> SUFFICES ASSUME NEW i \in DOMAIN todo, NeedsMore(todo[i].stmt, keeps, told)
             PROVE  AnsweredAt(i, keeps)
  BY DEF AnsweredTodo
<1> DEFINE n == Len(Programs[module])
<1>1. /\ n \in Nat /\ DOMAIN todo = 1 .. n + 1 /\ Programs[module] \in Seq(Statements)
      /\ todo[n + 1].stmt.op = "end"
  BY StartFrames
<1>2. ASSUME NEW k \in 1 .. n
      PROVE  /\ k \in DOMAIN Programs[module] /\ todo[k].stmt = Programs[module][k]
             /\ todo[k].item \in Outsides
  <2>1. todo[k] = [stmt |-> Programs[module][k], item |-> Outside(k)]
    BY StartFrames
  <2>2. todo[k].stmt = Programs[module][k] /\ todo[k].item = Outside(k) /\ k \in Nat
    BY <1>1, <2>1
  <2>3. k \in DOMAIN Programs[module]
    BY <1>1
  <2> QED BY <2>2, <2>3 DEF Outsides
<1>3. i \in 1 .. n
  <2>1. i # n + 1
    BY <1>1, NoMoreAtMarks DEF Marks
  <2> HIDE DEF n
  <2> QED BY <1>1, <2>1
<1>4. NeedsMore(Programs[module][i], keeps, told) /\ i \in DOMAIN Programs[module]
  BY <1>2, <1>3
<1>5. PICK j \in DOMAIN Programs[module] :
          i < j /\ Answers(Programs[module][i], Programs[module][j], keeps)
  <2>1. Programs[module] \in Bodies(Programs[module], typed)
    BY DEF Bodies
  <2> QED BY <1>4, <2>1, AnsweredBody
<1>6. j \in 1 .. n /\ j \in DOMAIN todo
  BY <1>1
<1> QED BY <1>2, <1>3, <1>5, <1>6 DEF AnsweredAt, AsOne

LEMMA AnsweredStay ==
    ASSUME GatherInv, GatherStep, GatherInv', NEW typed, NEW heirs, NEW keeps, NEW told \in BOOLEAN,
           TypedTodo(typed, heirs), LoopTodo(typed),
           HandsOver(Programs[module], typed, keeps),
           told => TellsOfItems(Programs[module], typed, keeps), AnsweredTodo(keeps, told)
    PROVE  AnsweredTodo(keeps, told)'
<1> SUFFICES ASSUME NEW i \in DOMAIN todo', NeedsMore(todo'[i].stmt, keeps, told)
             PROVE  AnsweredAt(i, keeps)'
  BY DEF AnsweredTodo
<1>0. todo # <<>>
  BY Grows
<1>1. ASSUME NEW a, Followed(i, a) PROVE AnsweredAt(i, keeps)'
  <2>1. a \in DOMAIN todo /\ todo'[i] = todo[a]
    BY <1>1 DEF Followed, Stays
  <2>2. PICK b \in DOMAIN todo : /\ a < b /\ Answers(todo[a].stmt, todo[b].stmt, keeps)
                                 /\ AsOne(todo[a].item, todo[b].item)
    BY <2>1 DEF AnsweredTodo, AnsweredAt
  <2>3. PICK j \in DOMAIN todo' : i < j /\ todo'[j] = todo[b]
    BY <1>1, <2>2 DEF Followed
  <2> QED BY <2>1, <2>2, <2>3 DEF AnsweredAt
<1>2. ASSUME NEW d \in {0, 1}, NEW x, Opening(x, d), InBodyAt(i, x),
             \A j \in DOMAIN stmt.body : j \in DOMAIN todo' /\ InBodyAt(j, x)
      PROVE  AnsweredAt(i, keeps)'
  <2>1. stmt.op \in Compound \cup {"next"}
    BY <1>2 DEF Opening, Compound
  <2>2. stmt.body \in Bodies(Programs[module], typed)
    BY <1>0, <2>1, BodyOfProgram
  <2>3. ASSUME NEW j \in DOMAIN stmt.body
        PROVE  todo'[j].stmt = stmt.body[j] /\ todo'[j].item = x
    <3>1. todo'[j] = [stmt |-> stmt.body[j], item |-> x]
      BY <1>2, <2>3 DEF InBodyAt
    <3> QED BY <3>1
  <2>4. i \in DOMAIN stmt.body /\ NeedsMore(stmt.body[i], keeps, told)
    BY <1>2, <2>3 DEF InBodyAt
  <2>5. PICK j \in DOMAIN stmt.body : i < j /\ Answers(stmt.body[i], stmt.body[j], keeps)
    BY <2>2, <2>4, AnsweredBody
  <2> QED BY <1>2, <2>3, <2>4, <2>5 DEF AnsweredAt, AsOne
<1>3. ASSUME NEW d \in {0, 1}, NEW x, Opening(x, d), d = 1, i = Len(stmt.body) + 1 PROVE FALSE
  <2>1. todo'[i].stmt.op \in Marks
    BY <1>3 DEF Opening, Mark, Marks
  <2> QED BY <2>1, NoMoreAtMarks
<1> QED BY <1>1, <1>2, <1>3, FollowWays

-----------------------------------------------------------------------------
(* The last of what is left is always the end of run()'s own try. *)
EndsInGather ==
    todo # <<>> => todo[Len(todo)].stmt.what = "gather" /\ todo[Len(todo)].item.n = 0

LEMMA EndsInGatherStart == GatherInit => EndsInGather
<1> SUFFICES ASSUME GatherInit PROVE EndsInGather
  OBVIOUS
<1>1. todo[Len(todo)].stmt.what = "gather" /\ todo[Len(todo)].item = Outside(0)
  BY StartFrames
<1> QED BY <1>1 DEF EndsInGather, Outside

LEMMA EndsInGatherStays ==
    ASSUME GatherInv, GatherStep, GatherInv', EndsInGather
    PROVE  EndsInGather'
<1>0. todo # <<>> /\ Len(todo) \in Nat \ {0} /\ DOMAIN todo = 1 .. Len(todo)
  BY Grows, HeadFirst DEF GatherInv
<1> SUFFICES ASSUME todo' # <<>> PROVE todo'[Len(todo')] = todo[Len(todo)]
  BY <1>0 DEF EndsInGather
<1>1. Len(todo') \in DOMAIN todo' /\ DOMAIN todo' = 1 .. Len(todo')
  BY DEF GatherInv, TodoInv
<1>2. ASSUME NEW k, Leaves(k) PROVE todo'[Len(todo')] = todo[Len(todo)]
  <2>1. /\ k + Len(todo') - 1 \in 2 .. Len(todo) /\ todo'[Len(todo')] = todo[k + Len(todo') - 1]
        /\ Len(todo') = Len(todo) - k + 1 /\ k \in 2 .. Len(todo) + 1
    BY <1>0, <1>1, <1>2, LeftAt
  <2>2. k + Len(todo') - 1 = Len(todo)
    BY <1>0, <2>1
  <2> QED BY <2>1, <2>2
<1>3. CASE Enters
  <2>1. PICK d, x : d \in {0, 1} /\ Opening(x, d)
    BY <1>0, <1>3, OpeningFound
  <2>2. Opens(x, d) /\ Len(todo) > 1
    BY <2>1 DEF Opening
  <2>3. Len(todo) \in 2 .. Len(todo) /\ Len(todo') = Len(stmt.body) + d + Len(todo) - 1
    BY <1>0, <2>2 DEF Opens
  <2> QED BY <2>2, <2>3 DEF Opens
<1> QED BY <1>2, <1>3, StepForm

-----------------------------------------------------------------------------
(* Only a resource without tags, or one that comes with them, may be listed in two
   places. *)
TagsOfOne(typed, plain) ==
    /\ \A x, y \in listed : x.n = y.n /\ x.intent.full =>
           x = y \/ (x.type = y.type /\ Inline(typed, x.type))
    /\ \A x \in listed : x.type \in plain => x.intent = NoIntent

LEMMA TagsOfOneStay ==
    ASSUME GatherInv, GatherStep, GatherInv', NEW typed, NEW heirs, NEW plain,
           TypedTodo(typed, heirs), OnceOrInline(typed, plain), TagsOfOne(typed, plain)
    PROVE  TagsOfOne(typed, plain)'
<1>0. todo # <<>> /\ todo[1].stmt = stmt /\ todo[1].item = item /\ 1 \in DOMAIN todo
  BY Grows, HeadFirst DEF GatherInv
<1>1. CASE listed' = listed
  BY <1>1 DEF TagsOfOne
<1>2. CASE /\ stmt.op = "each" /\ \A x \in listed' : x \in listed \/ Came(x)
  <2>0. ~NoIntent.full
    BY DEF NoIntent
  <2>1. PICK p \in typed : p = <<stmt, item.type>>
    BY <1>0, <1>2 DEF TypedTodo, Marks
  <2>2. p[1] = stmt
    BY <2>1
  <2>3. /\ stmt.form \in {"shared", "known"} =>
              stmt.what \in plain \/ Inline(typed, stmt.what)
        /\ stmt.what \in plain => stmt.tags = "none"
    BY <1>2, <2>2 DEF OnceOrInline
  <2>4. ASSUME NEW x \in listed', Came(x)
        PROVE  /\ x.type = stmt.what /\ x = NewItem(x.n, x.intent)
               /\ x.type \in plain => x.intent = NoIntent
               /\ x.intent.full => \/ x.n \notin Numbers(listed) \cup {0}
                                  \/ /\ Inline(typed, stmt.what)
                                     /\ \E y \in ListedOf(stmt.what) :
                                            y.n = x.n /\ y.intent.full
    <3>1. x.type = stmt.what /\ x = NewItem(x.n, x.intent)
      BY <2>4 DEF Came, NewItem
    <3>2. stmt.what \in plain => PossibleIntents = {NoIntent}
      BY <2>3 DEF PossibleIntents
    <3>3. ASSUME stmt.form \in {"shared", "known"}, NEW y \in ListedOf(stmt.what),
                 y.intent = x.intent
          PROVE  /\ stmt.what \in plain => x.intent = NoIntent
                 /\ x.intent = NoIntent \/ Inline(typed, stmt.what)
      BY <2>3, <3>3 DEF ListedOf, TagsOfOne
    <3>4. CASE /\ x.n \notin Numbers(listed) \cup {0} /\ x.intent \in PossibleIntents
      BY <3>1, <3>2, <3>4
    <3>5. CASE /\ stmt.form \in {"shared", "known"}
               /\ \E y \in ListedOf(stmt.what) : y.n = x.n /\ y.intent = x.intent
      BY <2>0, <3>1, <3>3, <3>5
    <3>6. CASE x.intent = NoIntent
      BY <2>0, <3>1, <3>6
    <3> QED BY <2>4, <3>4, <3>5, <3>6 DEF Came
  <2>5. \A x \in listed' : x.type \in plain => x.intent = NoIntent
    BY <1>2, <2>4 DEF TagsOfOne
  <2>6. ASSUME NEW x \in listed', NEW y \in listed', x.n = y.n, x.intent.full
        PROVE  x = y \/ (x.type = y.type /\ Inline(typed, x.type))
    <3>1. x.intent = y.intent
      BY <2>6 DEF GatherInv, ListedInv, Items
    <3>2. ASSUME NEW v \in listed, NEW w \in listed', Came(w), w.intent.full, v.n = w.n,
                 v.intent.full
          PROVE  v.type = w.type /\ Inline(typed, w.type)
      <4>1. w.n \in Numbers(listed) \cup {0}
        BY <3>2 DEF Numbers
      <4>2. w.type = stmt.what /\ Inline(typed, w.type)
        BY <2>4, <3>2, <4>1
      <4>3. PICK y1 \in listed : y1.type = stmt.what /\ y1.n = v.n /\ y1.intent.full
        BY <2>4, <3>2, <4>1 DEF ListedOf
      <4>4. v.type = y1.type
        BY <3>2, <4>3 DEF TagsOfOne
      <4> QED BY <4>2, <4>3, <4>4
    <3>3. CASE x \in listed /\ y \in listed
      BY <2>6, <3>3 DEF TagsOfOne
    <3>4. CASE Came(x) /\ Came(y)
      BY <2>4, <2>6, <3>1, <3>4
    <3>5. CASE x \in listed /\ Came(y)
      BY <2>6, <3>1, <3>2, <3>5
    <3>6. CASE Came(x) /\ y \in listed
      BY <2>6, <3>1, <3>2, <3>6
    <3> QED BY <1>2, <2>6, <3>3, <3>4, <3>5, <3>6
  <2> QED BY <2>5, <2>6 DEF TagsOfOne
<1> QED BY <1>1, <1>2, ListedGrows

-----------------------------------------------------------------------------
(* What may become of a resource that was listed.  Until it is recorded, or found to
   be suppressed, some of what is left to run is about it. *)
Pends(f, x, keeps) ==
    \/ f.stmt \in keeps /\ f.item = x
    \/ /\ f.stmt.op = "next" /\ HasOne(f.stmt.body, keeps)
       /\ \E k \in DOMAIN f.stmt.rest : f.stmt.rest[k] = x
    \/ f.stmt.op = "again" /\ f.stmt.what = x.type /\ HasOne(f.stmt.body, keeps)

Pending(x, keeps) == \E j \in DOMAIN todo : Pends(todo[j], x, keeps)

Accounted(x, keeps) == IsRecorded(EndOf(x)) \/ IntentSeen(x).full \/ Pending(x, keeps)

Abandoned == \E i \in DOMAIN errors : ReachedEnd(errors[i])

(* It is lost when it is the one at hand and a call for it fails. *)
Spent(x) ==
    /\ x = item /\ \E fail : Failure(fail) \in faults'
    /\ stmt \in Statements /\ stmt.op \in {"each", "fetch", "when"}
    /\ stmt.what = "tags" \/ stmt.fail = "drop" \/ Told(Source(stmt.what, item.n))

LossInv(form, told) ==
    /\ TypedTodo(form.typed, {}) /\ LoopTodo(form.typed) /\ SameItems
    /\ TriedTodo(form.tried) /\ SteadyTodo(form.keeps, form.calm)
    /\ LateTodo(form.quiet, form.late) /\ NothingListed(form.late)
    /\ AnsweredTodo(form.keeps, told) /\ EndsInGather
    /\ TagsOfOne(form.typed, form.plain)

LEMMA LossInvStart ==
    ASSUME GatherInit, NEW form, NEW told \in BOOLEAN, Careful(Programs[module], form),
           told => TellsOfItems(Programs[module], form.typed, form.keeps)
    PROVE  LossInv(form, told)
<1>1. TypedTodo(form.typed, {}) /\ LoopTodo(form.typed) /\ SameItems /\ EndsInGather
  BY TypedStart, LoopStart, SameItemsStart, EndsInGatherStart DEF Careful
<1>2. TriedTodo(form.tried) /\ TriedTodo({})
  BY TriedStart
<1>3. SteadyTodo(form.keeps, form.calm)
  BY <1>2, SteadyStart
<1>4. LateTodo(form.quiet, form.late) /\ NothingListed(form.late)
  BY LateStart DEF Careful, ReturnsEarly
<1>5. AnsweredTodo(form.keeps, told)
  BY AnsweredStart DEF Careful
<1>6. TagsOfOne(form.typed, form.plain)
  BY DEF GatherInit, TagsOfOne
<1> QED BY <1>1, <1>2, <1>3, <1>4, <1>5, <1>6 DEF LossInv

LEMMA LossInvStays ==
    ASSUME GatherInv, GatherStep, GatherInv', NEW form, NEW told \in BOOLEAN,
           Careful(Programs[module], form),
           told => TellsOfItems(Programs[module], form.typed, form.keeps), LossInv(form, told)
    PROVE  LossInv(form, told)'
<1>0. TypedTodo(form.typed, {}) /\ LoopTodo(form.typed)
  BY DEF LossInv
<1>1. TypedTodo(form.typed, {})'
  BY <1>0, TypedStay DEF Careful
<1>2. LoopTodo(form.typed)'
  BY <1>0, LoopStay
<1>3. SameItems' /\ EndsInGather'
  BY SameItemsStay, EndsInGatherStays DEF LossInv
<1>4. TriedTodo(form.tried)'
  <2>1. TriedForm(form.typed, form.tried)
    BY DEF Careful, RaisesLate, TriedForm
  <2> QED BY <1>0, <2>1, TriedStay DEF LossInv
<1>5. SteadyTodo(form.keeps, form.calm)'
  BY <1>0, SteadyStay DEF LossInv, Careful
<1>6. LateTodo(form.quiet, form.late)'
  BY <1>0, LateStay DEF LossInv, Careful, ReturnsEarly
<1>7. NothingListed(form.late)'
  BY <1>0, NothingListedStays DEF LossInv, Careful
<1>8. AnsweredTodo(form.keeps, told)'
  BY <1>0, AnsweredStay DEF LossInv, Careful
<1>9. TagsOfOne(form.typed, form.plain)'
  BY <1>0, TagsOfOneStay DEF LossInv, Careful
<1> QED BY <1>1, <1>2, <1>3, <1>4, <1>5, <1>6, <1>7, <1>8, <1>9 DEF LossInv

(* Frames that are not left out. *)
LEMMA LeftRemains ==
    ASSUME GatherInv, todo # <<>>, GatherInv', NEW k, Leaves(k), NEW b \in k .. Len(todo)
    PROVE  \E j \in DOMAIN todo' : todo'[j] = todo[b]
<1>1. /\ k \in 2 .. Len(todo) + 1 /\ Len(todo') = Len(todo) - k + 1 /\ Len(todo) \in Nat
      /\ DOMAIN todo' = 1 .. Len(todo')
  BY DEF Leaves, GatherInv, TodoInv
<1>2. b - k + 1 \in 1 .. Len(todo) - k + 1 /\ k + (b - k + 1) - 1 = b
  BY <1>1
<1> QED BY <1>1, <1>2 DEF Leaves

LEMMA OpenedRemains ==
    ASSUME GatherInv, todo # <<>>, GatherInv', Enters, NEW b \in 2 .. Len(todo)
    PROVE  \E j \in DOMAIN todo' : todo'[j] = todo[b]
<1>1. PICK d, x : d \in {0, 1} /\ Opening(x, d)
  BY OpeningFound
<1>2. d \in {0, 1} /\ Opens(x, d) /\ Len(stmt.body) \in Nat
  BY <1>1 DEF Opening
<1>3. Len(todo) \in Nat /\ DOMAIN todo' = 1 .. Len(todo')
  BY DEF GatherInv, TodoInv
<1>4. /\ Len(todo') = Len(stmt.body) + d + Len(todo) - 1
      /\ todo'[Len(stmt.body) + d + b - 1] = todo[b]
  BY <1>2 DEF Opens
<1>5. Len(stmt.body) + d + b - 1 \in 1 .. Len(stmt.body) + d + Len(todo) - 1
  BY <1>2, <1>3
<1> QED BY <1>3, <1>4, <1>5

(* All that a loop that hands over what it is about starts with is pending. *)
LEMMA LoopPends ==
    ASSUME GatherInv, todo # <<>>, GatherInv', NEW over, EntersLoop(over),
           NEW k \in DOMAIN over, NEW keeps, HasOne(stmt.body, keeps)
    PROVE  Pending(over[k], keeps)'
<1> DEFINE n == Len(stmt.body)
<1>0. Enters
  BY DEF Enters
<1>1. stmt.body \in Seq(Statements) /\ n \in Nat
  BY <1>0, OpenedFrames
<1>2. /\ over \in Seq(listed') /\ over # <<>> /\ Opens(Head(over), 1)
      /\ Mark.stmt.op = "next" /\ Mark.stmt.body = stmt.body /\ Mark.stmt.rest = Tail(over)
  BY DEF EntersLoop
<1>3. DOMAIN todo' = 1 .. Len(todo') /\ Len(todo) \in Nat \ {0}
  BY HeadFirst DEF GatherInv, TodoInv
<1>4. Len(todo') = n + 1 + Len(todo) - 1
  BY <1>2 DEF Opens
<1>5. \A i \in 1 .. n + 1 : i \in DOMAIN todo'
  <2> HIDE DEF n
  <2> QED BY <1>1, <1>3, <1>4
<1>6. CASE k = 1
  <2>1. PICK i \in DOMAIN stmt.body : stmt.body[i] \in keeps
    BY DEF HasOne
  <2>2. i \in 1 .. n /\ i \in 1 .. n + 1
    BY <1>1
  <2>3. todo'[i] = [stmt |-> stmt.body[i], item |-> Head(over)]
    BY <1>2, <2>2 DEF Opens
  <2>4. todo'[i].stmt = stmt.body[i] /\ todo'[i].item = over[k]
    BY <1>2, <1>6, <2>3
  <2> QED BY <1>5, <2>1, <2>2, <2>4 DEF Pending, Pends
<1>7. CASE k # 1
  <2>1. k - 1 \in DOMAIN Tail(over) /\ Tail(over)[k - 1] = over[k]
    BY <1>2, <1>7
  <2>2. n + 1 \in 1 .. n + 1
    BY <1>1
  <2>3. Pends(todo'[n + 1], over[k], keeps)
    BY <1>2, <2>1 DEF Pends, Mark
  <2> QED BY <1>5, <2>2, <2>3 DEF Pending
<1> QED BY <1>6, <1>7

(* What hands things over is an add_resource() or a try around one. *)
LEMMA KeepOps ==
    ASSUME NEW keeps, Keepers(keeps), NEW f, NEW x, Pends(f, x, keeps)
    PROVE  /\ f.stmt.op \in {"add", "guard", "next", "again"}
           /\ KeepingFrame(f, keeps)
           /\ f.stmt.op \in {"add", "guard"} => f.stmt \in keeps /\ f.item = x
<1>1. f.stmt \in keeps => f.stmt.op \in {"add", "guard"}
  BY DEF Keepers
<1> QED BY <1>1 DEF Pends, KeepingFrame, Keeping, Marks

LEMMA TagsOfItem ==
    ASSUME GatherInv, NEW typed, NEW plain, TagsOfOne(typed, plain), todo # <<>>,
           NEW x \in listed, x.intent.full, item.n = x.n
    PROVE  x = item \/ (x.type = item.type /\ Inline(typed, x.type))
<1>1. item \in Items(listed)
  BY AtHand DEF GatherInv
<1>2. item.intent = x.intent
  BY <1>1 DEF GatherInv, ListedInv, Items
<1>3. item \notin Outsides
  BY <1>2, OutsideItems DEF NoIntent
<1> QED BY <1>1, <1>3 DEF Items, TagsOfOne

LEMMA NewFault ==
    ASSUME GatherInv, GatherStep, NEW f \in faults', f \notin faults
    PROVE  /\ stmt \in Statements /\ stmt.op \in {"each", "fetch", "when"}
           /\ \E fail : f = Failure(fail)
<1>1. \A fail : faults' = faults \cup {Failure(fail)} => f = Failure(fail)
  OBVIOUS
<1> QED BY <1>1, FailuresForm, FailForm

LEMMA SuppressedStays ==
    ASSUME GatherInv, GatherStep, NEW typed, NEW heirs, NEW plain,
           TypedTodo(typed, heirs), TagsOfOne(typed, plain),
           NEW x \in listed, IntentSeen(x).full
    PROVE  IntentSeen(x)'.full \/ (Spent(x) /\ stmt.what = "tags")
<1>1. x.intent.full /\ ~TagsUnread(x)
  BY DEF IntentSeen, NoIntent
<1>2. CASE ~TagsUnread(x)'
  BY <1>1, <1>2 DEF IntentSeen
<1>3. CASE TagsUnread(x)'
  <2>1. PICK f \in faults' : f.what = "tags" /\ f.n = x.n
    BY <1>3 DEF TagsUnread
  <2>2. f \notin faults
    BY <1>1, <2>1 DEF TagsUnread
  <2>3. PICK fail : f = Failure(fail)
    BY <2>1, <2>2, NewFault
  <2>4. stmt.what = "tags" /\ item.n = x.n
    BY <2>1, <2>3 DEF Failure
  <2>5. Failure(fail) \in faults'
    BY <2>1, <2>3
  <2>6. stmt \in Statements /\ stmt.op \in {"each", "fetch", "when"}
    BY <2>1, <2>2, NewFault
  <2>7. x = item
    <3>1. todo # <<>> /\ 1 \in DOMAIN todo /\ todo[1].stmt = stmt /\ todo[1].item = item
      BY Grows, HeadFirst DEF GatherInv
    <3>2. <<stmt, item.type>> \in typed
      BY <2>6, <3>1 DEF TypedTodo, Marks
    <3>3. ~Inline(typed, item.type)
      BY <2>4, <2>6, <3>2 DEF Inline
    <3> QED BY <1>1, <2>4, <3>1, <3>3, TagsOfItem
  <2> QED BY <2>4, <2>5, <2>6, <2>7 DEF Spent
<1> QED BY <1>2, <1>3

(* A resource that the statement at hand is about is handed over by it. *)
LEMMA HandedOn ==
    ASSUME GatherInv, GatherStep, GatherInv', NEW keeps, Keepers(keeps),
           NEW x \in listed, Pends(todo[1], x, keeps)
    PROVE  IsRecorded(EndOf(x))' \/ IntentSeen(x)'.full \/ Pending(x, keeps)'
<1>0. todo # <<>> /\ todo[1].stmt = stmt /\ todo[1].item = item
  BY Grows, HeadFirst DEF GatherInv
<1>1. /\ stmt.op \in {"add", "guard", "next", "again"}
      /\ stmt.op \in {"add", "guard"} => stmt \in keeps /\ item = x
  BY <1>0, KeepOps
<1>2. CASE RecordResource
  <2>1. item = x
    BY <1>1, <1>2 DEF RecordResource, Running
  <2>2. Recorded(IntentSeen(item)) => IsRecorded(EndOf(x))'
    BY <1>2, <2>1, JustRecorded
  <2>3. IntentSeen(x)' = IntentSeen(x)
    BY <1>2 DEF RecordResource, IntentSeen, TagsUnread
  <2> QED BY <2>1, <2>2, <2>3 DEF Recorded
<1>3. CASE EnterTry
  <2>1. EntersTry /\ item = x /\ stmt \in keeps /\ stmt.op = "guard"
    BY <1>1, <1>3, TryForm DEF EntersTry
  <2>2. PICK i \in DOMAIN stmt.body : stmt.body[i] \in keeps
    BY <2>1 DEF Keepers, HasOne
  <2>3. Enters
    BY <2>1 DEF Enters
  <2>4. stmt.body \in Seq(Statements) /\ Opens(item, 1)
    BY <1>0, <2>1, <2>3, OpenedFrames DEF EntersTry
  <2>5. i \in 1 .. Len(stmt.body)
    BY <2>4
  <2>6. todo'[i] = [stmt |-> stmt.body[i], item |-> item]
    BY <2>4, <2>5 DEF Opens
  <2>7. i \in DOMAIN todo'
    <3>1. Len(todo) \in Nat \ {0} /\ DOMAIN todo' = 1 .. Len(todo')
      BY <1>0, HeadFirst DEF GatherInv, TodoInv
    <3>2. Len(todo') = Len(stmt.body) + 1 + Len(todo) - 1
      BY <2>4 DEF Opens
    <3> QED BY <2>5, <3>1, <3>2
  <2>8. Pends(todo'[i], x, keeps)
    <3>1. todo'[i].stmt = stmt.body[i] /\ todo'[i].item = x
      BY <2>1, <2>6
    <3> QED BY <2>2, <3>1 DEF Pends
  <2> QED BY <2>7, <2>8 DEF Pending
<1>4. CASE NextItem
  <2>1. /\ stmt.op = "next"
        /\ EntersLoop(stmt.rest) \/ (stmt.rest = <<>> /\ Leaves(2))
    BY <1>4, NextForm
  <2>2. /\ HasOne(stmt.body, keeps)
        /\ \E k \in DOMAIN stmt.rest : stmt.rest[k] = x
    BY <1>0, <2>1 DEF Pends, Keepers
  <2>3. stmt.rest # <<>>
    BY <2>2
  <2> QED BY <1>0, <2>1, <2>2, <2>3, LoopPends
<1>5. CASE LoopAgain
  <2>1. /\ stmt.op = "again"
        /\ \E over \in Seq(listed') :
               /\ {over[i] : i \in DOMAIN over} = ListedOf(stmt.what)
               /\ EntersLoop(over) \/ over = <<>>
    BY <1>5, AgainForm
  <2>2. stmt.what = x.type /\ HasOne(stmt.body, keeps)
    BY <1>0, <2>1 DEF Pends, Keepers
  <2>3. PICK over \in Seq(listed') : /\ {over[i] : i \in DOMAIN over} = ListedOf(stmt.what)
                                     /\ EntersLoop(over) \/ over = <<>>
    BY <2>1
  <2>4. x \in ListedOf(stmt.what)
    BY <2>2 DEF ListedOf
  <2>5. PICK k \in DOMAIN over : over[k] = x
    BY <2>3, <2>4
  <2>6. over # <<>>
    BY <2>5
  <2> QED BY <1>0, <2>2, <2>3, <2>5, <2>6, LoopPends
<1> QED BY <1>1, <1>2, <1>3, <1>4, <1>5
        DEF GatherStep, ListResources, ListFirstPage, ListFromFirstPage, Branch,
            FetchDetail, FetchAndUse, EnterTry, LeaveTry, Swallow, Drop, ReportAndGoOn,
            ReportAndSkip, ReportAndLeave, Unwind, CallFails, RecordResource, DeriveEdge,
            NoEdge, Running

LEMMA ToldAbandons ==
    ASSUME GatherInv, Told(Source("gather", 0))
    PROVE  Abandoned'
<1>1. /\ Len(errors) + 1 \in DOMAIN errors'
      /\ errors'[Len(errors) + 1].source = Source("gather", 0)
  BY ToldOne
<1> QED BY <1>1 DEF Abandoned, ReachedEnd

(* When a call fails, what control leaves out is about nothing that was to be handed
   over, or about the item at hand, or gather() is abandoned. *)
LEMMA FailureSpares ==
    ASSUME GatherInv, GatherStep, GatherInv', NEW form, NEW told, Careful(Programs[module], form),
           LossInv(form, told),
           Swallow \/ Drop \/ ReportAndGoOn \/ ReportAndSkip \/ ReportAndLeave \/ Unwind,
           NEW x \in Candidates, NEW j \in DOMAIN todo, Pends(todo[j], x, form.keeps)
    PROVE  Pending(x, form.keeps)' \/ Abandoned' \/ Spent(x)
<1>0. /\ todo # <<>> /\ todo[1].stmt = stmt /\ todo[1].item = item
      /\ Len(todo) \in Nat \ {0} /\ DOMAIN todo = 1 .. Len(todo)
  BY Grows, HeadFirst DEF GatherInv
<1>1. /\ stmt \in Statements /\ stmt.op \in {"each", "fetch", "when"}
      /\ faults' = faults \cup {Failure(stmt.fail)}
      /\ \/ /\ stmt.fail \in {"silent", "error"} /\ Leaves(2)
         \/ /\ stmt.fail \in {"skip", "drop"}
            /\ \E k : Leaves(k) /\ FirstMark(k, {"next"})
         \/ stmt.fail = "return" /\ \E k : Leaves(k) /\ FirstMark(k, {})
         \/ /\ stmt.fail = "raise"
            /\ \E k : /\ Leaves(k + 1) /\ FirstMark(k, {"except"})
                      /\ Told(Source(todo[k].stmt.what, todo[k].item.n))
      /\ stmt.fail \in {"error", "skip", "return"} => Told(Source(stmt.what, item.n))
  BY FailForm
<1>2. /\ todo[j].stmt.op \in {"add", "guard", "next", "again"}
      /\ KeepingFrame(todo[j], form.keeps)
      /\ todo[j].stmt.op \in {"add", "guard"} => todo[j].stmt \in form.keeps /\ todo[j].item = x
  BY KeepOps DEF Careful, HandsOver
<1>3. j # 1 /\ j \in 2 .. Len(todo)
  <2>1. j # 1
    BY <1>0, <1>1, <1>2
  <2> QED BY <1>0, <2>1
<1>4. x \in listed /\ x \notin Outsides
  <2>1. ~x.aside /\ x \in listed
    BY DEF Candidates
  <2>2. \A y \in Outsides : y.aside
    BY DEF Outsides, Outside
  <2> QED BY <2>1, <2>2
<1>5. ASSUME NEW k, Leaves(k), j \in k .. Len(todo) PROVE Pending(x, form.keeps)'
  <2>1. PICK h \in DOMAIN todo' : todo'[h] = todo[j]
    BY <1>0, <1>5, LeftRemains
  <2> QED BY <2>1 DEF Pending
<1>6. CASE stmt.fail \in {"silent", "error"} /\ Leaves(2)
  BY <1>3, <1>5, <1>6
<1>7. ASSUME stmt.fail \in {"skip", "drop"}, NEW k, Leaves(k), FirstMark(k, {"next"})
      PROVE  Pending(x, form.keeps)' \/ Spent(x)
  <2>1. CASE j \in k .. Len(todo)
    BY <1>5, <1>7, <2>1
  <2>2. CASE ~(j \in k .. Len(todo))
    <3>1. k \in 1 .. Len(todo) /\ \A i \in 1 .. k - 1 : todo[i].stmt.op \notin {"next", "end"}
      BY <1>0, <1>7 DEF FirstMark
    <3>2. \A i \in 1 .. j : i \in 1 .. k - 1
      BY <1>0, <1>3, <2>2, <3>1
    <3>3. \A i \in 1 .. j : todo[i].stmt.op # "next"
      BY <3>1, <3>2
    <3>4. AsOne(item, todo[j].item)
      <4>1. 1 \in DOMAIN todo /\ 1 < j
        BY <1>0, <1>3
      <4>2. SameItemAt(1, j)
        BY <4>1 DEF LossInv, SameItems
      <4> QED BY <1>0, <3>3, <4>2 DEF SameItemAt
    <3>5. CASE todo[j].stmt.op \in {"add", "guard"}
      <4>1. x = item
        BY <1>2, <1>4, <3>4, <3>5 DEF AsOne
      <4>2. stmt.fail = "drop" \/ Told(Source(stmt.what, item.n))
        BY <1>1, <1>7
      <4> QED BY <1>1, <4>1, <4>2 DEF Spent
    <3>6. CASE todo[j].stmt.op = "again"
      <4>1. HasOne(todo[j].stmt.body, form.keeps)
        BY <1>2, <3>6 DEF Pends, Careful, HandsOver, Keepers
      <4>2. PICK p \in form.typed : p = <<todo[j].stmt, todo[j].item.type>>
        BY <3>6 DEF LossInv, TypedTodo, Marks
      <4>3. p[1] = todo[j].stmt /\ p[2] = todo[j].item.type
        BY <4>2
      <4>4. todo[j].item.type = NotAResource
        BY <3>6, <4>1, <4>3 DEF Careful, HandsOver
      <4>5. PICK q \in form.typed : q = <<stmt, item.type>>
        <5>1. 1 \in DOMAIN todo /\ todo[1].stmt.op \notin Marks
          BY <1>0, <1>1 DEF Marks
        <5>2. <<todo[1].stmt, todo[1].item.type>> \in form.typed
          BY <5>1 DEF LossInv, TypedTodo
        <5> QED BY <1>0, <5>2
      <4>6. q[1] = stmt /\ q[2] = item.type
        BY <4>5
      <4>7. item.type # NotAResource
        BY <1>1, <1>7, <4>6 DEF Careful, SkipsItems
      <4> QED BY <3>4, <4>4, <4>7, OutsideItems DEF AsOne
    <3>7. todo[j].stmt.op # "next"
      <4>1. j \in 1 .. j
        BY <1>3
      <4> QED BY <3>3, <4>1
    <3> QED BY <1>2, <3>5, <3>6, <3>7
  <2> QED BY <2>1, <2>2
<1>8. ASSUME stmt.fail = "return" PROVE FALSE
  <2>1. QuietFrame(todo[1], form.late)
    BY <1>0 DEF LossInv, NothingListed
  <2>2. stmt \in form.late
    BY <1>0, <1>1, <2>1 DEF QuietFrame, Marks
  <2> QED BY <1>1, <1>8, <2>2 DEF Careful, ReturnsEarly
<1>9. ASSUME stmt.fail = "raise", NEW k, Leaves(k + 1), FirstMark(k, {"except"}),
             Told(Source(todo[k].stmt.what, todo[k].item.n))
      PROVE  Pending(x, form.keeps)' \/ Abandoned'
  <2>1. /\ k \in 1 .. Len(todo) /\ todo[k].stmt.op \in {"except", "end"}
        /\ \A i \in 1 .. k - 1 : todo[i].stmt.op \notin {"except", "end"}
    BY <1>0, <1>9 DEF FirstMark
  <2>2. CASE k = Len(todo)
    <3>1. todo[k].stmt.what = "gather" /\ todo[k].item.n = 0
      BY <1>0, <2>2 DEF LossInv, EndsInGather
    <3>2. Told(Source("gather", 0))
      BY <1>9, <3>1
    <3> QED BY <3>2, ToldAbandons
  <2>3. CASE k # Len(todo)
    <3>1. Caught(1)
      <4>1. k # 1
        BY <1>0, <1>1, <2>1
      <4>2. k \in DOMAIN todo /\ 1 < k /\ k < Len(todo)
        BY <1>0, <2>1, <2>3, <4>1
      <4> QED BY <2>1, <4>2 DEF Caught
    <3>2. ~CalmFrame(todo[1], form.calm)
      <4>1. stmt \notin form.calm
        BY <1>1, <1>9 DEF Careful, RaisesLate
      <4> QED BY <1>0, <1>1, <4>1 DEF CalmFrame, Marks
    <3>3. \E m \in 1 .. j : todo[m].stmt.op \in {"except", "end"}
      <4>1. 1 \in DOMAIN todo /\ 1 < j
        BY <1>0, <1>3
      <4>2. SteadyAt(1, j, form.keeps, form.calm)
        BY <4>1 DEF LossInv, SteadyTodo
      <4> QED BY <1>2, <3>1, <3>2, <4>2 DEF SteadyAt
    <3>4. j \in k .. Len(todo)
      <4>1. PICK m \in 1 .. j : todo[m].stmt.op \in {"except", "end"}
        BY <3>3
      <4>2. m \notin 1 .. k - 1
        BY <2>1, <4>1
      <4> QED BY <1>0, <1>3, <2>1, <4>2
    <3>5. j # k
      BY <1>2, <2>1
    <3>6. j \in k + 1 .. Len(todo)
      BY <1>0, <2>1, <3>4, <3>5
    <3> QED BY <1>5, <1>9, <3>6
  <2> QED BY <2>2, <2>3
<1> QED BY <1>1, <1>6, <1>7, <1>8, <1>9

LEMMA GoesOn ==
    ASSUME GatherInv, GatherStep, GatherInv'
    PROVE  \/ Enters \/ Leaves(2)
           \/ Swallow \/ Drop \/ ReportAndGoOn \/ ReportAndSkip \/ ReportAndLeave \/ Unwind
<1>1. CASE ListResources \/ ListFirstPage \/ ListFromFirstPage
  BY <1>1, ListingForm DEF Enters
<1>2. CASE LoopAgain
  BY <1>2, AgainForm DEF Enters
<1>3. CASE NextItem
  BY <1>3, NextForm DEF Enters
<1>4. CASE Branch \/ FetchAndUse \/ RecordResource
  BY <1>4, BodyForm DEF Enters
<1>5. CASE EnterTry
  BY <1>5, TryForm DEF Enters
<1>6. CASE FetchDetail \/ LeaveTry \/ NoEdge \/ DeriveEdge
  BY <1>6, QuietForm
<1> QED BY <1>1, <1>2, <1>3, <1>4, <1>5, <1>6 DEF GatherStep

LEMMA PendingStays ==
    ASSUME GatherInv, GatherStep, GatherInv', NEW form, NEW told, Careful(Programs[module], form),
           LossInv(form, told), NEW x \in Candidates, Pending(x, form.keeps)
    PROVE  Accounted(x, form.keeps)' \/ Abandoned' \/ Spent(x)
<1>0. todo # <<>> /\ DOMAIN todo = 1 .. Len(todo) /\ Len(todo) \in Nat \ {0} /\ x \in listed
  BY Grows, HeadFirst DEF GatherInv, Candidates
<1>1. PICK j \in DOMAIN todo : Pends(todo[j], x, form.keeps)
  BY DEF Pending
<1>2. CASE j = 1
  BY <1>0, <1>1, <1>2, HandedOn DEF Careful, HandsOver, Accounted
<1>3. CASE j # 1
  <2>1. j \in 2 .. Len(todo)
    BY <1>0, <1>3
  <2>2. CASE Enters \/ Leaves(2)
    <3>1. PICK h \in DOMAIN todo' : todo'[h] = todo[j]
      BY <1>0, <2>1, <2>2, LeftRemains, OpenedRemains
    <3>2. Pending(x, form.keeps)'
      BY <1>1, <3>1 DEF Pending
    <3> QED BY <3>2 DEF Accounted
  <2>3. CASE Swallow \/ Drop \/ ReportAndGoOn \/ ReportAndSkip \/ ReportAndLeave \/ Unwind
    <3>1. Pending(x, form.keeps)' \/ Abandoned' \/ Spent(x)
      BY <1>1, <2>3, FailureSpares
    <3> QED BY <3>1 DEF Accounted
  <2> QED BY <2>2, <2>3, GoesOn
<1> QED BY <1>2, <1>3

(* What is listed is handed over in this loop or in one that comes later. *)
LEMMA ListedPends ==
    ASSUME GatherInv, GatherStep, GatherInv', NEW form, NEW told,
           LossInv(form, told), NEW x \in Candidates', x \notin listed
    PROVE  Pending(x, form.keeps)'
<1>0. /\ todo # <<>> /\ todo[1].stmt = stmt /\ DOMAIN todo = 1 .. Len(todo)
      /\ 1 \in DOMAIN todo /\ x \in listed' /\ ~x.aside
  BY Grows, HeadFirst DEF GatherInv, Candidates
<1>1. stmt.op = "each" /\ Came(x)
  BY <1>0, ListedGrows
<1>2. x.type = stmt.what /\ ~stmt.aside
  <2>1. x = NewItem(x.n, x.intent)
    BY <1>1 DEF Came
  <2> QED BY <1>0, <2>1 DEF NewItem
<1>3. ListResources \/ ListFirstPage \/ ListFromFirstPage
  BY <1>0 DEF GatherStep, LoopAgain, Branch, NextItem, FetchDetail, FetchAndUse, EnterTry,
              LeaveTry, Swallow, Drop, ReportAndGoOn, ReportAndSkip, ReportAndLeave, Unwind,
              CallFails, RecordResource, DeriveEdge, NoEdge
<1>4. PICK items \in Listing, over \in Seq(listed') :
          /\ listed' = listed \cup {items[i] : i \in DOMAIN items}
          /\ {over[i] : i \in DOMAIN over} = {items[i] : i \in DOMAIN items}
          /\ EntersLoop(over) \/ over = <<>>
  BY <1>3, ListingForm
<1>5. PICK k \in DOMAIN over : over[k] = x
  BY <1>0, <1>4
<1>6. EntersLoop(over)
  BY <1>4, <1>5
<1>7. CASE HasOne(stmt.body, form.keeps)
  BY <1>0, <1>5, <1>6, <1>7, LoopPends
<1>8. CASE ~HasOne(stmt.body, form.keeps)
  <2>1. NeedsMore(todo[1].stmt, form.keeps, told)
    BY <1>0, <1>1, <1>2, <1>8 DEF NeedsMore
  <2>2. AnsweredAt(1, form.keeps)
    BY <1>0, <2>1 DEF LossInv, AnsweredTodo
  <2>3. PICK b \in DOMAIN todo : 1 < b /\ Answers(todo[1].stmt, todo[b].stmt, form.keeps)
    BY <2>2 DEF AnsweredAt
  <2>4. Pends(todo[b], x, form.keeps)
    BY <1>0, <1>1, <1>2, <2>3 DEF Answers, Pends
  <2>5. b \in 2 .. Len(todo) /\ Enters
    BY <1>0, <1>6, <2>3 DEF Enters
  <2>6. PICK h \in DOMAIN todo' : todo'[h] = todo[b]
    BY <1>0, <2>5, OpenedRemains
  <2> QED BY <2>4, <2>6 DEF Pending
<1> QED BY <1>7, <1>8

LEMMA AccountedStep ==
    ASSUME GatherInv, GatherStep, GatherInv', NEW form, NEW told, Careful(Programs[module], form),
           LossInv(form, told), NEW x \in Candidates', x \in listed => Accounted(x, form.keeps)
    PROVE  Accounted(x, form.keeps)' \/ Abandoned' \/ Spent(x)
<1>1. CASE x \notin listed
  BY <1>1, ListedPends DEF Accounted
<1>2. CASE x \in listed
  <2>1. x \in Candidates
    BY <1>2 DEF Candidates
  <2>2. IsRecorded(EndOf(x)) => IsRecorded(EndOf(x))'
    BY RecordedStays
  <2>3. CASE IntentSeen(x).full
    BY <1>2, <2>3, SuppressedStays DEF LossInv, Accounted
  <2>4. CASE Pending(x, form.keeps)
    BY <2>1, <2>4, PendingStays
  <2> QED BY <1>2, <2>2, <2>3, <2>4 DEF Accounted
<1> QED BY <1>1, <1>2

LEMMA ErrorsStay ==
    ASSUME GatherInv, GatherStep, NEW i \in DOMAIN errors
    PROVE  i \in DOMAIN errors' /\ errors'[i] = errors[i]
<1>1. \A s : Told(s) => i \in DOMAIN errors' /\ errors'[i] = errors[i]
  BY ToldOne
<1>2. CASE Swallow \/ Drop \/ ReportAndGoOn \/ ReportAndSkip \/ ReportAndLeave \/ Unwind
  BY <1>1, <1>2, FailForm
<1>3. CASE errors' = errors
  BY <1>3
<1> QED BY <1>2, <1>3, FailuresForm

LEMMA LossInvSame ==
    ASSUME UNCHANGED vars, NEW form, NEW told, LossInv(form, told)
    PROVE  LossInv(form, told)'
<1>1. todo' = todo /\ listed' = listed
  BY DEF vars, gatherVars
<1> QED BY <1>1 DEF LossInv, TypedTodo, LoopTodo, SameItems, SameItemAt, TriedTodo, Caught,
                    SteadyTodo, SteadyAt, LateTodo, NothingListed, Candidates, AnsweredTodo,
                    AnsweredAt, EndsInGather, TagsOfOne

LEMMA AccountedSame ==
    ASSUME UNCHANGED vars, NEW keeps
    PROVE  /\ Candidates' = Candidates /\ errors' = errors /\ faults' = faults
           /\ \A x : Accounted(x, keeps)' = Accounted(x, keeps)
BY DEF vars, gatherVars, writerVars, Candidates, Accounted, IsRecorded, IntentSeen, TagsUnread,
       Pending

LEMMA AtTheEnd ==
    ASSUME Ended, NEW keeps, NEW x \in Missing
    PROVE  x \in Candidates /\ ~Accounted(x, keeps)
BY DEF Ended, Missing, Accounted, Pending

-----------------------------------------------------------------------------
Confined(keeps) ==
    \A x \in Candidates :
        Accounted(x, keeps) \/ Abandoned \/ \E f \in faults : f.section = x.section

LEMMA ConfinedStep ==
    ASSUME GatherInv, [GatherStep]_vars, GatherInv', NEW form, Careful(Programs[module], form),
           LossInv(form, FALSE), Confined(form.keeps)
    PROVE  LossInv(form, FALSE)' /\ Confined(form.keeps)'
<1>1. CASE UNCHANGED vars
  <2>1. LossInv(form, FALSE)'
    BY <1>1, LossInvSame
  <2>2. Confined(form.keeps)'
    BY <1>1, AccountedSame DEF Confined, Abandoned
  <2> QED BY <2>1, <2>2
<1>2. CASE GatherStep
  <2>1. LossInv(form, FALSE)'
    BY <1>2, LossInvStays
  <2>2. ASSUME NEW x \in Candidates'
        PROVE  Accounted(x, form.keeps)' \/ Abandoned' \/ \E f \in faults' : f.section = x.section
    <3>1. Spent(x) => \E f \in faults' : f.section = x.section
      BY DEF Spent, Failure
    <3>2. Abandoned => Abandoned'
      BY <1>2, ErrorsStay DEF Abandoned
    <3>3. faults \subseteq faults'
      BY <1>2, Grows
    <3>4. x \in listed => x \in Candidates
      BY DEF Candidates
    <3> QED BY <1>2, <3>1, <3>2, <3>3, <3>4, AccountedStep DEF Confined
  <2> QED BY <2>1, <2>2 DEF Confined
<1> QED BY <1>1, <1>2

(* LossIsConfined: of any gather function written so, and for any account and any
   calls that fail, what is lost was of a section one of whose own calls failed. *)
THEOREM LossConfined ==
    ASSUME \A name \in DOMAIN Programs : \E form : Careful(Programs[name], form)
    PROVE  GatherSpec => []LossIsConfined
<1> DEFINE Inv == \E form : /\ Careful(Programs[module], form)
                            /\ LossInv(form, FALSE) /\ Confined(form.keeps)
<1>1. GatherInit => Inv
  <2> SUFFICES ASSUME GatherInit PROVE Inv
    OBVIOUS
  <2>1. PICK form : Careful(Programs[module], form)
    BY DEF GatherInit
  <2>2. LossInv(form, FALSE)
    BY <2>1, LossInvStart
  <2>3. Confined(form.keeps)
    BY DEF GatherInit, Confined, Candidates
  <2> QED BY <2>1, <2>2, <2>3
<1>2. GatherInv /\ GatherInv' /\ Inv /\ [GatherStep]_vars => Inv'
  <2> SUFFICES ASSUME GatherInv, GatherInv', [GatherStep]_vars, NEW form,
                      Careful(Programs[module], form), LossInv(form, FALSE), Confined(form.keeps)
               PROVE  Inv'
    OBVIOUS
  <2>1. LossInv(form, FALSE)' /\ Confined(form.keeps)'
    BY ConfinedStep
  <2>2. Careful(Programs[module'], form)
    BY NameStays
  <2> QED BY <2>1, <2>2
<1>3. Inv => LossIsConfined
  <2> SUFFICES ASSUME Inv, Ended, ~Abandoned, NEW x \in Missing
               PROVE  \E f \in faults : f.section = x.section
    BY DEF LossIsConfined, Abandoned
  <2>1. PICK form : Confined(form.keeps)
    OBVIOUS
  <2> QED BY <2>1, AtTheEnd DEF Confined
<1> HIDE DEF Inv
<1> QED BY <1>1, <1>2, <1>3, InvAlways, PTL DEF GatherSpec

-----------------------------------------------------------------------------
Explained(keeps) ==
    \A x \in Candidates :
        Accounted(x, keeps) \/ Abandoned \/ \E i \in DOMAIN errors : errors[i].source.n = x.n

(* A lookup of tags that fails leaves a resource that is still to be handed over; any
   other failure that costs one is told. *)
LEMMA SpentIsTold ==
    ASSUME GatherInv, GatherStep, GatherInv', NEW form, Careful(Programs[module], form),
           TellsOfItems(Programs[module], form.typed, form.keeps), LossInv(form, TRUE),
           NEW x \in Candidates', Spent(x)
    PROVE  Accounted(x, form.keeps)' \/ \E i \in DOMAIN errors' : errors'[i].source.n = x.n
<1>0. /\ todo # <<>> /\ todo[1].stmt = stmt /\ todo[1].item = item
      /\ DOMAIN todo = 1 .. Len(todo) /\ 1 \in DOMAIN todo
  BY Grows, HeadFirst DEF GatherInv
<1>1. /\ x = item /\ stmt.op \in {"each", "fetch", "when"}
      /\ stmt.what = "tags" \/ stmt.fail = "drop" \/ Told(Source(stmt.what, item.n))
  BY DEF Spent
<1>2. <<stmt, item.type>> \in form.typed
  <2>1. todo[1].stmt.op \notin Marks
    BY <1>0, <1>1 DEF Marks
  <2>2. <<todo[1].stmt, todo[1].item.type>> \in form.typed
    BY <1>0, <2>1 DEF LossInv, TypedTodo
  <2> QED BY <1>0, <2>2
<1>3. /\ stmt.fail # "drop"
      /\ stmt.what = "tags" => stmt.op = "fetch" /\ stmt.fail = "silent"
  <2>1. PICK p \in form.typed : p = <<stmt, item.type>>
    BY <1>2
  <2>2. p[1] = stmt
    BY <2>1
  <2> QED BY <1>1, <2>2 DEF TellsOfItems
<1>4. CASE Told(Source(stmt.what, item.n))
  <2>1. /\ Len(errors) + 1 \in DOMAIN errors'
        /\ errors'[Len(errors) + 1].source = Source(stmt.what, item.n)
    BY <1>4, ToldOne
  <2>2. errors'[Len(errors) + 1].source.n = x.n
    BY <1>1, <2>1 DEF Source
  <2> QED BY <2>1, <2>2
<1>5. CASE stmt.what = "tags"
  <2>1. stmt.op = "fetch" /\ stmt.fail = "silent"
    BY <1>3, <1>5
  <2>2. Leaves(2)
    <3>1. FetchDetail \/ Swallow
      BY <1>0, <2>1 DEF GatherStep, ListResources, ListFirstPage, ListFromFirstPage, LoopAgain,
                        Branch, NextItem, FetchAndUse, EnterTry, LeaveTry, Drop, ReportAndGoOn,
                        ReportAndSkip, ReportAndLeave, Unwind, CallFails, RecordResource,
                        DeriveEdge, NoEdge, Running
    <3>2. CASE FetchDetail
      BY <3>2, QuietForm
    <3>3. CASE Swallow
      BY <2>1, <3>3, FailForm
    <3> QED BY <3>1, <3>2, <3>3
  <2>3. AnsweredAt(1, form.keeps)
    <3>1. NeedsMore(todo[1].stmt, form.keeps, TRUE)
      BY <1>0, <1>5, <2>1 DEF NeedsMore
    <3> QED BY <1>0, <3>1 DEF LossInv, AnsweredTodo
  <2>4. PICK b \in DOMAIN todo : /\ 1 < b /\ Answers(todo[1].stmt, todo[b].stmt, form.keeps)
                                 /\ AsOne(todo[1].item, todo[b].item)
    BY <2>3 DEF AnsweredAt
  <2>5. todo[b].stmt \in form.keeps
    BY <1>0, <2>1, <2>4 DEF Answers
  <2>6. todo[b].item = x
    <3>1. \A y \in Outsides : y.aside
      BY DEF Outsides, Outside
    <3>2. ~x.aside
      BY DEF Candidates
    <3> QED BY <1>0, <1>1, <2>4, <3>1, <3>2 DEF AsOne
  <2>7. b \in 2 .. Len(todo)
    BY <1>0, <2>4
  <2>8. PICK h \in DOMAIN todo' : todo'[h] = todo[b]
    BY <1>0, <2>2, <2>7, LeftRemains
  <2> QED BY <2>5, <2>6, <2>8 DEF Accounted, Pending, Pends
<1> QED BY <1>1, <1>3, <1>4, <1>5

LEMMA ExplainedStep ==
    ASSUME GatherInv, [GatherStep]_vars, GatherInv', NEW form, Careful(Programs[module], form),
           TellsOfItems(Programs[module], form.typed, form.keeps),
           LossInv(form, TRUE), Explained(form.keeps)
    PROVE  LossInv(form, TRUE)' /\ Explained(form.keeps)'
<1>1. CASE UNCHANGED vars
  <2>1. LossInv(form, TRUE)'
    BY <1>1, LossInvSame
  <2>2. Explained(form.keeps)'
    BY <1>1, AccountedSame DEF Explained, Abandoned
  <2> QED BY <2>1, <2>2
<1>2. CASE GatherStep
  <2>1. LossInv(form, TRUE)'
    BY <1>2, LossInvStays
  <2>2. ASSUME NEW x \in Candidates'
        PROVE  \/ Accounted(x, form.keeps)' \/ Abandoned'
               \/ \E i \in DOMAIN errors' : errors'[i].source.n = x.n
    <3>1. Spent(x) => \/ Accounted(x, form.keeps)'
                      \/ \E i \in DOMAIN errors' : errors'[i].source.n = x.n
      BY <1>2, SpentIsTold
    <3>2. Abandoned => Abandoned'
      BY <1>2, ErrorsStay DEF Abandoned
    <3>3. (\E i \in DOMAIN errors : errors[i].source.n = x.n) =>
              \E i \in DOMAIN errors' : errors'[i].source.n = x.n
      BY <1>2, ErrorsStay
    <3>4. x \in listed => x \in Candidates
      BY DEF Candidates
    <3> QED BY <1>2, <3>1, <3>2, <3>3, <3>4, AccountedStep DEF Explained
  <2> QED BY <2>1, <2>2 DEF Explained
<1> QED BY <1>1, <1>2

(* LossIsExplained: of any gather function written so that no failure that costs a
   resource goes untold, whatever fails, a resource that was listed and is neither
   recorded nor suppressed has an entry that names it, unless gather() itself was
   abandoned, which has one too. *)
THEOREM LossExplained ==
    ASSUME \A name \in Claims["LossIsExplained"] \cap DOMAIN Programs : \E form :
               /\ Careful(Programs[name], form)
               /\ TellsOfItems(Programs[name], form.typed, form.keeps)
    PROVE  GatherSpec => []LossIsExplained
<1> DEFINE Inv == \/ Unclaimed("LossIsExplained")
                  \/ \E form : /\ Careful(Programs[module], form)
                               /\ TellsOfItems(Programs[module], form.typed, form.keeps)
                               /\ LossInv(form, TRUE) /\ Explained(form.keeps)
<1>1. GatherInit => Inv
  <2> SUFFICES ASSUME GatherInit, ~Unclaimed("LossIsExplained") PROVE Inv
    OBVIOUS
  <2>1. PICK form : /\ Careful(Programs[module], form)
                    /\ TellsOfItems(Programs[module], form.typed, form.keeps)
    BY DEF GatherInit, Unclaimed
  <2>2. LossInv(form, TRUE)
    BY <2>1, LossInvStart
  <2>3. Explained(form.keeps)
    BY DEF GatherInit, Explained, Candidates
  <2> QED BY <2>1, <2>2, <2>3
<1>2. GatherInv /\ GatherInv' /\ Inv /\ [GatherStep]_vars => Inv'
  <2> SUFFICES ASSUME GatherInv, GatherInv', Inv, [GatherStep]_vars PROVE Inv'
    OBVIOUS
  <2>1. module' = module
    BY NameStays
  <2>2. CASE Unclaimed("LossIsExplained")
    BY <2>1, <2>2 DEF Unclaimed
  <2>3. ASSUME NEW form, Careful(Programs[module], form),
               TellsOfItems(Programs[module], form.typed, form.keeps),
               LossInv(form, TRUE), Explained(form.keeps)
        PROVE  Inv'
    <3>1. LossInv(form, TRUE)' /\ Explained(form.keeps)'
      BY <2>3, ExplainedStep
    <3>2. Careful(Programs[module'], form)
          /\ TellsOfItems(Programs[module'], form.typed, form.keeps)
      BY <2>1, <2>3
    <3> QED BY <3>1, <3>2
  <2> QED BY <2>2, <2>3
<1>3. Inv => LossIsExplained
  <2> SUFFICES ASSUME Inv, Ended, ~Unclaimed("LossIsExplained"), NEW x \in Missing
               PROVE  \E i \in DOMAIN errors : Explains(errors[i], x)
    BY DEF LossIsExplained
  <2>1. PICK form : Explained(form.keeps)
    OBVIOUS
  <2>2. Abandoned \/ \E i \in DOMAIN errors : errors[i].source.n = x.n
    BY <2>1, AtTheEnd DEF Explained
  <2> QED BY <2>2 DEF Abandoned, Explains
<1> HIDE DEF Inv
<1> QED BY <1>1, <1>2, <1>3, InvAlways, PTL DEF GatherSpec

-----------------------------------------------------------------------------
(* Records: each resource is handed over by one frame at most of what is left. *)
OpeningIs(x, d) ==
    \/ EntersBody /\ x = item /\ d = 0
    \/ EntersTry /\ x = item /\ d = 1
    \/ \E over : EntersLoop(over) /\ x = Head(over) /\ d = 1

LEMMA OpeningOf ==
    ASSUME GatherInv, todo # <<>>, GatherInv', NEW x, NEW d, OpeningIs(x, d)
    PROVE  Opening(x, d)
<1>0. Enters
  BY DEF OpeningIs, Enters
<1>1. /\ stmt.op \in Compound \cup {"next"} /\ stmt.body \in Seq(Statements)
      /\ Len(stmt.body) \in Nat
  BY <1>0, OpenedFrames
<1>2. Len(todo) > 1
  <2>1. \E b \in {0, 1} : \E y : Opening(y, b)
    BY <1>0, OpeningFound
  <2> QED BY <2>1 DEF Opening
<1>3. CASE EntersBody /\ x = item /\ d = 0
  BY <1>1, <1>2, <1>3 DEF EntersBody, Opening
<1>4. CASE EntersTry /\ x = item /\ d = 1
  BY <1>1, <1>2, <1>4 DEF EntersTry, Opening
<1>5. ASSUME NEW over, EntersLoop(over), x = Head(over), d = 1 PROVE Opening(x, d)
  <2>1. /\ Opens(Head(over), 1) /\ stmt.op \in {"each", "again", "next"}
        /\ Mark.stmt.op = "next" /\ Mark.stmt.body = stmt.body /\ Mark.item = item
        /\ InLoop(Head(over))
    BY <1>5, LoopItems
  <2> QED BY <1>1, <1>2, <1>5, <2>1 DEF Opening
<1> QED BY <1>3, <1>4, <1>5 DEF OpeningIs

(* What a frame may hand over, an end of edges being a type and an id. *)
Hands(f, e, form) ==
    \/ f.stmt \in form.adds /\ EndOf(f.item) = e
    \/ /\ f.stmt.op = "next" /\ HasOne(f.stmt.body, form.adds)
       /\ \E k \in DOMAIN f.stmt.rest : EndOf(f.stmt.rest[k]) = e
    \/ Paired(f.stmt, e.type, form.once)

Apart(over) == \A k, l \in DOMAIN over : EndOf(over[k]) = EndOf(over[l]) => k = l

OneHand(form) ==
    \A i, j \in DOMAIN todo : i < j =>
        \A e : ~(Hands(todo[i], e, form) /\ Hands(todo[j], e, form))

NotYet(form) == \A i \in DOMAIN todo : \A e : Hands(todo[i], e, form) => ~IsRecorded(e)

RestsApart(form) ==
    \A i \in DOMAIN todo : todo[i].stmt.op = "next" /\ HasOne(todo[i].stmt.body, form.adds) =>
        Apart(todo[i].stmt.rest)

ToldApart(form) ==
    \A x, y \in listed : x.type = y.type /\ x.n = y.n =>
        x = y \/ x.type \in form.plain \cup Singles(form.typed)

NoTwins ==
    \A i, j \in DOMAIN records :
        records[i].type = records[j].type /\ records[i].id = records[j].id => i = j

OnceInv(form) ==
    /\ TypedTodo(form.typed, {}) /\ LoopTodo(form.typed) /\ ToldApart(form)
    /\ OneHand(form) /\ NotYet(form) /\ RestsApart(form) /\ NoTwins

LEMMA OnceStart ==
    ASSUME GatherInit, NEW form, HandsOnce(Programs[module], form)
    PROVE  OnceInv(form)
<1> DEFINE n == Len(Programs[module])
<1>0. TypedTodo(form.typed, {}) /\ LoopTodo(form.typed)
  BY TypedStart, LoopStart DEF HandsOnce
<1>1. n \in Nat /\ DOMAIN todo = 1 .. n + 1 /\ todo[n + 1].stmt.op = "end"
  BY StartFrames
<1>2. ASSUME NEW k \in 1 .. n
      PROVE  /\ todo[k].stmt = Programs[module][k] /\ todo[k].item.type = NotAResource
             /\ todo[k].stmt \in Statements /\ k \in DOMAIN Programs[module]
  <2>1. todo[k] = [stmt |-> Programs[module][k], item |-> Outside(k)]
    BY StartFrames
  <2>2. Programs[module] \in Seq(Statements) /\ k \in DOMAIN Programs[module]
    <3>1. Programs[module] \in Seq(Statements)
      BY StartFrames
    <3> QED BY <3>1
  <2>3. todo[k].stmt = Programs[module][k] /\ todo[k].item = Outside(k)
    BY <2>1
  <2> QED BY <2>2, <2>3, BodyRange DEF Outside
<1>3. \A k \in DOMAIN todo : k \in 1 .. n \/ k = n + 1
  BY <1>1
<1>4. \A s \in Statements : s.op \notin Marks
  BY ProgramAssumption DEF WellFormed
<1>5. \A k \in DOMAIN todo : todo[k].stmt.op # "next"
  BY <1>1, <1>2, <1>3, <1>4 DEF Marks
<1>6. ASSUME NEW k \in DOMAIN todo, NEW e, Hands(todo[k], e, form)
      PROVE  k \in DOMAIN Programs[module] /\ Paired(Programs[module][k], e.type, form.once)
  <2>1. \A s \in form.adds : s.op # "end"
    BY DEF HandsOnce, AddsOnce, Through
  <2>2. \A q \in form.once : q[1].op # "end"
    BY DEF HandsOnce, ListsOnce, Through
  <2>3. k \in 1 .. n
    BY <1>1, <1>3, <1>5, <1>6, <2>1, <2>2 DEF Hands, Paired
  <2>4. todo[k].stmt \notin form.adds
    <3>1. todo[k].stmt.op \notin Marks
      BY <1>2, <1>4, <2>3
    <3>2. PICK p \in form.typed : p = <<todo[k].stmt, todo[k].item.type>>
      BY <1>0, <3>1 DEF TypedTodo
    <3>3. p[1] = todo[k].stmt /\ p[2] = NotAResource
      BY <1>2, <2>3, <3>2
    <3> QED BY <3>3 DEF HandsOnce, AddsOnce
  <2> QED BY <1>2, <1>5, <1>6, <2>3, <2>4 DEF Hands
<1>7. OneHand(form)
  <2> SUFFICES ASSUME NEW i \in DOMAIN todo, NEW j \in DOMAIN todo, i < j, NEW e,
                      Hands(todo[i], e, form), Hands(todo[j], e, form)
               PROVE  FALSE
    BY DEF OneHand
  <2>1. /\ i \in DOMAIN Programs[module] /\ Paired(Programs[module][i], e.type, form.once)
        /\ j \in DOMAIN Programs[module] /\ Paired(Programs[module][j], e.type, form.once)
    BY <1>6
  <2>2. PICK q \in form.once : q[2] = e.type
    BY <2>1 DEF Paired
  <2>3. Programs[module] \in Bodies(Programs[module], form.typed)
    BY DEF Bodies
  <2>4. i = j
    BY <2>1, <2>2, <2>3 DEF HandsOnce, ListsOnce
  <2> QED BY <1>1, <2>4
<1>8. records = <<>> /\ listed = {}
  BY DEF GatherInit, WriterInit
<1>9. NotYet(form) /\ NoTwins /\ ToldApart(form)
  BY <1>8 DEF NotYet, NoTwins, ToldApart, IsRecorded
<1>10. RestsApart(form)
  BY <1>5 DEF RestsApart
<1> QED BY <1>0, <1>7, <1>9, <1>10 DEF OnceInv

LEMMA ToldApartStays ==
    ASSUME GatherInv, GatherStep, GatherInv', NEW form, HandsOnce(Programs[module], form),
           TypedTodo(form.typed, {}), ToldApart(form)
    PROVE  ToldApart(form)'
<1>0. todo # <<>> /\ todo[1].stmt = stmt /\ todo[1].item = item /\ 1 \in DOMAIN todo
  BY Grows, HeadFirst DEF GatherInv
<1>1. CASE listed' = listed
  BY <1>1 DEF ToldApart
<1>2. CASE /\ stmt.op = "each" /\ \A x \in listed' : x \in listed \/ Came(x)
  <2>1. PICK p \in form.typed : p = <<stmt, item.type>>
    BY <1>0, <1>2 DEF TypedTodo, Marks
  <2>2. p[1] = stmt
    BY <2>1
  <2>3. /\ stmt.form \in {"shared", "known"} => stmt.what \in form.plain
        /\ stmt.form = "single" => stmt.what \in Singles(form.typed)
    BY <1>2, <2>1, <2>2 DEF HandsOnce, OnceOrPlain, Singles
  <2>4. ASSUME NEW x \in listed', Came(x)
        PROVE  /\ x.type = stmt.what
               /\ \/ x.n \notin Numbers(listed) \cup {0}
                  \/ x.type \in form.plain \cup Singles(form.typed)
    BY <2>3, <2>4 DEF Came, NewItem
  <2> SUFFICES ASSUME NEW x \in listed', NEW y \in listed', x.type = y.type, x.n = y.n,
                      x.type \notin form.plain \cup Singles(form.typed)
               PROVE  x = y
    BY DEF ToldApart
  <2>5. ASSUME NEW v \in listed, NEW w \in listed', Came(w), v.n = w.n, w.type = x.type
        PROVE  FALSE
    BY <2>4, <2>5 DEF Numbers
  <2>6. CASE Came(x) /\ Came(y)
    <3>1. x.intent = y.intent
      BY DEF GatherInv, ListedInv, Items
    <3> QED BY <2>6, <3>1 DEF Came
  <2>7. CASE x \in listed /\ y \in listed
    BY <2>7 DEF ToldApart
  <2> QED BY <1>2, <2>5, <2>6, <2>7
<1> QED BY <1>1, <1>2, ListedGrows

-----------------------------------------------------------------------------
(* What a step newly has handed over was that of the statement at hand, or was just
   listed for the first time. *)
Fresh(e, form) ==
    /\ stmt.op = "each" /\ e.type = stmt.what /\ e.id \notin Numbers(listed) \cup {0}
    /\ \A q \in form.once : q[2] # e.type

Sprung(e, form) == Hands(todo[1], e, form) \/ Fresh(e, form)

Given(over, form) ==
    HasOne(stmt.body, form.adds) =>
        Apart(over) /\ \A k \in DOMAIN over : Sprung(EndOf(over[k]), form)

LEMMA FreshUnheard ==
    ASSUME GatherInv, NEW e, NEW form, Fresh(e, form)
    PROVE  /\ ~IsRecorded(e)
           /\ \A i \in DOMAIN todo : ~Hands(todo[i], e, form)
<1>1. e.id \notin Numbers(listed) \cup {0} /\ \A q \in form.once : q[2] # e.type
  BY DEF Fresh
<1>2. \A x \in Items(listed) : x.n \in Numbers(listed) \cup {0}
  BY OutsideItems DEF Items, Numbers
<1>3. ~IsRecorded(e)
  BY <1>1, <1>2 DEF GatherInv, RecordsInv, IsRecorded
<1>4. ASSUME NEW i \in DOMAIN todo, Hands(todo[i], e, form) PROVE FALSE
  <2>1. /\ todo[i].item \in Items(listed)
        /\ todo[i].stmt.op = "next" => todo[i].stmt.rest \in Seq(listed)
    <3>1. todo[i] \in Frame(listed)
      BY DEF GatherInv, TodoInv
    <3> QED BY <3>1, ProgramAssumption DEF Frame, WellFormed, Marks
  <2>2. \A x \in Items(listed) : EndOf(x) # e
    <3>1. \A x : EndOf(x).id = x.n
      BY DEF EndOf
    <3> QED BY <1>1, <1>2, <3>1
  <2>3. ASSUME todo[i].stmt.op = "next", NEW k \in DOMAIN todo[i].stmt.rest
        PROVE  todo[i].stmt.rest[k] \in Items(listed)
    BY <2>1, <2>3 DEF Items
  <2> QED BY <1>1, <1>4, <2>1, <2>2, <2>3 DEF Hands, Paired
<1> QED BY <1>3, <1>4

(* The resources of a list call that are new have numbers of their own. *)
LEMMA NewNumbers ==
    ASSUME GatherInv, NEW items \in NewItems
    PROVE  /\ \A i \in DOMAIN items : /\ items[i].type = stmt.what
                                      /\ items[i].n \notin Numbers(listed) \cup {0}
           /\ Apart(items)
<1>1. PICK k \in 0 .. Room : \E intents \in [1 .. k -> PossibleIntents] :
          items = [m \in 1 .. k |-> NewItem(Numbered + m, intents[m])]
  BY DEF NewItems
<1>2. PICK intents \in [1 .. k -> PossibleIntents] :
          items = [m \in 1 .. k |-> NewItem(Numbered + m, intents[m])]
  BY <1>1
<1>3. ASSUME NEW i \in DOMAIN items
      PROVE  items[i].n = Numbered + i /\ items[i].type = stmt.what /\ i \in Nat \ {0}
  <2>1. i \in 1 .. k /\ items[i] = NewItem(Numbered + i, intents[i])
    BY <1>2
  <2>2. i \in Nat \ {0}
    BY <1>1, <2>1
  <2> QED BY <2>1, <2>2 DEF NewItem
<1>4. Numbers(listed) = 1 .. Numbered /\ Numbered \in Nat
  BY EventsInRoom DEF GatherInv, ListedInv
<1>5. ASSUME NEW i \in DOMAIN items PROVE items[i].n \notin Numbers(listed) \cup {0}
  <2>1. Numbered + i \notin 1 .. Numbered /\ Numbered + i # 0
    BY <1>3, <1>4
  <2> QED BY <1>3, <1>4, <2>1
<1>6. ASSUME NEW i \in DOMAIN items, NEW j \in DOMAIN items,
             EndOf(items[i]) = EndOf(items[j])
      PROVE  i = j
  <2>1. EndOf(items[i]).id = items[i].n /\ EndOf(items[j]).id = items[j].n
    BY DEF EndOf
  <2>2. Numbered + i = Numbered + j
    BY <1>3, <1>6, <2>1
  <2> QED BY <1>3, <1>4, <2>2
<1> QED BY <1>3, <1>5, <1>6 DEF Apart

LEMMA HeadHands ==
    ASSUME GatherInv, todo # <<>>, NEW form, NEW e, Paired(stmt, e.type, form.once)
    PROVE  Sprung(e, form)
<1>1. todo[1].stmt = stmt
  BY HeadFirst DEF GatherInv
<1> QED BY <1>1 DEF Sprung, Hands

LEMMA EachGives ==
    ASSUME GatherInv, ListResources \/ ListFirstPage \/ ListFromFirstPage, GatherInv',
           NEW form, HandsOnce(Programs[module], form), OnceInv(form)
    PROVE  (\E k : Leaves(k)) \/ \E over : EntersLoop(over) /\ Given(over, form)
<1>0. /\ Running("each") /\ todo # <<>> /\ stmt.op = "each" /\ todo[1].stmt = stmt
      /\ todo[1].item = item /\ 1 \in DOMAIN todo
  <2>1. Running("each")
    BY DEF ListResources, ListFirstPage, ListFromFirstPage
  <2>2. todo # <<>> /\ stmt.op = "each"
    BY <2>1 DEF Running
  <2> QED BY <2>1, <2>2, HeadFirst DEF GatherInv
<1>1. (\E k : Leaves(k)) \/ \E over : EntersLoop(over)
  BY ListingForm
<1>2. CASE ~HasOne(stmt.body, form.adds)
  BY <1>1, <1>2 DEF Given
<1>3. CASE HasOne(stmt.body, form.adds)
  <2>1. PICK p \in form.typed : p = <<stmt, item.type>>
    BY <1>0 DEF OnceInv, TypedTodo, Marks
  <2>2. p[1] = stmt
    BY <2>1
  <2>3. IF stmt.form \in {"fresh", "first page"}
          THEN \A q \in form.once : q[2] # stmt.what
          ELSE Paired(stmt, stmt.what, form.once) /\ stmt.form \in {"single", "known"}
    BY <1>0, <1>3, <2>2 DEF HandsOnce, ListsOnce
  <2>4. PICK items \in Listing :
            /\ listed' = listed \cup {items[i] : i \in DOMAIN items}
            /\ todo' = Loop(items, stmt.body, item) \o Tail(todo)
    BY <1>0, <2>3 DEF ListResources, ListFirstPage, ListFromFirstPage
  <2>5. /\ \A i \in DOMAIN items : items[i].type = stmt.what
        /\ items \in Seq(Item)
    <3>1. \A n, intent : NewItem(n, intent).type = stmt.what
      BY DEF NewItem
    <3>2. \A i \in DOMAIN items : items[i].type = stmt.what
      BY <1>0, <3>1, NewOnes
    <3>3. items \in Seq(Item)
      BY <1>0, ListedItems
    <3> QED BY <3>2, <3>3
  <2>6. Apart(items) /\ \A k \in DOMAIN items : Sprung(EndOf(items[k]), form)
    <3>0. \A x : EndOf(x).type = x.type /\ EndOf(x).id = x.n
      BY DEF EndOf
    <3>1. CASE stmt.form \in {"fresh", "first page"}
      <4>1. items \in NewItems
        BY <3>1 DEF Listing
      <4>2. Apart(items)
        BY <4>1, NewNumbers
      <4>3. ASSUME NEW k \in DOMAIN items PROVE Sprung(EndOf(items[k]), form)
        <5>1. items[k].type = stmt.what /\ items[k].n \notin Numbers(listed) \cup {0}
          BY <4>1, NewNumbers
        <5> QED BY <1>0, <2>3, <3>0, <3>1, <5>1 DEF Sprung, Fresh
      <4> QED BY <4>2, <4>3
    <3>2. CASE stmt.form \notin {"fresh", "first page"}
      <4>1. \A k \in DOMAIN items : Sprung(EndOf(items[k]), form)
        BY <1>0, <2>3, <2>5, <3>0, <3>2, HeadHands
      <4>2. Apart(items)
        <5>1. CASE stmt.form = "single"
          <6>1. items = <<NewItem(0, NoIntent)>>
            BY <5>1 DEF Listing
          <6> QED BY <6>1 DEF Apart
        <5>2. CASE stmt.form = "known" /\ ListedOf(stmt.what) = {}
          <6>1. items \in NewItems
            BY <5>2 DEF Listing
          <6> QED BY <6>1, NewNumbers
        <5>3. CASE stmt.form = "known" /\ ListedOf(stmt.what) # {}
          <6> DEFINE S == {NewItem(x.n, x.intent) : x \in ListedOf(stmt.what)}
          <6>1. items \in InOrder(S)
            BY <5>3 DEF Listing
          <6>2. \A i, j \in DOMAIN items : i < j => items[i] # items[j]
            BY <6>1 DEF InOrder
          <6>3. \A i \in DOMAIN items : items[i] \in S
            BY <6>1 DEF InOrder
          <6>4. ASSUME NEW i \in DOMAIN items, NEW j \in DOMAIN items,
                       EndOf(items[i]) = EndOf(items[j])
                PROVE  i = j
            <7>1. PICK x \in listed : items[i] = NewItem(x.n, x.intent)
              BY <6>3 DEF ListedOf
            <7>2. PICK y \in listed : items[j] = NewItem(y.n, y.intent)
              BY <6>3 DEF ListedOf
            <7>3. items[i].n = x.n /\ items[j].n = y.n
              BY <7>1, <7>2 DEF NewItem
            <7>4. x.n = y.n
              BY <3>0, <6>4, <7>3
            <7>5. x.intent = y.intent
              BY <7>4 DEF GatherInv, ListedInv, Items
            <7>6. items[i] = items[j]
              BY <7>1, <7>2, <7>4, <7>5
            <7>7. i \in Nat /\ j \in Nat
              BY <2>5
            <7> QED BY <6>2, <7>6, <7>7
          <6> QED BY <6>4 DEF Apart
        <5> QED BY <2>3, <3>2, <5>1, <5>2, <5>3
      <4> QED BY <4>1, <4>2
    <3> QED BY <3>1, <3>2
  <2>7. EntersLoop(items) \/ (items = <<>> /\ Leaves(2))
    <3>1. stmt.body \in Seq(Statements)
      BY <1>0, BodyAtHand DEF Compound, GatherInv
    <3>2. todo' \in Seq(Frame(listed'))
      BY DEF GatherInv, TodoInv
    <3>3. items \in Seq(listed')
      <4>1. \A i \in DOMAIN items : items[i] \in listed'
        BY <2>4
      <4> QED BY <2>5, <4>1
    <3>4. LoopOver(items)
      BY <1>0, <2>5 DEF LoopOver
    <3> QED BY <1>0, <2>4, <3>1, <3>2, <3>3, <3>4, LoopOpens DEF GatherInv
  <2> QED BY <2>6, <2>7 DEF Given
<1> QED BY <1>2, <1>3

LEMMA AgainGives ==
    ASSUME GatherInv, LoopAgain, GatherInv', NEW form, HandsOnce(Programs[module], form),
           OnceInv(form)
    PROVE  (\E k : Leaves(k)) \/ \E over : EntersLoop(over) /\ Given(over, form)
<1>1. /\ stmt.op = "again"
      /\ \E over \in Seq(listed') :
             /\ {over[i] : i \in DOMAIN over} = ListedOf(stmt.what)
             /\ \A i, j \in DOMAIN over : over[i] = over[j] => i = j
             /\ LoopOver(over)
             /\ EntersLoop(over) \/ (over = <<>> /\ Leaves(2))
  BY AgainForm
<1>2. PICK over \in Seq(listed') :
             /\ {over[i] : i \in DOMAIN over} = ListedOf(stmt.what)
             /\ \A i, j \in DOMAIN over : over[i] = over[j] => i = j
             /\ EntersLoop(over) \/ (over = <<>> /\ Leaves(2))
  BY <1>1
<1>3. todo # <<>> /\ todo[1].stmt = stmt /\ todo[1].item = item /\ 1 \in DOMAIN todo
  BY HeadFirst DEF LoopAgain, Running, GatherInv
<1>4. ASSUME HasOne(stmt.body, form.adds)
      PROVE  Apart(over) /\ \A k \in DOMAIN over : Sprung(EndOf(over[k]), form)
  <2>1. PICK p \in form.typed : p = <<stmt, item.type>>
    BY <1>1, <1>3 DEF OnceInv, TypedTodo, Marks
  <2>2. p[1] = stmt
    BY <2>1
  <2>3. /\ Paired(stmt, stmt.what, form.once)
        /\ stmt.what \notin form.plain \cup Singles(form.typed)
    BY <1>1, <1>4, <2>2 DEF HandsOnce, ListsOnce
  <2>4. \A k \in DOMAIN over : over[k] \in listed /\ over[k].type = stmt.what
    BY <1>2 DEF ListedOf
  <2>5. \A x : EndOf(x).type = x.type /\ EndOf(x).id = x.n
    BY DEF EndOf
  <2>6. \A k \in DOMAIN over : Sprung(EndOf(over[k]), form)
    BY <1>3, <2>3, <2>4, <2>5, HeadHands
  <2>7. ASSUME NEW k \in DOMAIN over, NEW l \in DOMAIN over, EndOf(over[k]) = EndOf(over[l])
        PROVE  k = l
    <3>1. over[k].n = over[l].n
      BY <2>5, <2>7
    <3>2. over[k] = over[l]
      BY <2>3, <2>4, <3>1 DEF OnceInv, ToldApart
    <3> QED BY <1>2, <3>2
  <2> QED BY <2>6, <2>7 DEF Apart
<1> QED BY <1>2, <1>4 DEF Given

LEMMA NextGives ==
    ASSUME GatherInv, NextItem, GatherInv', NEW form, OnceInv(form)
    PROVE  (\E k : Leaves(k)) \/ \E over : EntersLoop(over) /\ Given(over, form)
<1>1. stmt.op = "next" /\ (EntersLoop(stmt.rest) \/ (stmt.rest = <<>> /\ Leaves(2)))
  BY NextForm
<1>2. todo # <<>> /\ todo[1].stmt = stmt /\ 1 \in DOMAIN todo
  BY HeadFirst DEF NextItem, Running, GatherInv
<1>3. Given(stmt.rest, form)
  BY <1>1, <1>2 DEF Given, OnceInv, RestsApart, Sprung, Hands
<1> QED BY <1>1, <1>3

LEMMA OnceWays ==
    ASSUME GatherInv, GatherStep, GatherInv', NEW form, HandsOnce(Programs[module], form),
           OnceInv(form)
    PROVE  \/ \E k : Leaves(k)
           \/ EntersBody \/ EntersTry
           \/ \E over : EntersLoop(over) /\ Given(over, form)
<1>1. CASE ListResources \/ ListFirstPage \/ ListFromFirstPage
  BY <1>1, EachGives
<1>2. CASE LoopAgain
  BY <1>2, AgainGives
<1>3. CASE NextItem
  BY <1>3, NextGives
<1>4. CASE Branch \/ FetchAndUse \/ RecordResource
  BY <1>4, BodyForm
<1>5. CASE EnterTry
  BY <1>5, TryForm
<1>6. CASE FetchDetail \/ LeaveTry \/ NoEdge \/ DeriveEdge
  BY <1>6, QuietForm
<1>7. CASE Swallow \/ Drop \/ ReportAndGoOn \/ ReportAndSkip \/ ReportAndLeave \/ Unwind
  BY <1>7, FailForm
<1> QED BY <1>1, <1>2, <1>3, <1>4, <1>5, <1>6, <1>7 DEF GatherStep

-----------------------------------------------------------------------------
(* The frames that a step opens hand over nothing that another one does. *)
OfBody(i, x) == [stmt |-> stmt.body[i], item |-> x]

Sprouts(x, d, form) ==
    /\ \A i \in DOMAIN stmt.body : \A e : Hands(OfBody(i, x), e, form) =>
           Sprung(e, form) /\ stmt.op # "add"
    /\ \A i, j \in DOMAIN stmt.body : \A e :
           Hands(OfBody(i, x), e, form) /\ Hands(OfBody(j, x), e, form) => i = j
    /\ d = 1 =>
           /\ \A e : Hands(Mark, e, form) => Sprung(e, form)
           /\ \A e : Hands(Mark, e, form) =>
                  \A i \in DOMAIN stmt.body : ~Hands(OfBody(i, x), e, form)
           /\ Mark.stmt.op = "next" /\ HasOne(Mark.stmt.body, form.adds) =>
                  Apart(Mark.stmt.rest)

LEMMA HandsInBody ==
    ASSUME GatherInv, NEW form, stmt.body \in Seq(Statements), NEW i \in DOMAIN stmt.body,
           NEW x, NEW e, Hands(OfBody(i, x), e, form)
    PROVE  \/ stmt.body[i] \in form.adds /\ EndOf(x) = e
           \/ Paired(stmt.body[i], e.type, form.once)
<1>1. OfBody(i, x).stmt = stmt.body[i] /\ OfBody(i, x).item = x
  BY DEF OfBody
<1>2. stmt.body[i].op # "next"
  BY BodyRange, ProgramAssumption DEF WellFormed, Marks
<1> QED BY <1>1, <1>2 DEF Hands

LEMMA NoneAtMarks ==
    ASSUME NEW form, HandsOnce(Programs[module], form), NEW f, NEW e, Hands(f, e, form),
           f.stmt.op \in Marks
    PROVE  /\ f.stmt.op = "next" /\ HasOne(f.stmt.body, form.adds)
           /\ \E k \in DOMAIN f.stmt.rest : EndOf(f.stmt.rest[k]) = e
<1>1. \A s \in form.adds : s.op \notin Marks
  BY DEF HandsOnce, AddsOnce, Through, Marks
<1>2. \A q \in form.once : q[1].op \notin Marks
  BY DEF HandsOnce, ListsOnce, Through, Marks
<1> QED BY <1>1, <1>2 DEF Hands, Paired

LEMMA BodySprouts ==
    ASSUME GatherInv, GatherStep, GatherInv', NEW form, HandsOnce(Programs[module], form),
           OnceInv(form), stmt.op \in Through \cup {"add"},
           NEW d, d = 1 => Mark.stmt.op \in {"except", "end"}
    PROVE  Sprouts(item, d, form)
<1>0. /\ todo # <<>> /\ todo[1].stmt = stmt /\ todo[1].item = item
      /\ TypedTodo(form.typed, {}) /\ LoopTodo(form.typed) /\ Fits(Programs[module], form.typed, {})
      /\ stmt.op \in Compound
  BY Grows, HeadFirst DEF GatherInv, OnceInv, HandsOnce, Through, Compound
<1>1. /\ stmt.body \in Bodies(Programs[module], form.typed)
      /\ stmt.op # "next" => \E p \in form.typed : p[1] = stmt /\ p[2] = item.type
  BY <1>0, BodyOfProgram
<1>2. PICK p \in form.typed : p[1] = stmt /\ p[2] = item.type
  BY <1>1 DEF Through
<1>3. stmt.body \in Seq(Statements)
  BY <1>0, BodyAtHand DEF GatherInv
<1>4. ASSUME NEW i \in DOMAIN stmt.body
      PROVE  \E r \in form.typed : r[1] = stmt.body[i] /\ r[2] = item.type
  <2>1. stmt.op \in {"if", "when", "add", "guard", "call"} =>
            Fitting(stmt.body, item.type, form.typed, {})
    BY <1>0, FittingAtHand
  <2>2. <<stmt.body[i], item.type>> \in form.typed
    BY <2>1 DEF Fitting, Through
  <2>3. PICK r \in form.typed : r = <<stmt.body[i], item.type>>
    BY <2>2
  <2> QED BY <2>3
<1>5. ASSUME NEW i \in DOMAIN stmt.body, NEW e, Hands(OfBody(i, item), e, form)
      PROVE  Sprung(e, form) /\ stmt.op # "add"
  <2>1. CASE stmt.body[i] \in form.adds /\ EndOf(item) = e
    <3>1. HasOne(stmt.body, form.adds)
      BY <2>1 DEF HasOne
    <3>2. stmt \in form.adds /\ stmt.op # "add"
      BY <1>2, <3>1 DEF HandsOnce, AddsOnce
    <3> QED BY <1>0, <2>1, <3>2 DEF Sprung, Hands
  <2>2. CASE Paired(stmt.body[i], e.type, form.once)
    <3>1. PICK q \in form.once : q[1] = stmt.body[i] /\ q[2] = e.type
      BY <2>2 DEF Paired
    <3>2. HasOne(stmt.body, {q[1]})
      BY <3>1 DEF HasOne
    <3>3. stmt.op # "add" /\ Paired(stmt, e.type, form.once)
      BY <1>2, <3>1, <3>2 DEF HandsOnce, ListsOnce
    <3> QED BY <1>0, <3>3, HeadHands
  <2> QED BY <1>3, <1>5, <2>1, <2>2, HandsInBody
<1>6. ASSUME NEW i \in DOMAIN stmt.body, NEW j \in DOMAIN stmt.body, NEW e,
             Hands(OfBody(i, item), e, form), Hands(OfBody(j, item), e, form)
      PROVE  i = j
  <2>1. ASSUME NEW k \in DOMAIN stmt.body
        PROVE  ~(stmt.body[k] \in form.adds /\ item.type = NotAResource)
    BY <1>4, <2>1 DEF HandsOnce, AddsOnce
  <2>2. ASSUME NEW k \in DOMAIN stmt.body, Paired(stmt.body[k], e.type, form.once)
        PROVE  item.type = NotAResource
    <3>1. PICK r \in form.typed : r[1] = stmt.body[k] /\ r[2] = item.type
      BY <1>4
    <3>2. PICK q \in form.once : q[1] = stmt.body[k] /\ q[2] = e.type
      BY <2>2 DEF Paired
    <3> QED BY <3>1, <3>2 DEF HandsOnce, ListsOnce
  <2>3. CASE stmt.body[i] \in form.adds /\ stmt.body[j] \in form.adds
    BY <1>1, <2>3 DEF HandsOnce, AddsOnce, Alone
  <2>4. CASE Paired(stmt.body[i], e.type, form.once) /\ Paired(stmt.body[j], e.type, form.once)
    <3>1. PICK q \in form.once : q[2] = e.type
      BY <2>4 DEF Paired
    <3> QED BY <1>1, <2>4, <3>1 DEF HandsOnce, ListsOnce
  <2> QED BY <1>3, <1>6, <2>1, <2>2, <2>3, <2>4, HandsInBody
<1>7. ASSUME d = 1 PROVE Mark.stmt.op # "next" /\ \A e : ~Hands(Mark, e, form)
  BY <1>7, NoneAtMarks DEF Marks
<1> QED BY <1>5, <1>6, <1>7 DEF Sprouts

LEMMA LoopSprouts ==
    ASSUME GatherInv, GatherStep, GatherInv', NEW form, HandsOnce(Programs[module], form),
           OnceInv(form), NEW over, EntersLoop(over), Given(over, form)
    PROVE  Sprouts(Head(over), 1, form)
<1>0. /\ todo # <<>> /\ TypedTodo(form.typed, {}) /\ LoopTodo(form.typed)
      /\ stmt.op \in {"each", "again", "next"}
  BY Grows DEF OnceInv, EntersLoop
<1>1. /\ stmt.body \in Bodies(Programs[module], form.typed)
      /\ \E p \in form.typed : p[1].op \in {"each", "again"} /\ p[1].body = stmt.body
  BY <1>0, BodyOfProgram DEF Compound
<1>2. PICK p \in form.typed : p[1].op \in {"each", "again"} /\ p[1].body = stmt.body
  BY <1>1
<1>3. stmt.body \in Seq(Statements)
  BY <1>0, BodyAtHand DEF GatherInv, Compound
<1>4. /\ over \in Seq(listed') /\ over # <<>> /\ Mark.stmt.op = "next"
      /\ Mark.stmt.body = stmt.body /\ Mark.stmt.rest = Tail(over)
  BY DEF EntersLoop
<1>5. ASSUME NEW i \in DOMAIN stmt.body, NEW type PROVE ~Paired(stmt.body[i], type, form.once)
  <2> SUFFICES ASSUME NEW q \in form.once, q[1] = stmt.body[i] PROVE FALSE
    BY DEF Paired
  <2>1. HasOne(p[1].body, {q[1]})
    BY <1>2 DEF HasOne
  <2> QED BY <1>2, <2>1 DEF HandsOnce, ListsOnce
<1>6. ASSUME NEW i \in DOMAIN stmt.body, NEW e, Hands(OfBody(i, Head(over)), e, form)
      PROVE  /\ stmt.body[i] \in form.adds /\ EndOf(over[1]) = e
             /\ HasOne(stmt.body, form.adds)
  <2>1. stmt.body[i] \in form.adds /\ EndOf(Head(over)) = e
    BY <1>3, <1>5, <1>6, HandsInBody
  <2> QED BY <1>4, <2>1 DEF HasOne
<1>7. ASSUME NEW e, Hands(Mark, e, form)
      PROVE  /\ HasOne(stmt.body, form.adds)
             /\ \E k \in DOMAIN over : k # 1 /\ EndOf(over[k]) = e
  <2>1. HasOne(stmt.body, form.adds) /\ \E k \in DOMAIN Tail(over) : EndOf(Tail(over)[k]) = e
    BY <1>4, <1>7, NoneAtMarks DEF Marks
  <2>2. PICK k \in DOMAIN Tail(over) : EndOf(Tail(over)[k]) = e
    BY <2>1
  <2>3. k + 1 \in DOMAIN over /\ k + 1 # 1 /\ Tail(over)[k] = over[k + 1]
    BY <1>4
  <2> QED BY <2>1, <2>2, <2>3
<1>8. 1 \in DOMAIN over
  BY <1>4
<1>9. HasOne(stmt.body, form.adds) =>
          Apart(over) /\ \A k \in DOMAIN over : Sprung(EndOf(over[k]), form)
  BY DEF Given
<1>10. HasOne(stmt.body, form.adds) => Apart(Tail(over))
  <2> SUFFICES ASSUME HasOne(stmt.body, form.adds),
                      NEW k \in DOMAIN Tail(over), NEW l \in DOMAIN Tail(over),
                      EndOf(Tail(over)[k]) = EndOf(Tail(over)[l])
               PROVE  k = l
    BY DEF Apart
  <2>1. /\ k + 1 \in DOMAIN over /\ Tail(over)[k] = over[k + 1] /\ k \in Nat
        /\ l + 1 \in DOMAIN over /\ Tail(over)[l] = over[l + 1] /\ l \in Nat
    BY <1>4
  <2>2. k + 1 = l + 1
    BY <1>9, <2>1 DEF Apart
  <2> QED BY <2>1, <2>2
<1>11. ASSUME NEW i \in DOMAIN stmt.body, NEW e, Hands(OfBody(i, Head(over)), e, form)
       PROVE  Sprung(e, form) /\ stmt.op # "add"
  BY <1>0, <1>6, <1>8, <1>9, <1>11
<1>12. ASSUME NEW i \in DOMAIN stmt.body, NEW j \in DOMAIN stmt.body, NEW e,
              Hands(OfBody(i, Head(over)), e, form), Hands(OfBody(j, Head(over)), e, form)
       PROVE  i = j
  BY <1>1, <1>6, <1>12 DEF HandsOnce, AddsOnce, Alone
<1>13. ASSUME NEW e, Hands(Mark, e, form)
       PROVE  Sprung(e, form) /\ \A i \in DOMAIN stmt.body : ~Hands(OfBody(i, Head(over)), e, form)
  BY <1>6, <1>7, <1>8, <1>9, <1>13 DEF Apart
<1> QED BY <1>4, <1>10, <1>11, <1>12, <1>13 DEF Sprouts

-----------------------------------------------------------------------------
(* What a frame that a step leaves or opens hands over is not recorded after it. *)
LEMMA SprungUnheard ==
    ASSUME GatherInv, NEW form, NotYet(form), todo # <<>>, NEW e, Sprung(e, form)
    PROVE  ~IsRecorded(e)
<1>1. 1 \in DOMAIN todo
  BY HeadFirst DEF GatherInv
<1> QED BY <1>1, FreshUnheard DEF Sprung, NotYet

LEMMA RecordedAtHead ==
    ASSUME GatherInv, GatherStep, NEW form, HandsOnce(Programs[module], form), OnceInv(form),
           records' # records
    PROVE  /\ stmt.op = "add" /\ Hands(todo[1], EndOf(item), form)
           /\ records' = Append(records, [type |-> item.type, region |-> region,
                                          id |-> item.n,
                                          checks |-> IntentSeen(item).checks])
<1>1. /\ stmt.op = "add"
      /\ records' = Append(records, [type |-> item.type, region |-> region,
                                     id |-> item.n,
                                     checks |-> IntentSeen(item).checks])
  BY RecordsKeptOrOne
<1>2. todo[1].stmt = stmt /\ todo[1].item = item /\ 1 \in DOMAIN todo
  BY Grows, HeadFirst DEF GatherInv
<1>3. PICK p \in form.typed : p = <<stmt, item.type>>
  BY <1>1, <1>2 DEF OnceInv, TypedTodo, Marks
<1>4. stmt \in form.adds
  <2>1. p[1] = stmt
    BY <1>3
  <2> QED BY <1>1, <2>1 DEF HandsOnce, AddsOnce
<1> QED BY <1>1, <1>2, <1>4 DEF Hands

LEMMA RecordedAfter ==
    ASSUME GatherInv, GatherStep, NEW form, HandsOnce(Programs[module], form), OnceInv(form),
           NEW e, IsRecorded(e)', ~IsRecorded(e)
    PROVE  /\ stmt.op = "add" /\ Hands(todo[1], EndOf(item), form)
           /\ \A f : Hands(f, e, form) => Hands(f, EndOf(item), form)
<1>1. records' # records
  BY DEF IsRecorded
<1>2. /\ stmt.op = "add" /\ Hands(todo[1], EndOf(item), form)
      /\ records' = Append(records, [type |-> item.type, region |-> region,
                                     id |-> item.n,
                                     checks |-> IntentSeen(item).checks])
  BY <1>1, RecordedAtHead
<1>3. PICK k \in DOMAIN records' : records'[k].type = e.type /\ records'[k].id = e.id
  BY DEF IsRecorded
<1>4. k \notin DOMAIN records \/ records'[k] # records[k]
  BY <1>3 DEF IsRecorded
<1>5. records'[k] = [type |-> item.type, region |-> region, id |-> item.n,
                     checks |-> IntentSeen(item).checks]
  <2>1. PICK S : records \in Seq(S)
    BY DEF GatherInv, WriterTypeOK
  <2> QED BY <1>2, <1>4, <2>1
<1>6. item.type = e.type /\ item.n = e.id
  BY <1>3, <1>5
<1>7. \A x : EndOf(x) = e => EndOf(x) = EndOf(item)
  <2>1. \A x : EndOf(x).type = x.type /\ EndOf(x).id = x.n
    BY DEF EndOf
  <2> QED BY <1>6, <2>1 DEF EndOf
<1>8. EndOf(item).type = e.type
  BY <1>6 DEF EndOf
<1>9. ASSUME NEW f, Hands(f, e, form) PROVE Hands(f, EndOf(item), form)
  <2>1. \/ f.stmt \in form.adds /\ EndOf(f.item) = EndOf(item)
        \/ /\ f.stmt.op = "next" /\ HasOne(f.stmt.body, form.adds)
           /\ \E m \in DOMAIN f.stmt.rest : EndOf(f.stmt.rest[m]) = EndOf(item)
        \/ Paired(f.stmt, EndOf(item).type, form.once)
    BY <1>7, <1>8, <1>9 DEF Hands
  <2> QED BY <2>1 DEF Hands
<1> QED BY <1>2, <1>9

LEMMA StayedUnheard ==
    ASSUME GatherInv, GatherStep, NEW form, HandsOnce(Programs[module], form), OnceInv(form),
           NEW b \in DOMAIN todo, b # 1, NEW e, Hands(todo[b], e, form)
    PROVE  ~IsRecorded(e)'
<1> SUFFICES ASSUME IsRecorded(e)' PROVE FALSE
  OBVIOUS
<1>1. ~IsRecorded(e)
  BY DEF OnceInv, NotYet
<1>2. Hands(todo[1], EndOf(item), form) /\ Hands(todo[b], EndOf(item), form)
  BY <1>1, RecordedAfter
<1>3. 1 \in DOMAIN todo /\ 1 < b
  <2>1. todo # <<>> /\ \E S : todo \in Seq(S)
    BY Grows DEF GatherInv, TodoInv
  <2> QED BY <2>1
<1> QED BY <1>2, <1>3 DEF OnceInv, OneHand

LEMMA OpenedUnheard ==
    ASSUME GatherInv, GatherStep, GatherInv', NEW form, HandsOnce(Programs[module], form),
           OnceInv(form), NEW x, NEW d, Opening(x, d), Sprouts(x, d, form),
           NEW i \in DOMAIN todo', InBodyAt(i, x) \/ (d = 1 /\ i = Len(stmt.body) + 1),
           NEW e, Hands(todo'[i], e, form)
    PROVE  Sprung(e, form) /\ stmt.op # "add" /\ ~IsRecorded(e)'
<1>1. Sprung(e, form) /\ stmt.op # "add"
  <2>1. CASE InBodyAt(i, x)
    <3>1. i \in DOMAIN stmt.body /\ todo'[i] = OfBody(i, x)
      BY <2>1 DEF InBodyAt, OfBody
    <3> QED BY <3>1 DEF Sprouts
  <2>2. CASE d = 1 /\ i = Len(stmt.body) + 1
    <3>1. todo'[i] = Mark
      BY <2>2 DEF Mark
    <3> QED BY <2>2, <3>1 DEF Sprouts, Opening
  <2> QED BY <2>1, <2>2
<1>2. ~IsRecorded(e)
  BY <1>1, SprungUnheard, Grows DEF OnceInv
<1> QED BY <1>1, <1>2, RecordedAfter

LEMMA SprungApart ==
    ASSUME GatherInv, GatherStep, NEW form, OnceInv(form), NEW e, Sprung(e, form),
           NEW b \in 2 .. Len(todo), b \in DOMAIN todo
    PROVE  ~Hands(todo[b], e, form)
<1>1. 1 \in DOMAIN todo /\ 1 < b
  BY Grows, HeadFirst DEF GatherInv
<1> QED BY <1>1, FreshUnheard DEF Sprung, OnceInv, OneHand

LEMMA NoTwinsStay ==
    ASSUME GatherInv, GatherStep, NEW form, HandsOnce(Programs[module], form), OnceInv(form)
    PROVE  NoTwins'
<1>1. CASE records' = records
  BY <1>1 DEF OnceInv, NoTwins
<1>2. CASE records' # records
  <2> DEFINE new == [type |-> item.type, region |-> region, id |-> item.n,
                     checks |-> IntentSeen(item).checks]
  <2>1. Hands(todo[1], EndOf(item), form) /\ records' = Append(records, new)
    BY <1>2, RecordedAtHead
  <2>2. ~IsRecorded(EndOf(item))
    <3>1. 1 \in DOMAIN todo
      BY Grows, HeadFirst DEF GatherInv
    <3> QED BY <2>1, <3>1 DEF OnceInv, NotYet
  <2>3. \A k \in DOMAIN records : ~(records[k].type = new.type /\ records[k].id = new.id)
    <3>1. EndOf(item).type = new.type /\ EndOf(item).id = new.id
      BY DEF EndOf
    <3> QED BY <2>2, <3>1 DEF IsRecorded
  <2>4. \E S : records \in Seq(S)
    BY DEF GatherInv, WriterTypeOK
  <2> HIDE DEF new
  <2>5. /\ DOMAIN records' = DOMAIN records \cup {Len(records) + 1}
        /\ records'[Len(records) + 1] = new
        /\ \A k \in DOMAIN records : records'[k] = records[k]
    BY <2>1, <2>4
  <2> QED BY <2>3, <2>5 DEF OnceInv, NoTwins
<1> QED BY <1>1, <1>2

-----------------------------------------------------------------------------
LEMMA OnceLeft ==
    ASSUME GatherInv, GatherStep, GatherInv', NEW form, HandsOnce(Programs[module], form),
           OnceInv(form), NEW k, Leaves(k)
    PROVE  OneHand(form)' /\ NotYet(form)' /\ RestsApart(form)'
<1>0. todo # <<>>
  BY Grows
<1>1. OneHand(form)'
  <2> SUFFICES ASSUME NEW i \in DOMAIN todo', NEW j \in DOMAIN todo', i < j, NEW e,
                      Hands(todo'[i], e, form), Hands(todo'[j], e, form)
               PROVE  FALSE
    BY DEF OneHand, Hands
  <2>1. PairStays(i, j)
    BY <1>0, LeftPair
  <2> QED BY <2>1 DEF PairStays, Stays, OnceInv, OneHand
<1>2. ASSUME NEW i \in DOMAIN todo'
      PROVE  \E b \in DOMAIN todo : b # 1 /\ todo'[i] = todo[b]
  <2>1. Stays(i, k + i - 1) /\ k + i - 1 \in 2 .. Len(todo)
    BY <1>0, LeftStays, LeftAt
  <2> QED BY <2>1 DEF Stays
<1>3. NotYet(form)'
  <2> SUFFICES ASSUME NEW i \in DOMAIN todo', NEW e, Hands(todo'[i], e, form)
               PROVE  ~IsRecorded(e)'
    BY DEF NotYet, Hands
  <2> QED BY <1>2, StayedUnheard
<1>4. RestsApart(form)'
  BY <1>2 DEF OnceInv, RestsApart
<1> QED BY <1>1, <1>3, <1>4

LEMMA OnceOpened ==
    ASSUME GatherInv, GatherStep, GatherInv', NEW form, HandsOnce(Programs[module], form),
           OnceInv(form), NEW x, NEW d, Opening(x, d), Sprouts(x, d, form)
    PROVE  OneHand(form)' /\ NotYet(form)' /\ RestsApart(form)'
<1>0. todo # <<>>
  BY Grows
<1>1. ASSUME NEW i \in DOMAIN todo'
      PROVE  \/ InBodyAt(i, x) \/ (d = 1 /\ i = Len(stmt.body) + 1)
             \/ \E b \in DOMAIN todo : b # 1 /\ todo'[i] = todo[b]
  <2>1. ASSUME NEW b \in 2 .. Len(todo), Stays(i, b)
        PROVE  \E a \in DOMAIN todo : a # 1 /\ todo'[i] = todo[a]
    BY <2>1 DEF Stays
  <2> QED BY <1>0, <2>1, OpenedStays
<1>2. ASSUME NEW i \in DOMAIN todo', InBodyAt(i, x)
      PROVE  i \in DOMAIN stmt.body /\ todo'[i] = OfBody(i, x)
  BY <1>2 DEF InBodyAt, OfBody
<1>3. OneHand(form)'
  <2> SUFFICES ASSUME NEW i \in DOMAIN todo', NEW j \in DOMAIN todo', i < j, NEW e,
                      Hands(todo'[i], e, form), Hands(todo'[j], e, form)
               PROVE  FALSE
    BY DEF OneHand, Hands
  <2>1. CASE PairStays(i, j)
    BY <2>1 DEF PairStays, Stays, OnceInv, OneHand
  <2>2. CASE InBodyAt(i, x) /\ InBodyAt(j, x)
    <3>1. i = j
      BY <1>2, <2>2 DEF Sprouts
    <3>2. i \in Nat
      BY <1>2, <2>2 DEF Opening
    <3> QED BY <3>1, <3>2
  <2>3. CASE InBodyAt(i, x) /\ d = 1 /\ j = Len(stmt.body) + 1
    <3>1. todo'[j] = Mark
      BY <2>3 DEF Mark
    <3> QED BY <1>2, <2>3, <3>1 DEF Sprouts
  <2>4. ASSUME InBodyAt(i, x) \/ (d = 1 /\ i = Len(stmt.body) + 1),
               NEW b \in 2 .. Len(todo), Stays(j, b)
        PROVE  FALSE
    <3>1. Sprung(e, form)
      BY <2>4, OpenedUnheard
    <3>2. b \in DOMAIN todo /\ Hands(todo[b], e, form)
      BY <2>4 DEF Stays
    <3> QED BY <3>1, <3>2, SprungApart
  <2>5. PairStays(i, j) \/ PairOpens(i, j, x, d)
    BY <1>0, OpenedPair
  <2> QED BY <2>1, <2>2, <2>3, <2>4, <2>5 DEF PairOpens
<1>4. NotYet(form)'
  <2> SUFFICES ASSUME NEW i \in DOMAIN todo', NEW e, Hands(todo'[i], e, form)
               PROVE  ~IsRecorded(e)'
    BY DEF NotYet, Hands
  <2>1. CASE InBodyAt(i, x) \/ (d = 1 /\ i = Len(stmt.body) + 1)
    BY <2>1, OpenedUnheard
  <2>2. CASE \E b \in DOMAIN todo : b # 1 /\ todo'[i] = todo[b]
    BY <2>2, StayedUnheard
  <2> QED BY <1>1, <2>1, <2>2
<1>5. RestsApart(form)'
  <2> SUFFICES ASSUME NEW i \in DOMAIN todo', todo'[i].stmt.op = "next",
                      HasOne(todo'[i].stmt.body, form.adds)
               PROVE  Apart(todo'[i].stmt.rest)
    BY DEF RestsApart, Apart
  <2>1. CASE InBodyAt(i, x)
    <3>1. todo'[i].stmt \in Statements
      <4>1. todo'[i].stmt = stmt.body[i]
        BY <1>2, <2>1 DEF OfBody
      <4> QED BY <1>2, <2>1, <4>1, BodyRange DEF Opening
    <3> QED BY <3>1, ProgramAssumption DEF WellFormed, Marks
  <2>2. CASE d = 1 /\ i = Len(stmt.body) + 1
    <3>1. todo'[i] = Mark
      BY <2>2 DEF Mark
    <3>2. Mark.stmt.op = "next" /\ HasOne(Mark.stmt.body, form.adds)
      BY <3>1
    <3> QED BY <2>2, <3>1, <3>2 DEF Sprouts
  <2>3. CASE \E b \in DOMAIN todo : b # 1 /\ todo'[i] = todo[b]
    BY <2>3 DEF OnceInv, RestsApart
  <2> QED BY <1>1, <2>1, <2>2, <2>3
<1> QED BY <1>3, <1>4, <1>5

LEMMA OnceStep ==
    ASSUME GatherInv, [GatherStep]_vars, GatherInv', NEW form,
           HandsOnce(Programs[module], form), OnceInv(form)
    PROVE  OnceInv(form)'
<1>1. CASE UNCHANGED vars
  <2>1. todo' = todo /\ listed' = listed /\ records' = records
    BY <1>1 DEF vars, gatherVars, writerVars
  <2> QED BY <2>1 DEF OnceInv, TypedTodo, LoopTodo, ToldApart, OneHand, NotYet, RestsApart,
                      NoTwins, Hands, IsRecorded, Apart
<1>2. CASE GatherStep
  <2>1. TypedTodo(form.typed, {})' /\ LoopTodo(form.typed)'
    BY <1>2, TypedStay, LoopStay DEF OnceInv, HandsOnce
  <2>2. ToldApart(form)'
    BY <1>2, ToldApartStays DEF OnceInv
  <2>3. NoTwins'
    BY <1>2, NoTwinsStay
  <2>4. todo # <<>>
    BY <1>2, Grows
  <2>5. OneHand(form)' /\ NotYet(form)' /\ RestsApart(form)'
    <3>1. ASSUME NEW k, Leaves(k) PROVE OneHand(form)' /\ NotYet(form)' /\ RestsApart(form)'
      BY <1>2, <3>1, OnceLeft
    <3>2. CASE EntersBody
      <4>1. stmt.op \in Through \cup {"add"}
        BY <3>2 DEF EntersBody, Through
      <4>2. Sprouts(item, 0, form)
        BY <1>2, <4>1, BodySprouts
      <4>3. Opening(item, 0)
        BY <2>4, <3>2, OpeningOf DEF OpeningIs
      <4> QED BY <1>2, <4>2, <4>3, OnceOpened
    <3>3. CASE EntersTry
      <4>1. stmt.op \in Through \cup {"add"} /\ Mark.stmt.op \in {"except", "end"}
        BY <3>3 DEF EntersTry, Through
      <4>2. Sprouts(item, 1, form)
        BY <1>2, <4>1, BodySprouts
      <4>3. Opening(item, 1)
        BY <2>4, <3>3, OpeningOf DEF OpeningIs
      <4> QED BY <1>2, <4>2, <4>3, OnceOpened
    <3>4. ASSUME NEW over, EntersLoop(over), Given(over, form)
          PROVE  OneHand(form)' /\ NotYet(form)' /\ RestsApart(form)'
      <4>1. Sprouts(Head(over), 1, form)
        BY <1>2, <3>4, LoopSprouts
      <4>2. OpeningIs(Head(over), 1)
        BY <3>4 DEF OpeningIs
      <4>3. Opening(Head(over), 1)
        BY <2>4, <4>2, OpeningOf
      <4> QED BY <1>2, <4>1, <4>3, OnceOpened
    <3> QED BY <1>2, <3>1, <3>2, <3>3, <3>4, OnceWays
  <2> QED BY <2>1, <2>2, <2>3, <2>5 DEF OnceInv
<1> QED BY <1>1, <1>2

(* The importer matches records by type and id.  In a gather function where every
   resource passes one statement that may hand it over, whatever loops are run a second
   time and whatever lists are made again, no two records are of the same resource. *)
THEOREM RecordsUnique ==
    ASSUME \A name \in Claims["UniqueRecords"] \cap DOMAIN Programs : \E form :
               HandsOnce(Programs[name], form)
    PROVE  GatherSpec => []UniqueRecords
<1> DEFINE Inv == \/ Unclaimed("UniqueRecords")
                  \/ \E form : HandsOnce(Programs[module], form) /\ OnceInv(form)
<1>1. GatherInit => Inv
  <2> SUFFICES ASSUME GatherInit, ~Unclaimed("UniqueRecords") PROVE Inv
    OBVIOUS
  <2>1. PICK form : HandsOnce(Programs[module], form)
    BY DEF GatherInit, Unclaimed
  <2> QED BY <2>1, OnceStart
<1>2. GatherInv /\ GatherInv' /\ Inv /\ [GatherStep]_vars => Inv'
  <2> SUFFICES ASSUME GatherInv, GatherInv', Inv, [GatherStep]_vars PROVE Inv'
    OBVIOUS
  <2>1. module' = module
    BY NameStays
  <2>2. CASE Unclaimed("UniqueRecords")
    BY <2>1, <2>2 DEF Unclaimed
  <2>3. ASSUME NEW form, HandsOnce(Programs[module], form), OnceInv(form)
        PROVE  Inv'
    <3>1. OnceInv(form)'
      BY <2>3, OnceStep
    <3>2. HandsOnce(Programs[module'], form)
      BY <2>1, <2>3
    <3> QED BY <3>1, <3>2
  <2> QED BY <2>2, <2>3
<1>3. Inv => UniqueRecords
  BY DEF OnceInv, NoTwins, UniqueRecords
<1> HIDE DEF Inv
<1> QED BY <1>1, <1>2, <1>3, InvAlways, PTL DEF GatherSpec

-----------------------------------------------------------------------------
(* Networks found among those listed: the call that lists them to record them is still
   to come, or failed and left an entry, or listed them again. *)
WayTodo(type, way) ==
    \A i \in DOMAIN todo : todo[i].stmt \in Way(type, way) =>
        /\ todo[i].item \in Outsides
        /\ todo[i].stmt = way.list =>
               /\ i + 1 \in DOMAIN todo
               /\ todo[i + 1].stmt.op = "except" /\ todo[i + 1].stmt.what = type
               /\ todo[i + 1].item.n = 0

StaysTodo(type, way) ==
    \A i, j \in DOMAIN todo : i < j /\ todo[j].stmt \in Way(type, way) =>
        \/ QuietFrame(todo[i], way.stays)
        \/ \E m \in i .. j : todo[m].stmt.op = "end"

Coming(type, way) == \E j \in DOMAIN todo : todo[j].stmt \in Way(type, way)

ToldOf(type) == \E j \in DOMAIN errors : errors[j].source = Source(type, 0)

Met(type) == \A x \in ListedOf(type) : \E y \in Candidates : EndOf(y) = EndOf(x)

MetOrComing(type, way) ==
    \/ Coming(type, way) \/ ToldOf(type)
    \/ Met(type) /\ \A i \in DOMAIN todo : QuietFrame(todo[i], way.after)

LEMMA OnWay ==
    ASSUME NEW program, NEW typed, NEW type, NEW way, OnTheWay(program, typed, type, way),
           NEW s \in Way(type, way)
    PROVE  /\ s.op \in {"call", "guard", "each"} /\ s.op \notin Marks
           /\ s.op = "each" => s = way.list
           /\ s # way.list => HasOne(s.body, Way(type, way))
<1> DEFINE g == WayTry(type, way)
<1>1. way.call.op = "call" /\ way.list.op = "each" /\ HasOne(way.call.body, {g})
  BY DEF OnTheWay
<1>2. g.op = "guard" /\ g.body = <<way.list>>
  BY DEF WayTry, Guard
<1>3. Way(type, way) = {way.call, g, way.list}
  BY DEF Way
<1>4. HasOne(g.body, Way(type, way))
  <2>1. 1 \in DOMAIN g.body /\ g.body[1] = way.list
    BY <1>2
  <2> QED BY <1>3, <2>1 DEF HasOne
<1>5. g.op = "guard"
  BY <1>2
<1> HIDE DEF g
<1>6. HasOne(way.call.body, Way(type, way))
  BY <1>1, <1>3 DEF HasOne
<1> QED BY <1>1, <1>3, <1>4, <1>5, <1>6 DEF Marks

LEMMA WayTryIs ==
    ASSUME NEW type, NEW way
    PROVE  /\ WayTry(type, way).op = "guard" /\ WayTry(type, way).what = type
           /\ WayTry(type, way).body = <<way.list>>
BY DEF WayTry, Guard

LEMMA WayStart ==
    ASSUME GatherInit, NEW form, NEW type, NEW way,
           RecordsLater(Programs[module], form, type, way)
    PROVE  WayTodo(type, way) /\ StaysTodo(type, way) /\ Coming(type, way)
<1> DEFINE n == Len(Programs[module])
<1>1. /\ n \in Nat /\ DOMAIN todo = 1 .. n + 1 /\ Programs[module] \in Seq(Statements)
      /\ todo[n + 1].stmt.op = "end"
  BY StartFrames
<1>2. ASSUME NEW k \in 1 .. n
      PROVE  /\ k \in DOMAIN Programs[module] /\ todo[k].stmt = Programs[module][k]
             /\ todo[k].stmt.op \notin Marks /\ todo[k].item \in Outsides
  <2>1. todo[k] = [stmt |-> Programs[module][k], item |-> Outside(k)]
    BY StartFrames
  <2>2. k \in DOMAIN Programs[module] /\ todo[k].stmt = Programs[module][k]
    BY <1>1, <2>1
  <2>3. todo[k].stmt \in Statements
    BY <1>1, <2>2, BodyRange
  <2>4. todo[k].item \in Outsides
    BY <1>1, <2>1 DEF Outsides
  <2> QED BY <2>2, <2>3, <2>4, ProgramAssumption DEF WellFormed
<1>3. /\ OnTheWay(Programs[module], form.typed, type, way)
      /\ HasOne(Programs[module], {way.call}) /\ ~HasOne(Programs[module], {way.list})
  BY DEF RecordsLater, OnTheWay
<1>4. ASSUME NEW i \in DOMAIN todo, todo[i].stmt \in Way(type, way) PROVE i \in 1 .. n
  <2>1. todo[i].stmt.op \notin Marks
    BY <1>3, <1>4, OnWay
  <2>2. i # n + 1
    BY <1>1, <2>1 DEF Marks
  <2> HIDE DEF n
  <2> QED BY <1>1, <2>2
<1>5. WayTodo(type, way)
  <2> SUFFICES ASSUME NEW i \in DOMAIN todo, todo[i].stmt \in Way(type, way)
               PROVE  todo[i].item \in Outsides /\ todo[i].stmt # way.list
    BY DEF WayTodo
  <2>1. i \in 1 .. n
    BY <1>4
  <2> QED BY <1>2, <1>3, <2>1 DEF HasOne
<1>6. StaysTodo(type, way)
  <2> SUFFICES ASSUME NEW i \in DOMAIN todo, NEW j \in DOMAIN todo, i < j,
                      todo[j].stmt \in Way(type, way)
               PROVE  QuietFrame(todo[i], way.stays)
    BY DEF StaysTodo
  <2>1. j \in 1 .. n
    BY <1>4
  <2>2. i \in 1 .. n
    <3> HIDE DEF n
    <3> QED BY <1>1, <2>1
  <2>3. Programs[module][i] \in way.stays
    BY <1>2, <2>1, <2>2 DEF RecordsLater, Bodies
  <2> QED BY <1>2, <2>2, <2>3 DEF QuietFrame, Marks
<1>7. Coming(type, way)
  <2>1. PICK k \in DOMAIN Programs[module] : Programs[module][k] = way.call
    BY <1>3 DEF HasOne
  <2>2. k \in 1 .. n
    BY <1>1, <2>1
  <2>3. k \in 1 .. n + 1
    <3> HIDE DEF n
    <3> QED BY <1>1, <2>2
  <2> QED BY <1>1, <1>2, <2>1, <2>2, <2>3 DEF Coming, Way
<1> QED BY <1>5, <1>6, <1>7

(* The body that a step opens is on the way only if the statement at hand is. *)
LEMMA WayOpened ==
    ASSUME GatherInv, todo # <<>>, NEW typed, NEW heirs, NEW type, NEW way,
           OnTheWay(Programs[module], typed, type, way),
           TypedTodo(typed, heirs), LoopTodo(typed), stmt.op \in Compound \cup {"next"},
           NEW k \in DOMAIN stmt.body, stmt.body[k] \in Way(type, way)
    PROVE  /\ stmt \in Way(type, way) /\ stmt.op \in {"guard", "call"}
           /\ stmt.body[k] = way.list => stmt = WayTry(type, way)
<1>1. HasOne(stmt.body, Way(type, way))
  BY DEF HasOne
<1>2. ASSUME NEW p \in typed, p[1].op \in Compound, p[1].body = stmt.body
      PROVE  /\ p[1] \in {way.call, WayTry(type, way)}
             /\ stmt.body[k] = way.list => p[1] = WayTry(type, way)
             /\ p[1].op \in {"guard", "call"}
  <2>1. p[1] \in {way.call, WayTry(type, way)}
    BY <1>1, <1>2 DEF OnTheWay
  <2>2. stmt.body[k] = way.list => HasOne(stmt.body, {way.list})
    BY DEF HasOne
  <2>3. stmt.body[k] = way.list => p[1] = WayTry(type, way)
    BY <1>2, <2>2 DEF OnTheWay
  <2>4. way.call.op = "call" /\ WayTry(type, way).op = "guard"
    BY WayTryIs DEF OnTheWay
  <2> QED BY <2>1, <2>3, <2>4
<1>3. CASE stmt.op = "next"
  <2>1. PICK p \in typed : p[1].op \in {"each", "again"} /\ p[1].body = stmt.body
    BY <1>3, BodyOfProgram
  <2> QED BY <1>2, <2>1 DEF Compound
<1>4. CASE stmt.op # "next"
  <2>1. PICK p \in typed : p[1] = stmt
    BY <1>4, BodyOfProgram
  <2> QED BY <1>2, <1>4, <2>1 DEF Way
<1> QED BY <1>3, <1>4

LEMMA WayStay ==
    ASSUME GatherInv, GatherStep, GatherInv', NEW typed, NEW heirs, NEW type, NEW way,
           OnTheWay(Programs[module], typed, type, way),
           TypedTodo(typed, heirs), LoopTodo(typed), WayTodo(type, way)
    PROVE  WayTodo(type, way)'
<1> SUFFICES ASSUME NEW i \in DOMAIN todo', todo'[i].stmt \in Way(type, way)
             PROVE  /\ todo'[i].item \in Outsides
                    /\ todo'[i].stmt = way.list =>
                           /\ i + 1 \in DOMAIN todo'
                           /\ todo'[i + 1].stmt.op = "except" /\ todo'[i + 1].stmt.what = type
                           /\ todo'[i + 1].item.n = 0
  BY DEF WayTodo
<1>0. /\ todo # <<>> /\ todo[1].stmt = stmt /\ todo[1].item = item
      /\ Len(todo) \in Nat \ {0} /\ DOMAIN todo = 1 .. Len(todo) /\ 1 \in DOMAIN todo
  BY Grows, HeadFirst DEF GatherInv
<1>1. ASSUME NEW k, Leaves(k)
      PROVE  /\ todo'[i].item \in Outsides
             /\ todo'[i].stmt = way.list =>
                    /\ i + 1 \in DOMAIN todo'
                    /\ todo'[i + 1].stmt.op = "except" /\ todo'[i + 1].stmt.what = type
                    /\ todo'[i + 1].item.n = 0
  <2> DEFINE a == k + i - 1
  <2>1. /\ i \in Nat /\ k \in 2 .. Len(todo) + 1 /\ a \in 2 .. Len(todo) /\ todo'[i] = todo[a]
        /\ \A j \in k .. Len(todo) : j - k + 1 \in DOMAIN todo' /\ todo'[j - k + 1] = todo[j]
        /\ DOMAIN todo' = 1 .. Len(todo') /\ Len(todo') \in Nat
    BY <1>0, <1>1, LeftAt
  <2>2. a \in DOMAIN todo
    BY <1>0, <2>1
  <2>3. ASSUME a + 1 \in DOMAIN todo PROVE i + 1 \in DOMAIN todo' /\ todo'[i + 1] = todo[a + 1]
    <3>1. a + 1 \in 1 .. Len(todo)
      BY <1>0, <2>3
    <3>2. a + 1 \in k .. Len(todo) /\ (a + 1) - k + 1 = i + 1
      BY <1>0, <2>1, <3>1
    <3>3. \A j \in k .. Len(todo) : j - k + 1 = i + 1 =>
              i + 1 \in DOMAIN todo' /\ todo'[i + 1] = todo[j]
      BY <2>1
    <3> HIDE DEF a
    <3> QED BY <3>2, <3>3
  <2> HIDE DEF a
  <2> QED BY <2>1, <2>2, <2>3 DEF WayTodo
<1>2. CASE Enters
  <2> DEFINE n == Len(stmt.body)
  <2>1. PICK d, x : d \in {0, 1} /\ Opening(x, d)
    BY <1>0, <1>2, OpeningFound
  <2>2. \/ InBodyAt(i, x)
        \/ d = 1 /\ i = n + 1
        \/ \E b \in 2 .. Len(todo) : i = n + d + b - 1 /\ Stays(i, b)
    BY <1>0, <2>1, OpenedStays
  <2>3. d \in {0, 1} /\ Opens(x, d) /\ n \in Nat /\ stmt.op \in Compound \cup {"next"}
    BY <2>1 DEF Opening, Compound
  <2>4. /\ Len(todo') = n + d + Len(todo) - 1 /\ DOMAIN todo' = 1 .. Len(todo')
        /\ \A m \in 2 .. Len(todo) :
               n + d + m - 1 \in DOMAIN todo' /\ todo'[n + d + m - 1] = todo[m]
    <3>1. Placed(i, x, d)
      BY <1>0, <2>3, OpenedAt
    <3> QED BY <3>1 DEF Placed
  <2>5. ASSUME NEW b \in 2 .. Len(todo), i = n + d + b - 1, Stays(i, b)
        PROVE  /\ todo'[i].item \in Outsides
               /\ todo'[i].stmt = way.list =>
                      /\ i + 1 \in DOMAIN todo'
                      /\ todo'[i + 1].stmt.op = "except" /\ todo'[i + 1].stmt.what = type
                      /\ todo'[i + 1].item.n = 0
    <3>1. b \in DOMAIN todo /\ todo'[i] = todo[b]
      BY <2>5 DEF Stays
    <3>2. ASSUME b + 1 \in DOMAIN todo
          PROVE  i + 1 \in DOMAIN todo' /\ todo'[i + 1] = todo[b + 1]
      <4> HIDE DEF n
      <4>1. b + 1 \in 2 .. Len(todo) /\ n + d + (b + 1) - 1 = i + 1
        BY <1>0, <2>3, <2>5, <3>2
      <4>2. \A m \in 2 .. Len(todo) : n + d + m - 1 = i + 1 =>
                i + 1 \in DOMAIN todo' /\ todo'[i + 1] = todo[m]
        BY <2>4
      <4> QED BY <4>1, <4>2
    <3> QED BY <3>1, <3>2 DEF WayTodo
  <2>6. CASE InBodyAt(i, x)
    <3>1. i \in DOMAIN stmt.body /\ todo'[i] = [stmt |-> stmt.body[i], item |-> x]
      BY <2>6 DEF InBodyAt
    <3>2. todo'[i].stmt = stmt.body[i] /\ todo'[i].item = x
      BY <3>1
    <3>3. /\ stmt \in Way(type, way) /\ stmt.op \in {"guard", "call"}
          /\ stmt.body[i] = way.list => stmt = WayTry(type, way)
      BY <1>0, <2>3, <3>1, <3>2, WayOpened
    <3>4. x = item /\ item \in Outsides
      BY <1>0, <2>1, <3>3 DEF Opening, WayTodo
    <3>5. EntersTry
      BY <1>2, <3>3 DEF Enters, EntersBody, EntersLoop
    <3>6. ASSUME todo'[i].stmt = way.list
          PROVE  /\ i + 1 \in DOMAIN todo'
                 /\ todo'[i + 1].stmt.op = "except" /\ todo'[i + 1].stmt.what = type
                 /\ todo'[i + 1].item.n = 0
      <4>1. stmt.op = "guard" /\ stmt.what = type /\ stmt.body = <<way.list>>
        BY <3>2, <3>3, <3>6, WayTryIs
      <4>2. n = 1 /\ i = 1
        BY <3>1, <4>1
      <4>3. Len(todo') = 1 + 1 + Len(todo) - 1 /\ Mark = todo'[2]
        BY <3>5, <4>2 DEF EntersTry, Opens, Mark
      <4>4. 2 \in DOMAIN todo'
        BY <1>0, <2>4, <4>3
      <4>5. Mark.stmt.op = "except" /\ Mark.stmt.what = type /\ Mark.item = item
        BY <3>5, <4>1 DEF EntersTry
      <4>6. item.n = 0
        BY <3>4, OutsideItems
      <4> QED BY <4>2, <4>3, <4>4, <4>5, <4>6
    <3> QED BY <3>2, <3>4, <3>6
  <2>7. CASE d = 1 /\ i = n + 1
    <3>1. Mark.stmt.op \in Marks /\ Mark = todo'[i]
      BY <2>1, <2>7 DEF Opening, Mark, Marks
    <3>2. todo'[i].stmt.op \notin Marks
      BY OnWay
    <3> QED BY <3>1, <3>2
  <2> QED BY <2>2, <2>5, <2>6, <2>7
<1> QED BY <1>1, <1>2, StepForm

LEMMA TryEntered ==
    ASSUME GatherInv, GatherStep, GatherInv', stmt.op \in {"guard", "call"}
    PROVE  EntersTry /\ Enters /\ UNCHANGED <<writerVars, module, region, listed, faults>>
<1>1. EnterTry
  BY DEF GatherStep, ListResources, ListFirstPage, ListFromFirstPage, LoopAgain, Branch,
         NextItem, FetchDetail, FetchAndUse, LeaveTry, Swallow, Drop, ReportAndGoOn,
         ReportAndSkip, ReportAndLeave, Unwind, CallFails, RecordResource, DeriveEdge, NoEdge,
         Running
<1> QED BY <1>1, TryForm DEF Enters

LEMMA StaysStay ==
    ASSUME GatherInv, GatherStep, GatherInv', NEW form, NEW heirs, NEW type, NEW way,
           RecordsLater(Programs[module], form, type, way),
           TypedTodo(form.typed, heirs), LoopTodo(form.typed), StaysTodo(type, way)
    PROVE  StaysTodo(type, way)'
<1> SUFFICES ASSUME NEW i \in DOMAIN todo', NEW j \in DOMAIN todo', i < j,
                    todo'[j].stmt \in Way(type, way)
             PROVE  \/ QuietFrame(todo'[i], way.stays)
                    \/ \E m \in i .. j : todo'[m].stmt.op = "end"
  BY DEF StaysTodo, QuietFrame
<1>0. /\ todo # <<>> /\ todo[1].item = item /\ todo[1].stmt = stmt
      /\ DOMAIN todo = 1 .. Len(todo) /\ Len(todo) \in Nat \ {0}
      /\ OnTheWay(Programs[module], form.typed, type, way)
  BY Grows, HeadFirst DEF GatherInv, RecordsLater
<1>1. CASE PairStays(i, j)
  <2>1. PICK a, b : Stays(i, a) /\ Stays(j, b) /\ a < b /\ Between(a, b, i, j)
    BY <1>1 DEF PairStays
  <2>2. \/ QuietFrame(todo[a], way.stays)
        \/ \E m \in a .. b : todo[m].stmt.op = "end"
    BY <2>1 DEF StaysTodo, Stays
  <2> QED BY <2>1, <2>2 DEF Between, Stays
<1>2. ASSUME NEW d \in {0, 1}, NEW x, Opening(x, d), PairOpens(i, j, x, d)
      PROVE  \/ QuietFrame(todo'[i], way.stays)
             \/ \E m \in i .. j : todo'[m].stmt.op = "end"
  <2> DEFINE n == Len(stmt.body)
  <2>1. stmt.op \in Compound \cup {"next"} /\ stmt.body \in Seq(Statements)
    BY <1>2 DEF Opening, Compound
  <2>2. CASE InBodyAt(i, x) /\ InBodyAt(j, x)
    <3>1. /\ i \in DOMAIN stmt.body /\ j \in DOMAIN stmt.body
          /\ todo'[i].stmt = stmt.body[i] /\ todo'[j].stmt = stmt.body[j]
      BY <2>2 DEF InBodyAt
    <3>2. stmt.body \in Bodies(Programs[module], form.typed)
      BY <1>0, <2>1, BodyOfProgram
    <3>3. stmt.body[i] \in way.stays
      BY <3>1, <3>2 DEF RecordsLater
    <3>4. stmt.body[i] \in Statements
      BY <2>1, <3>1, BodyRange
    <3>5. stmt.body[i].op \notin Marks
      BY <3>4, ProgramAssumption DEF WellFormed
    <3> QED BY <3>1, <3>3, <3>5 DEF QuietFrame, Marks
  <2>3. CASE d = 1 /\ j = n + 1
    <3>1. todo'[j].stmt.op \in Marks
      BY <1>2, <2>3 DEF Opening, Mark, Marks
    <3>2. todo'[j].stmt.op \notin Marks
      BY <1>0, OnWay
    <3> QED BY <3>1, <3>2
  <2>4. ASSUME NEW b \in 2 .. Len(todo), Stays(j, b), Between(2, b, i, j),
               d = 1 => n + 1 \in i .. j
        PROVE  \/ QuietFrame(todo'[i], way.stays)
               \/ \E m \in i .. j : todo'[m].stmt.op = "end"
    <3>1. /\ 1 \in DOMAIN todo /\ b \in DOMAIN todo /\ 1 < b
          /\ todo[b].stmt \in Way(type, way)
      BY <1>0, <2>4 DEF Stays
    <3>2. \/ QuietFrame(todo[1], way.stays)
          \/ \E m \in 1 .. b : todo[m].stmt.op = "end"
      BY <3>1 DEF StaysTodo
    <3>3. ASSUME NEW m \in 1 .. b, todo[m].stmt.op = "end"
          PROVE  \E h \in i .. j : todo'[h].stmt.op = "end"
      <4>1. m # 1
        BY <1>0, <2>1, <3>3 DEF Compound
      <4>2. m \in 2 .. b
        BY <4>1
      <4> QED BY <2>4, <3>3, <4>2 DEF Between
    <3>4. CASE stmt.op = "call"
      <4>1. EntersTry
        BY <3>4, TryEntered
      <4>2. d = 1 /\ todo'[n + 1].stmt.op = "end"
        BY <1>2, <3>4, <4>1 DEF EntersTry, Opening, Mark
      <4> QED BY <2>4, <4>2
    <3>5. CASE stmt.op # "call" /\ QuietFrame(todo[1], way.stays)
      <4>1. stmt.body \in Seq(way.stays)
        BY <1>0, <2>1, <3>5 DEF QuietFrame, RecordsLater, Marks, Compound
      <4> QED BY <1>0, <1>2, <4>1, QuietOpened DEF PairOpens
    <3> QED BY <3>2, <3>3, <3>4, <3>5
  <2> QED BY <1>2, <2>2, <2>3, <2>4 DEF PairOpens
<1> QED BY <1>1, <1>2, PairWays

(* No failure of another statement leaves out what is on the way. *)
LEMMA WayKept ==
    ASSUME GatherInv, GatherStep, GatherInv', NEW form, NEW told, NEW type, NEW way,
           Careful(Programs[module], form), LossInv(form, told), Isolated(form.open)',
           RecordsLater(Programs[module], form, type, way), WayTodo(type, way),
           StaysTodo(type, way), SteadyTodo(Way(type, way), form.calm),
           stmt \notin Way(type, way), Coming(type, way)
    PROVE  Coming(type, way)'
<1>0. /\ todo # <<>> /\ todo[1].stmt = stmt /\ todo[1].item = item
      /\ Len(todo) \in Nat \ {0} /\ DOMAIN todo = 1 .. Len(todo)
      /\ OnTheWay(Programs[module], form.typed, type, way)
  BY Grows, HeadFirst DEF GatherInv, RecordsLater
<1>1. PICK j \in DOMAIN todo : todo[j].stmt \in Way(type, way)
  BY DEF Coming
<1>2. j # 1 /\ j \in 2 .. Len(todo) /\ todo[j].stmt.op \notin Marks
  <2>1. j # 1
    BY <1>0, <1>1
  <2>2. todo[j].stmt.op \notin Marks
    BY <1>0, <1>1, OnWay
  <2> QED BY <1>0, <2>1, <2>2
<1>3. ASSUME NEW h \in DOMAIN todo', todo'[h] = todo[j] PROVE Coming(type, way)'
  BY <1>1, <1>3 DEF Coming
<1>4. ASSUME NEW k, Leaves(k), j \in k .. Len(todo) PROVE Coming(type, way)'
  BY <1>0, <1>3, <1>4, LeftRemains
<1>5. CASE Enters \/ Leaves(2)
  BY <1>0, <1>2, <1>3, <1>4, <1>5, OpenedRemains
<1>6. CASE Swallow \/ Drop \/ ReportAndGoOn \/ ReportAndSkip \/ ReportAndLeave \/ Unwind
  <2>1. /\ stmt \in Statements /\ stmt.op \in {"each", "fetch", "when"}
        /\ \/ /\ stmt.fail \in {"silent", "error"} /\ Leaves(2)
           \/ /\ stmt.fail \in {"skip", "drop"}
              /\ \E k : Leaves(k) /\ FirstMark(k, {"next"})
           \/ stmt.fail = "return" /\ \E k : Leaves(k) /\ FirstMark(k, {})
           \/ /\ stmt.fail = "raise"
              /\ \E k : /\ Leaves(k + 1) /\ FirstMark(k, {"except"})
                        /\ Told(Source(todo[k].stmt.what, todo[k].item.n))
    BY <1>6, FailForm
  <2>2. 1 \in DOMAIN todo /\ 1 < j /\ todo[1].stmt.op \notin Marks
    BY <1>0, <1>2, <2>1 DEF Marks
  <2>3. ASSUME stmt.fail \in {"skip", "drop"}, NEW k, Leaves(k), FirstMark(k, {"next"})
        PROVE  j \in k .. Len(todo)
    <3> SUFFICES ASSUME ~(j \in k .. Len(todo)) PROVE FALSE
      OBVIOUS
    <3>1. k \in 1 .. Len(todo) /\ \A i \in 1 .. k - 1 : todo[i].stmt.op \notin {"next", "end"}
      BY <1>0, <2>3 DEF FirstMark
    <3>2. \A i \in 1 .. j : todo[i].stmt.op # "next"
      <4>1. \A i \in 1 .. j : i \in 1 .. k - 1
        BY <1>0, <1>2, <3>1
      <4> QED BY <3>1, <4>1
    <3>3. AsOne(item, todo[j].item)
      <4>1. SameItemAt(1, j)
        BY <2>2 DEF LossInv, SameItems
      <4> QED BY <1>0, <3>2, <4>1 DEF SameItemAt
    <3>4. item.type = NotAResource
      <4>1. item \in Outsides
        BY <1>1, <3>3 DEF AsOne, WayTodo
      <4> QED BY <4>1, OutsideItems
    <3>5. PICK p \in form.typed : p = <<stmt, item.type>>
      BY <1>0, <2>2 DEF LossInv, TypedTodo
    <3>6. p[1] = stmt /\ p[2] = item.type
      BY <3>5
    <3> QED BY <2>1, <2>3, <3>4, <3>6 DEF Careful, SkipsItems
  <2>4. ASSUME stmt.fail = "return", NEW k, Leaves(k), FirstMark(k, {})
        PROVE  j \in k .. Len(todo)
    <3>1. ~QuietFrame(todo[1], way.stays)
      BY <1>0, <2>1, <2>2, <2>4 DEF QuietFrame, RecordsLater
    <3>2. PICK m \in 1 .. j : todo[m].stmt.op = "end"
      BY <1>1, <2>2, <3>1 DEF StaysTodo
    <3>3. k \in 1 .. Len(todo) /\ m \notin 1 .. k - 1
      BY <1>0, <2>4, <3>2 DEF FirstMark
    <3> QED BY <1>0, <1>2, <3>2, <3>3
  <2>5. ASSUME stmt.fail = "raise", NEW k, Leaves(k + 1), FirstMark(k, {"except"}),
               Told(Source(todo[k].stmt.what, todo[k].item.n))
        PROVE  j \in k + 1 .. Len(todo)
    <3>1. /\ k \in 1 .. Len(todo) /\ todo[k].stmt.op \in {"except", "end"}
          /\ \A i \in 1 .. k - 1 : todo[i].stmt.op \notin {"except", "end"}
      BY <1>0, <2>5 DEF FirstMark
    <3>2. k # Len(todo)
      <4>1. SUFFICES ASSUME k = Len(todo) PROVE FALSE
        OBVIOUS
      <4>2. todo[k].stmt.what = "gather" /\ todo[k].item.n = 0
        BY <1>0, <4>1 DEF LossInv, EndsInGather
      <4>3. Told(Source("gather", 0))
        BY <2>5, <4>2
      <4>4. Abandoned'
        BY <4>3, ToldAbandons
      <4> QED BY <4>4 DEF Abandoned, Isolated
    <3>3. Caught(1)
      <4>1. k # 1
        BY <2>2, <3>1 DEF Marks
      <4>2. Len(todo) \in Nat \ {0} /\ DOMAIN todo = 1 .. Len(todo) /\ k \in 1 .. Len(todo)
        BY <1>0, <3>1
      <4>3. \A n \in Nat : \A c \in 1 .. n : c # 1 /\ c # n => 1 < c /\ c < n
        OBVIOUS
      <4>4. k \in DOMAIN todo /\ 1 < k /\ k < Len(todo)
        BY <3>2, <4>1, <4>2, <4>3
      <4> QED BY <3>1, <4>4 DEF Caught
    <3>4. ~CalmFrame(todo[1], form.calm)
      <4>1. stmt \notin form.calm
        BY <2>1, <2>5 DEF Careful, RaisesLate
      <4> QED BY <1>0, <2>2, <4>1 DEF CalmFrame
    <3>5. KeepingFrame(todo[j], Way(type, way))
      BY <1>1, <1>2 DEF KeepingFrame, Keeping
    <3>6. PICK m \in 1 .. j : todo[m].stmt.op \in {"except", "end"}
      <4>1. SteadyAt(1, j, Way(type, way), form.calm)
        BY <2>2 DEF SteadyTodo
      <4> QED BY <3>3, <3>4, <3>5, <4>1 DEF SteadyAt
    <3>7. m \notin 1 .. k - 1 /\ j # k
      BY <1>2, <3>1, <3>6 DEF Marks
    <3> QED BY <1>0, <1>2, <3>1, <3>6, <3>7
  <2> QED BY <1>2, <1>4, <2>1, <2>3, <2>4, <2>5
<1> QED BY <1>5, <1>6, GoesOn

(* Once the statement at hand is the call of the other gather function, or the try in
   it, the next on the way has been reached. *)
LEMMA WayEntered ==
    ASSUME GatherInv, GatherStep, GatherInv', NEW program, NEW typed, NEW type, NEW way,
           OnTheWay(program, typed, type, way), stmt \in Way(type, way), stmt # way.list
    PROVE  Coming(type, way)'
<1>1. /\ todo # <<>> /\ Len(todo) \in Nat \ {0}
      /\ DOMAIN todo' = 1 .. Len(todo')
  BY Grows, HeadFirst DEF GatherInv, TodoInv
<1>2. /\ stmt.op \in {"guard", "call"} /\ HasOne(stmt.body, Way(type, way))
  BY OnWay
<1>3. EntersTry /\ Enters
  BY <1>2, TryEntered
<1>4. stmt.body \in Seq(Statements) /\ Opens(item, 1) /\ Len(stmt.body) \in Nat
  BY <1>1, <1>3, OpenedFrames DEF EntersTry
<1>5. PICK i \in DOMAIN stmt.body : stmt.body[i] \in Way(type, way)
  BY <1>2 DEF HasOne
<1>6. i \in 1 .. Len(stmt.body)
  BY <1>4
<1>7. todo'[i] = [stmt |-> stmt.body[i], item |-> item]
  BY <1>4, <1>6 DEF Opens
<1>8. i \in DOMAIN todo'
  <2>1. Len(todo') = Len(stmt.body) + 1 + Len(todo) - 1
    BY <1>4 DEF Opens
  <2> QED BY <1>1, <1>4, <1>6, <2>1
<1>9. todo'[i].stmt \in Way(type, way)
  BY <1>5, <1>7
<1> QED BY <1>8, <1>9 DEF Coming

(* What comes after is all that is left when the body that a step opens is so. *)
LEMMA AfterStays ==
    ASSUME GatherInv, GatherStep, GatherInv', NEW set,
           \A b \in 2 .. Len(todo) : QuietFrame(todo[b], set),
           Enters => stmt.body \in Seq(set), NEW i \in DOMAIN todo'
    PROVE  QuietFrame(todo'[i], set)
<1>0. todo # <<>>
  BY Grows
<1>1. CASE Enters
  <2>1. PICK d, x : d \in {0, 1} /\ Opening(x, d)
    BY <1>0, <1>1, OpeningFound
  <2>2. \/ InBodyAt(i, x)
        \/ d = 1 /\ i = Len(stmt.body) + 1
        \/ \E b \in 2 .. Len(todo) : Stays(i, b)
    BY <1>0, <2>1, OpenedStays
  <2>3. ASSUME NEW b \in 2 .. Len(todo), Stays(i, b) PROVE QuietFrame(todo'[i], set)
    BY <2>3 DEF Stays
  <2> QED BY <1>0, <1>1, <2>1, <2>2, <2>3, QuietOpened
<1>2. ASSUME NEW k, Leaves(k) PROVE QuietFrame(todo'[i], set)
  <2>1. k + i - 1 \in 2 .. Len(todo) /\ todo'[i] = todo[k + i - 1]
    BY <1>0, <1>2, LeftAt
  <2> QED BY <2>1
<1> QED BY <1>1, <1>2, StepForm

LEMMA QuietStays ==
    ASSUME GatherInv, GatherStep, GatherInv', NEW set, ClosedIn(set),
           \A i \in DOMAIN todo : QuietFrame(todo[i], set), NEW i \in DOMAIN todo'
    PROVE  QuietFrame(todo'[i], set)
<1>0. /\ todo # <<>> /\ 1 \in DOMAIN todo /\ DOMAIN todo = 1 .. Len(todo)
      /\ Len(todo) \in Nat \ {0}
  BY Grows, HeadFirst DEF GatherInv
<1>1. Enters => stmt.body \in Seq(set)
  <2>1. Enters => stmt.op \in Compound \cup {"next"}
    BY DEF Enters, EntersBody, EntersTry, EntersLoop, Compound
  <2> QED BY <1>0, <2>1, QuietHead
<1>2. \A b \in 2 .. Len(todo) : b \in DOMAIN todo
  BY <1>0
<1> QED BY <1>1, <1>2, AfterStays

(* The resources that were listed are listed again to be recorded. *)
LEMMA ListedAgain ==
    ASSUME GatherInv, ListResources \/ ListFirstPage \/ ListFromFirstPage, GatherInv',
           stmt.form = "known", ~stmt.aside, NEW type, stmt.what = type
    PROVE  Met(type)'
<1> DEFINE again == {NewItem(x.n, x.intent) : x \in ListedOf(stmt.what)}
<1>1. /\ stmt.op = "each"
      /\ \E items \in Listing : listed' = listed \cup {items[i] : i \in DOMAIN items}
  BY ListingForm
<1>2. PICK items \in Listing : listed' = listed \cup {items[i] : i \in DOMAIN items}
  BY <1>1
<1>3. Running("each")
  BY DEF ListResources, ListFirstPage, ListFromFirstPage
<1>4. ASSUME NEW n, NEW intent, NewItem(n, intent) \in listed'
      PROVE  /\ NewItem(n, intent) \in Candidates'
             /\ EndOf(NewItem(n, intent)) = [type |-> stmt.what, id |-> n]
  BY <1>4 DEF NewItem, Candidates, EndOf
<1> SUFFICES ASSUME NEW x \in listed', x.type = stmt.what
             PROVE  \E y \in Candidates' : EndOf(y) = EndOf(x)
  BY DEF Met, ListedOf, EndOf
<1>5. EndOf(x) = [type |-> stmt.what, id |-> x.n]
  BY DEF EndOf
<1>6. CASE x \in {items[i] : i \in DOMAIN items}
  <2>1. PICK i \in DOMAIN items : items[i] = x
    BY <1>6
  <2>2. x = NewItem(x.n, x.intent)
    BY <1>3, <2>1, NewOnes
  <2> QED BY <1>4, <1>5, <2>2
<1>7. CASE x \in listed
  <2>1. x \in ListedOf(stmt.what)
    BY <1>7 DEF ListedOf
  <2>2. items \in InOrder(again)
    <3>1. ListedOf(stmt.what) # {}
      BY <2>1
    <3>2. Listing = InOrder(again)
      BY <3>1 DEF Listing
    <3> QED BY <3>2
  <2>3. again \in SUBSET Item
    <3>1. \A y \in ListedOf(stmt.what) : NewItem(y.n, y.intent) \in Item
      <4>1. ASSUME NEW y \in listed PROVE NewItem(y.n, y.intent) \in Item
        BY <1>3, ItemTypes, NewItemType DEF GatherInv, Items
      <4> QED BY <4>1 DEF ListedOf
    <3> QED BY <3>1
  <2>4. IsFiniteSet(again)
    <3>1. ListedOf(stmt.what) \in SUBSET listed /\ IsFiniteSet(listed)
      BY DEF ListedOf, GatherInv, ListedInv
    <3>2. IsFiniteSet(ListedOf(stmt.what))
      BY <3>1, FS_Subset
    <3> DEFINE f == [y \in ListedOf(stmt.what) |-> NewItem(y.n, y.intent)]
    <3>3. f \in Surjection(ListedOf(stmt.what), again)
      BY DEF Surjection
    <3> QED BY <3>2, <3>3, FS_Surjection
  <2>5. NewItem(x.n, x.intent) \in again
    BY <2>1
  <2> HIDE DEF again
  <2>6. {items[i] : i \in DOMAIN items} = again
    BY <2>2, <2>3, <2>4, InOrderAll
  <2>7. NewItem(x.n, x.intent) \in listed'
    BY <1>2, <2>5, <2>6
  <2> QED BY <1>4, <1>5, <2>7
<1> QED BY <1>2, <1>6, <1>7

(* The list call that records them is made, or fails with an entry of its own. *)
LEMMA WayTaken ==
    ASSUME GatherInv, GatherStep, GatherInv', NEW form, NEW heirs, NEW type, NEW way,
           RecordsLater(Programs[module], form, type, way),
           TypedTodo(form.typed, heirs), LoopTodo(form.typed), WayTodo(type, way),
           LateTodo(way.before, way.after), stmt = way.list
    PROVE  ToldOf(type)' \/ (Met(type)' /\ \A i \in DOMAIN todo' : QuietFrame(todo'[i], way.after))
<1>0. /\ todo # <<>> /\ todo[1].stmt = stmt /\ todo[1].item = item
      /\ Len(todo) \in Nat \ {0} /\ DOMAIN todo = 1 .. Len(todo) /\ 1 \in DOMAIN todo
  BY Grows, HeadFirst DEF GatherInv
<1>1. /\ stmt.op = "each" /\ stmt.what = type /\ stmt.form = "known" /\ stmt.fail = "raise"
      /\ ~stmt.aside /\ stmt \in Way(type, way) /\ stmt \notin way.before
  BY DEF RecordsLater, OnTheWay, Way
<1>2. CASE ListResources \/ ListFirstPage \/ ListFromFirstPage
  <2>1. Met(type)'
    BY <1>1, <1>2, ListedAgain
  <2>2. ASSUME NEW b \in 2 .. Len(todo) PROVE QuietFrame(todo[b], way.after)
    <3>1. b \in DOMAIN todo /\ 1 < b
      BY <1>0
    <3>2. ~QuietFrame(todo[1], way.before)
      BY <1>0, <1>1 DEF QuietFrame, Marks
    <3> QED BY <1>0, <3>1, <3>2 DEF LateTodo
  <2>3. stmt.body \in Seq(way.after)
    <3>1. PICK p \in form.typed : p[1] = stmt
      BY <1>0, <1>1, BodyOfProgram DEF Compound
    <3> QED BY <1>1, <3>1 DEF RecordsLater, Precedes
  <2> QED BY <2>1, <2>2, <2>3, AfterStays
<1>3. CASE Swallow \/ Drop \/ ReportAndGoOn \/ ReportAndSkip \/ ReportAndLeave \/ Unwind
  <2>1. PICK k : FirstMark(k, {"except"}) /\ Told(Source(todo[k].stmt.what, todo[k].item.n))
    BY <1>1, <1>3, FailForm
  <2>2. /\ 2 \in DOMAIN todo /\ todo[2].stmt.op = "except" /\ todo[2].stmt.what = type
        /\ todo[2].item.n = 0
    BY <1>0, <1>1 DEF WayTodo
  <2>3. k = 2
    <3>1. k \in 1 .. Len(todo) /\ todo[k].stmt.op \in {"except", "end"} /\ 2 \notin 1 .. k - 1
      BY <1>0, <2>1, <2>2 DEF FirstMark
    <3>2. k # 1
      BY <1>0, <1>1, <3>1
    <3> QED BY <1>0, <3>1, <3>2
  <2>4. Told(Source(type, 0))
    BY <2>1, <2>2, <2>3
  <2>5. /\ Len(errors) + 1 \in DOMAIN errors'
        /\ errors'[Len(errors) + 1].source = Source(type, 0)
    BY <2>4, ToldOne
  <2> QED BY <2>5 DEF ToldOf
<1> QED BY <1>1, <1>2, <1>3
        DEF GatherStep, LoopAgain, Branch, NextItem, FetchDetail, FetchAndUse, EnterTry,
            LeaveTry, RecordResource, DeriveEdge, NoEdge, Running

(* and what is listed afterwards is listed to be recorded. *)
LEMMA MetStays ==
    ASSUME GatherInv, GatherStep, GatherInv', NEW type, NEW after, Met(type),
           \A i \in DOMAIN todo : QuietFrame(todo[i], after),
           \A s \in after : s.op = "each" /\ s.what = type => ~s.aside
    PROVE  Met(type)'
<1>0. todo # <<>> /\ todo[1].stmt = stmt /\ 1 \in DOMAIN todo
  BY Grows, HeadFirst DEF GatherInv
<1> SUFFICES ASSUME NEW x \in listed', x.type = type
             PROVE  \E y \in Candidates' : EndOf(y) = EndOf(x)
  BY DEF Met, ListedOf, EndOf
<1>1. CASE x \in listed
  <2>1. PICK y \in Candidates : EndOf(y) = EndOf(x)
    BY <1>1 DEF Met, ListedOf
  <2>2. y \in Candidates'
    BY Grows DEF Candidates
  <2> QED BY <2>1, <2>2
<1>2. CASE x \notin listed
  <2>1. stmt.op = "each" /\ Came(x)
    BY <1>2, ListedGrows
  <2>2. x.type = stmt.what /\ x.aside = stmt.aside
    <3>1. x = NewItem(x.n, x.intent)
      BY <2>1 DEF Came
    <3> QED BY <3>1 DEF NewItem
  <2>3. stmt \in after
    BY <1>0, <2>1 DEF QuietFrame, Marks
  <2>4. x \in Candidates'
    BY <2>1, <2>2, <2>3 DEF Candidates
  <2> QED BY <2>4
<1> QED BY <1>1, <1>2

LEMMA MetOrComingStays ==
    ASSUME GatherInv, GatherStep, GatherInv', NEW form, NEW told, NEW type, NEW way,
           Careful(Programs[module], form), LossInv(form, told), Isolated(form.open)',
           RecordsLater(Programs[module], form, type, way), WayTodo(type, way),
           StaysTodo(type, way), SteadyTodo(Way(type, way), form.calm),
           LateTodo(way.before, way.after), MetOrComing(type, way)
    PROVE  MetOrComing(type, way)'
<1>0. /\ TypedTodo(form.typed, {}) /\ LoopTodo(form.typed)
      /\ OnTheWay(Programs[module], form.typed, type, way)
  BY DEF LossInv, RecordsLater
<1>1. CASE Coming(type, way) /\ stmt \notin Way(type, way)
  BY <1>1, WayKept DEF MetOrComing
<1>2. CASE stmt \in Way(type, way) /\ stmt # way.list
  BY <1>0, <1>2, WayEntered DEF MetOrComing
<1>3. CASE stmt = way.list
  BY <1>0, <1>3, WayTaken DEF MetOrComing, QuietFrame
<1>4. CASE ToldOf(type)
  <2>1. ToldOf(type)'
    BY <1>4, ErrorsStay DEF ToldOf
  <2> QED BY <2>1 DEF MetOrComing
<1>5. CASE Met(type) /\ \A i \in DOMAIN todo : QuietFrame(todo[i], way.after)
  <2>1. /\ ClosedIn(way.after)
        /\ \A s \in way.after : s.op = "each" /\ s.what = type => ~s.aside
    BY DEF RecordsLater, Precedes
  <2>2. Met(type)'
    BY <1>5, <2>1, MetStays
  <2>3. \A i \in DOMAIN todo' : QuietFrame(todo'[i], way.after)
    BY <1>5, <2>1, QuietStays
  <2> QED BY <2>2, <2>3 DEF MetOrComing, QuietFrame
<1> QED BY <1>1, <1>2, <1>3, <1>4, <1>5 DEF MetOrComing

-----------------------------------------------------------------------------
WayInv(form, type, way) ==
    /\ WayTodo(type, way) /\ StaysTodo(type, way)
    /\ SteadyTodo(Way(type, way), form.calm) /\ LateTodo(way.before, way.after)
    /\ MetOrComing(type, way)

NetworksKept(keeps) == \A x \in Candidates : x.type \in Networking => Accounted(x, keeps)

Seen(end) == IsRecorded(end) \/ \E x \in listed : EndOf(x) = end

EdgesMet == \A i \in DOMAIN edges : edges[i].to.type \in Networking => Seen(edges[i].to)

DangleInv(form) ==
    /\ LossInv(form, FALSE) /\ Isolated(form.open) /\ MadeOfParts(form.parts)
    /\ NetworksKept(form.keeps) /\ EdgesMet
    /\ \A type \in Networking : WayInv(form, type, form.ways[type])

LEMMA DangleStart ==
    ASSUME GatherInit, NEW form, LooksUp(Programs[module], form)
    PROVE  DangleInv(form)
<1>1. Careful(Programs[module], form) /\ RaisesInTry(Programs[module], form.open)
  BY DEF LooksUp
<1>2. LossInv(form, FALSE) /\ Isolated(form.open) /\ MadeOfParts(form.parts)
  BY <1>1, LossInvStart, IsolatedStart, PartsStart DEF LooksUp
<1>3. NetworksKept(form.keeps) /\ EdgesMet
  <2>1. listed = {} /\ edges = <<>>
    BY DEF GatherInit, WriterInit
  <2>2. Candidates = {}
    BY <2>1 DEF Candidates
  <2> QED BY <2>1, <2>2 DEF NetworksKept, EdgesMet
<1>4. ASSUME NEW type \in Networking PROVE WayInv(form, type, form.ways[type])
  <2> DEFINE way == form.ways[type]
  <2>1. RecordsLater(Programs[module], form, type, way)
    BY DEF LooksUp
  <2> HIDE DEF way
  <2>2. WayTodo(type, way) /\ StaysTodo(type, way) /\ MetOrComing(type, way)
    BY <2>1, WayStart DEF MetOrComing
  <2>3. SteadyTodo(Way(type, way), form.calm)
    BY TriedStart, SteadyStart
  <2>4. LateTodo(way.before, way.after)
    BY <2>1, LateStart DEF RecordsLater
  <2>5. WayInv(form, type, way)
    BY <2>2, <2>3, <2>4 DEF WayInv
  <2> QED BY <2>5 DEF way
<1> QED BY <1>2, <1>3, <1>4 DEF DangleInv

LEMMA WayInvStays ==
    ASSUME GatherInv, GatherStep, GatherInv', NEW form, NEW told, NEW type, NEW way,
           Careful(Programs[module], form), LossInv(form, told), Isolated(form.open)',
           RecordsLater(Programs[module], form, type, way), WayInv(form, type, way)
    PROVE  WayInv(form, type, way)'
<1>0. /\ TypedTodo(form.typed, {}) /\ LoopTodo(form.typed) /\ TriedTodo(form.tried)
      /\ OnTheWay(Programs[module], form.typed, type, way)
  BY DEF LossInv, RecordsLater
<1>1. WayTodo(type, way)'
  BY <1>0, WayStay DEF WayInv
<1>2. StaysTodo(type, way)'
  BY <1>0, StaysStay DEF WayInv
<1>3. SteadyTodo(Way(type, way), form.calm)'
  BY <1>0, SteadyStay DEF WayInv, RecordsLater
<1>4. LateTodo(way.before, way.after)'
  BY <1>0, LateStay DEF WayInv, RecordsLater
<1>5. MetOrComing(type, way)'
  BY MetOrComingStays DEF WayInv
<1> QED BY <1>1, <1>2, <1>3, <1>4, <1>5 DEF WayInv

(* No call is made for a network that was listed before it is recorded. *)
LEMMA NetworksStayKept ==
    ASSUME GatherInv, GatherStep, GatherInv', NEW form, NEW told, LooksUp(Programs[module], form),
           LossInv(form, told), Isolated(form.open)', NetworksKept(form.keeps)
    PROVE  NetworksKept(form.keeps)'
<1> SUFFICES ASSUME NEW x \in Candidates', x.type \in Networking
             PROVE  Accounted(x, form.keeps)'
  BY DEF NetworksKept
<1>1. x \in listed => Accounted(x, form.keeps)
  BY DEF NetworksKept, Candidates
<1>2. Accounted(x, form.keeps)' \/ Abandoned' \/ Spent(x)
  BY <1>1, AccountedStep DEF LooksUp
<1>3. ~Abandoned'
  BY DEF Abandoned, Isolated
<1>4. ~Spent(x)
  <2> SUFFICES ASSUME Spent(x) PROVE FALSE
    OBVIOUS
  <2>1. x = item /\ stmt.op \in {"each", "fetch", "when"}
    BY DEF Spent
  <2>2. todo # <<>> /\ todo[1].stmt = stmt /\ todo[1].item = item /\ 1 \in DOMAIN todo
    BY Grows, HeadFirst DEF GatherInv
  <2>3. PICK p \in form.typed : p = <<stmt, item.type>>
    BY <2>1, <2>2 DEF LossInv, TypedTodo, Marks
  <2>4. p[1] = stmt /\ p[2] = item.type
    BY <2>3
  <2> QED BY <2>1, <2>4 DEF LooksUp
<1> QED BY <1>2, <1>3, <1>4

LEMMA EdgesMeet ==
    ASSUME GatherInv, GatherStep, GatherInv', NEW parts, MadeOfParts(parts), NetworksFound(parts),
           EdgesMet
    PROVE  EdgesMet'
<1> DEFINE S == {e : e \in {edges[i] : i \in DOMAIN edges} \cup {edges'[i] : i \in DOMAIN edges'}}
           G == {e \in S : e.to.type \in Networking => Seen(e.to)'}
<1>1. \A end : Seen(end) => Seen(end)'
  BY RecordedStays, Grows DEF Seen
<1>2. \A i \in DOMAIN edges : edges[i] \in G
  BY <1>1 DEF EdgesMet
<1>3. edges' = edges \/ \E e \in G : edges' = Append(edges, e)
  <2>1. CASE DeriveEdge /\ stmt.op = "edge"
    <3>1. todo # <<>> /\ stmt \in parts
      <4>1. todo # <<>>
        BY Grows
      <4> QED BY <2>1, <4>1, HeadFirst DEF GatherInv, MadeOfParts, Marks
    <3>2. /\ stmt.from = "self"
          /\ stmt.to \in Networking => stmt.among \in {"listed", "recorded", "recorded parent"}
      BY <2>1, <3>1 DEF NetworksFound
    <3>3. PICK n \in Targets : \E edge :
              edges' = Append(edges, edge) /\ records' = records
              /\ edge.to = [type |-> stmt.to, id |-> n]
      BY <2>1, <3>2, EdgeAdded
    <3>4. PICK edge : /\ edges' = Append(edges, edge) /\ records' = records
                      /\ edge.to = [type |-> stmt.to, id |-> n]
      BY <3>3
    <3>5. stmt.to \in Networking => Seen(edge.to)
      <4>1. CASE stmt.among \in {"recorded", "recorded parent"}
        BY <3>3, <3>4, <4>1 DEF Targets, Seen
      <4>2. CASE stmt.among = "listed"
        <5>1. n \in {x.n : x \in ListedOf(stmt.to)}
          BY <3>3, <4>2 DEF Targets
        <5>2. PICK x \in listed : x.type = stmt.to /\ x.n = n
          BY <5>1 DEF ListedOf
        <5>3. EndOf(x) = edge.to
          BY <3>4, <5>2 DEF EndOf
        <5> QED BY <5>3 DEF Seen
      <4> QED BY <3>2, <4>1, <4>2
    <3>6. edge.to.type = stmt.to
      BY <3>4
    <3>7. edge \in S
      <4>1. edges \in Seq(Edge)
        BY DEF GatherInv, WriterTypeOK
      <4>2. Len(edges) + 1 \in DOMAIN edges' /\ edges'[Len(edges) + 1] = edge
        BY <3>4, <4>1
      <4> QED BY <4>2
    <3> QED BY <1>1, <3>4, <3>5, <3>6, <3>7
  <2> QED BY <2>1, EdgesKeptOrOne
<1> HIDE DEF G
<1>4. \A i \in DOMAIN edges' : edges'[i] \in G
  BY <1>2, <1>3, EachEdge
<1> QED BY <1>4 DEF G, EdgesMet

LEMMA DangleSame ==
    ASSUME UNCHANGED vars, NEW form, DangleInv(form)
    PROVE  DangleInv(form)'
<1>1. todo' = todo /\ listed' = listed /\ errors' = errors /\ edges' = edges /\ records' = records
  BY DEF vars, gatherVars, writerVars
<1>2. LossInv(form, FALSE)'
  BY LossInvSame DEF DangleInv
<1>3. Isolated(form.open)' /\ MadeOfParts(form.parts)'
  BY <1>1 DEF DangleInv, Isolated, MadeOfParts, NamedMark, Caught, Harmless
<1>4. NetworksKept(form.keeps)'
  BY AccountedSame DEF DangleInv, NetworksKept
<1>5. EdgesMet'
  BY <1>1 DEF DangleInv, EdgesMet, Seen, IsRecorded
<1>6. ASSUME NEW type \in Networking PROVE WayInv(form, type, form.ways[type])'
  BY <1>1 DEF DangleInv, WayInv, WayTodo, StaysTodo, SteadyTodo, SteadyAt, Caught, LateTodo,
              MetOrComing, Coming, ToldOf, Met, ListedOf, Candidates
<1> QED BY <1>2, <1>3, <1>4, <1>5, <1>6 DEF DangleInv

LEMMA DangleStep ==
    ASSUME GatherInv, [GatherStep]_vars, GatherInv', NEW form, LooksUp(Programs[module], form),
           DangleInv(form)
    PROVE  DangleInv(form)'
<1>1. CASE UNCHANGED vars
  BY <1>1, DangleSame
<1>2. CASE GatherStep
  <2>1. /\ Careful(Programs[module], form) /\ RaisesInTry(Programs[module], form.open)
        /\ MadeOf(Programs[module], form.parts) /\ NetworksFound(form.parts)
    BY DEF LooksUp
  <2>2. LossInv(form, FALSE)'
    BY <1>2, <2>1, LossInvStays DEF DangleInv
  <2>3. Isolated(form.open)'
    BY <2>1, IsolatedStep DEF DangleInv
  <2>4. MadeOfParts(form.parts)'
    BY <1>2, <2>1, PartsStay DEF DangleInv
  <2>5. NetworksKept(form.keeps)'
    BY <1>2, <2>3, NetworksStayKept DEF DangleInv
  <2>6. EdgesMet'
    BY <1>2, <2>1, EdgesMeet DEF DangleInv
  <2>7. ASSUME NEW type \in Networking PROVE WayInv(form, type, form.ways[type])'
    BY <1>2, <2>1, <2>3, WayInvStays DEF LooksUp, DangleInv
  <2> QED BY <2>2, <2>3, <2>4, <2>5, <2>6, <2>7 DEF DangleInv
<1> QED BY <1>1, <1>2

LEMMA DangleMeets ==
    ASSUME NEW form, LooksUp(Programs[module], form), DangleInv(form)
    PROVE  DanglingExplained
<1> SUFFICES ASSUME Ended, NEW i \in DOMAIN edges, Dangling(edges[i])
             PROVE  \E j \in DOMAIN errors : errors[j].source = Source(edges[i].to.type, 0)
  BY DEF DanglingExplained
<1> DEFINE type == edges[i].to.type
           way == form.ways[type]
<1>1. type \in Networking /\ ~IsRecorded(edges[i].to)
  BY DEF Dangling
<1>2. PICK x \in listed : EndOf(x) = edges[i].to
  BY <1>1 DEF DangleInv, EdgesMet, Seen
<1>3. x.type = type
  BY <1>2 DEF EndOf
<1>4. MetOrComing(type, way)
  BY <1>1 DEF DangleInv, WayInv
<1>5. ~Coming(type, way)
  BY DEF Ended, Coming
<1>6. CASE ToldOf(type)
  BY <1>6 DEF ToldOf
<1>7. CASE Met(type)
  <2>1. PICK y \in Candidates : EndOf(y) = EndOf(x)
    BY <1>3, <1>7 DEF Met, ListedOf
  <2>2. EndOf(y) = edges[i].to /\ y.type = type /\ y \in listed
    BY <1>2, <1>3, <2>1 DEF EndOf, Candidates
  <2>3. Accounted(y, form.keeps)
    BY <1>1, <2>1, <2>2 DEF DangleInv, NetworksKept
  <2>4. ~IntentSeen(y).full
    <3>1. y.intent = NoIntent
      BY <1>1, <2>2 DEF DangleInv, LossInv, TagsOfOne, LooksUp
    <3> QED BY <3>1 DEF IntentSeen, NoIntent
  <2>5. ~Pending(y, form.keeps)
    BY DEF Ended, Pending
  <2> QED BY <1>1, <2>2, <2>3, <2>4, <2>5 DEF Accounted
<1> QED BY <1>4, <1>5, <1>6, <1>7 DEF MetOrComing

(* gcp/compute.py and gcp/vpc.py: where the gather function that derives edges to networks
   only looks these up, in a list of its own, and those that are to record them are called
   after it, each list in a try of its own, no such edge dangles unexplained: if the
   network is missing at the end, the entry of the list that was to record it is there. *)
THEOREM DanglingTold ==
    ASSUME \A name \in Claims["DanglingExplained"] \cap DOMAIN Programs :
               \E form : LooksUp(Programs[name], form)
    PROVE  GatherSpec => []DanglingExplained
<1> DEFINE Inv == \/ Unclaimed("DanglingExplained")
                  \/ \E form : LooksUp(Programs[module], form) /\ DangleInv(form)
<1>1. GatherInit => Inv
  <2> SUFFICES ASSUME GatherInit, ~Unclaimed("DanglingExplained") PROVE Inv
    OBVIOUS
  <2>1. module \in Claims["DanglingExplained"] \cap DOMAIN Programs
    BY DEF GatherInit, Unclaimed
  <2>2. PICK form : LooksUp(Programs[module], form)
    BY <2>1
  <2> QED BY <2>2, DangleStart
<1>2. GatherInv /\ GatherInv' /\ Inv /\ [GatherStep]_vars => Inv'
  <2> SUFFICES ASSUME GatherInv, GatherInv', Inv, [GatherStep]_vars PROVE Inv'
    OBVIOUS
  <2>1. module' = module
    BY NameStays
  <2>2. CASE Unclaimed("DanglingExplained")
    BY <2>1, <2>2 DEF Unclaimed
  <2>3. ASSUME NEW form, LooksUp(Programs[module], form), DangleInv(form) PROVE Inv'
    <3>1. DangleInv(form)'
      BY <2>3, DangleStep
    <3>2. LooksUp(Programs[module'], form)
      BY <2>1, <2>3
    <3> QED BY <3>1, <3>2
  <2> QED BY <2>2, <2>3
<1>3. Inv => DanglingExplained
  BY DangleMeets DEF DanglingExplained
<1> HIDE DEF Inv
<1> QED BY <1>1, <1>2, <1>3, InvAlways, PTL DEF GatherSpec

-----------------------------------------------------------------------------
(* A gather function as run() sees it: the calls of the writer it makes, and how it
   ends.  ProviderRun has nothing else of it (GatherCalls, GatherReturns,
   GatherRaises). *)
Calls ==
    \/ \E t \in ResourceTypes, i \in ResourceIds, k \in Intent : AddResource(t, region, i, k)
    \/ SomeAddEdge
    \/ \E s \in Sources : s.what # "gather" /\ AddError(region, s)

Proceeds == ~Ended' /\ (Calls \/ UNCHANGED writerVars)

Returns == Ended' /\ UNCHANGED writerVars

Raises == Ended' /\ AddError(region, Source("gather", 0))

(* the entry that the handler in run() makes *)
EntryIsLast == \A i \in DOMAIN errors : ReachedEnd(errors[i]) => Ended /\ i = Len(errors)

(* The mark of the try in run() is the last frame, and the only one of its name. *)
LastMark ==
    todo # <<>> => /\ todo[Len(todo)].stmt.what = "gather"
                   /\ todo[Len(todo)].item = Outside(0)

CallInv == LastMark /\ (\A i \in DOMAIN todo : NamedMark(i)) /\ EntryIsLast

LEMMA BeyondTaken ==
    ASSUME NEW a \in Nat, NEW b \in Nat \ {0}, b # 1, NEW i \in Nat, i =< a
    PROVE  i # a + b - 1
  OBVIOUS

LEMMA CallStart ==
    ASSUME GatherInit
    PROVE  CallInv
<1> DEFINE n == Len(Programs[module])
<1>1. /\ n \in Nat /\ Len(todo) = n + 1 /\ DOMAIN todo = 1 .. n + 1
      /\ todo[n + 1].stmt.what = "gather" /\ todo[n + 1].item = Outside(0)
      /\ Programs[module] \in Seq(Statements)
  BY StartFrames
<1>2. ASSUME NEW i \in 1 .. n PROVE todo[i].stmt.op \notin Marks
  <2>1. todo[i] = [stmt |-> Programs[module][i], item |-> Outside(i)]
    BY StartFrames
  <2>2. i \in DOMAIN Programs[module]
    BY <1>1
  <2>3. Programs[module][i] \in Statements
    BY <1>1, <2>2, BodyRange
  <2>4. todo[i].stmt = Programs[module][i]
    BY <2>1
  <2> QED BY <2>3, <2>4, ProgramAssumption DEF WellFormed
<1>3. \A i \in DOMAIN todo : i \in 1 .. n \/ ~(i < Len(todo))
  <2> HIDE DEF n
  <2> QED BY <1>1
<1>4. \A i \in DOMAIN todo : NamedMark(i)
  BY <1>2, <1>3 DEF NamedMark, Marks
<1>5. errors = <<>>
  BY DEF GatherInit, WriterInit
<1> QED BY <1>1, <1>4, <1>5 DEF CallInv, LastMark, EntryIsLast

LEMMA MarksKept ==
    ASSUME GatherInv, GatherStep, GatherInv', CallInv
    PROVE  LastMark' /\ \A i \in DOMAIN todo' : NamedMark(i)'
<1>1. /\ todo # <<>> /\ todo[1].stmt = stmt /\ todo[1].item = item
      /\ todo[Len(todo)].stmt.op = "end"
      /\ todo[Len(todo)].stmt.what = "gather" /\ todo[Len(todo)].item = Outside(0)
  BY Grows, HeadFirst DEF GatherInv, CallInv, LastMark
<1>2. todo' # <<>> => Len(todo') \in DOMAIN todo'
  BY DEF GatherInv, TodoInv
<1>3. ASSUME NEW k, Leaves(k)
      PROVE  LastMark' /\ \A i \in DOMAIN todo' : NamedMark(i)'
  <2>1. ASSUME NEW i \in DOMAIN todo'
        PROVE  /\ NamedMark(i)'
               /\ i = Len(todo') => todo'[i] = todo[Len(todo)]
    <3>1. /\ i \in Nat /\ Len(todo) \in Nat \ {0} /\ Len(todo') = Len(todo) - k + 1
          /\ DOMAIN todo = 1 .. Len(todo) /\ k \in 2 .. Len(todo) + 1
          /\ k + i - 1 \in 2 .. Len(todo) /\ todo'[i] = todo[k + i - 1]
      BY <1>1, <1>3, <2>1, LeftAt
    <3>2. k + i - 1 \in DOMAIN todo /\ (i < Len(todo') => k + i - 1 < Len(todo))
      BY <3>1
    <3>3. NamedMark(k + i - 1)
      BY <3>2 DEF CallInv
    <3>4. i = Len(todo') => k + i - 1 = Len(todo)
      BY <3>1
    <3> QED BY <3>1, <3>2, <3>3, <3>4 DEF NamedMark
  <2> QED BY <1>1, <1>2, <2>1 DEF LastMark
<1>4. CASE Enters
  <2> DEFINE n == Len(stmt.body)
  <2>1. /\ stmt.op \in Compound \cup {"next"} /\ stmt.body \in Seq(Statements) /\ n \in Nat
    BY <1>1, <1>4, OpenedFrames
  <2>2. PICK d \in {0, 1} : \E x : Opens(x, d) /\ \A m \in 1 .. n + d : Entered(todo'[m])
    BY <1>1, <1>4, EnteredFirst
  <2>3. PICK x : Opens(x, d) /\ \A m \in 1 .. n + d : Entered(todo'[m])
    BY <2>2
  <2>4. ASSUME NEW i \in DOMAIN todo'
        PROVE  /\ i \in Nat /\ Len(todo) \in Nat \ {0} /\ Len(todo') = n + d + Len(todo) - 1
               /\ DOMAIN todo = 1 .. Len(todo) /\ DOMAIN todo' = 1 .. Len(todo')
               /\ \/ i \in 1 .. n + d
                  \/ \E j \in 2 .. Len(todo) : i = n + d + j - 1 /\ todo'[i] = todo[j]
    <3>1. Placed(i, x, d)
      BY <1>1, <2>1, <2>3, <2>4, OpenedAt
    <3>2. i \in 1 .. n => i \in 1 .. n + d
      BY <2>1
    <3>3. d = 1 /\ i = n + 1 => i \in 1 .. n + d
      BY <2>1
    <3> QED BY <3>1, <3>2, <3>3 DEF Placed
  <2>5. Len(todo) # 1
    BY <1>1, <2>1 DEF Compound
  <2>6. ASSUME NEW i \in DOMAIN todo', i \in 1 .. n + d
        PROVE  NamedMark(i)' /\ i # Len(todo')
    <3>0. i # Len(todo')
      <4>1. d \in Nat /\ i \in Nat /\ i =< n + d
        BY <2>1, <2>2, <2>6
      <4>2. Len(todo') = n + d + Len(todo) - 1 /\ Len(todo) \in Nat \ {0} /\ n \in Nat
        BY <2>1, <2>4
      <4> HIDE DEF n
      <4>3. n + d \in Nat
        BY <4>1, <4>2
      <4>4. i # (n + d) + Len(todo) - 1
        BY <2>5, <4>1, <4>2, <4>3, BeyondTaken
      <4> QED BY <4>2, <4>4
    <3>1. Entered(todo'[i])
      BY <2>3, <2>6
    <3>2. CASE InBody(todo'[i])
      <4>1. todo'[i].stmt \in Statements
        BY <2>1, <3>2, BodyRange DEF InBody
      <4>2. todo'[i].stmt.op \notin Marks
        BY <4>1, ProgramAssumption DEF WellFormed
      <4> QED BY <3>0, <4>2 DEF NamedMark, Marks
    <3>3. CASE todo'[i].stmt.op = "next"
      BY <3>0, <3>3 DEF NamedMark
    <3>4. CASE stmt.op \in {"guard", "call"} /\ todo'[i].stmt.what = stmt.what
      <4>1. stmt \in Statements
        BY <1>1, <3>4, AtHand DEF GatherInv, Marks
      <4>2. stmt.what # "gather"
        BY <3>4, <4>1, ProgramAssumption DEF WellFormed
      <4> QED BY <3>0, <3>4, <4>2 DEF NamedMark
    <3> QED BY <3>1, <3>2, <3>3, <3>4 DEF Entered
  <2>7. ASSUME NEW i \in DOMAIN todo', NEW j \in 2 .. Len(todo),
               i = n + d + j - 1, todo'[i] = todo[j]
        PROVE  NamedMark(i)' /\ (i = Len(todo') => todo'[i] = todo[Len(todo)])
    <3>1. j \in DOMAIN todo /\ (i < Len(todo') => j < Len(todo))
      BY <2>1, <2>4, <2>7
    <3>2. i = Len(todo') => j = Len(todo)
      BY <2>1, <2>4, <2>7
    <3>3. NamedMark(j)
      BY <3>1 DEF CallInv
    <3> QED BY <2>7, <3>1, <3>2, <3>3 DEF NamedMark
  <2>8. \A i \in DOMAIN todo' : /\ NamedMark(i)'
                                /\ i = Len(todo') => todo'[i] = todo[Len(todo)]
    BY <2>4, <2>6, <2>7
  <2> QED BY <1>1, <1>2, <2>8 DEF LastMark
<1> QED BY <1>3, <1>4, StepForm

(* A failed call: its entry is of the section it was in, or it leaves gather(). *)
LEMMA FailSeen ==
    ASSUME GatherInv, GatherInv', CallInv,
           Swallow \/ Drop \/ ReportAndGoOn \/ ReportAndSkip \/ ReportAndLeave \/ Unwind
    PROVE  Proceeds \/ Returns \/ Raises
<1>1. /\ todo # <<>> /\ stmt \in Statements /\ stmt.op \in {"each", "fetch", "when"}
      /\ stmt.op \notin Marks
  BY FailForm, ProgramAssumption
     DEF Swallow, Drop, ReportAndGoOn, ReportAndSkip, ReportAndLeave, Unwind, CallFails, Marks
<1>2. /\ Len(todo) \in Nat \ {0} /\ DOMAIN todo = 1 .. Len(todo)
      /\ todo[1].stmt = stmt /\ todo[Len(todo)].stmt.op = "end"
      /\ todo[Len(todo)].stmt.what = "gather" /\ todo[Len(todo)].item = Outside(0)
  BY <1>1, HeadFirst DEF GatherInv, CallInv, LastMark
<1>3. item.n \in 0 .. MaxEvents
  BY <1>1, AtHand, ItemTypes DEF GatherInv
<1>4. CASE Swallow \/ Drop
  BY <1>4 DEF Swallow, Drop, Proceeds, Returns
<1>5. CASE ReportAndGoOn \/ ReportAndSkip \/ ReportAndLeave
  <2>1. AddError(region, Source(stmt.what, item.n))
    BY <1>5 DEF ReportAndGoOn, ReportAndSkip, ReportAndLeave
  <2>2. /\ Source(stmt.what, item.n) \in Sources
        /\ Source(stmt.what, item.n).what # "gather"
    BY <1>1, <1>3, ProgramAssumption DEF WellFormed, Source
  <2>3. todo' # <<>>
    <3>1. CASE todo' = Tail(todo)
      <4>1. Len(todo) # 1
        BY <1>1, <1>2
      <4>2. todo \in Seq(Frame(listed))
        BY DEF GatherInv, TodoInv
      <4>3. Len(todo') = Len(todo) - 1
        BY <1>1, <3>1, <4>2
      <4> QED BY <1>2, <4>1, <4>3
    <3>2. ASSUME NEW ops, todo' = LeaveTo(ops) PROVE todo' # <<>>
      BY <1>1, <3>2, MarkFound DEF GatherInv, TodoInv
    <3> QED BY <1>5, <3>1, <3>2 DEF ReportAndGoOn, ReportAndSkip, ReportAndLeave
  <2> QED BY <2>1, <2>2, <2>3 DEF Proceeds, Ended, Calls
<1>6. CASE Unwind
  <2>1. stmt.fail = "raise" /\ \E s : AddError(region, s)
    BY <1>6 DEF Unwind, Handled, CallFails
  <2>2. PICK k : /\ Leaves(k + 1) /\ FirstMark(k, {"except"})
                 /\ Told(Source(todo[k].stmt.what, todo[k].item.n))
    BY <1>6, <2>1, FailForm
  <2>3. AddError(region, Source(todo[k].stmt.what, todo[k].item.n))
    BY <2>1, <2>2 DEF AddError, Told
  <2>4. /\ k \in 1 .. Len(todo) /\ Len(todo') = Len(todo) - k
        /\ todo[k].stmt.op \in {"except", "end"}
    <3>1. k \in 1 .. Len(todo) /\ todo[k].stmt.op \in {"except", "end"}
      BY <1>2, <2>2 DEF FirstMark
    <3>2. Len(todo') = Len(todo) - (k + 1) + 1
      BY <2>2 DEF Leaves
    <3> QED BY <1>2, <3>1, <3>2
  <2>5. CASE k = Len(todo)
    <3>1. todo' = <<>>
      BY <1>2, <2>4, <2>5 DEF GatherInv, TodoInv
    <3>2. Source(todo[k].stmt.what, todo[k].item.n) = Source("gather", 0)
      BY <1>2, <2>5 DEF Outside
    <3> QED BY <2>3, <3>1, <3>2 DEF Raises, Ended
  <2>6. CASE k # Len(todo)
    <3>1. k \in DOMAIN todo /\ k < Len(todo)
      <4>1. k \in 1 .. Len(todo) /\ Len(todo) \in Nat
        BY <1>2, <2>4
      <4>2. k \in DOMAIN todo
        BY <1>2, <2>4
      <4> QED BY <2>6, <4>1, <4>2
    <3>2. todo[k].stmt.what # "gather"
      BY <2>4, <3>1 DEF CallInv, NamedMark
    <3>3. todo[k] \in Frame(listed)
      BY <3>1 DEF GatherInv, TodoInv
    <3>4. todo[k].item.n \in 0 .. MaxEvents
      <4>1. todo[k].item \in Items(listed)
        BY <3>3 DEF Frame
      <4> QED BY <4>1, ItemTypes DEF GatherInv
    <3>5. Source(todo[k].stmt.what, todo[k].item.n) \in Sources
      BY <2>4, <3>3, <3>4, MarkNames
    <3>6. Source(todo[k].stmt.what, todo[k].item.n).what # "gather"
      BY <3>2 DEF Source
    <3>7. todo' # <<>>
      <4>1. Len(todo') # 0
        BY <1>2, <2>4, <3>1
      <4> QED BY <4>1
    <3> QED BY <2>3, <3>5, <3>6, <3>7 DEF Proceeds, Ended, Calls
  <2> QED BY <2>5, <2>6
<1> QED BY <1>4, <1>5, <1>6

LEMMA StepSeen ==
    ASSUME GatherInv, GatherStep, GatherInv', CallInv
    PROVE  Proceeds \/ Returns \/ Raises
<1>1. /\ todo # <<>> /\ Len(todo) \in Nat \ {0} /\ todo \in Seq(Frame(listed))
      /\ todo[1].stmt = stmt /\ todo[Len(todo)].stmt.op = "end"
  BY Grows, HeadFirst DEF GatherInv, TodoInv
<1>2. ASSUME stmt.op \in {"add", "edge"} PROVE todo' # <<>>
  <2>1. Len(todo) # 1
    BY <1>1, <1>2
  <2>2. ASSUME NEW k, Leaves(k), k = 2 PROVE todo' # <<>>
    <3>1. Len(todo') = Len(todo) - k + 1
      BY <2>2 DEF Leaves
    <3>2. Len(todo') # 0
      BY <1>1, <2>1, <2>2, <3>1
    <3> QED BY <3>2
  <2>3. ASSUME EntersBody, stmt.op = "add" PROVE todo' # <<>>
    <3>1. Len(todo') = Len(stmt.body) + 0 + Len(todo) - 1
      BY <2>3 DEF EntersBody, Opens
    <3>2. Len(stmt.body) \in Nat
      <4>1. stmt.body \in Seq(Statements)
        BY <1>1, <2>3, BodyAtHand DEF Compound
      <4> QED BY <4>1
    <3>3. Len(stmt.body) + 0 \in Nat /\ 0 =< Len(stmt.body) + 0 /\ 0 \in Nat
      BY <3>2
    <3>4. 0 # Len(stmt.body) + 0 + Len(todo) - 1
      BY <1>1, <2>1, <3>3, BeyondTaken
    <3>5. Len(todo') # 0
      BY <3>1, <3>4
    <3> QED BY <3>5
  <2>4. CASE stmt.op = "add"
    <3>1. RecordResource
      BY <2>4 DEF GatherStep, ListResources, ListFirstPage, ListFromFirstPage, LoopAgain,
         Branch, NextItem, FetchDetail, FetchAndUse, EnterTry, LeaveTry, Swallow, Drop,
         ReportAndGoOn, ReportAndSkip, ReportAndLeave, Unwind, DeriveEdge, NoEdge, Running,
         CallFails
    <3> QED BY <2>2, <2>3, <2>4, <3>1, BodyForm
  <2>5. CASE stmt.op = "edge"
    <3>1. todo' = Tail(todo)
      BY <2>5 DEF GatherStep, ListResources, ListFirstPage, ListFromFirstPage, LoopAgain,
         Branch, NextItem, FetchDetail, FetchAndUse, EnterTry, LeaveTry, Swallow, Drop,
         ReportAndGoOn, ReportAndSkip, ReportAndLeave, Unwind, RecordResource, DeriveEdge,
         NoEdge, Running, CallFails
    <3>2. Leaves(2)
      BY <1>1, <3>1, TailLeft
    <3> QED BY <2>2, <3>2
  <2> QED BY <1>2, <2>4, <2>5
<1>3. CASE ListResources \/ ListFirstPage \/ ListFromFirstPage
  BY <1>3, ListingStep DEF Proceeds, Returns
<1>4. CASE LoopAgain \/ Branch \/ NextItem \/ FetchDetail \/ FetchAndUse \/ EnterTry
               \/ LeaveTry \/ NoEdge
  BY <1>4, QuietSteps DEF Proceeds, Returns
<1>5. CASE Swallow \/ Drop \/ ReportAndGoOn \/ ReportAndSkip \/ ReportAndLeave \/ Unwind
  BY <1>5, FailSeen
<1>6. CASE RecordResource
  <2>1. stmt.op = "add" /\ AddResource(item.type, region, item.n, IntentSeen(item))
    BY <1>6 DEF RecordResource, Running
  <2>2. item \in Items(listed)
    BY <1>1, AtHand DEF GatherInv
  <2>3. item.type \in ResourceTypes /\ item.n \in ResourceIds /\ IntentSeen(item) \in Intent
    BY <2>2, ItemTypes, GatherAssumption DEF GatherInv, IntentSeen
  <2> QED BY <1>2, <2>1, <2>3 DEF Proceeds, Calls, Ended
<1>7. CASE DeriveEdge
  <2>1. stmt.op = "edge"
    BY <1>7 DEF DeriveEdge, Running
  <2> QED BY <1>2, <1>7, <2>1, EdgeStep DEF Proceeds, Calls, Ended
<1> QED BY <1>3, <1>4, <1>5, <1>6, <1>7 DEF GatherStep

LEMMA EntryStays ==
    ASSUME GatherInv, CallInv, todo # <<>>, Proceeds \/ Returns \/ Raises
    PROVE  EntryIsLast'
<1>1. errors \in Seq(Error) /\ \A i \in DOMAIN errors : ~ReachedEnd(errors[i])
  BY DEF GatherInv, WriterTypeOK, CallInv, EntryIsLast, Ended
<1>2. CASE errors' = errors
  BY <1>1, <1>2 DEF EntryIsLast, ReachedEnd
<1>3. ASSUME NEW s, Told(s), s.what = "gather" => Ended'
      PROVE  EntryIsLast'
  <2>1. /\ Len(errors') = Len(errors) + 1
        /\ \A i \in DOMAIN errors : errors'[i] = errors[i]
        /\ errors'[Len(errors) + 1].source = s
        /\ \A i \in DOMAIN errors' : i \in DOMAIN errors \/ i = Len(errors) + 1
    BY <1>3, ToldOne
  <2>2. Source("gather", 0).what = "gather"
    BY DEF Source
  <2> SUFFICES ASSUME NEW i \in DOMAIN errors', errors'[i].source = Source("gather", 0)
               PROVE  Ended' /\ i = Len(errors')
    BY DEF EntryIsLast, ReachedEnd
  <2>3. i = Len(errors) + 1
    BY <1>1, <2>1 DEF ReachedEnd
  <2> QED BY <1>3, <2>1, <2>2, <2>3
<1>4. CASE Raises
  <2>1. Told(Source("gather", 0)) /\ Ended'
    BY <1>4 DEF Raises, AddError, Told
  <2> QED BY <1>3, <2>1
<1>5. CASE \E s \in Sources : s.what # "gather" /\ AddError(region, s)
  <2>1. PICK s \in Sources : s.what # "gather" /\ AddError(region, s)
    BY <1>5
  <2> QED BY <1>3, <2>1 DEF AddError, Told
<1>6. CASE SomeAddEdge \/ UNCHANGED writerVars
          \/ \E t \in ResourceTypes, j \in ResourceIds, k \in Intent : AddResource(t, region, j, k)
  BY <1>2, <1>6 DEF SomeAddEdge, AddEdge, AddResource, writerVars
<1> QED BY <1>4, <1>5, <1>6 DEF Proceeds, Returns, Calls

LEMMA CallStep ==
    ASSUME GatherInv, [GatherStep]_vars, GatherInv', CallInv
    PROVE  CallInv'
<1>1. CASE UNCHANGED vars
  BY <1>1 DEF vars, gatherVars, writerVars, CallInv, LastMark, NamedMark, EntryIsLast, Ended,
              ReachedEnd
<1>2. CASE GatherStep
  BY <1>2, Grows, MarksKept, StepSeen, EntryStays DEF CallInv
<1> QED BY <1>1, <1>2

LEMMA CallInvAlways == GatherSpec => []CallInv
<1>1. GatherInv /\ CallInv /\ [GatherStep]_vars /\ GatherInv' => CallInv'
  BY CallStep
<1> QED BY <1>1, CallStart, InvAlways, PTL DEF GatherSpec

(* Any gather function, whatever fails in it, is to run() what ProviderRun takes it to
   be: some calls of the writer, all of its own region and none under the name by
   which run() reports a failure, and then a return, or an exception and the one entry
   of run(). *)
THEOREM GathersAsRunExpects ==
    GatherSpec => [][region' = region /\ (Proceeds \/ Returns \/ Raises)]_vars
<1>1. GatherInv /\ CallInv /\ GatherInv' /\ [GatherStep]_vars
          => [region' = region /\ (Proceeds \/ Returns \/ Raises)]_vars
  BY Grows, StepSeen
<1> QED BY <1>1, InvAlways, CallInvAlways, PTL DEF GatherSpec

(* The entry of run() for a gather function that raised is the last of all, made when
   nothing of the function is left to run; so there is one at most. *)
THEOREM RaisedOnce == GatherSpec => []EntryIsLast
<1>1. CallInv => EntryIsLast
  BY DEF CallInv
<1> QED BY <1>1, CallInvAlways, PTL
================================================================================
