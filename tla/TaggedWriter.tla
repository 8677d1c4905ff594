------------------------------ MODULE TaggedWriter ------------------------------
(***************************************************************************)
(* An InventoryWriter whose add_resource() is given the tags, in whichever *)
(* shape the provider's SDK returned them, that owners of resources wrote  *)
(* to say what they wish.  The wish is in the tags before, and must be in  *)
(* the inventory after, every conversion in between.                       *)
(***************************************************************************)
EXTENDS InventoryWriter, TagSuppression

CONSTANT Writings   (* intent -> the sets of tags that README.md lets one write *)

ASSUME TaggedAssumption ==
    /\ CheckIds \subseteq Words \ {""}
    /\ DOMAIN Writings \subseteq Intent
    /\ \A wish \in DOMAIN Writings : \A tags \in Writings[wish] :
           /\ tags = [key \in DOMAIN tags |-> tags[key]] /\ NoField \notin DOMAIN tags
           /\ NamedIn(Get(tags, SuppressChecksTagKey)) \subseteq CheckIds

(* Read from a dict, the tags that one may write say what one wishes. *)
WrittenAsWished ==
    \A wish \in DOMAIN Writings : \A tags \in Writings[wish] :
        /\ MeansTrue(Get(tags, SuppressTagKey)) = wish.full
        /\ NamedIn(Get(tags, SuppressChecksTagKey)) = wish.checks

VARIABLE wishes     (* of the owners of the resources handed over so far      *)

taggedVars == <<writerVars, wishes>>

-----------------------------------------------------------------------------
(* The shapes in which the SDKs return a set of tags, a list in any order. *)
FieldNames == {<<"Key", "Value">>, <<"key", "value">>, <<"TagKey", "TagValue">>}

Tag(names, key, text) ==
    [field \in {names[1], names[2]} |-> IF field = names[1] THEN key ELSE text]

Orders(keys) ==
    {order \in [1 .. Cardinality(keys) -> keys] :
        \A key \in keys : \E i \in DOMAIN order :
            \A j \in DOMAIN order : order[j] = key <=> j = i}

Listed(tags, order, names) ==
    List([i \in DOMAIN order |-> Tag(names, order[i], tags[order[i]])])

Shapes(tags) ==
    {Dict(tags)}
    \cup {Listed(tags, order, names) :
             order \in Orders(DOMAIN tags), names \in FieldNames}
    \cup (IF tags = <<>> THEN {NoTags} ELSE {})

AddTagged(type, region, id, tags) ==
    AddResource(type, region, id, ParseTagSuppression(tags))

TaggedInit == WriterInit /\ wishes = <<>>

SomeAddTagged ==
    \E t \in ResourceTypes, r \in Regions, i \in ResourceIds, wish \in DOMAIN Writings :
        /\ \E tags \in Writings[wish] : \E given \in Shapes(tags) :
               AddTagged(t, r, i, given)
        /\ wishes' = Append(wishes, [type |-> t, region |-> r, id |-> i,
                                     full |-> wish.full, checks |-> wish.checks])

TaggedNext ==
    \/ RoomLeft /\ SomeAddTagged
    \/ RoomLeft /\ (SomeAddEdge \/ SomeAddError) /\ UNCHANGED wishes
    \/ WriteStep /\ UNCHANGED wishes

TaggedSpec == TaggedInit /\ [][TaggedNext]_taggedVars

-----------------------------------------------------------------------------
(* README, "Suppressing resources with tags": whichever shape the tags arrive in,
   whatever their order and case, the resources recorded are those whose
   owners do not wish them away, in the order they came, each with the checks its
   owner named, and every wish is told in tag_suppressions. *)
WishesAreKept ==
    LET kept == IndicesOf(wishes, LAMBDA w : ~w.full)
        told == IndicesOf(wishes, LAMBDA w : w.full \/ w.checks # {})
    IN  /\ SameInOrder([i \in kept |-> AsRecord(wishes[i])], records)
        /\ SameInOrder([i \in told |-> wishes[i]], tagSuppressions)
=================================================================================
