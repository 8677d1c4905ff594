-------------------------- MODULE MCInventoryWriter --------------------------
(* Values for checking the writer on its own: two types, one region and the   *)
(* falsy one, two check ids, any calls in any order before the write, and     *)
(* tags as people write them.                                                 *)
EXTENDS TaggedWriter

MCResourceTypes == {"vpc", "subnet"}
MCRegions == {"r1", ""}
MCResourceIds == {1}
MCCheckIds == {"c1", "c2"}
MCSources == {"vpc"}

MCWords == {"", " ", "true", "TRUE", " true ", "yes", "c1", " c1 ", "c2"}
MCStrip == [w \in MCWords |-> CASE w = " " -> ""
                                [] w = " true " -> "true"
                                [] w = " c1 " -> "c1"
                                [] OTHER -> w]
MCLower == [w \in MCWords |-> IF w = "TRUE" THEN "true" ELSE w]

(* README: "takes exactly the value `true` (case-insensitive) - anything else
   (`false`, `yes`, empty, a typo) is treated as not set"; "separate check IDs with
   a hyphen".  The other tag is one that is none of our business.  Blanks around `true`
   are a typo by these words, and what the code makes of them is a run of its own;
   of blanks around a check id they say nothing. *)
Yes == {<<"true">>, <<"TRUE">>}
No == {<<"yes">>, <<"">>, <<"true", "true">>}
OneCheck == {<<"c1">>, <<" c1 ">>, <<"c1", "">>}
TwoChecks == {<<"c1", "c2">>, <<"c2", " c1 ">>, <<"c2", " ", "c1", "c2">>}
NoChecks == {<<"">>, <<" ", "">>}

Pair(key, text) == [k \in {key} |-> text]
Both(yes, checks) ==
    [k \in {SuppressTagKey, SuppressChecksTagKey} |->
        IF k = SuppressTagKey THEN yes ELSE checks]

Wish(full, checks) == [full |-> full, checks |-> checks]

MCWritings ==
    [wish \in {NoIntent, Wish(TRUE, {}), Wish(FALSE, {"c1"}), Wish(TRUE, {"c1", "c2"}),
               Wish(FALSE, {"c1", "c2"})} |->
        LET checks == CASE wish.checks = {} -> NoChecks
                        [] wish.checks = {"c1"} -> OneCheck
                        [] OTHER -> TwoChecks
            alone == IF wish.full THEN {Pair(SuppressTagKey, y) : y \in Yes}
                     ELSE {Pair(SuppressChecksTagKey, c) : c \in checks}
        IN  {Both(y, c) : y \in (IF wish.full THEN Yes ELSE No), c \in checks}
            \cup (IF wish.full /\ wish.checks # {} THEN {} ELSE alone)
            \cup (IF wish = NoIntent THEN {<<>>, Pair("Name", <<"c1">>)} ELSE {})]

MCBlankWritings == [wish \in {NoIntent} |-> {Pair(SuppressTagKey, <<" true ">>)}]

(* What WishesKept is proved from. *)
ASSUME WishesReadable == Writings = MCWritings => WrittenAsWished
=============================================================================
