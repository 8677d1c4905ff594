----------------------------- MODULE GatherModule -----------------------------
(***************************************************************************)
(* One call of one gather() function, as a small machine that runs the     *)
(* statements of GatherLanguage against a cloud account and an             *)
(* InventoryWriter.  Every call to the cloud may fail.                     *)
(*                                                                         *)
(* `todo` is what is left to run, the head first: a sequence of frames, a  *)
(* statement with the resource (item) whose loop body it belongs to.  Two  *)
(* kinds of frame are not statements but mark where control goes:          *)
(*   "next"    the end of a loop body, holding the items still to come     *)
(*   "except"  the end of a try, "end" the end of gather() itself, which   *)
(*             run() in <provider>/__init__.py calls inside a try          *)
(* A program may also be the part of run() that calls several gather       *)
(* functions one after the other, with the same writer.                    *)
(***************************************************************************)
EXTENDS InventoryWriter, GatherLanguage

CONSTANTS Programs,     (* gather functions: name -> sequence of statements   *)
          Statements,   (* those that occur in them, at any depth             *)
          Intents,      (* what the tags of a resource may ask for            *)
          Claims,       (* property -> the functions it is claimed of         *)
          MaxEvents     (* bound: resources listed, calls failed and edges    *)

ASSUME GatherAssumption ==
    /\ Intents \subseteq Intent /\ NoIntent \in Intents
    /\ MaxEvents \in Nat
    /\ 0 .. MaxEvents \subseteq ResourceIds

VARIABLES module,       (* the gather function running                        *)
          region,       (* its `region` argument, or "global"                 *)
          todo,         (* what is left to run                                *)
          listed,       (* the resources the list calls returned              *)
          faults        (* the calls that failed                              *)

gatherVars == <<module, region, todo, listed, faults>>
vars == <<writerVars, gatherVars>>

-----------------------------------------------------------------------------
(* The entries of the inventory's error list that a failed call may leave. *)
Source(what, n) == [what |-> what, n |-> n]

NotAResource == ""

(* What gather functions may be written of. *)
Marks == {"next", "except", "end"}

WellFormed(statements) ==
    /\ \A name \in DOMAIN Programs : Programs[name] \in Seq(statements)
    /\ \A s \in statements :
         /\ s.op \notin Marks
         /\ s.op \in {"each", "again", "if", "when", "guard", "call", "add"} =>
                s.body \in Seq(statements)
         /\ s.op \in {"each", "fetch", "when", "guard", "call"} =>
                /\ s.what # "gather"
                /\ \A n \in 0 .. MaxEvents : Source(s.what, n) \in Sources
         /\ s.op = "each" =>
                /\ s.what \in ResourceTypes /\ s.aside \in BOOLEAN
                /\ s.tags \in {"own", "parent", "none"}
                /\ s.form \in {"fresh", "first page", "repaged", "shared", "single", "known"}
         /\ s.op = "edge" =>
                /\ (IF s.from = "self" THEN s.to ELSE s.from) \in ResourceTypes
                /\ s.among \in {"any", "listed", "recorded", "parent", "recorded parent"}

ASSUME ProgramAssumption ==
    /\ WellFormed(Statements)
    /\ \A n \in 0 .. MaxEvents : Source("gather", n) \in Sources
    /\ NotAResource \in ResourceTypes

(* Items: resources as a list call returns them.  `n` is the resource's id, *)
(* `parent` the id of the resource whose loop encloses it, `section` the    *)
(* top-level statement of gather() they belong to.                          *)
Outside(section) == [n |-> 0, type |-> NotAResource, intent |-> NoIntent,
                     aside |-> TRUE, parent |-> 0, section |-> section]

Frames(body, item) == [i \in DOMAIN body |-> [stmt |-> body[i], item |-> item]]

Loop(items, body, outer) ==
    IF items = <<>> THEN <<>>
    ELSE Frames(body, Head(items)) \o
         <<[stmt |-> [op |-> "next", body |-> body, rest |-> Tail(items)],
            item |-> outer]>>

(* The frames of a call of gather() by run(), whose error entries carry the name
   of the module, here "gather" to tell them from those of gather() itself. *)
Start(name) ==
    [i \in DOMAIN Programs[name] |->
        [stmt |-> Programs[name][i], item |-> Outside(i)]]
    \o <<[stmt |-> [op |-> "end", what |-> "gather"], item |-> Outside(0)]>>

stmt == Head(todo).stmt
item == Head(todo).item

(* What is left when control leaves for the innermost mark of these kinds, which
   is inside the gather function. *)
LeaveTo(ops) ==
    LET marks == {i \in DOMAIN todo : todo[i].stmt.op \in ops \cup {"end"}}
        first == CHOOSE i \in marks : \A j \in marks : i <= j
    IN  SubSeq(todo, first, Len(todo))

Numbered == Cardinality({x.n : x \in listed} \ {0})

Events == Numbered + Cardinality(faults) + Len(edges)
Room == MaxEvents - Events

Failure(fail) == [call |-> stmt.op, what |-> stmt.what, n |-> item.n,
                  section |-> item.section, fail |-> fail]

-----------------------------------------------------------------------------
GatherInit ==
    /\ WriterInit /\ file = NoFile
    /\ module \in DOMAIN Programs
    /\ region \in Regions \ {NoRegion}
    /\ todo = Start(module)
    /\ listed = {}
    /\ faults = {}

Running(op) == todo # <<>> /\ stmt.op = op

(* `for x in <list call>`: the call returns some resources with any tags; none
   was seen before, unless the list is shared by the items of an outer loop or by two
   statements, or is the list of an earlier call. *)
NewItem(n, intent) ==
    [n |-> n, type |-> stmt.what, intent |-> intent, aside |-> stmt.aside,
     parent |-> item.n, section |-> item.section]

PossibleIntents == CASE stmt.tags = "own"    -> Intents
                     [] stmt.tags = "parent" -> {item.intent}
                     [] stmt.tags = "none"   -> {NoIntent}

NewItems ==
    UNION {{[i \in 1 .. k |-> NewItem(Numbered + i, intents[i])] :
               intents \in [1 .. k -> PossibleIntents]}
           : k \in 0 .. Room}

(* The items of a second loop are those of the first, in the same order. *)
InOrder(items) ==
    {s \in [1 .. Cardinality(items) -> items] :
        \A i, j \in DOMAIN s : i < j => s[i] # s[j] /\ s[i].n <= s[j].n}

ListedOf(type) == {x \in listed : x.type = type}

SeenElsewhere == {<<NewItem(x.n, x.intent)>> : x \in
                    {y \in ListedOf(stmt.what) :
                        y.parent # item.n \/ y.section # item.section}}

Listing ==
    CASE stmt.form \in {"fresh", "first page", "repaged"} -> NewItems
      [] stmt.form = "shared" -> NewItems \cup SeenElsewhere
      [] stmt.form = "single" -> {<<NewItem(0, NoIntent)>>}
      [] stmt.form = "known"  ->
            IF ListedOf(stmt.what) = {} THEN NewItems
            ELSE InOrder({NewItem(x.n, x.intent) : x \in ListedOf(stmt.what)})

(* Slip: a page fetched, and looped over, twice. *)
ListResourcesPageTwice ==
    /\ Running("each")
    /\ \E items \in Listing :
          /\ listed' = listed \cup {items[i] : i \in DOMAIN items}
          /\ todo' = Loop(items \o items, stmt.body, item) \o Tail(todo)
    /\ UNCHANGED <<writerVars, module, region, faults>>

ListResources ==
    /\ Running("each")
    /\ \E items \in Listing :
          /\ listed' = listed \cup {items[i] : i \in DOMAIN items}
          /\ todo' = Loop(items, stmt.body, item) \o Tail(todo)
    /\ UNCHANGED <<writerVars, module, region, faults>>

(* There are more pages than the one that was asked for. *)
ListFirstPage ==
    /\ Running("each") /\ stmt.form = "first page"
    /\ Room > 0
    /\ faults' = faults \cup {Failure("unread")}
    /\ \E items \in Listing :
          /\ Len(items) < Room
          /\ listed' = listed \cup {items[i] : i \in DOMAIN items}
          /\ todo' = Loop(items, stmt.body, item) \o Tail(todo)
    /\ UNCHANGED <<writerVars, module, region>>

(* A later page fails; what the other operation returns is appended. *)
ListFromFirstPage ==
    /\ Running("each") /\ stmt.form = "repaged"
    /\ Room > 0
    /\ faults' = faults \cup {Failure("repeated")}
    /\ \E items \in Listing : \E k \in DOMAIN items :
          /\ Len(items) < Room
          /\ listed' = listed \cup {items[i] : i \in DOMAIN items}
          /\ todo' = Loop(SubSeq(items, 1, k) \o items, stmt.body, item) \o Tail(todo)
    /\ UNCHANGED <<writerVars, module, region>>

LoopAgain ==
    /\ Running("again")
    /\ \E items \in InOrder(ListedOf(stmt.what)) :
          todo' = Loop(items, stmt.body, item) \o Tail(todo)
    /\ UNCHANGED <<writerVars, module, region, listed, faults>>

Branch ==
    /\ Running("if")
    /\ todo' = (IF ListedOf(stmt.what) # {} THEN Frames(stmt.body, item) ELSE <<>>)
                  \o Tail(todo)
    /\ UNCHANGED <<writerVars, module, region, listed, faults>>

(* The end of a loop body: the next item, or out of the loop. *)
NextItem ==
    /\ Running("next")
    /\ todo' = Loop(stmt.rest, stmt.body, item) \o Tail(todo)
    /\ UNCHANGED <<writerVars, module, region, listed, faults>>

(* A lookup that succeeds only adds to `raw`. *)
FetchDetail ==
    /\ Running("fetch")
    /\ todo' = Tail(todo)
    /\ UNCHANGED <<writerVars, module, region, listed, faults>>

FetchAndUse ==
    /\ Running("when")
    /\ \E any \in BOOLEAN :
          todo' = (IF any THEN Frames(stmt.body, item) ELSE <<>>) \o Tail(todo)
    /\ UNCHANGED <<writerVars, module, region, listed, faults>>

EnterTry ==
    /\ todo # <<>> /\ stmt.op \in {"guard", "call"}
    /\ LET mark == IF stmt.op = "guard" THEN "except" ELSE "end"
       IN  todo' = Frames(stmt.body, item)
                      \o <<[stmt |-> [op |-> mark, what |-> stmt.what], item |-> item]>>
                      \o Tail(todo)
    /\ UNCHANGED <<writerVars, module, region, listed, faults>>

(* The end of a try, or of gather(), reached without an exception. *)
LeaveTry ==
    /\ todo # <<>> /\ stmt.op \in {"except", "end"}
    /\ todo' = Tail(todo)
    /\ UNCHANGED <<writerVars, module, region, listed, faults>>

-----------------------------------------------------------------------------
(* A call fails: what becomes of control and of the error depends on where
   the code put its try and on what its handler does. *)
CallFails(fail) ==
    /\ todo # <<>> /\ stmt.op \in {"each", "fetch", "when"} /\ stmt.fail = fail
    /\ Room > 0
    /\ faults' = faults \cup {Failure(fail)}
    /\ UNCHANGED <<module, region, listed>>

(* the helper returns [] or None and nobody is told *)
Swallow ==
    /\ CallFails("silent")
    /\ todo' = Tail(todo)
    /\ UNCHANGED writerVars

(* the helper leaves the item out and nobody is told *)
Drop ==
    /\ CallFails("drop")
    /\ todo' = LeaveTo({"next"})
    /\ UNCHANGED writerVars

(* Slip: `return` where the code goes on with a default. *)
ReportAndReturn ==
    /\ CallFails("error")
    /\ AddError(region, Source(stmt.what, item.n))
    /\ todo' = LeaveTo({})

ReportAndGoOn ==
    /\ CallFails("error")
    /\ AddError(region, Source(stmt.what, item.n))
    /\ todo' = Tail(todo)

ReportAndLeave ==
    /\ CallFails("return")
    /\ AddError(region, Source(stmt.what, item.n))
    /\ todo' = LeaveTo({})

(* Slip: `continue` without the add_error(). *)
SkipUnreported ==
    /\ CallFails("skip")
    /\ todo' = LeaveTo({"next"})
    /\ UNCHANGED writerVars

ReportAndSkip ==
    /\ CallFails("skip")
    /\ AddError(region, Source(stmt.what, item.n))
    /\ todo' = LeaveTo({"next"})

Handled(handler) ==
    /\ AddError(region, Source(Head(handler).stmt.what, Head(handler).item.n))
    /\ todo' = Tail(handler)

(* Slip: a try that is left by the exception all the same. *)
UnwindToEnd == CallFails("raise") /\ Handled(LeaveTo({}))

(* Slip: a handler that only passes. *)
UnwindUnreported ==
    /\ CallFails("raise")
    /\ todo' = Tail(LeaveTo({"except"}))
    /\ UNCHANGED writerVars

Unwind == CallFails("raise") /\ Handled(LeaveTo({"except"}))

-----------------------------------------------------------------------------
(* A resource whose tags could not be read is handed over without any. *)
TagsUnread(x) == \E f \in faults : f.what = "tags" /\ f.n = x.n

(* Slip: add_resource() called without its `tags` argument. *)
IntentForgotten(x) == NoIntent

IntentSeen(x) == IF TagsUnread(x) THEN NoIntent ELSE x.intent

(* Slips: the edges derived from a resource whether or not it was recorded; two
   arguments swapped. *)
RecordResourceUnguarded ==
    /\ Running("add")
    /\ AddResource(item.type, region, item.n, IntentSeen(item))
    /\ todo' = Frames(stmt.body, item) \o Tail(todo)
    /\ UNCHANGED <<module, region, listed, faults>>

RecordResourceSwapped ==
    /\ Running("add")
    /\ AddResource(region, item.type, item.n, IntentSeen(item))
    /\ todo' = (IF Recorded(IntentSeen(item)) THEN Frames(stmt.body, item) ELSE <<>>)
                  \o Tail(todo)
    /\ UNCHANGED <<module, region, listed, faults>>

RecordResource ==
    /\ Running("add")
    /\ AddResource(item.type, region, item.n, IntentSeen(item))
    /\ todo' = (IF Recorded(IntentSeen(item)) THEN Frames(stmt.body, item) ELSE <<>>)
                  \o Tail(todo)
    /\ UNCHANGED <<module, region, listed, faults>>

Self == [type |-> item.type, id |-> item.n]

IsRecorded(end) == \E i \in DOMAIN records :
                       records[i].type = end.type /\ records[i].id = end.id

EndOf(x) == [type |-> x.type, id |-> x.n]

(* The other end of an edge: whatever id the payload holds, be it a resource that
   was or will be listed or one this run never sees; one found by its name in a
   map; or the item of the outer loop. *)
TargetsUnresolved == IF stmt.among = "parent" THEN {item.parent} ELSE 1 .. MaxEvents

TargetsOneGuard ==
    CASE stmt.among \in {"listed", "recorded"} -> {x.n : x \in ListedOf(stmt.to)}
      [] stmt.among \in {"parent", "recorded parent"} -> {item.parent}
      [] stmt.among = "any" -> 1 .. MaxEvents

Targets ==
    LET named == CASE stmt.among \in {"listed", "recorded"} ->
                          {x.n : x \in ListedOf(stmt.to)}
                   [] stmt.among \in {"parent", "recorded parent"} -> {item.parent}
                   [] stmt.among = "any" -> 1 .. MaxEvents
    IN  IF stmt.among \in {"recorded", "recorded parent"}
          THEN {n \in named : IsRecorded([type |-> stmt.to, id |-> n])}
          ELSE named

DeriveEdge ==
    /\ Running("edge")
    /\ Room > 0
    /\ ~\E f \in faults : f.what = stmt.needs /\ f.n \in {item.n, 0}
    /\ \E n \in Targets :
          IF stmt.from = "self" THEN AddEdge(Self, [type |-> stmt.to, id |-> n])
                                ELSE AddEdge([type |-> stmt.from, id |-> n], Self)
    /\ todo' = Tail(todo)
    /\ UNCHANGED <<module, region, listed, faults>>

(* The payload holds no such id. *)
NoEdge ==
    /\ Running("edge")
    /\ todo' = Tail(todo)
    /\ UNCHANGED <<writerVars, module, region, listed, faults>>

GatherStep ==
    \/ ListResources
    \/ ListFirstPage
    \/ ListFromFirstPage
    \/ LoopAgain
    \/ Branch
    \/ NextItem
    \/ FetchDetail
    \/ FetchAndUse
    \/ EnterTry
    \/ LeaveTry
    \/ Swallow
    \/ Drop
    \/ ReportAndGoOn
    \/ ReportAndSkip
    \/ ReportAndLeave
    \/ Unwind
    \/ RecordResource
    \/ DeriveEdge
    \/ NoEdge

GatherSpec == GatherInit /\ [][GatherStep]_vars

-----------------------------------------------------------------------------
Item == [n : 0 .. MaxEvents, type : ResourceTypes, intent : Intents, aside : BOOLEAN,
         parent : 0 .. MaxEvents, section : Nat]

GatherTypeOK ==
    /\ module \in DOMAIN Programs
    /\ region \in Regions
    /\ listed \in SUBSET Item
    /\ \A i \in DOMAIN todo :
          todo[i].item \in Item \/ todo[i].item = Outside(todo[i].item.section)
    /\ \A f \in faults : f.fail \in {"raise", "error", "skip", "return", "silent", "drop",
                                     "unread", "repeated"}
    /\ edges \in Seq(Edge) /\ errors \in Seq(Error) /\ records \in Seq(Record)

Ended == todo = <<>>

Candidates == {x \in listed : ~x.aside}

(* Some properties are claimed of some gather functions only. *)
Unclaimed(property) == module \notin Claims[property]

(* add_edge() checks neither endpoint; its callers do.  No edge is left whose
   two ends are both absent from the inventory: the resource that an edge was
   derived from is recorded before the edge is, even if gather() then fails. *)
EdgeOwnersRecorded ==
    \/ \A i \in DOMAIN edges : IsRecorded(edges[i].from) \/ IsRecorded(edges[i].to)
    \/ Unclaimed("EdgeOwnersRecorded")

(* add_edge's docstring: every gather() guards the edges of a resource on that
   resource's own add_resource().  So the `from` end of every edge is recorded. *)
EdgesFromRecorded ==
    \/ \A i \in DOMAIN edges : IsRecorded(edges[i].from)
    \/ Unclaimed("EdgesFromRecorded")

(* A resource tagged lensix-suppress=true reaches the inventory by one way
   only, a lookup of its tags that failed. *)
SuppressedUnlessUnread ==
    \A x \in Candidates : x.intent.full /\ IsRecorded(EndOf(x)) => TagsUnread(x)

(* README: "Suppress a resource entirely ... It never reaches the output file". *)
SuppressedNeverRecorded ==
    \A x \in Candidates : x.intent.full => ~IsRecorded(EndOf(x))

(* The importer matches records and the ends of edges by type and id: no two
   records are of the same resource, in spite of second loops, lists continued
   after a failure or made again for another purpose, and gather functions that
   fetch the same thing.  An item's `n` stands for its id, so what is claimed is claimed
   where different resources of a type have different ids. *)
UniqueRecords ==
    \/ \A i, j \in DOMAIN records :
            records[i].type = records[j].type /\ records[i].id = records[j].id => i = j
    \/ Unclaimed("UniqueRecords")

(* resources.py: the "principle add_edge()'s own docstring documents for the FROM
   side, applied here to the TO side".  A resource listed in the loop over another
   has an edge to that one only if that one was recorded. *)
ParentEdgesLand ==
    \A i \in DOMAIN edges : \A x \in listed, y \in Candidates :
        edges[i].from = EndOf(x) /\ edges[i].to = EndOf(y) /\ x.parent = y.n =>
            IsRecorded(EndOf(y))

Networking == {"vpc_network", "subnet"}

Dangling(edge) == edge.to.type \in Networking /\ ~IsRecorded(edge.to)

(* gcp/vpc.py: an edge to a network "always matches a real, persisted vpc_network's
   resource_id, or is skipped rather than risk emitting a dangling edge". *)
NetworkEdgesLand ==
    Ended =>
        \/ ~\E i \in DOMAIN edges : Dangling(edges[i])
        \/ Unclaimed("NetworkEdgesLand")

(* Where one does dangle, because another gather function found the network by a
   list call of its own, there is an entry for the list that was to record it. *)
DanglingExplained ==
    Ended =>
        \/ \A i \in DOMAIN edges : Dangling(edges[i]) =>
               \E j \in DOMAIN errors : errors[j].source = Source(edges[i].to.type, 0)
        \/ Unclaimed("DanglingExplained")

ReachedEnd(e) == e.source = Source("gather", 0)

Missing == {x \in Candidates : ~IsRecorded(EndOf(x)) /\ ~IntentSeen(x).full}

(* What a failure costs is confined to the statement of gather() it happened
   in: unless gather() was abandoned, a resource that was listed, is not
   suppressed and is nevertheless missing at the end belongs to a section one
   of whose own calls failed. *)
LossIsConfined ==
    Ended /\ ~(\E i \in DOMAIN errors : ReachedEnd(errors[i])) =>
        \A x \in Missing : \E f \in faults : f.section = x.section

(* The entry names the resource, or the try its list was in, or the module. *)
Explains(e, x) ==
    LET section == Programs[module][x.section]
    IN  \/ e.source.n = x.n
        \/ section.op = "guard" /\ e.source = Source(section.what, 0)
        \/ ReachedEnd(e)

(* add_error: "record them so the customer ... can see what was skipped".  When
   gather() is over, records and errors account for every resource that was
   listed: one that is missing and not suppressed has an entry that says so. *)
LossIsExplained ==
    Ended =>
        \/ \A x \in Missing : \E i \in DOMAIN errors : Explains(errors[i], x)
        \/ Unclaimed("LossIsExplained")

(* The same docstring, for what was never listed: every list call that failed, or
   did not read all its pages, has left an entry of its own. *)
NoSilentLoss ==
    \/ Cardinality({f \in faults : f.call \in {"each", "when"} /\ f.fail # "repeated"})
            <= Len(errors)
    \/ Unclaimed("NoSilentLoss")

(* "isolate each so one's failure doesn't discard the others": no exception of
   a call leaves gather(). *)
SectionsIsolated ==
    \/ \A i \in DOMAIN errors : ~ReachedEnd(errors[i])
    \/ Unclaimed("SectionsIsolated")
=============================================================================
