------------------------------ MODULE GatherForms ------------------------------
(***************************************************************************)
(* Forms that a gather function may have: where its statements stand and   *)
(* what they do when their calls fail.  GatherModule says what may happen  *)
(* when a gather function runs; that what its comments promise holds of    *)
(* one, whatever happens, is a consequence of its form.                    *)
(*                                                                         *)
(* A form is a condition on the statements of a program, at any depth.  To *)
(* keep such conditions free of recursion they are stated of sets of       *)
(* statements that are closed: what is nested in a member is one.          *)
(***************************************************************************)
EXTENDS GatherModule

Compound == {"each", "again", "if", "when", "guard", "call", "add"}

(* All statements of the program are among these. *)
MadeOf(program, parts) ==
    /\ program \in Seq(parts)
    /\ \A s \in parts : s.op \in Compound => s.body \in Seq(parts)

-----------------------------------------------------------------------------
(* Every edge is derived inside `if writer.add_resource(...)`, and not in a loop
   over something else in there.  `outside` are the statements that may run for an
   item that was not recorded. *)
EdgesUnderAdd(program, outside, inside) ==
    /\ program \in Seq(outside)
    /\ \A s \in outside :
          /\ s.op # "edge"
          /\ s.op = "add" => s.body \in Seq(inside)
          /\ s.op \in Compound \ {"add"} => s.body \in Seq(outside)
    /\ \A s \in inside :
          /\ s.op \in {"each", "again"} => s.body \in Seq(outside)
          /\ s.op \in Compound \ {"each", "again"} => s.body \in Seq(inside)

(* and starts there *)
EdgesFromSelf(parts) == \A s \in parts : s.op = "edge" => s.from = "self"

(* Edges to networks are derived when the network was found among the recorded. *)
NetworksResolved(parts) ==
    \A s \in parts : s.op = "edge" =>
        /\ s.from = "self"
        /\ s.to \in Networking => s.among \in {"recorded", "recorded parent"}

-----------------------------------------------------------------------------
(* No failure of a list call is kept silent, and no list call reads one page only. *)
ListsTold(parts) ==
    \A s \in parts :
        /\ s.op \in {"each", "when"} => s.fail \notin {"silent", "drop"}
        /\ s.op = "each" => s.form # "first page"

(* Every call that may raise stands inside a try.  `open` are the statements that
   do not. *)
RaisesInTry(program, open) ==
    /\ program \in Seq(open)
    /\ \A s \in open :
          /\ s.op \in {"each", "fetch", "when"} => s.fail # "raise"
          /\ s.op \in Compound \ {"guard", "call"} => s.body \in Seq(open)

-----------------------------------------------------------------------------
(* The statements of a program, each with a type of the items it may run for.
   `heirs` are the types of resource, each with that of the item whose loop they are
   listed in, that are recorded with the tags of that item: none is listed there
   before that item was handed to the writer. *)
Fitting(body, type, typed, heirs) ==
    \A i \in DOMAIN body :
        /\ <<body[i], type>> \in typed
        /\ body[i].op = "each" /\ <<body[i].what, type>> \in heirs =>
               \E j \in DOMAIN body : j < i /\ body[j].op = "add"

Fits(program, typed, heirs) ==
    /\ Fitting(program, NotAResource, typed, heirs)
    /\ \A p \in typed : p[1].op \in Compound =>
           Fitting(p[1].body, IF p[1].op \in {"each", "again"} THEN p[1].what ELSE p[2],
                   typed, heirs)

Nests(typed) ==
    {<<p[1].what, p[2]>> : p \in {q \in typed : q[1].op = "each"}}

Singles(typed) ==
    {p[1].what : p \in {q \in typed : q[1].op = "each" /\ q[1].form = "single"}}

(* An heir is recorded only if the item is, since the same tags decide. *)
Inherits(typed, heirs) ==
    heirs # {} =>
        /\ \A h \in heirs : h[2] \notin Singles(typed) \cup {NotAResource}
        /\ \A p \in typed :
               /\ p[1].op \in {"each", "fetch", "when"} => p[1].what # "tags"
               /\ p[1].op = "each" /\ <<p[1].what, p[2]>> \in heirs =>
                      p[1].tags = "parent" /\ p[1].form = "fresh"

(* No edge goes to the item of the outer loop: it is derived when that was found among
   the recorded, or by an heir, or never goes to a resource of that type. *)
ParentsFound(typed, heirs) ==
    \A p \in typed : p[1].op = "edge" =>
        IF p[1].from = "self"
          THEN \/ p[1].among \in {"recorded", "recorded parent"}
               \/ <<p[2], p[1].to>> \in heirs
               \/ /\ <<p[2], p[1].to>> \notin Nests(typed)
                  /\ p[1].among = "any" \/ p[1].to \notin Singles(typed)
          ELSE <<p[1].from, p[2]>> \notin Nests(typed) /\ p[2] \notin Singles(typed)

-----------------------------------------------------------------------------
(* What may become of a resource between the list call that returns it and its
   add_resource(). *)
HasOne(body, set) == \E i \in DOMAIN body : body[i] \in set

Bodies(program, typed) ==
    {program} \cup {p[1].body : p \in {q \in typed : q[1].op \in Compound}}

(* `keeps` are statements that hand the item at hand over, when nothing fails. *)
Keepers(keeps) ==
    \A s \in keeps : s.op = "add" \/ (s.op = "guard" /\ HasOne(s.body, keeps))

Keeping(s, keeps) == s \in keeps \/ (s.op = "again" /\ HasOne(s.body, keeps))

(* Every resource that is listed is handed over, in that loop or in a second one,
   which is in no other. *)
HandsOver(program, typed, keeps) ==
    /\ Keepers(keeps)
    /\ \A body \in Bodies(program, typed) : \A i \in DOMAIN body :
           body[i].op = "each" /\ ~body[i].aside =>
               \/ HasOne(body[i].body, keeps)
               \/ \E j \in DOMAIN body :
                      /\ i < j /\ body[j].op = "again" /\ body[j].what = body[i].what
                      /\ HasOne(body[j].body, keeps)
    /\ \A p \in typed : p[1].op = "again" /\ HasOne(p[1].body, keeps) => p[2] = NotAResource

(* `continue` stands in loops only. *)
SkipsItems(typed) ==
    \A p \in typed :
        p[1].op \in {"each", "fetch", "when"} /\ p[1].fail \in {"skip", "drop"} =>
            p[2] # NotAResource

(* What may be listed twice has no tags. *)
OnceOrPlain(typed, plain) ==
    \A p \in typed : p[1].op = "each" =>
        /\ p[1].form \in {"shared", "known"} => p[1].what \in plain
        /\ p[1].what \in plain => p[1].tags = "none"

(* Resources of this type come with their tags: no call looks these up. *)
Inline(typed, type) ==
    \A p \in typed : p[1].op \in {"each", "fetch", "when"} /\ p[1].what = "tags" =>
        p[2] # type

(* What may be listed twice has no tags, or comes with them. *)
OnceOrInline(typed, plain) ==
    \A p \in typed : p[1].op = "each" =>
        /\ p[1].form \in {"shared", "known"} => p[1].what \in plain \/ Inline(typed, p[1].what)
        /\ p[1].what \in plain => p[1].tags = "none"

(* What is nested in a statement of the set is one too. *)
ClosedIn(set) == \A s \in set : s.op \in Compound => s.body \in Seq(set)

(* Wherever one statement runs after another, in a body or as the next item of a loop,
   the first is among those of `before` or the second among those of `after`. *)
Precedes(program, typed, before, after) ==
    /\ ClosedIn(before) /\ ClosedIn(after)
    /\ \A body \in Bodies(program, typed) : \A i, j \in DOMAIN body :
           i < j => body[i] \in before \/ body[j] \in after
    /\ \A p \in typed : p[1].op \in {"each", "again"} =>
           p[1] \in before \/ p[1].body \in Seq(after)

(* `return` stands where nothing was listed yet: `late` are statements without it,
   `quiet` are those that list nothing. *)
ReturnsEarly(program, typed, quiet, late) ==
    /\ \A s \in late : s.op \in {"each", "fetch", "when"} => s.fail # "return"
    /\ \A s \in quiet : s.op = "each" => s.aside
    /\ Precedes(program, typed, quiet, late)

(* Inside a try, nothing that may raise comes before something that is still to be
   handed over: `calm` are statements that do not raise, `tried` those in a try. *)
Steady(body, keeps, calm) ==
    \A i, j \in DOMAIN body : i < j => body[i] \in calm \/ ~Keeping(body[j], keeps)

RaisesLate(typed, keeps, calm, tried) ==
    /\ \A s \in calm : /\ s.op \in {"each", "fetch", "when"} => s.fail # "raise"
                       /\ s.op \in Compound \ {"guard", "call"} => s.body \in Seq(calm)
    /\ \A s \in tried \cup {p[1] : p \in {q \in typed : q[1].op \in {"guard", "call"}}} :
           s.op \in Compound => s.body \in Seq(tried) /\ Steady(s.body, keeps, calm)
    /\ \A s \in tried : s.op \in {"each", "again"} =>
           s.body \in Seq(calm) \/ ~HasOne(s.body, keeps)

(* All of these, for some choice of the sets that they are about. *)
Careful(program, form) ==
    /\ Fits(program, form.typed, {})
    /\ HandsOver(program, form.typed, form.keeps) /\ SkipsItems(form.typed)
    /\ OnceOrInline(form.typed, form.plain)
    /\ ReturnsEarly(program, form.typed, form.quiet, form.late)
    /\ RaisesLate(form.typed, form.keeps, form.calm, form.tried)

(* No failure goes untold that costs a resource: one without its tags is handed over
   all the same. *)
TellsOfItems(program, typed, keeps) ==
    /\ \A p \in typed : p[1].op \in {"each", "fetch", "when"} =>
           /\ p[1].fail # "drop"
           /\ p[1].what = "tags" => p[1].op = "fetch" /\ p[1].fail = "silent"
    /\ \A body \in Bodies(program, typed) : \A i \in DOMAIN body :
           body[i].op = "fetch" /\ body[i].what = "tags" =>
               \E j \in DOMAIN body : i < j /\ body[j] \in keeps

-----------------------------------------------------------------------------
(* No resource is handed over twice: `adds` are statements that may hand the item at
   hand over, `once` those that may do so with resources that were listed before, or
   are the one of their type, each with that type. *)
Through == {"if", "when", "guard", "call"}

Alone(body, set) == \A i, j \in DOMAIN body : body[i] \in set /\ body[j] \in set => i = j

AddsOnce(program, typed, adds) ==
    /\ \A s \in adds : s.op \in Through \cup {"add"}
    /\ \A body \in Bodies(program, typed) : Alone(body, adds)
    /\ \A p \in typed :
           /\ p[1] \in adds => p[2] # NotAResource
           /\ p[1].op = "add" => p[1] \in adds /\ ~HasOne(p[1].body, adds)
           /\ p[1].op \in Through /\ HasOne(p[1].body, adds) => p[1] \in adds

Paired(s, type, pairs) == \E q \in pairs : q[1] = s /\ q[2] = type

(* A second loop, or a list made again, is about a type that no other loop hands over,
   stands in no loop, and knows its resources apart. *)
ListsOnce(program, typed, adds, once, plain) ==
    /\ \A q \in once : q[1].op \in Through \cup {"each", "again"}
    /\ \A body \in Bodies(program, typed) : \A q \in once : \A i, j \in DOMAIN body :
           Paired(body[i], q[2], once) /\ Paired(body[j], q[2], once) => i = j
    /\ \A p \in typed : \A q \in once :
           /\ q[1] = p[1] => p[2] = NotAResource
           /\ p[1].op \in {"each", "again", "add"} => ~HasOne(p[1].body, {q[1]})
           /\ p[1].op \in Through /\ HasOne(p[1].body, {q[1]}) => Paired(p[1], q[2], once)
    /\ \A p \in typed : p[1].op \in {"each", "again"} /\ HasOne(p[1].body, adds) =>
           IF p[1].op = "each" /\ p[1].form \in {"fresh", "first page"}
             THEN \A q \in once : q[2] # p[1].what
             ELSE /\ Paired(p[1], p[1].what, once)
                  /\ p[1].op = "each" => p[1].form \in {"single", "known"}
                  /\ p[1].op = "again" => p[1].what \notin plain \cup Singles(typed)

HandsOnce(program, form) ==
    /\ Fits(program, form.typed, {}) /\ OnceOrPlain(form.typed, form.plain)
    /\ AddsOnce(program, form.typed, form.adds)
    /\ ListsOnce(program, form.typed, form.adds, form.once, form.plain)

-----------------------------------------------------------------------------
(* Edges to networks are derived when the network was found by its name, among those
   that were listed or those that were recorded. *)
NetworksFound(parts) ==
    \A s \in parts : s.op = "edge" =>
        /\ s.from = "self"
        /\ s.to \in Networking => s.among \in {"listed", "recorded", "recorded parent"}

(* The way to the list call that records the resources of a type: a call of another
   gather function, in that a try with the name of the type, in that the list. *)
WayTry(type, way) == Guard(type, <<way.list>>)

Way(type, way) == {way.call, WayTry(type, way), way.list}

OnTheWay(program, typed, type, way) ==
    /\ way.call.op = "call" /\ HasOne(program, {way.call})
    /\ HasOne(way.call.body, {WayTry(type, way)})
    /\ way.list.op = "each" /\ way.list.what = type /\ way.list.form = "known"
    /\ way.list.fail = "raise" /\ ~way.list.aside
    /\ ~HasOne(program, {way.list})
    /\ \A p \in typed : p[1].op \in Compound =>
           /\ HasOne(p[1].body, {way.list}) => p[1] = WayTry(type, way)
           /\ HasOne(p[1].body, Way(type, way)) =>
                  p[1] \in {way.call, WayTry(type, way)}

(* It is gone whatever fails before, for it stands in a call of its own: `stays` are
   statements without `return`, but for what is in a call.  And the lists that are only
   looked up are made `before` it: `after` are statements without them. *)
RecordsLater(program, form, type, way) ==
    /\ OnTheWay(program, form.typed, type, way)
    /\ RaisesLate(form.typed, Way(type, way), form.calm, form.tried)
    /\ \A s \in way.stays : /\ s.op \in {"each", "fetch", "when"} => s.fail # "return"
                            /\ s.op \in Compound \ {"call"} => s.body \in Seq(way.stays)
    /\ \A body \in Bodies(program, form.typed) : \A i, j \in DOMAIN body :
           i < j /\ body[j] \in Way(type, way) => body[i] \in way.stays
    /\ Precedes(program, form.typed, way.before, way.after)
    /\ way.list \notin way.before
    /\ \A s \in way.after : s.op = "each" /\ s.what = type => ~s.aside

LooksUp(program, form) ==
    /\ Careful(program, form) /\ RaisesInTry(program, form.open)
    /\ MadeOf(program, form.parts) /\ NetworksFound(form.parts)
    /\ Networking \subseteq form.plain
    /\ \A p \in form.typed : p[1].op \in {"each", "fetch", "when"} => p[2] \notin Networking
    /\ \A type \in Networking : RecordsLater(program, form, type, form.ways[type])
=============================================================================
