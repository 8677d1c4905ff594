---------------------------- MODULE GatherLanguage ----------------------------
(***************************************************************************)
(* The control structure of a gather() function.                           *)
(*                                                                         *)
(* lensix_inventory has about a hundred gather functions and they are all  *)
(* written from the same few statements: list the resources of a type,     *)
(* look something up for each, hand each to writer.add_resource(), derive  *)
(* edges from it, with try/except around one or several of these.  What    *)
(* differs from one to the next, and what goes wrong when it is not right, *)
(* is the ORDER and NESTING of those statements and what each does when    *)
(* its call fails.  This module names the statements; a gather function is *)
(* a sequence of them (AwsGatherers and its kin), and GatherModule        *)
(* says how such a sequence runs.                                          *)
(*                                                                         *)
(* `fail` says what the code does when a call fails:                       *)
(*   "raise"   nothing: the exception goes to the innermost try            *)
(*   "error"   add_error(), then go on with an empty list or a default     *)
(*   "skip"    add_error(), then `continue`: the next item of the loop     *)
(*   "return"  add_error(), then `return`: the end of gather()             *)
(*   "silent"  go on with an empty list or a default, and tell nobody      *)
(*   "drop"    `continue`, and tell nobody                                 *)
(*                                                                         *)
(* A lookup that fails silently into a default for part of `raw` has no    *)
(* effect on control and is left out, with one exception: a lookup of the  *)
(* tags, because add_resource() then sees a resource without tags.         *)
(***************************************************************************)
EXTENDS Sequences

(* `if writer.add_resource(...): body` *)
Add(body) == [op |-> "add", body |-> body]

(* `for x in <list call>: body`; each x is a resource of this type whose tags
   the body passes to add_resource (Tagged), or which has none (Untagged), or
   for which it passes the tags of the item of the outer loop (Inheriting).
   `fail` is "never" where the list came with an earlier call. *)
Each(type, fail, body) ==
    [op |-> "each", what |-> type, fail |-> fail, tags |-> "own", form |-> "fresh",
     aside |-> FALSE, body |-> body]

Tagged(type, fail, body) == Each(type, fail, body)

Untagged(type, fail, body) == [Each(type, fail, body) EXCEPT !.tags = "none"]

Inheriting(type, fail, body) == [Each(type, fail, body) EXCEPT !.tags = "parent"]

(* a list call that may return again what it returned for another item, or what
   another list call for that type returned *)
Overlapping(list) == [list EXCEPT !.form = "shared"]

Shared(type, fail, body) == Overlapping(Untagged(type, fail, body))

(* a list call that asks for one page and does not look for a second, or keeps the
   pages it has when the next one fails, and tells nobody *)
FirstPage(list) == [list EXCEPT !.form = "first page"]

(* a list call that, when a page fails, starts again from the first one with
   another operation and keeps the pages it had *)
Repaged(list) == [list EXCEPT !.form = "repaged"]

(* a list call for things that are not recorded themselves, or not here *)
Over(what, fail, body) == [Untagged(what, fail, body) EXCEPT !.aside = TRUE]

(* the same list call as one that an earlier gather function made: what that one
   returned, if it was made and did not fail *)
Relisted(list) == [list EXCEPT !.form = "known"]

(* a call whose result is the one resource of its type in the account or
   region, e.g. its password policy *)
Single(type, fail, body) == [Untagged(type, fail, body) EXCEPT !.form = "single"]

(* a resource recorded in any case, from whatever was looked up before *)
Always(type) == Single(type, "never", <<Add(<<>>)>>)

(* a second loop over the resources of a type listed before *)
Again(type, body) == [op |-> "again", what |-> type, body |-> body]

(* a lookup, for the item at hand or before a loop *)
Fetch(what, fail) == [op |-> "fetch", what |-> what, fail |-> fail]

FetchTags(fail) == Fetch("tags", fail)

(* a call whose result, if it is not empty, is what the body works on *)
WhenAny(what, fail, body) ==
    [op |-> "when", what |-> what, fail |-> fail, body |-> body]

(* `try: body except Exception: add_error(source=what)` *)
Guard(what, body) == [op |-> "guard", what |-> what, body |-> body]

(* run() calls a gather function: a try around it, and the place it returns to *)
Call(name, body) == [op |-> "call", what |-> name, body |-> body]

(* add_edge() from the item to a resource of the type, if the item has one *)
To(type) ==
    [op |-> "edge", from |-> "self", to |-> type, needs |-> "nothing", among |-> "any"]

(* the same, the other end being read from what an earlier lookup returned *)
Via(what, type) == [To(type) EXCEPT !.needs = what]

(* add_edge() from a resource of the type to the item *)
From(type) == [To("self") EXCEPT !.from = type]

(* the same, the other end being looked up by name: in a map of all that the list
   call for that type returned, or in one of those that were recorded *)
ToListed(type) == [To(type) EXCEPT !.needs = type, !.among = "listed"]

ToRecorded(type) == [To(type) EXCEPT !.among = "recorded"]

(* to the item of the outer loop, in any case or only if that was recorded *)
ToParent(type) == [To(type) EXCEPT !.among = "parent"]

ToRecordedParent(type) == [To(type) EXCEPT !.among = "recorded parent"]

Edges(types) == [i \in DOMAIN types |-> To(types[i])]

(* if anything of the type was listed before: body *)
IfAny(type, body) == [op |-> "if", what |-> type, body |-> body]

(* The two most frequent shapes.  ListOf: one list call and no try at all, so
   that its failure is the orchestrator's to report.  DescribedOf: a list of
   names, each then described; one that cannot be is reported and left out. *)
ListOf(type, edgesTo) == <<Tagged(type, "raise", <<Add(Edges(edgesTo))>>)>>

DescribedOf(type, edgesTo) ==
    <<Tagged(type, "raise", <<Fetch("detail", "skip"), Add(Edges(edgesTo))>>)>>
=============================================================================
