------------------------------ MODULE OrderedMap ------------------------------
(***************************************************************************)
(* What parallel_map (common/concurrency.py) promises its callers: to be   *)
(* `[fn(i) for i in items]`.  Results come in the order of the items, and  *)
(* the first item, in that order, whose call raises decides the exception. *)
(***************************************************************************)
EXTENDS Naturals, Sequences

VARIABLES n,            (* len(items)                                         *)
          raises,       (* the items whose call raises                        *)
          results,      (* the items whose results were put into the list     *)
          outcome       (* of the whole map                                   *)

orderedVars == <<n, raises, results, outcome>>

Upcoming == Len(results) + 1

OrderedInit ==
    /\ n \in Nat
    /\ raises \in SUBSET (1 .. n)
    /\ results = <<>>
    /\ outcome = "running"

TakeNext ==
    /\ outcome = "running" /\ Upcoming <= n /\ Upcoming \notin raises
    /\ results' = Append(results, Upcoming)
    /\ UNCHANGED <<n, raises, outcome>>

RaiseNext ==
    /\ outcome = "running" /\ Upcoming \in raises
    /\ outcome' = "raised"
    /\ UNCHANGED <<n, raises, results>>

ReturnList ==
    /\ outcome = "running" /\ Len(results) = n
    /\ outcome' = "returned"
    /\ UNCHANGED <<n, raises, results>>

OrderedNext == TakeNext \/ RaiseNext \/ ReturnList

OrderedSpec == OrderedInit /\ [][OrderedNext]_orderedVars
=============================================================================
