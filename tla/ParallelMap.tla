------------------------------ MODULE ParallelMap ------------------------------
(***************************************************************************)
(* parallel_map of common/concurrency.py over the standard library's       *)
(* ThreadPoolExecutor: the calling thread submits every item, then takes   *)
(* the results in the order of the items; the pool's threads take items    *)
(* from a FIFO queue.  When a call raised, the caller cancels what is      *)
(* still queued, one future at a time from the last, while threads go on   *)
(* taking from the other end; leaving the `with` waits for the threads.    *)
(***************************************************************************)
EXTENDS Naturals, Sequences, FiniteSets

CONSTANTS MaxItems,     (* bound: len(items)                                  *)
          MaxWorkers    (* max_workers                                        *)

ASSUME MapAssumption == MaxItems \in Nat /\ MaxWorkers \in Nat \ {0}

VARIABLES n,            (* len(items)                                         *)
          raises,       (* the items whose call raises                        *)
          state,        (* of each item's future                              *)
          results,      (* the items whose results the caller has taken       *)
          caller        (* where the calling thread stands                    *)

mapVars == <<n, raises, state, results, caller>>

Items == 1 .. n
In(s) == {i \in Items : state[i] = s}
Upcoming == Len(results) + 1

(* Slips: min and max confused; one thread short. *)
PoolSizeMax == IF n < MaxWorkers THEN MaxWorkers ELSE n
PoolSizeShort == IF n <= MaxWorkers THEN n - 1 ELSE MaxWorkers

PoolSize == IF n < MaxWorkers THEN n ELSE MaxWorkers

MapInit ==
    /\ n \in 0 .. MaxItems
    /\ raises \in SUBSET (1 .. n)
    /\ state = [i \in 1 .. n |-> "unsubmitted"]
    /\ results = <<>>
    /\ caller = "submitting"

-----------------------------------------------------------------------------
(* The calling thread. *)

ReturnEmpty ==
    /\ n = 0 /\ caller = "submitting"
    /\ caller' = "returned"
    /\ UNCHANGED <<n, raises, state, results>>

SetState(i, s) == state' = [state EXCEPT ![i] = s]

Submit ==
    /\ caller = "submitting"
    /\ \E i \in In("unsubmitted") :
          /\ \A j \in In("unsubmitted") : i <= j
          /\ SetState(i, "queued")
          /\ caller' = IF i = n THEN "taking" ELSE "submitting"
    /\ UNCHANGED <<n, raises, results>>

(* Slip: results taken as they are completed. *)
TakeCompleted ==
    /\ caller = "taking" /\ Upcoming <= n
    /\ \E i \in In("returned") : /\ \A k \in DOMAIN results : results[k] # i
                                 /\ results' = Append(results, i)
    /\ UNCHANGED <<n, raises, state, caller>>

TakeResult ==
    /\ caller = "taking" /\ Upcoming <= n
    /\ state[Upcoming] = "returned"
    /\ results' = Append(results, Upcoming)
    /\ UNCHANGED <<n, raises, state, caller>>

TakeException ==
    /\ caller = "taking" /\ Upcoming <= n
    /\ state[Upcoming] = "raised"
    /\ caller' = "cancelling"
    /\ UNCHANGED <<n, raises, state, results>>

CancelLast ==
    /\ caller = "cancelling"
    /\ \E i \in In("queued") :
          /\ \A j \in In("queued") : j <= i
          /\ SetState(i, "cancelled")
    /\ UNCHANGED <<n, raises, results, caller>>

(* Slip: shutdown(wait=False). *)
LeaveAtOnce ==
    /\ \/ caller = "cancelling" /\ In("queued") = {} /\ caller' = "raised"
       \/ caller = "taking" /\ Upcoming > n /\ caller' = "returned"
    /\ UNCHANGED <<n, raises, state, results>>

(* The end of the `with`: shutdown(wait=True) joins the threads. *)
Leave ==
    /\ In("queued") \cup In("running") = {}
    /\ \/ caller = "cancelling" /\ caller' = "raised"
       \/ caller = "taking" /\ Upcoming > n /\ caller' = "returned"
    /\ UNCHANGED <<n, raises, state, results>>

-----------------------------------------------------------------------------
(* The pool's threads, which are all alike. *)

StartItem ==
    /\ Cardinality(In("running")) < PoolSize
    /\ \E i \in In("queued") :
          /\ \A j \in In("queued") : i <= j
          /\ SetState(i, "running")
    /\ UNCHANGED <<n, raises, results, caller>>

EndItem(i) ==
    /\ state[i] = "running"
    /\ SetState(i, IF i \in raises THEN "raised" ELSE "returned")
    /\ UNCHANGED <<n, raises, results, caller>>

EndSomeItem == \E i \in Items : EndItem(i)

CallerNext ==
    \/ ReturnEmpty
    \/ Submit
    \/ TakeResult
    \/ TakeException
    \/ CancelLast
    \/ Leave

MapNext == CallerNext \/ StartItem \/ EndSomeItem

(* The threads are scheduled, and every call of fn ends: fn is a few SDK calls
   with bounded retries. *)
MapSpec ==
    /\ MapInit /\ [][MapNext]_mapVars
    /\ WF_mapVars(CallerNext)
    /\ WF_mapVars(StartItem)
    /\ \A i \in 1 .. MaxItems : WF_mapVars(i <= n /\ EndItem(i))

-----------------------------------------------------------------------------
MapTypeOK ==
    /\ n \in 0 .. MaxItems
    /\ raises \in SUBSET Items
    /\ state \in [Items -> {"unsubmitted", "queued", "running", "returned", "raised",
                            "cancelled"}]
    /\ results \in Seq(Items) /\ Len(results) <= n
    /\ caller \in {"submitting", "taking", "cancelling", "returned", "raised"}
    /\ Cardinality(In("running")) <= MaxWorkers

(* concurrency.py: "exactly as a serial [fn(i) for i in items] would have".
   Threads, FIFO queue and cancellation implement the serial list. *)
OutcomeOfCaller ==
    IF caller \in {"returned", "raised"} THEN caller ELSE "running"

Ordered == INSTANCE OrderedMap WITH outcome <- OutcomeOfCaller

IsOrderedMap == Ordered!OrderedSpec

(* When parallel_map is over, by a return or by an exception, no thread is still
   inside fn or will enter it: what the caller does next runs alone. *)
NothingLeftRunning ==
    caller \in {"returned", "raised"} => In("queued") \cup In("running") = {}

(* No order of completions, failures and cancellations leaves the caller waiting
   for a future that nobody will run. *)
MapEnds == <>(caller \in {"returned", "raised"})
=============================================================================
