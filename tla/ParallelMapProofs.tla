--------------------------- MODULE ParallelMapProofs ---------------------------
(***************************************************************************)
(* parallel_map for every number of items and of threads: it implements    *)
(* the serial list of OrderedMap, never runs more threads than it was      *)
(* given, and leaves none of them running.                                 *)
(***************************************************************************)
EXTENDS ParallelMap, FiniteSetTheorems, TLAPS

(* What the caller may conclude from the state of a future, and what it has
   concluded when it stops taking results. *)
MapInv ==
    /\ n \in Nat /\ n <= MaxItems
    /\ raises \in SUBSET Items
    /\ state \in [Items -> {"unsubmitted", "queued", "running", "returned", "raised",
                            "cancelled"}]
    /\ results \in Seq(Items) /\ Len(results) <= n
    /\ caller \in {"submitting", "taking", "cancelling", "returned", "raised"}
    /\ \A i \in Items : /\ state[i] = "returned" => i \notin raises
                        /\ state[i] = "raised" => i \in raises
    /\ caller = "cancelling" => Upcoming \in raises
    /\ caller \in {"returned", "raised"} =>
           \A i \in Items : state[i] \notin {"queued", "running"}

(* The start of the map. *)
LEMMA InvInit == MapInit => MapInv
  BY MapAssumption DEF MapInit, MapInv, Items

(* No step of the caller or of a thread disturbs the invariant. *)
LEMMA InvStep == MapInv /\ [MapNext]_mapVars => MapInv'
<1> SUFFICES ASSUME MapInv, [MapNext]_mapVars PROVE MapInv'
  OBVIOUS
<1> USE DEF MapInv, Items
<1>1. CASE ReturnEmpty
  BY <1>1 DEF ReturnEmpty
<1>2. CASE Submit
  <2>1. PICK i \in Items : state[i] = "unsubmitted" /\ SetState(i, "queued")
    BY <1>2 DEF Submit, In
  <2>2. caller' \in {"submitting", "taking"} /\ caller = "submitting"
    BY <1>2 DEF Submit
  <2> QED BY <1>2, <2>1, <2>2 DEF Submit, SetState
<1>3. CASE TakeResult
  <2>1. Upcoming \in Items
    BY <1>3 DEF TakeResult, Upcoming
  <2>2. results' \in Seq(Items) /\ Len(results') = Len(results) + 1
    BY <1>3, <2>1 DEF TakeResult
  <2> QED BY <1>3, <2>1, <2>2 DEF TakeResult, Upcoming
<1>4. CASE TakeException
  <2>1. Upcoming \in raises
    BY <1>4 DEF TakeException, Upcoming
  <2> QED BY <1>4, <2>1 DEF TakeException, Upcoming
<1>5. CASE CancelLast
  <2>1. PICK i \in Items : state[i] = "queued" /\ SetState(i, "cancelled")
    BY <1>5 DEF CancelLast, In
  <2> QED BY <1>5, <2>1 DEF CancelLast, SetState, Upcoming
<1>6. CASE Leave
  BY <1>6 DEF Leave, In
<1>7. CASE StartItem
  <2>1. PICK i \in Items : state[i] = "queued" /\ SetState(i, "running")
    BY <1>7 DEF StartItem, In
  <2> QED BY <1>7, <2>1 DEF StartItem, SetState, Upcoming
<1>8. CASE EndSomeItem
  <2>1. PICK i \in Items : EndItem(i)
    BY <1>8 DEF EndSomeItem
  <2> QED BY <2>1 DEF EndItem, SetState, Upcoming
<1>9. CASE UNCHANGED mapVars
  BY <1>9 DEF mapVars, Upcoming
<1> QED
  BY <1>1, <1>2, <1>3, <1>4, <1>5, <1>6, <1>7, <1>8, <1>9 DEF MapNext, CallerNext

LEMMA InvAlways == MapSpec => []MapInv
  BY InvInit, InvStep, PTL DEF MapSpec

-----------------------------------------------------------------------------
(* When parallel_map is over, no thread is inside fn and none will enter it. *)
THEOREM NoThreadOutlives == MapSpec => []NothingLeftRunning
<1>1. MapInv => NothingLeftRunning
  BY DEF MapInv, NothingLeftRunning, In
<1> QED BY <1>1, InvAlways, PTL

-----------------------------------------------------------------------------
Running == In("running")

BoundedInv == IsFiniteSet(Running) /\ Cardinality(Running) <= MaxWorkers

LEMMA PoolIsBounded == ASSUME MapInv PROVE PoolSize \in Nat /\ PoolSize <= MaxWorkers
  BY MapAssumption DEF PoolSize, MapInv

LEMMA BoundedInit == MapInit => BoundedInv
<1> SUFFICES ASSUME MapInit PROVE BoundedInv
  OBVIOUS
<1>1. Running = {}
  BY DEF MapInit, Running, In, Items
<1> QED BY <1>1, FS_EmptySet, MapAssumption DEF BoundedInv

(* Only StartItem adds a thread, and it looks at the size of the pool first. *)
LEMMA BoundedStep == MapInv /\ BoundedInv /\ [MapNext]_mapVars => BoundedInv'
<1> SUFFICES ASSUME MapInv, BoundedInv, [MapNext]_mapVars PROVE BoundedInv'
  OBVIOUS
<1>1. CASE StartItem
  <2>1. PICK i \in In("queued") : SetState(i, "running")
    BY <1>1 DEF StartItem
  <2>2. Running' = Running \cup {i}
    BY <1>1, <2>1 DEF StartItem, SetState, Running, In, Items, MapInv
  <2>3. IsFiniteSet(Running') /\ Cardinality(Running') <= Cardinality(Running) + 1
    BY <2>2, FS_AddElement, FS_CardinalityType DEF BoundedInv
  <2>4. Cardinality(Running) < PoolSize
    BY <1>1 DEF StartItem, Running
  <2>5. Cardinality(Running') \in Nat /\ Cardinality(Running) \in Nat
    BY <2>3, FS_CardinalityType DEF BoundedInv
  <2> QED BY <2>3, <2>4, <2>5, PoolIsBounded, MapAssumption DEF BoundedInv
<1>2. CASE ~StartItem
  <2>1. Running' \subseteq Running
    BY <1>2 DEF MapInv, MapNext, CallerNext, mapVars, Running, In, Items, SetState,
                ReturnEmpty, Submit, TakeResult, TakeException, CancelLast, Leave,
                EndSomeItem, EndItem
  <2>2. IsFiniteSet(Running') /\ Cardinality(Running') <= Cardinality(Running)
    BY <2>1, FS_Subset DEF BoundedInv
  <2>3. Cardinality(Running') \in Nat /\ Cardinality(Running) \in Nat
    BY <2>2, FS_CardinalityType DEF BoundedInv
  <2> QED BY <2>2, <2>3, MapAssumption DEF BoundedInv
<1> QED BY <1>1, <1>2

(* The futures, the list of results and the number of busy threads keep their
   types for every number of items and of threads. *)
THEOREM MapTypeCorrect == MapSpec => []MapTypeOK
<1>1. MapSpec => []BoundedInv
  BY BoundedInit, BoundedStep, InvAlways, PTL DEF MapSpec
<1>2. MapInv /\ BoundedInv => MapTypeOK
  BY MapAssumption DEF MapInv, BoundedInv, MapTypeOK, Running
<1> QED BY <1>1, <1>2, InvAlways, PTL

-----------------------------------------------------------------------------
(* The caller's view of the futures is a step of the serial list, or none. *)
LEMMA OrderedStep ==
    MapInv /\ [MapNext]_mapVars => [Ordered!OrderedNext]_(Ordered!orderedVars)
<1> SUFFICES ASSUME MapInv, MapNext
             PROVE  Ordered!OrderedNext \/ UNCHANGED Ordered!orderedVars
  BY DEF mapVars, Ordered!orderedVars, OutcomeOfCaller
<1> USE DEF MapInv, Items, OutcomeOfCaller, Ordered!orderedVars
<1>1. CASE ReturnEmpty
  <2>1. Ordered!ReturnList
    BY <1>1 DEF ReturnEmpty, Ordered!ReturnList
  <2> QED BY <2>1 DEF Ordered!OrderedNext
<1>2. CASE TakeResult
  <2>1. Ordered!TakeNext
    BY <1>2 DEF TakeResult, Upcoming, Ordered!TakeNext, Ordered!Upcoming
  <2> QED BY <2>1 DEF Ordered!OrderedNext
<1>3. CASE Leave
  <2>1. CASE caller = "cancelling" /\ caller' = "raised"
    BY <1>3, <2>1 DEF Leave, Upcoming, Ordered!OrderedNext, Ordered!RaiseNext,
                      Ordered!Upcoming
  <2>2. CASE caller = "taking" /\ Upcoming > n /\ caller' = "returned"
    BY <1>3, <2>2 DEF Leave, Upcoming, Ordered!OrderedNext, Ordered!ReturnList
  <2> QED BY <1>3, <2>1, <2>2 DEF Leave
<1>4. CASE Submit \/ TakeException \/ CancelLast \/ StartItem \/ EndSomeItem
  BY <1>4 DEF Submit, TakeException, CancelLast, StartItem, EndSomeItem, EndItem
<1> QED BY <1>1, <1>2, <1>3, <1>4 DEF MapNext, CallerNext

(* concurrency.py: results "in the same order as `items` ... exactly as a serial
   [fn(i) for i in items] would have", and the exception of the first item whose
   call raised. *)
THEOREM MapIsOrdered == MapSpec => IsOrderedMap
<1>1. MapInit => Ordered!OrderedInit
  BY MapAssumption DEF MapInit, Ordered!OrderedInit, OutcomeOfCaller
<1> QED BY <1>1, OrderedStep, InvAlways, PTL DEF MapSpec, IsOrderedMap, Ordered!OrderedSpec
=============================================================================
