------------------------------ MODULE RunnerProofs ------------------------------
(***************************************************************************)
(* Proofs about Runner for any providers, requirements and number of       *)
(* faults.                                                                 *)
(***************************************************************************)
EXTENDS Runner, SequenceTheorems, TLAPS

LEMMA RunnerInitTypeOK == RunnerInit => RunnerTypeOK
<1> SUFFICES ASSUME RunnerInit PROVE RunnerTypeOK
  OBVIOUS
<1>1. marker \in [Providers -> SUBSET SUBSET Packages]
  BY DEF RunnerInit, NoMarker
<1>2. pc \in [Providers -> {"idle", "env", "venv", "activate", "marker", "pip", "gather"}]
  BY DEF RunnerInit
<1> QED BY <1>1, <1>2, RunnerAssumption DEF RunnerInit, RunnerTypeOK

(* A command leaves the requirements alone and is no fault; once a run is past
   the activation, the environment is whole, and nothing makes it less. *)
LEMMA CommandTypeOK ==
    ASSUME RunnerTypeOK, NEW p \in Providers, Start(p) \/ Command(p)
    PROVE  RunnerTypeOK'
<1> USE DEF Goto
<1>1. CASE Start(p)
  BY <1>1 DEF Start, RunnerTypeOK
<1>2. CASE CheckEnv(p)
  BY <1>2 DEF CheckEnv, RunnerTypeOK
<1>3. CASE MakeDirectory(p)
  BY <1>3 DEF MakeDirectory, RunnerTypeOK
<1>4. CASE FinishEnv(p)
  BY <1>4 DEF FinishEnv, RunnerTypeOK
<1>5. CASE Activate(p)
  BY <1>5 DEF Activate, RunnerTypeOK
<1>6. CASE CheckMarker(p)
  BY <1>6 DEF CheckMarker, RunnerTypeOK
<1>7. CASE InstallPackage(p)
  BY <1>7 DEF InstallPackage, RunnerTypeOK
<1>8. CASE Touch(p)
  BY <1>8 DEF Touch, RunnerTypeOK
<1>9. CASE GatherEnds(p)
  BY <1>9 DEF GatherEnds, RunnerTypeOK
<1> QED
  BY <1>1, <1>2, <1>3, <1>4, <1>5, <1>6, <1>7, <1>8, <1>9 DEF Command

LEMMA FaultTypeOK ==
    ASSUME RunnerTypeOK, NEW p \in Providers, Fault(p)
    PROVE  RunnerTypeOK'
<1>1. pc[p] \in {"env", "venv", "activate", "marker", "pip", "gather"}
  BY DEF Fault, RunnerTypeOK
<1>2. faults' \in Seq({"env", "venv", "activate", "marker", "pip", "gather"})
  BY <1>1, AppendProperties DEF Fault, RunnerTypeOK
<1> QED BY <1>2 DEF Fault, RunnerTypeOK

LEMMA RunnerNextTypeOK ==
    ASSUME RunnerTypeOK, [RunnerNext]_runnerVars
    PROVE  RunnerTypeOK'
<1>1. CASE UpdateRepository
  BY <1>1, RunnerAssumption DEF UpdateRepository, RunnerTypeOK
<1>2. CASE UNCHANGED runnerVars
  BY <1>2 DEF runnerVars, RunnerTypeOK
<1> QED BY <1>1, <1>2, CommandTypeOK, FaultTypeOK DEF RunnerNext

(* run.sh: nobody installs into or gathers from anything but a whole environment,
   whatever was interrupted before and whichever other runs are going on. *)
THEOREM RunnerTypeCorrect == RunnerSpec => []RunnerTypeOK
<1>1. RunnerInit => RunnerTypeOK
  BY RunnerInitTypeOK
<1>2. RunnerTypeOK /\ [RunnerNext]_runnerVars => RunnerTypeOK'
  BY RunnerNextTypeOK
<1> QED BY <1>1, <1>2, PTL DEF RunnerSpec

-----------------------------------------------------------------------------
(* Packages are never removed, and a marker once touched stays: what it stood *)
(* for remains true.  That a gather has a marker at all is the other half.    *)
MarkersHold ==
    \A p \in Providers : \A needed \in marker[p] : needed \subseteq installed

GathersMarked == \A p \in Providers : pc[p] = "gather" => marker[p] # {}

MarkerInv == RunnerTypeOK /\ MarkersHold /\ GathersMarked

LEMMA MarkerStep ==
    ASSUME MarkerInv, [RunnerNext]_runnerVars
    PROVE  MarkersHold' /\ GathersMarked'
<1> USE DEF MarkerInv, MarkersHold, GathersMarked
<1>1. installed \subseteq installed'
  BY DEF RunnerNext, Start, Command, CheckEnv, MakeDirectory, FinishEnv, Activate,
         CheckMarker, InstallPackage, Touch, GatherEnds, Fault, UpdateRepository,
         runnerVars
<1>2. CASE \E p \in Providers : Touch(p)
  <2>1. PICK p \in Providers : Touch(p)
    BY <1>2
  <2>2. marker' = [marker EXCEPT ![p] = {required[p]}] /\ required[p] \subseteq installed
    BY <2>1 DEF Touch
  <2>3. pc' = [pc EXCEPT ![p] = "gather"]
    BY <2>1 DEF Touch, Goto
  <2> QED BY <1>1, <2>2, <2>3 DEF RunnerTypeOK
<1>3. CASE \E p \in Providers : CheckMarker(p)
  <2>1. PICK p \in Providers : CheckMarker(p)
    BY <1>3
  <2>2. marker' = marker
    BY <2>1 DEF CheckMarker
  <2>3. \/ pc' = [pc EXCEPT ![p] = "pip"]
        \/ pc' = [pc EXCEPT ![p] = "gather"] /\ marker[p] # {}
    BY <2>1 DEF CheckMarker, Goto, NoMarker
  <2> QED BY <1>1, <2>2, <2>3 DEF RunnerTypeOK
<1>4. CASE ~ \E p \in Providers : Touch(p) \/ CheckMarker(p)
  <2>1. marker' = marker
    BY <1>4 DEF RunnerNext, Start, Command, CheckEnv, MakeDirectory, FinishEnv, Activate,
                InstallPackage, GatherEnds, Fault, UpdateRepository, runnerVars
  <2>2. \A p \in Providers : pc'[p] = "gather" => pc[p] = "gather"
    BY <1>4 DEF RunnerNext, Start, Command, CheckEnv, MakeDirectory, FinishEnv, Activate,
                InstallPackage, GatherEnds, Fault, UpdateRepository, Goto, runnerVars,
                RunnerTypeOK
  <2> QED BY <1>1, <2>1, <2>2
<1> QED BY <1>2, <1>3, <1>4

(* run.sh: whichever runs were interrupted and wherever, a gather starts only
   where all is installed that its provider's marker stands for. *)
THEOREM DependenciesThere == RunnerSpec => []GathersWithDependencies
<1>1. RunnerInit => MarkerInv
  BY RunnerInitTypeOK DEF RunnerInit, NoMarker, MarkerInv, MarkersHold, GathersMarked
<1>2. MarkerInv /\ [RunnerNext]_runnerVars => MarkerInv'
  BY RunnerNextTypeOK, MarkerStep DEF MarkerInv
<1>3. MarkerInv => GathersWithDependencies
  BY DEF MarkerInv, MarkersHold, GathersMarked, GathersWithDependencies
<1> QED BY <1>1, <1>2, <1>3, PTL DEF RunnerSpec
=================================================================================
