------------------------------ MODULE RunContract ------------------------------
(***************************************************************************)
(* What `python -m lensix_inventory` promises to whoever starts it, and    *)
(* all that docker-entrypoint.sh relies on: an exit code of 0 means that   *)
(* the whole inventory is at the output path; anything else means that     *)
(* what is there is not to be used.  ProviderRun implements this.          *)
(***************************************************************************)
VARIABLES status,       (* of the process                                     *)
          output        (* what is at the output path                         *)

contractVars == <<status, output>>

ContractInit ==
    /\ status = "running"
    /\ output \in {"nothing", "earlier"}

(* Whatever was at the path before is lost from here on. *)
StartOutput ==
    /\ status = "running" /\ output \in {"nothing", "earlier"}
    /\ output' = "partial"
    /\ UNCHANGED status

FinishOutput ==
    /\ status = "running" /\ output = "partial"
    /\ output' = "whole"
    /\ UNCHANGED status

Succeed ==
    /\ status = "running" /\ output = "whole"
    /\ status' = "succeeded"
    /\ UNCHANGED output

Fail ==
    /\ status = "running"
    /\ status' = "failed"
    /\ UNCHANGED output

ContractNext == StartOutput \/ FinishOutput \/ Succeed \/ Fail

(* The process ends. *)
ContractSpec ==
    /\ ContractInit
    /\ [][ContractNext]_contractVars
    /\ WF_contractVars(Succeed \/ Fail)
=============================================================================
