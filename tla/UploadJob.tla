------------------------------- MODULE UploadJob -------------------------------
(***************************************************************************)
(* docker-entrypoint.sh: gather, look at the exit code, upload, look at    *)
(* the HTTP status; started again and again by a scheduler, in a fresh     *)
(* container (`docker run`) or in one that stopped (a restart policy,      *)
(* `docker start`), where /tmp keeps what its last invocation left.  No    *)
(* invocation begins before the one before it ended.                       *)
(*                                                                         *)
(* The program is here what RunContract promises.  The server is outside   *)
(* the repository; of it the README says that it takes one upload in five  *)
(* minutes and refuses others with a 429, and that each upload refreshes   *)
(* the same account.                                                       *)
(***************************************************************************)
EXTENDS Naturals

CONSTANTS NoFile,       (* nothing at the path, nothing stored                *)
          MaxRuns       (* bound: invocations of the container                *)

ASSUME JobAssumption == MaxRuns \in Nat /\ NoFile \notin [run : Nat, whole : BOOLEAN]

VARIABLES run,          (* invocations so far                                 *)
          step,         (* where the script stands                            *)
          gathered,     (* GATHER_EXIT, while the script runs                 *)
          out,          (* the file at OUTPUT: who wrote it and whether whole *)
          disks,        (* the files at OUTPUT in the containers that stopped *)
          response,     (* HTTP_STATUS as curl prints it, "000" without one   *)
          code,         (* exit code of the container                         *)
          stored,       (* server: the inventory of the account               *)
          cooling       (* server: an upload was taken less than 5 min ago    *)

jobVars == <<run, step, gathered, out, disks, response, code, stored, cooling>>

Inventory == [run : Nat, whole : BOOLEAN]

JobInit ==
    /\ run = 0
    /\ step = "exited"
    /\ gathered = "none"
    /\ out = NoFile
    /\ disks = {}
    /\ response = "none"
    /\ code = "none"
    /\ stored = NoFile
    /\ cooling = FALSE

(* A fresh container, the last one, or one that stopped before it. *)
Start ==
    /\ step = "exited" /\ run < MaxRuns
    /\ run' = run + 1
    /\ step' = "gather"
    /\ out' \in disks \cup {NoFile, out}
    /\ disks' = (disks \cup {out}) \ {out'}
    /\ gathered' = "none" /\ response' = "none" /\ code' = "none"
    /\ UNCHANGED <<stored, cooling>>

-----------------------------------------------------------------------------
(* python -m lensix_inventory, by its contract. *)
Mine(whole) == [run |-> run, whole |-> whole]

OpenOutput ==
    /\ step = "gather" /\ out \notin {Mine(TRUE), Mine(FALSE)}
    /\ out' = Mine(FALSE)
    /\ UNCHANGED <<disks, run, step, gathered, response, code, stored, cooling>>

CompleteOutput ==
    /\ step = "gather" /\ out = Mine(FALSE)
    /\ out' = Mine(TRUE)
    /\ UNCHANGED <<disks, run, step, gathered, response, code, stored, cooling>>

GatherExits ==
    /\ step = "gather"
    /\ \/ out = Mine(TRUE) /\ gathered' = "ok"
       \/ gathered' = "failed"
    /\ step' = "gathered"
    /\ UNCHANGED <<disks, run, out, response, code, stored, cooling>>

-----------------------------------------------------------------------------
(* Slip: the exit code of the gather not looked at, as without `set -e`. *)
CheckNothing ==
    /\ step = "gathered"
    /\ step' = "upload"
    /\ UNCHANGED <<disks, run, gathered, out, response, code, stored, cooling>>

(* Slip: the file looked for instead of the exit code. *)
CheckFileExists ==
    /\ step = "gathered"
    /\ IF out # NoFile THEN step' = "upload" /\ UNCHANGED code
                       ELSE step' = "exited" /\ code' = "nonzero"
    /\ UNCHANGED <<disks, run, gathered, out, response, stored, cooling>>

CheckGather ==
    /\ step = "gathered"
    /\ IF gathered = "ok" THEN step' = "upload" /\ UNCHANGED code
                          ELSE step' = "exited" /\ code' = "nonzero"
    /\ UNCHANGED <<disks, run, gathered, out, response, stored, cooling>>

(* One POST, no retry.  Any response may be lost on its way back. *)
Answer(status) == response' \in {status, "000"}

ServerAccepts ==
    /\ step = "upload" /\ ~cooling /\ out # NoFile
    /\ stored' = out
    /\ cooling' = TRUE
    /\ Answer("2xx")
    /\ step' = "answered"
    /\ UNCHANGED <<disks, run, gathered, out, code>>

ServerRefuses ==
    /\ step = "upload" /\ cooling
    /\ Answer("429")
    /\ step' = "answered"
    /\ UNCHANGED <<disks, run, gathered, out, code, stored, cooling>>

(* a bad token, a CDN in between, no connection, or no file for curl to send *)
NeverArrives ==
    /\ step = "upload"
    /\ Answer("other")
    /\ step' = "answered"
    /\ UNCHANGED <<disks, run, gathered, out, code, stored, cooling>>

(* Slip: a response of any kind taken for success. *)
CheckAnyResponse ==
    /\ step = "answered"
    /\ step' = "exited"
    /\ IF response # "000"
         THEN code' = "zero" /\ out' = NoFile
         ELSE code' = "nonzero" /\ UNCHANGED out
    /\ UNCHANGED <<disks, run, gathered, response, stored, cooling>>

(* Slip: `exit $HTTP_STATUS` in place of `exit 1`. *)
CheckUploadPassingStatus ==
    /\ step = "answered"
    /\ step' = "exited"
    /\ IF response = "2xx" THEN code' = "zero" /\ out' = NoFile
                           ELSE code' = response /\ UNCHANGED out
    /\ UNCHANGED <<disks, run, gathered, response, stored, cooling>>

(* "000" is less than 200 in bash's arithmetic too. *)
CheckUpload ==
    /\ step = "answered"
    /\ step' = "exited"
    /\ IF response = "2xx"
         THEN code' = "zero" /\ out' = NoFile
         ELSE code' = "nonzero" /\ UNCHANGED out
    /\ UNCHANGED <<disks, run, gathered, response, stored, cooling>>

(* docker stop, a lost node: at any step, and the server is not told. *)
ContainerKilled ==
    /\ step # "exited"
    /\ step' = "exited" /\ code' = "nonzero"
    /\ UNCHANGED <<disks, run, gathered, out, response, stored, cooling>>

CooldownEnds ==
    /\ cooling
    /\ cooling' = FALSE
    /\ UNCHANGED <<disks, run, step, gathered, out, response, code, stored>>

JobNext ==
    \/ Start
    \/ OpenOutput
    \/ CompleteOutput
    \/ GatherExits
    \/ CheckGather
    \/ ServerAccepts
    \/ ServerRefuses
    \/ NeverArrives
    \/ CheckUpload
    \/ ContainerKilled
    \/ CooldownEnds

JobSpec == JobInit /\ [][JobNext]_jobVars

-----------------------------------------------------------------------------
JobTypeOK ==
    /\ run \in 0 .. MaxRuns
    /\ step \in {"gather", "gathered", "upload", "answered", "exited"}
    /\ gathered \in {"none", "ok", "failed"}
    /\ out \in Inventory \cup {NoFile}
    /\ disks \in SUBSET (Inventory \cup {NoFile})
    /\ response \in {"none", "2xx", "429", "other", "000"}
    /\ code \in {"none", "zero", "nonzero"}
    /\ stored \in Inventory \cup {NoFile}
    /\ cooling \in BOOLEAN

(* "not uploading a partial/missing file": what the server holds is always a
   whole inventory, although files of failed and killed runs lie at the very
   path that the next run uploads from. *)
StoredIsWhole == stored # NoFile => stored.whole

(* README: "exits - 0 on success, non-zero if either step failed".  A container
   that exited with 0 has refreshed the account, with its own inventory and not
   with one an earlier run left behind. *)
ExitZeroRefreshed == code = "zero" => stored = Mine(TRUE)

(* README: "Each run refreshes the same account's data".  What is stored never
   gives way to an inventory gathered before it, however runs are cut short,
   refused and repeated. *)
NeverOlder ==
    [][stored # NoFile /\ stored' # stored => stored'.run > stored.run]_jobVars
=============================================================================
