---------------------------- MODULE UploadJobProofs ----------------------------
(* What UploadJob's run checks for four invocations, proved for any number. *)
EXTENDS UploadJob, TLAPS

(* While the script runs, the exit code it saw speaks of the file that is now at
   OUTPUT; an account holding this run's inventory has been sent it by now. *)
JobInv ==
    /\ JobTypeOK
    /\ step \in {"gathered", "upload", "answered"} /\ gathered = "ok" => out = Mine(TRUE)
    /\ step \in {"upload", "answered"} => gathered = "ok"
    /\ step = "answered" /\ response = "2xx" => stored = Mine(TRUE)
    /\ code = "zero" => step = "exited" /\ stored = Mine(TRUE)
    /\ stored # NoFile => /\ stored.whole
                          /\ stored.run <= run
                          /\ stored.run = run => step \in {"answered", "exited"}

LEMMA JobInitInv == JobInit => JobInv
  <1> SUFFICES ASSUME JobInit PROVE JobInv
    OBVIOUS
  <1>1. 0 \in 0 .. MaxRuns
    BY JobAssumption
  <1>2. JobTypeOK
    BY <1>1 DEF JobInit, JobTypeOK
  <1> QED
    BY <1>2 DEF JobInit, JobInv

LEMMA MineIsInventory ==
    ASSUME JobTypeOK
    PROVE  \A whole \in BOOLEAN :
             /\ Mine(whole) \in Inventory /\ Mine(whole) # NoFile
             /\ Mine(whole).run = run /\ Mine(whole).whole = whole
  <1>1. run \in Nat
    BY JobAssumption DEF JobTypeOK
  <1> QED
    BY <1>1, JobAssumption DEF Mine, Inventory

LEMMA JobStepInv == JobInv /\ [JobNext]_jobVars => JobInv'
  <1> SUFFICES ASSUME JobInv, [JobNext]_jobVars PROVE JobInv'
    OBVIOUS
  <1> USE JobAssumption
  <1>0. \A whole \in BOOLEAN : /\ Mine(whole) \in Inventory /\ Mine(whole) # NoFile
                               /\ Mine(whole).run = run /\ Mine(whole).whole = whole
    BY MineIsInventory DEF JobInv
  <1>1. CASE Start
    <2>1. run' \in 0 .. MaxRuns /\ run \in Nat /\ run' = run + 1
      BY <1>1 DEF Start, JobInv, JobTypeOK
    <2>2. stored # NoFile => stored.run \in Nat
      BY DEF JobInv, JobTypeOK, Inventory
    <2> QED
      BY <1>1, <2>1, <2>2 DEF Start, JobInv, JobTypeOK
  <1>2. CASE OpenOutput
    BY <1>0, <1>2 DEF OpenOutput, JobInv, JobTypeOK, Mine
  <1>3. CASE CompleteOutput
    BY <1>0, <1>3 DEF CompleteOutput, JobInv, JobTypeOK, Mine
  <1>4. CASE GatherExits
    BY <1>4 DEF GatherExits, JobInv, JobTypeOK, Mine
  <1>5. CASE CheckGather
    BY <1>5 DEF CheckGather, JobInv, JobTypeOK, Mine
  <1>6. CASE ServerAccepts
    <2>1. stored' = Mine(TRUE) /\ out = Mine(TRUE)
      BY <1>6 DEF ServerAccepts, JobInv
    <2>2. run \in Nat
      BY DEF JobInv, JobTypeOK
    <2>3. stored' \in Inventory /\ stored'.run = run /\ stored'.whole
      BY <1>0, <2>1
    <2>4. Mine(TRUE)' = Mine(TRUE)
      BY <1>6 DEF ServerAccepts, Mine
    <2>5. JobTypeOK'
      BY <1>6, <2>3 DEF ServerAccepts, Answer, JobInv, JobTypeOK
    <2>6. /\ out' = Mine(TRUE)' /\ gathered' = "ok" /\ stored' = Mine(TRUE)'
          /\ code' # "zero" /\ step' = "answered"
      BY <1>6, <2>1, <2>4 DEF ServerAccepts, JobInv
    <2>7. stored' # NoFile => /\ stored'.whole
                              /\ stored'.run <= run'
                              /\ stored'.run = run' => step' \in {"answered", "exited"}
      BY <1>6, <2>2, <2>3, <2>6 DEF ServerAccepts
    <2> QED
      BY <2>5, <2>6, <2>7 DEF JobInv
  <1>7. CASE ServerRefuses
    BY <1>7 DEF ServerRefuses, Answer, JobInv, JobTypeOK, Mine
  <1>8. CASE NeverArrives
    BY <1>8 DEF NeverArrives, Answer, JobInv, JobTypeOK, Mine
  <1>9. CASE CheckUpload
    BY <1>9 DEF CheckUpload, JobInv, JobTypeOK, Mine
  <1>10. CASE ContainerKilled
    BY <1>10 DEF ContainerKilled, JobInv, JobTypeOK, Mine
  <1>11. CASE CooldownEnds
    BY <1>11 DEF CooldownEnds, JobInv, JobTypeOK, Mine
  <1>12. CASE UNCHANGED jobVars
    BY <1>12 DEF jobVars, JobInv, JobTypeOK, Mine
  <1> QED
    BY <1>1, <1>2, <1>3, <1>4, <1>5, <1>6, <1>7, <1>8, <1>9, <1>10, <1>11, <1>12
       DEF JobNext

LEMMA JobInvAlways == JobSpec => []JobInv
  BY JobInitInv, JobStepInv, PTL DEF JobSpec

(* Every value of the script and the server is one of those the code names, and
   no invocation is counted past the bound. *)
THEOREM JobTypeCorrect == JobSpec => []JobTypeOK
  <1>1. JobInv => JobTypeOK
    BY DEF JobInv
  <1> QED
    BY <1>1, JobInvAlways, PTL

(* The server never holds an inventory that is not whole, whatever files of
   failed and killed runs the container finds at OUTPUT. *)
THEOREM StoredWhole == JobSpec => []StoredIsWhole
  <1>1. JobInv => StoredIsWhole
    BY DEF JobInv, StoredIsWhole
  <1> QED
    BY <1>1, JobInvAlways, PTL

(* docker-entrypoint.sh exits with 0 only after the server took the inventory of
   this very invocation. *)
THEOREM ZeroRefreshed == JobSpec => []ExitZeroRefreshed
  <1>1. JobInv => ExitZeroRefreshed
    BY DEF JobInv, ExitZeroRefreshed
  <1> QED
    BY <1>1, JobInvAlways, PTL

(* What is stored gives way only to what a later invocation gathered. *)
THEOREM RefreshIsNewer == JobSpec => NeverOlder
  <1>1. JobInv /\ [JobNext]_jobVars
            => [stored # NoFile /\ stored' # stored => stored'.run > stored.run]_jobVars
    <2> SUFFICES ASSUME JobInv, JobNext, stored # NoFile, stored' # stored
                 PROVE  stored'.run > stored.run
      OBVIOUS
    <2>1. ServerAccepts
      BY DEF JobNext, Start, OpenOutput, CompleteOutput, GatherExits, CheckGather,
             ServerRefuses, NeverArrives, CheckUpload, ContainerKilled, CooldownEnds
    <2>2. stored'.run = run
      BY <2>1, MineIsInventory DEF ServerAccepts, JobInv
    <2>3. run \in Nat /\ stored.run \in Nat /\ stored.run <= run /\ stored.run # run
      BY <2>1, JobAssumption DEF ServerAccepts, JobInv, JobTypeOK, Inventory
    <2> QED
      BY <2>2, <2>3
  <1> QED
    BY <1>1, JobInvAlways, PTL DEF JobSpec, NeverOlder

-----------------------------------------------------------------------------
(* The program as RunContract has it: what docker-entrypoint.sh sees of it is its
   exit code and what is at OUTPUT. *)
StatusSeen == CASE step = "gather"  -> "running"
                [] step # "gather"  -> IF gathered = "ok" THEN "succeeded" ELSE "failed"

OutputSeen == IF out = Mine(TRUE) THEN "whole"
              ELSE IF out = Mine(FALSE) THEN "partial"
              ELSE IF out = NoFile THEN "nothing"
              ELSE "earlier"

Contract == INSTANCE RunContract WITH status <- StatusSeen, output <- OutputSeen

(* Files are of invocations there were, and an exit code is there when the program
   ended. *)
FilesInv ==
    /\ \A f \in disks \cup {out} : f # NoFile => f \in Inventory /\ f.run <= run
    /\ step = "gather" => gathered = "none"

LEMMA FilesInvAlways == JobSpec => [](JobInv /\ FilesInv)
  <1>1. JobInit => FilesInv
    BY DEF JobInit, FilesInv
  <1>2. JobInv /\ FilesInv /\ [JobNext]_jobVars => FilesInv'
    <2> SUFFICES ASSUME JobInv, FilesInv, [JobNext]_jobVars PROVE FilesInv'
      OBVIOUS
    <2>1. run \in Nat
      BY JobAssumption DEF JobInv, JobTypeOK
    <2>2. CASE Start
      <3>1. \A f \in disks \cup {out} : f # NoFile => f \in Inventory /\ f.run <= run + 1
        <4> SUFFICES ASSUME NEW f \in disks \cup {out}, f # NoFile
                     PROVE  f \in Inventory /\ f.run <= run + 1
          OBVIOUS
        <4>1. f \in Inventory /\ f.run <= run
          BY DEF FilesInv
        <4>2. f.run \in Nat
          BY <4>1 DEF Inventory
        <4> QED
          BY <2>1, <4>1, <4>2
      <3> QED
        BY <2>2, <3>1 DEF Start, FilesInv
    <2>3. CASE ~Start
      <3>1. disks' = disks /\ run' = run /\ out' \in {out, NoFile, Mine(TRUE), Mine(FALSE)}
        BY <2>3 DEF JobNext, jobVars, OpenOutput, CompleteOutput, GatherExits, CheckGather,
                    ServerAccepts, ServerRefuses, NeverArrives, CheckUpload,
                    ContainerKilled, CooldownEnds
      <3>2. \A whole \in BOOLEAN : Mine(whole) \in Inventory /\ Mine(whole).run <= run
        BY <2>1 DEF Mine, Inventory
      <3>3. step' = "gather" => gathered' = "none"
        BY <2>3 DEF FilesInv, JobNext, jobVars, OpenOutput, CompleteOutput, GatherExits,
                    CheckGather, ServerAccepts, ServerRefuses, NeverArrives, CheckUpload,
                    ContainerKilled, CooldownEnds
      <3> QED
        BY <3>1, <3>2, <3>3 DEF FilesInv
    <2> QED
      BY <2>2, <2>3
  <1> QED
    BY <1>1, <1>2, JobInvAlways, PTL DEF JobSpec

(* docker-entrypoint.sh starts the program where it may start, with nothing or an
   earlier file at OUTPUT, and while it waits for it, whatever may kill the
   container, the program does what RunContract says and nothing else. *)
THEOREM GathersByContract ==
    JobSpec => [][/\ Start => Contract!ContractInit'
                  /\ step = "gather" => \/ Contract!ContractNext
                                        \/ UNCHANGED Contract!contractVars]_jobVars
  <1> DEFINE ByContract == /\ Start => Contract!ContractInit'
                           /\ step = "gather" => \/ Contract!ContractNext
                                                 \/ UNCHANGED Contract!contractVars
  <1>1. JobInv /\ FilesInv /\ [JobNext]_jobVars => [ByContract]_jobVars
    <2> SUFFICES ASSUME JobInv, FilesInv, JobNext PROVE ByContract
      OBVIOUS
    <2>1. ASSUME Start PROVE Contract!ContractInit'
      <3>1. run \in Nat /\ run' = run + 1 /\ step' = "gather"
        BY <2>1, JobAssumption DEF Start, JobInv, JobTypeOK
      <3>2. out' # Mine(TRUE)' /\ out' # Mine(FALSE)'
        <4>1. out' \in disks \cup {out, NoFile}
          BY <2>1 DEF Start
        <4>2. Mine(TRUE)'.run = run + 1 /\ Mine(FALSE)'.run = run + 1
          BY <3>1 DEF Mine
        <4>3. Mine(TRUE)' \in Inventory /\ Mine(FALSE)' \in Inventory
          BY <3>1 DEF Mine, Inventory
        <4>4. CASE out' = NoFile
          BY <4>3, <4>4, JobAssumption DEF Inventory
        <4>5. CASE out' # NoFile
          <5>1. out'.run <= run /\ out' \in Inventory
            BY <4>1, <4>5 DEF FilesInv
          <5>2. out'.run \in Nat /\ out'.run # run + 1
            BY <3>1, <5>1 DEF Inventory
          <5> QED
            BY <4>2, <5>2
        <4> QED
          BY <4>4, <4>5
      <3> QED
        BY <3>1, <3>2 DEF Contract!ContractInit, StatusSeen, OutputSeen
    <2>2. ASSUME step = "gather"
          PROVE  Contract!ContractNext \/ UNCHANGED Contract!contractVars
      <3>1. StatusSeen = "running"
        BY <2>2 DEF StatusSeen
      <3>2. /\ Mine(TRUE) # Mine(FALSE) /\ run' = run
            /\ Mine(TRUE)' = Mine(TRUE) /\ Mine(FALSE)' = Mine(FALSE)
        <4>1. Mine(TRUE).whole # Mine(FALSE).whole
          BY DEF Mine
        <4>2. run' = run
          BY <2>2 DEF JobNext, Start, OpenOutput, CompleteOutput, GatherExits, CheckGather,
                      ServerAccepts, ServerRefuses, NeverArrives, CheckUpload,
                      ContainerKilled, CooldownEnds
        <4> QED
          BY <4>1, <4>2 DEF Mine
      <3>3. CASE OpenOutput
        <4>1. OutputSeen \in {"nothing", "earlier"}
          BY <3>3 DEF OpenOutput, OutputSeen
        <4>2. OutputSeen' = "partial" /\ StatusSeen' = StatusSeen
          BY <3>2, <3>3 DEF OpenOutput, OutputSeen, StatusSeen
        <4> QED
          BY <3>1, <4>1, <4>2 DEF Contract!ContractNext, Contract!StartOutput
      <3>4. CASE CompleteOutput
        <4>1. OutputSeen = "partial"
          BY <3>2, <3>4 DEF CompleteOutput, OutputSeen
        <4>2. OutputSeen' = "whole" /\ StatusSeen' = StatusSeen
          BY <3>2, <3>4 DEF CompleteOutput, OutputSeen, StatusSeen
        <4> QED
          BY <3>1, <4>1, <4>2 DEF Contract!ContractNext, Contract!FinishOutput
      <3>5. CASE GatherExits \/ ContainerKilled
        <4>1. OutputSeen' = OutputSeen
          BY <3>2, <3>5 DEF GatherExits, ContainerKilled, OutputSeen
        <4>2. \/ StatusSeen' = "succeeded" /\ out = Mine(TRUE)
              \/ StatusSeen' = "failed"
          <5>1. CASE ContainerKilled
            BY <2>2, <5>1 DEF ContainerKilled, StatusSeen, FilesInv
          <5>2. CASE GatherExits
            BY <5>2 DEF GatherExits, StatusSeen
          <5> QED
            BY <3>5, <5>1, <5>2
        <4>3. CASE StatusSeen' = "failed"
          BY <3>1, <4>1, <4>3 DEF Contract!ContractNext, Contract!Fail
        <4>4. CASE StatusSeen' = "succeeded" /\ out = Mine(TRUE)
          BY <3>1, <4>1, <4>4 DEF Contract!ContractNext, Contract!Succeed, OutputSeen
        <4> QED
          BY <4>2, <4>3, <4>4
      <3>6. CASE CooldownEnds
        BY <3>2, <3>6 DEF CooldownEnds, Contract!contractVars, StatusSeen, OutputSeen
      <3> QED
        BY <2>2, <3>3, <3>4, <3>5, <3>6
           DEF JobNext, Start, CheckGather, ServerAccepts, ServerRefuses, NeverArrives,
               CheckUpload
    <2> QED
      BY <2>1, <2>2
  <1> QED
    BY <1>1, FilesInvAlways, PTL DEF JobSpec

(* And nothing more is asked of the program than RunContract says, so that what is
   proved of the job holds with any program that keeps it: each step the contract
   allows the program, which ends in one of its two ways and writes no file but its
   own, is a step of the job. *)
THEOREM ContractSuffices ==
    ASSUME step = "gather", Contract!ContractNext,
           \/ step' = "gather" /\ gathered' = gathered
           \/ step' = "gathered" /\ gathered' \in {"ok", "failed"},
           out' \in {out, Mine(TRUE), Mine(FALSE)},
           UNCHANGED <<disks, run, response, code, stored, cooling>>
    PROVE  JobNext
  <1>1. /\ Mine(TRUE) # Mine(FALSE)
        /\ Mine(TRUE)' = Mine(TRUE) /\ Mine(FALSE)' = Mine(FALSE)
    <2>1. Mine(TRUE).whole # Mine(FALSE).whole
      BY DEF Mine
    <2> QED
      BY <2>1 DEF Mine
  <1>2. CASE Contract!StartOutput
    <2>1. out \notin {Mine(TRUE), Mine(FALSE)}
      BY <1>1, <1>2 DEF Contract!StartOutput, OutputSeen
    <2>2. out' = Mine(FALSE)
      BY <1>1, <1>2 DEF Contract!StartOutput, OutputSeen
    <2>3. step' = "gather" /\ gathered' = gathered
      BY <1>2 DEF Contract!StartOutput, StatusSeen
    <2> QED
      BY <2>1, <2>2, <2>3 DEF JobNext, OpenOutput
  <1>3. CASE Contract!FinishOutput
    <2>1. out = Mine(FALSE) /\ out' = Mine(TRUE)
      BY <1>1, <1>3 DEF Contract!FinishOutput, OutputSeen
    <2>2. step' = "gather" /\ gathered' = gathered
      BY <1>3 DEF Contract!FinishOutput, StatusSeen
    <2> QED
      BY <2>1, <2>2 DEF JobNext, CompleteOutput
  <1>4. CASE Contract!Succeed
    <2>1. out = Mine(TRUE) /\ out' = out
      BY <1>1, <1>4 DEF Contract!Succeed, OutputSeen
    <2>2. step' = "gathered" /\ gathered' = "ok"
      BY <1>4 DEF Contract!Succeed, StatusSeen
    <2> QED
      BY <2>1, <2>2 DEF JobNext, GatherExits
  <1>5. CASE Contract!Fail
    <2>1. out' = out
      BY <1>1, <1>5 DEF Contract!Fail, OutputSeen
    <2>2. step' = "gathered" /\ gathered' = "failed"
      BY <1>5 DEF Contract!Fail, StatusSeen
    <2> QED
      BY <2>1, <2>2 DEF JobNext, GatherExits
  <1> QED
    BY <1>2, <1>3, <1>4, <1>5 DEF Contract!ContractNext
=============================================================================
