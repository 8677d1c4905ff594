------------------------------ MODULE ProviderRun ------------------------------
(***************************************************************************)
(* One execution of lensix_inventory: main() of cli.py and the run() of    *)
(* the provider it loads, around an InventoryWriter.                       *)
(*                                                                         *)
(* A gather function is here whatever sequence of writer calls it makes,   *)
(* ended by its return or by an exception (GatherModule has the inside).   *)
(* The three providers differ in their tasks: aws calls its regional       *)
(* modules for each region and then its global ones; azure and gcp have    *)
(* no regions and ignore --regions.                                        *)
(***************************************************************************)
EXTENDS InventoryWriter

CONSTANTS Providers,        (* values of --provider                            *)
          RegionalModules,  (* provider -> sequence of module names            *)
          GlobalModules,    (* provider -> sequence of module names            *)
          GlobalRegion,     (* "global", the region of a global module's errors*)
          RegionLists,      (* what --regions or get_regions() may amount to   *)
          GatherSources     (* sources of the errors that gathers add          *)

ASSUME RunAssumption ==
    /\ RegionalModules \in [Providers -> Seq(Sources)]
    /\ GlobalModules \in [Providers -> Seq(Sources)]
    /\ RegionLists \subseteq Seq(Regions)
    /\ GlobalRegion \in Regions /\ GlobalRegion # NoRegion
    /\ GatherSources \subseteq Sources

VARIABLES provider,     (* args.provider                                      *)
          regionArg,    (* args.regions, split; <<>> when not given           *)
          pc,           (* where main() and run() stand                       *)
          target,       (* target_regions                                     *)
          outcomes,     (* what became of each task begun and ended so far    *)
          exit          (* the exit code of the process                       *)

runVars == <<provider, regionArg, pc, target, outcomes, exit>>
allVars == <<writerVars, runVars>>

-----------------------------------------------------------------------------
(* The calls of gather functions that run() makes, in their order. *)
PerRegion == RegionalModules[provider]

RegionalTasks == Len(PerRegion) * Len(target)

TaskCount == RegionalTasks + Len(GlobalModules[provider])

Task(k) ==
    IF k <= RegionalTasks
      THEN [region |-> target[((k - 1) \div Len(PerRegion)) + 1],
            name |-> PerRegion[((k - 1) % Len(PerRegion)) + 1]]
      ELSE [region |-> GlobalRegion,
            name |-> GlobalModules[provider][k - RegionalTasks]]

Current == Task(Len(outcomes) + 1)

-----------------------------------------------------------------------------
RunInit ==
    /\ WriterInit
    /\ provider \in Providers
    /\ regionArg \in RegionLists \cup {<<>>}
    /\ pc = "load"
    /\ target = <<>>
    /\ outcomes = <<>>
    /\ exit = "none"

Goto(from, to) ==
    /\ pc = from /\ pc' = to
    /\ UNCHANGED exit

(* Slip: the message printed and the code set, but no return. *)
EndWithoutReturn(code) == pc' = pc /\ exit' = code

EndWith(code) == pc' = "ended" /\ exit' = code

(* the provider's SDK may not be installed *)
LoadProvider ==
    /\ \/ Goto("load", "session")
       \/ pc = "load" /\ EndWith("1")
    /\ UNCHANGED <<writerVars, provider, regionArg, target, outcomes>>

(* get_account_id(), or azure's and gcp's lookups of credential, subscription
   and project: one real call, whose failure main() turns into exit code 1 *)
OpenSession ==
    /\ \/ Goto("session", "regions")
       \/ pc = "session" /\ EndWith("1")
    /\ UNCHANGED <<writerVars, provider, regionArg, target, outcomes>>

(* `regions or get_regions()`; only aws looks *)
ChooseRegions ==
    /\ pc = "regions"
    /\ IF PerRegion = <<>>
         THEN Goto("regions", "gather") /\ UNCHANGED target
         ELSE IF regionArg # <<>>
                THEN Goto("regions", "gather") /\ target' = regionArg
                ELSE \/ /\ Goto("regions", "gather")
                        /\ target' \in RegionLists
                     \/ EndWith("1") /\ UNCHANGED target
    /\ UNCHANGED <<writerVars, provider, regionArg, outcomes>>

-----------------------------------------------------------------------------
Gathering == pc = "gather" /\ Len(outcomes) < TaskCount

(* Inside a gather function. *)
GatherCalls ==
    /\ Gathering /\ RoomLeft
    /\ \/ \E t \in ResourceTypes, i \in ResourceIds, k \in Intent :
              AddResource(t, Current.region, i, k)
       \/ SomeAddEdge
       \/ \E s \in GatherSources : AddError(Current.region, s)
    /\ UNCHANGED runVars

GatherReturns ==
    /\ Gathering
    /\ outcomes' = Append(outcomes, "done")
    /\ UNCHANGED <<writerVars, provider, regionArg, pc, target, exit>>

(* Slip: a failed module noted on the terminal only. *)
GatherRaisesUnreported ==
    /\ Gathering
    /\ outcomes' = Append(outcomes, "error")
    /\ UNCHANGED <<writerVars, provider, regionArg, pc, target, exit>>

(* Slip: a try around the loop over the modules in place of one inside it. *)
GatherRaisesOutOfLoop ==
    /\ Gathering
    /\ AddError(Current.region, Current.name)
    /\ outcomes' = Append(outcomes, "error")
    /\ pc' = "write"
    /\ UNCHANGED <<provider, regionArg, target, exit>>

GatherRaises ==
    /\ Gathering
    /\ AddError(Current.region, Current.name)
    /\ outcomes' = Append(outcomes, "error")
    /\ UNCHANGED <<provider, regionArg, pc, target, exit>>

(* run() itself raises, for instance out of a print() to a closed terminal that
   no try encloses or that is itself in the handler; main() returns 1. *)
RunRaises ==
    /\ pc = "gather" /\ EndWith("1")
    /\ UNCHANGED <<writerVars, provider, regionArg, target, outcomes>>

(* Slip: the last module left out of the loop. *)
RunReturnsEarly ==
    /\ pc = "gather" /\ Len(outcomes) + 1 >= TaskCount
    /\ Goto("gather", "write")
    /\ UNCHANGED <<writerVars, provider, regionArg, target, outcomes>>

RunReturns ==
    /\ pc = "gather" /\ Len(outcomes) = TaskCount
    /\ Goto("gather", "write")
    /\ UNCHANGED <<writerVars, provider, regionArg, target, outcomes>>

-----------------------------------------------------------------------------
(* writer.write(): main() does not catch what it raises, which ends the
   process with a traceback and code 1. *)
Write ==
    /\ pc = "write" /\ phase \notin {"written", "failed"}
    /\ WriteStep
    /\ UNCHANGED runVars

(* Slip: main() goes on to the summary and `return 0` after a failed write. *)
WriteEndsUnchecked ==
    /\ pc = "write" /\ phase \in {"written", "failed"}
    /\ Goto("write", "summary")
    /\ UNCHANGED <<writerVars, provider, regionArg, target, outcomes>>

(* Slip: a failed write tried again, for as long as it fails. *)
WriteEndsRetrying ==
    /\ \/ phase = "written" /\ Goto("write", "summary") /\ UNCHANGED phase
       \/ pc = "write" /\ phase = "failed" /\ phase' = "gathering" /\ UNCHANGED <<pc, exit>>
    /\ UNCHANGED <<records, counts, regions, errors, tagSuppressions, edges, file,
                   provider, regionArg, target, outcomes>>

WriteEnds ==
    /\ \/ phase = "written" /\ Goto("write", "summary")
       \/ pc = "write" /\ phase = "failed" /\ EndWith("1")
    /\ UNCHANGED <<writerVars, provider, regionArg, target, outcomes>>

(* Printing may fail too, with the inventory complete. *)
PrintSummary ==
    /\ pc = "summary"
    /\ \E code \in {"0", "1"} : EndWith(code)
    /\ UNCHANGED <<writerVars, provider, regionArg, target, outcomes>>

(* Ctrl-C, SIGTERM, out of memory: none of them is an Exception, and no handler
   of the program sees it.  Of a file being written a prefix is on the disk. *)
Killed ==
    /\ pc # "ended"
    /\ EndWith("killed")
    /\ IF phase = "writing"
         THEN \E n \in 0 .. Len(file.lines) :
                  file' = [file EXCEPT !.lines = SubSeq(@, 1, n)]
         ELSE UNCHANGED file
    /\ UNCHANGED <<records, counts, regions, errors, tagSuppressions, edges, phase,
                   provider, regionArg, target, outcomes>>

Progress ==
    \/ LoadProvider
    \/ OpenSession
    \/ ChooseRegions
    \/ GatherReturns
    \/ GatherRaises
    \/ RunReturns
    \/ Write
    \/ WriteEnds
    \/ PrintSummary

RunNext == Progress \/ GatherCalls \/ RunRaises \/ Killed

(* Every call of a gather function ends: the SDKs bound the time of a call and
   the number of its retries, and every loop is over what a call returned. *)
RunSpec ==
    /\ RunInit
    /\ [][RunNext]_allVars
    /\ WF_allVars(Progress)

-----------------------------------------------------------------------------
RunTypeOK ==
    /\ WriterTypeOK
    /\ provider \in Providers
    /\ regionArg \in RegionLists \cup {<<>>}
    /\ pc \in {"load", "session", "regions", "gather", "write", "summary", "ended"}
    /\ target \in RegionLists \cup {<<>>}
    /\ outcomes \in Seq({"done", "error"}) /\ Len(outcomes) <= TaskCount
    /\ exit \in {"none", "0", "1", "killed"} /\ (exit = "none" <=> pc # "ended")

(* main(): `return 0`.  A scheduler that looks at the exit code alone may use
   the file: it is whole, and it is of every region and module asked for. *)
ExitZeroIsComplete ==
    exit = "0" => /\ file.closed /\ file.lines = AllLines
                /\ Len(outcomes) = TaskCount

(* An entry whose source is the plain name of a module is run()'s own, or that of
   a gather which uses this name for one of its calls (workspaces.py). *)
ReportsOf(region, name) ==
    {i \in DOMAIN errors : errors[i] = [region |-> region, source |-> name]}

FailuresOf(region, name) ==
    {k \in DOMAIN outcomes : outcomes[k] = "error"
                                 /\ Task(k) = [region |-> region, name |-> name]}

(* run(): a module that fails costs itself and nothing else.  Each failure of a
   gather function, in each region, has an entry of its own in the inventory, and
   one only unless the gather uses the name too. *)
EveryFailureReported ==
    \A k \in DOMAIN outcomes :
        LET task == Task(k)
            reports == Cardinality(ReportsOf(task.region, task.name))
            failures == Cardinality(FailuresOf(task.region, task.name))
        IN  /\ failures <= reports
            /\ task.name \notin GatherSources => reports = failures

(* Until every module has been tried in every region, the file of an earlier run
   is left alone: a run cut short by anything at all never damages it. *)
EarlierFileKept ==
    [][file' # file => Len(outcomes) = TaskCount /\ pc = "write"]_allVars

(* The process ends, whatever fails. *)
RunEnds == <>(exit # "none")

-----------------------------------------------------------------------------
StatusOfExit ==
    CASE exit = "none" -> "running"
      [] exit = "0" -> "succeeded"
      [] OTHER -> "failed"

OutputOfFile ==
    CASE file = NoFile -> "nothing"
      [] file = StaleFile -> "earlier"
      [] OTHER -> IF file.closed /\ file.lines = AllLines THEN "whole" ELSE "partial"

Contract == INSTANCE RunContract WITH status <- StatusOfExit, output <- OutputOfFile

(* The program keeps the contract its callers use it by. *)
KeepsContract == Contract!ContractSpec
=============================================================================
