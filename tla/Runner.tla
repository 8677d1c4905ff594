--------------------------------- MODULE Runner ---------------------------------
(***************************************************************************)
(* run.sh: the private Python environment in .venv/, made once and shared  *)
(* by all providers, and the marker file per provider that says that its   *)
(* requirements are installed in it.  A run may be interrupted or fail at  *)
(* any of its commands (`set -e` ends it there) and is started again; one  *)
(* run per provider may be going on at a time.                             *)
(*                                                                         *)
(* python -m venv and pip are external.  venv writes bin/activate last, so *)
(* a directory left by an interrupted one is "bare"; pip installs one      *)
(* package after the other and skips those it finds.                       *)
(***************************************************************************)
EXTENDS Naturals, Sequences

CONSTANTS Providers,    (* aws, azure, gcp                                    *)
          Packages,     (* what a requirements file may name                  *)
          Required,     (* provider -> what its requirements file names       *)
          Added,        (* what a later version of the repository adds to all *)
          MaxFaults     (* bound: commands that fail or are interrupted       *)

ASSUME RunnerAssumption ==
    /\ Required \in [Providers -> SUBSET Packages] /\ Added \in SUBSET Packages
    /\ MaxFaults \in Nat

NoMarker == {}

VARIABLES env,          (* .venv/: "none", "bare" or "whole"                  *)
          installed,    (* the packages in it                                 *)
          marker,       (* .lensix-$PROVIDER-installed: {} if there is none, or
                           {what was required when it was touched}, which the
                           file itself does not say                           *)
          required,     (* the requirements files as they are now             *)
          pc,           (* where the run for each provider stands             *)
          faults        (* the commands that failed or were interrupted       *)

runnerVars == <<env, installed, marker, required, pc, faults>>

-----------------------------------------------------------------------------
RunnerInit ==
    /\ env = "none"
    /\ installed = {}
    /\ marker = [p \in Providers |-> NoMarker]
    /\ required = Required
    /\ pc = [p \in Providers |-> "idle"]
    /\ faults = <<>>

Goto(p, from, to) ==
    /\ pc[p] = from
    /\ pc' = [pc EXCEPT ![p] = to]

Start(p) ==
    /\ Goto(p, "idle", "env")
    /\ UNCHANGED <<env, installed, marker, required, faults>>

(* Slip: a directory without this provider's marker taken for the work of another
   run that is still going on. *)
CheckEnvAsLock(p) ==
    /\ \/ env = "none" /\ Goto(p, "env", "venv")
       \/ env # "none" /\ marker[p] = NoMarker /\ Goto(p, "env", "idle")
       \/ env # "none" /\ marker[p] # NoMarker /\ Goto(p, "env", "activate")
    /\ UNCHANGED <<env, installed, marker, required, faults>>

(* [[ ! -d "$VENV_DIR" ]] *)
CheckEnv(p) ==
    /\ \/ env = "none" /\ Goto(p, "env", "venv")
       \/ env # "none" /\ Goto(p, "env", "activate")
    /\ UNCHANGED <<env, installed, marker, required, faults>>

MakeDirectory(p) ==
    /\ pc[p] = "venv" /\ env = "none"
    /\ env' = "bare"
    /\ UNCHANGED <<installed, marker, required, pc, faults>>

FinishEnv(p) ==
    /\ env # "none" /\ Goto(p, "venv", "activate")
    /\ env' = "whole"
    /\ UNCHANGED <<installed, marker, required, faults>>

(* Slip: no `set -e`. *)
ActivateUnchecked(p) ==
    /\ Goto(p, "activate", "marker")
    /\ UNCHANGED <<env, installed, marker, required, faults>>

(* source "$VENV_DIR/bin/activate" *)
Activate(p) ==
    /\ \/ env = "whole" /\ Goto(p, "activate", "marker")
       \/ env # "whole" /\ Goto(p, "activate", "idle")
    /\ UNCHANGED <<env, installed, marker, required, faults>>

CheckMarker(p) ==
    /\ \/ marker[p] = NoMarker /\ Goto(p, "marker", "pip")
       \/ marker[p] # NoMarker /\ Goto(p, "marker", "gather")
    /\ UNCHANGED <<env, installed, marker, required, faults>>

InstallPackage(p) ==
    /\ pc[p] = "pip"
    /\ \E k \in required[p] \ installed : installed' = installed \cup {k}
    /\ UNCHANGED <<env, marker, required, pc, faults>>

(* Slip: the marker touched however far pip came. *)
TouchEarly(p) ==
    /\ Goto(p, "pip", "gather")
    /\ marker' = [marker EXCEPT ![p] = {required[p]}]
    /\ UNCHANGED <<env, installed, required, faults>>

(* pip has ended with 0, touch "$VENV_MARKER" *)
Touch(p) ==
    /\ required[p] \subseteq installed /\ Goto(p, "pip", "gather")
    /\ marker' = [marker EXCEPT ![p] = {required[p]}]
    /\ UNCHANGED <<env, installed, required, faults>>

(* python -m lensix_inventory, whatever comes of it *)
GatherEnds(p) ==
    /\ Goto(p, "gather", "idle")
    /\ UNCHANGED <<env, installed, marker, required, faults>>

-----------------------------------------------------------------------------
(* The command at hand fails or is interrupted; what it did so far stays. *)
Fault(p) ==
    /\ pc[p] # "idle" /\ Len(faults) < MaxFaults
    /\ faults' = Append(faults, pc[p])
    /\ pc' = [pc EXCEPT ![p] = "idle"]
    /\ UNCHANGED <<env, installed, marker, required>>

(* The user updates the clone between two runs: a requirements file names a
   package more, as its comments say has happened. *)
UpdateRepository ==
    /\ \A p \in Providers : pc[p] = "idle"
    /\ required' = [p \in Providers |-> required[p] \cup Added]
    /\ UNCHANGED <<env, installed, marker, pc, faults>>

Command(p) ==
    \/ CheckEnv(p)
    \/ MakeDirectory(p)
    \/ FinishEnv(p)
    \/ Activate(p)
    \/ CheckMarker(p)
    \/ InstallPackage(p)
    \/ Touch(p)
    \/ GatherEnds(p)

RunnerNext ==
    \/ \E p \in Providers : Start(p) \/ Command(p) \/ Fault(p)
    \/ UpdateRepository

(* A command that is running goes on; the user, or cron, runs the script again. *)
RunnerSpec ==
    /\ RunnerInit
    /\ [][RunnerNext]_runnerVars
    /\ \A p \in Providers : WF_runnerVars(Start(p)) /\ WF_runnerVars(Command(p))

-----------------------------------------------------------------------------
RunnerTypeOK ==
    /\ env \in {"none", "bare", "whole"}
    /\ installed \in SUBSET Packages
    /\ marker \in [Providers -> SUBSET SUBSET Packages]
    /\ required \in [Providers -> SUBSET Packages]
    /\ pc \in [Providers -> {"idle", "env", "venv", "activate", "marker", "pip", "gather"}]
    /\ \A p \in Providers : pc[p] \in {"marker", "pip", "gather"} => env = "whole"
    /\ faults \in Seq({"env", "venv", "activate", "marker", "pip", "gather"})

(* No run gets to the gather by way of an installation that another run left
   half done or made for another provider: all that the provider's requirements
   named when its marker was touched is there. *)
GathersWithDependencies ==
    \A p \in Providers : pc[p] = "gather" =>
        \E needed \in marker[p] : needed \subseteq installed

(* README: "Every run after that starts scanning right away".  Whatever else was
   interrupted, and how often, a provider whose runs are repeated is scanned; only
   an interrupted `python -m venv` is for ever, since its directory is taken for
   an environment. *)
RunsRecover ==
    [](\A i \in DOMAIN faults : faults[i] # "venv")
        => \A p \in Providers : []<>(pc[p] = "gather")
=================================================================================
