---------------------------- MODULE CredentialReport ----------------------------
(***************************************************************************)
(* fetch_credential_report_content() of common/credential_report.py, which *)
(* asks IAM to generate the account's credential report and polls until it *)
(* can be read.  A run calls it twice, for user.py and then for account.py,*)
(* each inside a try; several runs may work on the same account at a time. *)
(*                                                                         *)
(* IAM is external and is what the code expects of it: one report for the  *)
(* account, whose generation takes any time and may fail to end; a request *)
(* for it while it is in progress is refused with LimitExceededException;  *)
(* a finished report is kept for four hours, longer than a run takes.      *)
(***************************************************************************)
EXTENDS Naturals, Sequences

CONSTANTS Runs,         (* processes that gather from the same account        *)
          Callers,      (* the fetches of a run, in their order               *)
          MaxPolls      (* range(15)                                          *)

ASSUME CredentialAssumption ==
    /\ Callers \in Seq(STRING)
    /\ MaxPolls \in Nat

VARIABLES report,       (* IAM: "none", "in progress" or "ready"              *)
          refused,      (* IAM: the fetches of which it has failed a call     *)
          pc,           (* where the fetch going on in a run stands           *)
          polls,        (* times its loop has asked and found no report       *)
          outcomes      (* of the fetches of a run that have ended            *)

reportVars == <<report, refused, pc, polls, outcomes>>

-----------------------------------------------------------------------------
CredentialInit ==
    /\ report = "none"
    /\ refused = {}
    /\ pc = [r \in Runs |-> "generate"]
    /\ polls = [r \in Runs |-> 0]
    /\ outcomes = [r \in Runs |-> <<>>]

Fetch(r) == <<r, Len(outcomes[r]) + 1>>

Fetching(r, at) == pc[r] = at /\ Len(outcomes[r]) < Len(Callers)

EndFetch(r, outcome) ==
    /\ outcomes' = [outcomes EXCEPT ![r] = Append(@, outcome)]
    /\ pc' = [pc EXCEPT ![r] = "generate"]
    /\ polls' = [polls EXCEPT ![r] = 0]

(* iam.generate_credential_report() *)
Generate(r) ==
    /\ Fetching(r, "generate") /\ report # "in progress"
    /\ report' = IF report = "none" THEN "in progress" ELSE report
    /\ pc' = [pc EXCEPT ![r] = "poll"]
    /\ UNCHANGED <<refused, polls, outcomes>>

(* Slip: no `except` for it. *)
RaiseLimitExceeded(r) ==
    /\ Fetching(r, "generate") /\ report = "in progress"
    /\ EndFetch(r, "failed")
    /\ UNCHANGED <<report, refused>>

(* except iam.exceptions.LimitExceededException: pass *)
LimitExceeded(r) ==
    /\ Fetching(r, "generate") /\ report = "in progress"
    /\ pc' = [pc EXCEPT ![r] = "poll"]
    /\ UNCHANGED <<report, refused, polls, outcomes>>

(* iam.get_credential_report() *)
PollReady(r) ==
    /\ Fetching(r, "poll") /\ polls[r] < MaxPolls /\ report = "ready"
    /\ EndFetch(r, "content")
    /\ UNCHANGED <<report, refused>>

(* Slips: one poll too many; `while True`, nothing counted. *)
PollOnceMore(r) ==
    /\ Fetching(r, "poll") /\ polls[r] <= MaxPolls /\ report = "in progress"
    /\ polls' = [polls EXCEPT ![r] = @ + 1]
    /\ UNCHANGED <<report, refused, pc, outcomes>>

PollForever(r) ==
    /\ Fetching(r, "poll") /\ report = "in progress"
    /\ UNCHANGED reportVars

(* except iam.exceptions.CredentialReportNotReadyException: time.sleep(2) *)
PollNotReady(r) ==
    /\ Fetching(r, "poll") /\ polls[r] < MaxPolls /\ report = "in progress"
    /\ polls' = [polls EXCEPT ![r] = @ + 1]
    /\ UNCHANGED <<report, refused, pc, outcomes>>

(* raise TimeoutError *)
GiveUp(r) ==
    /\ Fetching(r, "poll") /\ polls[r] = MaxPolls
    /\ EndFetch(r, "timeout")
    /\ UNCHANGED <<report, refused>>

(* Any other exception leaves the function, ReportNotPresent and ReportExpired
   from a poll among them. *)
CallRefused(r) ==
    /\ \/ Fetching(r, "generate")
       \/ Fetching(r, "poll") /\ polls[r] < MaxPolls
    /\ refused' = refused \cup {Fetch(r)}
    /\ EndFetch(r, "failed")
    /\ UNCHANGED report

ReportCompleted ==
    /\ report = "in progress" /\ report' = "ready"
    /\ UNCHANGED <<refused, pc, polls, outcomes>>

FetchStep(r) ==
    \/ Generate(r)
    \/ LimitExceeded(r)
    \/ PollReady(r)
    \/ PollNotReady(r)
    \/ GiveUp(r)

CredentialNext ==
    \/ \E r \in Runs : FetchStep(r) \/ CallRefused(r)
    \/ ReportCompleted

(* Each call of a run returns.  Nothing is assumed of the generation. *)
CredentialSpec ==
    /\ CredentialInit
    /\ [][CredentialNext]_reportVars
    /\ \A r \in Runs : WF_reportVars(FetchStep(r))

-----------------------------------------------------------------------------
CredentialTypeOK ==
    /\ report \in {"none", "in progress", "ready"}
    /\ refused \in SUBSET (Runs \X (1 .. Len(Callers)))
    /\ pc \in [Runs -> {"generate", "poll"}]
    /\ polls \in [Runs -> 0 .. MaxPolls]
    /\ outcomes \in [Runs -> Seq({"content", "timeout", "failed"})]

(* The docstring: "A report generation task already in progress (for this account,
   or a concurrent gather of it) ... expected, not a failure".  However the runs
   and the service interleave, a fetch fails only because a call of its own was
   refused; a report that somebody else is generating never makes it fail. *)
BusyIsNoFailure ==
    \A r \in Runs : \A k \in DOMAIN outcomes[r] :
        outcomes[r][k] = "failed" => <<r, k>> \in refused

(* A report that is never ready holds no run up for ever. *)
FetchesEnd == \A r \in Runs : <>(Len(outcomes[r]) = Len(Callers))
=================================================================================
