------------------------- MODULE CredentialReportProofs -------------------------
(***************************************************************************)
(* Proofs about CredentialReport for any runs, callers and number of polls.*)
(***************************************************************************)
EXTENDS CredentialReport, SequenceTheorems, TLAPS

Outcomes == {"content", "timeout", "failed"}

(* The callers are indexed by positions that fit: a fetch has not begun before
   the last one ended, and none begins after the last. *)
FetchesFit == \A r \in Runs : Len(outcomes[r]) <= Len(Callers)

ReportInv ==
    /\ CredentialTypeOK
    /\ FetchesFit
    /\ BusyIsNoFailure

LEMMA Bounds == MaxPolls \in Nat /\ Len(Callers) \in Nat
  BY CredentialAssumption

(* What the fields are, apart from what else is said of them. *)
LEMMA FieldTypes ==
    ASSUME ReportInv
    PROVE  /\ outcomes \in [Runs -> Seq(Outcomes)]
           /\ polls \in [Runs -> 0 .. MaxPolls]
           /\ pc \in [Runs -> {"generate", "poll"}]
           /\ refused \in SUBSET (Runs \X (1 .. Len(Callers)))
           /\ \A r \in Runs : Len(outcomes[r]) \in Nat
<1>1. outcomes \in [Runs -> Seq(Outcomes)]
  BY DEF ReportInv, CredentialTypeOK, Outcomes
<1>2. \A r \in Runs : Len(outcomes[r]) \in Nat
  <2> SUFFICES ASSUME NEW r \in Runs PROVE Len(outcomes[r]) \in Nat
    OBVIOUS
  <2>1. outcomes[r] \in Seq(Outcomes)
    BY <1>1
  <2> QED BY <2>1
<1> QED BY <1>1, <1>2 DEF ReportInv, CredentialTypeOK

LEMMA InitReportInv == CredentialInit => ReportInv
<1> SUFFICES ASSUME CredentialInit PROVE ReportInv
  OBVIOUS
<1>1. Len(Callers) \in Nat /\ MaxPolls \in Nat /\ <<>> \in Seq(Outcomes)
  BY Bounds
<1>2. \A r \in Runs : outcomes[r] = <<>>
  BY DEF CredentialInit
<1>3. outcomes \in [Runs -> Seq(Outcomes)] /\ polls \in [Runs -> 0 .. MaxPolls]
         /\ pc \in [Runs -> {"generate", "poll"}]
  BY <1>1 DEF CredentialInit
<1> QED BY <1>1, <1>2, <1>3
           DEF CredentialInit, ReportInv, CredentialTypeOK, FetchesFit, BusyIsNoFailure,
               Outcomes

(* EndFetch adds one outcome, to the run it is about.  If that is a failure, the
   fetch is among the refused. *)
LEMMA EndFetchInv ==
    ASSUME ReportInv, NEW r \in Runs, NEW outcome \in Outcomes,
           EndFetch(r, outcome), Len(outcomes[r]) < Len(Callers),
           report' = report, refused \subseteq refused',
           refused' \in SUBSET (Runs \X (1 .. Len(Callers))),
           outcome = "failed" => Fetch(r) \in refused'
    PROVE  ReportInv'
<1>1. MaxPolls \in Nat /\ Len(Callers) \in Nat
  BY Bounds
<1>0. outcomes \in [Runs -> Seq(Outcomes)] /\ polls \in [Runs -> 0 .. MaxPolls]
         /\ pc \in [Runs -> {"generate", "poll"}]
  BY FieldTypes
<1>2. outcomes[r] \in Seq(Outcomes) /\ outcomes' = [outcomes EXCEPT ![r] = Append(@, outcome)]
  BY <1>0 DEF EndFetch
<1>3. /\ Append(outcomes[r], outcome) \in Seq(Outcomes)
      /\ Len(Append(outcomes[r], outcome)) = Len(outcomes[r]) + 1
      /\ Append(outcomes[r], outcome)[Len(outcomes[r]) + 1] = outcome
      /\ \A k \in 1 .. Len(outcomes[r]) : Append(outcomes[r], outcome)[k] = outcomes[r][k]
  BY <1>2, AppendProperties
<1>4. outcomes' \in [Runs -> Seq(Outcomes)]
  BY <1>0, <1>2, <1>3
<1>5. CredentialTypeOK'
  <2>1. pc' \in [Runs -> {"generate", "poll"}]
    BY <1>0 DEF EndFetch
  <2>2. polls' \in [Runs -> 0 .. MaxPolls]
    BY <1>0, <1>1 DEF EndFetch
  <2> QED BY <1>4, <2>1, <2>2 DEF ReportInv, CredentialTypeOK, Outcomes
<1>6. FetchesFit'
  <2>1. Len(outcomes[r]) \in Nat
    BY <1>2
  <2> QED BY <1>0, <1>1, <1>2, <1>3, <2>1 DEF ReportInv, FetchesFit
<1>7. BusyIsNoFailure'
  <2> SUFFICES ASSUME NEW s \in Runs, NEW k \in DOMAIN outcomes'[s],
                      outcomes'[s][k] = "failed"
               PROVE  <<s, k>> \in refused'
    BY DEF BusyIsNoFailure
  <2>1. CASE s = r /\ k = Len(outcomes[r]) + 1
    BY <1>0, <1>2, <1>3, <2>1 DEF Fetch
  <2>2. CASE s = r /\ k # Len(outcomes[r]) + 1
    <3>1. outcomes'[s] = Append(outcomes[r], outcome)
      BY <1>0, <1>2, <2>2
    <3>2. k \in 1 .. Len(outcomes[r])
      BY <1>2, <1>3, <1>4, <2>2, <3>1
    <3>3. k \in DOMAIN outcomes[r] /\ outcomes[r][k] = "failed"
      BY <1>2, <1>3, <3>1, <3>2
    <3> QED BY <2>2, <3>3 DEF ReportInv, BusyIsNoFailure
  <2>3. CASE s # r
    BY <1>0, <1>2, <2>3 DEF ReportInv, BusyIsNoFailure
  <2> QED BY <2>1, <2>2, <2>3
<1> QED BY <1>4, <1>5, <1>6, <1>7 DEF ReportInv

LEMMA NextReportInv ==
    ASSUME ReportInv, [CredentialNext]_reportVars
    PROVE  ReportInv'
<1>1. CASE \E r \in Runs : Generate(r) \/ LimitExceeded(r) \/ PollNotReady(r)
  <2>1. outcomes' = outcomes /\ refused' = refused
    BY <1>1 DEF Generate, LimitExceeded, PollNotReady
  <2>2. CredentialTypeOK'
    <3>1. PICK r \in Runs : Generate(r) \/ LimitExceeded(r) \/ PollNotReady(r)
      BY <1>1
    <3>2. report' \in {"none", "in progress", "ready"} /\ pc' \in [Runs -> {"generate", "poll"}]
      BY <3>1 DEF Generate, LimitExceeded, PollNotReady, ReportInv, CredentialTypeOK
    <3>3. polls' \in [Runs -> 0 .. MaxPolls]
      <4>1. CASE PollNotReady(r)
        <5>1. polls[r] + 1 \in 0 .. MaxPolls
          <6>1. polls[r] \in 0 .. MaxPolls /\ polls[r] < MaxPolls
            BY <4>1, FieldTypes DEF PollNotReady
          <6> QED BY <6>1, Bounds
        <5> QED BY <4>1, <5>1, FieldTypes DEF PollNotReady
      <4>2. CASE ~PollNotReady(r)
        BY <3>1, <4>2 DEF Generate, LimitExceeded, ReportInv, CredentialTypeOK
      <4> QED BY <4>1, <4>2
    <3> QED BY <2>1, <3>2, <3>3 DEF ReportInv, CredentialTypeOK
  <2> QED BY <2>1, <2>2 DEF ReportInv, FetchesFit, BusyIsNoFailure
<1>2. CASE \E r \in Runs : PollReady(r) \/ GiveUp(r)
  <2>1. PICK r \in Runs : PollReady(r) \/ GiveUp(r)
    BY <1>2
  <2>2. /\ report' = report /\ refused' = refused /\ Len(outcomes[r]) < Len(Callers)
        /\ EndFetch(r, "content") \/ EndFetch(r, "timeout")
    BY <2>1 DEF PollReady, GiveUp, Fetching
  <2>3. refused' \in SUBSET (Runs \X (1 .. Len(Callers)))
    BY <2>2, FieldTypes
  <2> QED BY <2>2, <2>3, EndFetchInv DEF Outcomes
<1>3. CASE \E r \in Runs : CallRefused(r)
  <2>1. PICK r \in Runs : CallRefused(r)
    BY <1>3
  <2>2. /\ report' = report /\ refused' = refused \cup {Fetch(r)}
        /\ Len(outcomes[r]) < Len(Callers) /\ EndFetch(r, "failed")
    BY <2>1 DEF CallRefused, Fetching
  <2>3. refused' \in SUBSET (Runs \X (1 .. Len(Callers)))
    <3>1. outcomes[r] \in Seq(Outcomes) /\ Len(outcomes[r]) \in Nat
      BY FieldTypes
    <3>2. Len(outcomes[r]) + 1 \in 1 .. Len(Callers)
      BY <2>2, <3>1, Bounds
    <3> QED BY <2>2, <3>2, FieldTypes DEF Fetch
  <2> QED BY <2>2, <2>3, EndFetchInv DEF Outcomes
<1>4. CASE ReportCompleted \/ UNCHANGED reportVars
  BY <1>4 DEF ReportCompleted, reportVars, ReportInv, CredentialTypeOK, FetchesFit,
              BusyIsNoFailure
<1> QED BY <1>1, <1>2, <1>3, <1>4 DEF CredentialNext, FetchStep

LEMMA ReportInvAlways == CredentialSpec => []ReportInv
<1>1. ReportInv /\ [CredentialNext]_reportVars => ReportInv'
  BY NextReportInv
<1> QED BY <1>1, InitReportInv, PTL DEF CredentialSpec

(* The loop never counts past its range(15), and every fetch ends in one of the
   three ways its callers know. *)
THEOREM CredentialTypeCorrect == CredentialSpec => []CredentialTypeOK
<1>1. ReportInv => CredentialTypeOK
  BY DEF ReportInv
<1> QED BY <1>1, ReportInvAlways, PTL

(* fetch_credential_report_content(): for any number of runs on one account, a
   report that somebody else is generating fails nobody. *)
THEOREM BusyFailsNobody == CredentialSpec => []BusyIsNoFailure
<1>1. ReportInv => BusyIsNoFailure
  BY DEF ReportInv
<1> QED BY <1>1, ReportInvAlways, PTL
=================================================================================
