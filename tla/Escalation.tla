----------------------------- MODULE Escalation -----------------------------
(***************************************************************************)
(* The escalation ladder of one alert: started when the alert opens,       *)
(* claimed step by step by the runners of several workers under a lease,   *)
(* and cancelled when the alert is acknowledged or resolved                *)
(* (escalation_service.go, escalation_shared.go, escalation_outbox.go).    *)
(*                                                                         *)
(* With the outbox a step is queued in the transaction that advances the   *)
(* row.  Without it the runner sends first and advances afterwards.        *)
(* Deadlines are kept as the time that is left.                            *)
(***************************************************************************)
EXTENDS Integers, FiniteSets, FiniteSetsExt

CONSTANTS
  Runners,
  NoRunner,
  MaxSteps,     \* rungs a ladder may have
  Wait,         \* a rung's wait
  LeaseTTL,     \* escalationLeaseTTL
  Deployments,  \* how the server may be configured: whether SetDeliveryOutbox was
                \* called, and the deadline of one RunDue (four poll intervals)
  MaxEdits,     \* bound: edits of the ladder
  MaxFaults     \* bound: crashes, failed writes, rounds cut off

ASSUME EscalationAssumption ==
  /\ NoRunner \notin Runners
  /\ Deployments \subseteq [outbox : BOOLEAN, timeout : Nat \ {0}]
  /\ MaxSteps \in Nat \ {0} /\ LeaseTTL \in Nat \ {0}
  /\ Wait \in Nat /\ MaxEdits \in Nat /\ MaxFaults \in Nat

VARIABLES
  server,     \* the deployment, fixed at the start
  alert,      \* the alert's status
  observed,   \* what the monitor's state row says
  ladder,     \* the policy: its revision and its number of steps (0: none runs)
  row,        \* the alert_escalations row
  owed,       \* follow-up writes still to come: "start", "cancel"
  work,       \* each worker's round, for this row
  sent,       \* per step, pages queued or sent
  faults

ladderVars == <<server, alert, observed, ladder, row, owed, work, sent, faults>>

Steps == 1..MaxSteps
NoRow == [status |-> "none"]
Idle == [at |-> "idle"]
Pending == row.status = "pending"

NewRow == [status |-> "pending", step |-> 1, due |-> Wait, owner |-> NoRunner, lease |-> 0]

-----------------------------------------------------------------------------
(* The alert *)

(* The outbox commit inserts the row with the alert; otherwise the         *)
(* dispatcher calls StartForAlert once step zero has been sent.            *)
Open ==
  /\ alert = "none"
  /\ alert' = "firing"
  /\ IF server.outbox /\ ladder.steps > 0
     THEN row' = NewRow /\ UNCHANGED owed
     ELSE UNCHANGED row /\ owed' = IF server.outbox THEN owed ELSE owed \cup {"start"}
  /\ UNCHANGED <<server, observed, ladder, work, sent, faults>>

(* StartForAlert checks the alert it was handed, not the stored one. *)
StartForAlert ==
  /\ "start" \in owed
  /\ owed' = owed \ {"start"}
  /\ row' = IF row = NoRow /\ ladder.steps > 0 THEN NewRow ELSE row
  /\ UNCHANGED <<server, alert, observed, ladder, work, sent, faults>>

(* ackAlert: the alert is updated, then the ladder is cancelled. *)
Acknowledge ==
  /\ alert = "firing"
  /\ alert' = "acked"
  /\ owed' = owed \cup {"cancel"}
  /\ UNCHANGED <<server, observed, ladder, row, work, sent, faults>>

(* CancelEscalationByAlertID, whatever lease is held. *)
Cancelled == IF Pending THEN [row EXCEPT !.status = "canceled", !.owner = NoRunner, !.lease = 0]
             ELSE row

(* Recovery: ResolveOpenWithAlert updates the alert and cancels after it;  *)
(* the outbox commit does both in one transaction and leaves the lease.    *)
Resolve ==
  /\ alert \in {"firing", "acked"}
  /\ alert' = "resolved"
  /\ observed' = "other"
  /\ IF server.outbox
     THEN row' = (IF Pending THEN [row EXCEPT !.status = "canceled"] ELSE row) /\ UNCHANGED owed
     ELSE UNCHANGED row /\ owed' = owed \cup {"cancel"}
  /\ UNCHANGED <<server, ladder, work, sent, faults>>

CancelForAlert ==
  /\ "cancel" \in owed
  /\ owed' = owed \ {"cancel"}
  /\ row' = Cancelled
  /\ UNCHANGED <<server, alert, observed, ladder, work, sent, faults>>

(* A follow-up write fails, or the process stops before it: logged. *)
FollowUpLost(x) ==
  /\ x \in owed /\ faults < MaxFaults
  /\ owed' = owed \ {x}
  /\ faults' = faults + 1
  /\ UNCHANGED <<server, alert, observed, ladder, row, work, sent>>

(* The monitor leaves DOWN (a retry window, maintenance) and comes back. *)
Observe(s) ==
  /\ alert \in {"firing", "acked"} /\ s # observed
  /\ observed' = s
  /\ UNCHANGED <<server, alert, ladder, row, owed, work, sent, faults>>

(* An operator edits, disables or detaches the policy. *)
UpdatePolicy(n) ==
  /\ ladder.rev < MaxEdits /\ n # ladder.steps
  /\ ladder' = [rev |-> ladder.rev + 1, steps |-> n]
  /\ UNCHANGED <<server, alert, observed, row, owed, work, sent, faults>>

-----------------------------------------------------------------------------
(* The runner *)

InTime(w) == work[w].at # "idle" /\ work[w].age < server.timeout

EndRound(w) == work' = [work EXCEPT ![w] = Idle]

(* Mutant: a lease is never taken over. *)
ClaimableOnce == Pending /\ row.due = 0 /\ row.owner = NoRunner

Claimable == Pending /\ row.due = 0 /\ row.lease = 0

(* RunDue: ClaimDueEscalations stamps a token no other round has. *)
ClaimDue(w) ==
  /\ work[w] = Idle /\ Claimable
  /\ row' = [row EXCEPT !.owner = w, !.lease = LeaseTTL]
  /\ work' = [work EXCEPT ![w] = [at |-> "alert", step |-> row.step, age |-> 0]]
  /\ UNCHANGED <<server, alert, observed, ladder, owed, sent, faults>>

(* FinishEscalation and AdvanceEscalation: only under the token. *)
Mine(w) == Pending /\ row.owner = w

Finished(w, status) ==
  IF Mine(w) THEN [row EXCEPT !.status = status, !.owner = NoRunner, !.lease = 0] ELSE row

Advanced(w) ==
  IF Mine(w)
  THEN [row EXCEPT !.step = work[w].step + 1, !.owner = NoRunner, !.lease = 0,
                   !.due = IF Wait > work[w].age THEN Wait - work[w].age ELSE 0]
  ELSE row

Closed(w) == Finished(w, "canceled")

(* runOne re-reads the alert inside the claim. *)
ReadAlert(w) ==
  /\ InTime(w) /\ work[w].at = "alert"
  /\ IF alert = "firing"
     THEN work' = [work EXCEPT ![w].at = "policy"] /\ UNCHANGED row
     ELSE EndRound(w) /\ row' = Closed(w)
  /\ UNCHANGED <<server, alert, observed, ladder, owed, sent, faults>>

(* The policy: none runs any more, it no longer has the step, or it does.  *)
ReadPolicy(w) ==
  /\ InTime(w) /\ work[w].at = "policy"
  /\ IF work[w].step > ladder.steps
     THEN EndRound(w) /\ row' = Finished(w, IF ladder.steps = 0 THEN "canceled" ELSE "done")
     ELSE /\ work' = [work EXCEPT ![w] =
                [at |-> IF server.outbox THEN "commit" ELSE "send", step |-> @.step, age |-> @.age,
                 rev |-> ladder.rev, last |-> @.step = ladder.steps]]
          /\ UNCHANGED row
  /\ UNCHANGED <<server, alert, observed, ladder, owed, sent, faults>>

(* Mutant: the commit trusts the claim it made. *)
StillPending(w) == Pending

(* The row is pending at the planned step under the round's token.  The    *)
(* plan's time is the round's start, so the lease it compares is its own.  *)
StillMine(w) == Mine(w) /\ row.step = work[w].step

(* Mutant: the transaction does not read the alert again. *)
StillFiringOnce(w) == Pending

StillFiring(w) == alert = "firing"

(* CommitEscalationStep: one transaction.  A configuration applied since   *)
(* the plan, or a row lost to another round, changes nothing and is tried  *)
(* again when the lease lapses; so is a monitor that is not DOWN just now. *)
CommitEscalationStep(w) ==
  /\ InTime(w) /\ work[w].at = "commit"
  /\ LET valid == ladder.rev = work[w].rev /\ StillMine(w)
         ended == valid /\ (~StillFiring(w) \/ observed = "suppressed")
         queued == valid /\ ~ended /\ observed = "DOWN"
     IN /\ row' = IF ended THEN Finished(w, "canceled")
                  ELSE IF ~queued THEN row
                  ELSE IF work[w].last THEN Finished(w, "done") ELSE Advanced(w)
        /\ sent' = IF queued THEN [sent EXCEPT ![work[w].step] = @ + 1] ELSE sent
  /\ EndRound(w)
  /\ UNCHANGED <<server, alert, observed, ladder, owed, faults>>

(* Without the outbox: send, then advance whether or not the send worked.  *)
Dispatch(w) ==
  /\ InTime(w) /\ work[w].at = "send"
  /\ \/ sent' = [sent EXCEPT ![work[w].step] = @ + 1]
     \/ UNCHANGED sent
  /\ work' = [work EXCEPT ![w].at = "advance"]
  /\ UNCHANGED <<server, alert, observed, ladder, row, owed, faults>>

Advance(w) ==
  /\ InTime(w) /\ work[w].at = "advance"
  /\ row' = IF work[w].last THEN Finished(w, "done") ELSE Advanced(w)
  /\ EndRound(w)
  /\ UNCHANGED <<server, alert, observed, ladder, owed, sent, faults>>

(* The worker dies, a read or a write fails, or the round's context ended. *)
CutOff(w) ==
  /\ work[w] # Idle /\ (InTime(w) => faults < MaxFaults)
  /\ faults' = faults + 1
  /\ EndRound(w)
  /\ UNCHANGED <<server, alert, observed, ladder, row, owed, sent>>

Minus1(n) == IF n > 0 THEN n - 1 ELSE 0

(* Time passes; once the faults are spent no further round runs out.       *)
Elapse ==
  /\ \A w \in Runners : work[w] # Idle =>
       work[w].age < server.timeout /\ (work[w].age + 1 < server.timeout \/ faults < MaxFaults)
  /\ row' = IF Pending THEN [row EXCEPT !.due = Minus1(@), !.lease = Minus1(@)] ELSE row
  /\ work' = [w \in Runners |->
                IF work[w] = Idle THEN Idle ELSE [work[w] EXCEPT !.age = @ + 1]]
  /\ UNCHANGED <<server, alert, observed, ladder, owed, sent, faults>>

-----------------------------------------------------------------------------
LadderInit ==
  /\ server \in Deployments
  /\ alert = "none"
  /\ observed = "DOWN"
  /\ ladder = [rev |-> 0, steps |-> MaxSteps]
  /\ row = NoRow
  /\ owed = {}
  /\ work = [w \in Runners |-> Idle]
  /\ sent = [s \in Steps |-> 0]
  /\ faults = 0

RunOne(w) ==
  \/ ReadAlert(w) \/ ReadPolicy(w) \/ CommitEscalationStep(w)
  \/ Dispatch(w) \/ Advance(w)

Lifecycle == Open \/ StartForAlert \/ Acknowledge \/ Resolve \/ CancelForAlert

LadderNext ==
  \/ Lifecycle
  \/ \E x \in {"start", "cancel"} : FollowUpLost(x)
  \/ \E s \in {"DOWN", "other", "suppressed"} : Observe(s)
  \/ \E n \in 0..MaxSteps : UpdatePolicy(n)
  \/ \E w \in Runners : ClaimDue(w) \/ RunOne(w) \/ CutOff(w)
  \/ Elapse

LadderSpec == LadderInit /\ [][LadderNext]_ladderVars

(* Time passes, and every worker's ticker goes on starting rounds that run *)
(* to their end.                                                           *)
LiveLadderSpec ==
  /\ LadderSpec
  /\ WF_ladderVars(Elapse)
  /\ WF_ladderVars(StartForAlert)
  /\ WF_ladderVars(\E w \in Runners : ClaimDue(w))
  /\ \A w \in Runners : WF_ladderVars(RunOne(w) \/ (work[w] # Idle /\ ~InTime(w) /\ CutOff(w)))

-----------------------------------------------------------------------------
(* Properties *)

LadderTypeOK ==
  /\ alert \in {"none", "firing", "acked", "resolved"}
  /\ row.status \in {"none", "pending", "done", "canceled"}
  /\ row # NoRow => row.step \in Steps /\ row.lease \in 0..LeaseTTL /\ row.due \in 0..Wait
  /\ sent \in [Steps -> Nat]

(* The outbox queues each step of a ladder at most once, whatever crashes, *)
(* lapsed leases, overlapping rounds and edits of the ladder do            *)
(* (CommitEscalationStep's checks of token and step).                      *)
StepQueuedOnce == server.outbox => \A s \in Steps : sent[s] <= 1

(* With the outbox no step is paged for an alert that is no longer firing: *)
(* "This second check is what makes acknowledgement authoritative"         *)
(* (escalation_service.go).                                                *)
AckIsAuthoritative == [][server.outbox /\ sent' # sent => alert = "firing"]_ladderVars

(* Rounds that go on outliving their leases get nowhere. *)
RoundsFit == server.timeout < LeaseTTL

Over == row.status # "pending"

(* A ladder ends: once the alert is acknowledged or resolved its row ends, *)
(* also when StartForAlert created it afterwards or the cancelling write   *)
(* was lost; and while the alert keeps firing and the monitor stays DOWN   *)
(* it comes to its last step, through crashes and edits (runOne,           *)
(* CancelForAlert).                                                        *)
LadderEnds ==
  <>[](RoundsFit /\ (alert \in {"acked", "resolved"} \/ (alert = "firing" /\ observed = "DOWN")))
    => <>[]Over
=============================================================================
