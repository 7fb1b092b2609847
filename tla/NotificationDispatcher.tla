----------------------- MODULE NotificationDispatcher -----------------------
(***************************************************************************)
(* Paging without the outbox, the default when no probe secret key is      *)
(* configured.  HeartbeatService.Record commits the status and then hands  *)
(* the heartbeat to OnHeartbeat, which reserves the throttle, opens or     *)
(* resolves the alert, calls the providers and marks the first page in     *)
(* separate transactions.  The process may stop between any two of them.   *)
(*                                                                         *)
(* One monitor, one assignment generation.  A recorder is a goroutine in   *)
(* Record: a check of the scheduler or a request of the push endpoint.     *)
(* Folder alerts, status pages and escalation are not modelled.            *)
(***************************************************************************)
EXTENDS Integers, Sequences, FiniteSets

CONSTANTS
    Recorders,    \* goroutines inside HeartbeatService.Record
    Resend,       \* whether monitors.resend_interval > 0
    Windows,      \* whether maintenance windows cover the monitor at times
    MaxAlerts,    \* bound: alert rows
    MaxElapses,   \* bound: resend intervals that pass
    MaxLapses,    \* bound: outages of an alert that lapse into PENDING
    PageCap,      \* bound: pages of an alert are counted up to here
    MaxFailures   \* bound: crashes and failed transactions

ASSUME DispatcherAssumption ==
    /\ Recorders # {}
    /\ Resend \in BOOLEAN /\ Windows \in BOOLEAN
    /\ MaxAlerts \in Nat /\ MaxElapses \in Nat /\ MaxLapses \in Nat
    /\ PageCap \in Nat /\ MaxFailures \in Nat

VARIABLES
    status,    \* status of the regional state
    maint,     \* a maintenance window covers the present moment
    alerts,    \* the monitor's alert rows; pages, late and lapses are history
    throttle,  \* notification_throttles: no row, or last attempt within/before the interval
    job,       \* where each recorder is in OnHeartbeat
    elapses,   \* history: resend intervals that passed
    failures,  \* history: crashes and failed transactions
    alone      \* history: no two recorders were at work at once, and no window came

dispatchVars == <<status, maint, alerts, throttle, job, elapses, failures, alone>>

Status == {"NONE", "UP", "DOWN", "PENDING", "MAINTENANCE"}

\* pages: DOWN messages sent for the alert.  late: those sent once it was acked.
\* lapses: how often the monitor went from DOWN to PENDING while it was open.
Alert == [status : {"firing", "acked", "resolved"}, initial : BOOLEAN,
          pages : 0..PageCap, late : 0..PageCap, lapses : Nat]

Job == [pc : {"idle", "dispatch", "reserve", "open", "create", "reread", "send", "mark",
              "find", "resolve", "recover", "forget", "pending", "again", "acked", "resend"},
        cur : Status, prev : Status, alert : Nat]

NoJob == [pc |-> "idle", cur |-> "NONE", prev |-> "NONE", alert |-> 0]

\* The tables, the recorders and the counts.
Tables ==
    /\ status \in Status /\ maint \in BOOLEAN
    /\ alerts \in Seq(Alert)
    /\ throttle \in {"none", "within", "past"}
    /\ job \in [Recorders -> Job]
    /\ \A r \in Recorders : job[r].alert \in 0..Len(alerts)
    /\ elapses \in 0..MaxElapses /\ failures \in 0..MaxFailures

DispatchTypeOK == Tables /\ alone \in BOOLEAN

DispatchInit ==
    /\ status = "NONE" /\ maint = FALSE
    /\ alerts = << >> /\ throttle = "none"
    /\ job = [r \in Recorders |-> NoJob]
    /\ elapses = 0 /\ failures = 0 /\ alone = TRUE

At(r, pc) == job[r].pc = pc
Goto(r, pc) == job' = [job EXCEPT ![r].pc = pc]
GotoWith(r, pc, i) == job' = [job EXCEPT ![r].pc = pc, ![r].alert = i]
Return(r) == job' = [job EXCEPT ![r] = NoJob]

\* GetOpenByMonitorID; open_monitor_id is unique and null once resolved.
Open == {i \in DOMAIN alerts : alerts[i].status # "resolved"}
OpenId == IF Open = {} THEN 0 ELSE CHOOSE i \in Open : TRUE

-----------------------------------------------------------------------------
(* Record: the commit, then the dispatcher.                                *)

\* bound: a failure is recorded only while a row is left for every recorder at work.
RowLeft ==
    LET busy == {q \in Recorders : ~At(q, "idle")}
    IN \/ Len(alerts) + Cardinality(busy) < MaxAlerts
       \/ Open # {} /\ busy = {}

\* The outage of the open alert lapses: EvaluateRetry counts the failures again
\* when max_retries was raised during it.
Lapsed == [i \in DOMAIN alerts |-> IF i \in Open THEN [alerts[i] EXCEPT !.lapses = @ + 1]
                                   ELSE alerts[i]]

\* A check is committed, with any status EvaluateRetry may give after the last.
RecordHeartbeat(r) ==
    /\ At(r, "idle")
    /\ \E s \in {"UP", "DOWN", "PENDING", "MAINTENANCE"} :
          LET lapse == s = "PENDING" /\ status = "DOWN"
          IN /\ s = "MAINTENANCE" <=> maint
             /\ s = "DOWN" => RowLeft
             /\ lapse => \A i \in Open : alerts[i].lapses < MaxLapses
             /\ status' = s
             /\ alerts' = IF lapse THEN Lapsed ELSE alerts
             /\ job' = [job EXCEPT ![r] =
                          [pc |-> "dispatch", cur |-> s, prev |-> status, alert |-> 0]]
    /\ alone' = (alone /\ \A q \in Recorders : At(q, "idle"))
    /\ UNCHANGED <<maint, throttle, elapses, failures>>

\* The switch of OnHeartbeat; the first heartbeat follows an implied UP.
Branch(cur, prev) ==
    CASE cur = "DOWN" /\ prev # "DOWN" -> "reserve"
      [] cur = "UP"   /\ prev = "DOWN" -> "find"
      [] cur = "DOWN" /\ prev = "DOWN" -> "pending"
      [] OTHER -> "idle"

\* Nothing happens inside a window, nor for a status without consequence.
OnHeartbeat(r) ==
    /\ At(r, "dispatch")
    /\ LET next == Branch(job[r].cur, job[r].prev)
       IN IF maint \/ next = "idle" THEN Return(r) ELSE Goto(r, next)
    /\ UNCHANGED <<status, maint, alerts, throttle, elapses, failures, alone>>

-----------------------------------------------------------------------------
(* DOWN after something else: reserve, open, send, mark.                   *)

\* Reserve with interval 0 always succeeds and stamps the attempt.
ReserveAttempt(r) ==
    /\ \/ At(r, "reserve") /\ Goto(r, "open")
       \/ At(r, "again") /\ Goto(r, "send")
    /\ throttle' = "within"
    /\ UNCHANGED <<status, maint, alerts, elapses, failures, alone>>

NewAlert == [status |-> "firing", initial |-> FALSE, pages |-> 0, late |-> 0, lapses |-> 0]

\* OpenOnDown looks first: the open alert is returned as it is, acknowledged or not.
LookUpOpen(r) ==
    /\ At(r, "open")
    /\ IF Open # {} THEN GotoWith(r, "send", OpenId) ELSE Goto(r, "create")
    /\ UNCHANGED <<status, maint, alerts, throttle, elapses, failures, alone>>

\* Mutant of CreateAlert: the conflict is an error, and the page goes without an alert.
CreateOrGiveUp(r) ==
    /\ At(r, "create")
    /\ \/ /\ Open = {} /\ Len(alerts) < MaxAlerts
          /\ alerts' = Append(alerts, NewAlert)
          /\ GotoWith(r, "send", Len(alerts) + 1)
       \/ /\ Open # {}
          /\ GotoWith(r, "send", 0) /\ UNCHANGED alerts
    /\ UNCHANGED <<status, maint, throttle, elapses, failures, alone>>

\* Create: the insert, which open_monitor_id refuses when another recorder's row
\* is open by now.
CreateAlert(r) ==
    /\ At(r, "create")
    /\ \/ /\ Open = {} /\ Len(alerts) < MaxAlerts
          /\ alerts' = Append(alerts, NewAlert)
          /\ GotoWith(r, "send", Len(alerts) + 1)
       \/ /\ Open # {}
          /\ Goto(r, "reread") /\ UNCHANGED alerts
    /\ UNCHANGED <<status, maint, throttle, elapses, failures, alone>>

\* The race is lost: the winner's row is read, and if it is resolved by now the
\* page goes without an alert.
RereadOpen(r) ==
    /\ At(r, "reread")
    /\ GotoWith(r, "send", OpenId)
    /\ UNCHANGED <<status, maint, alerts, throttle, elapses, failures, alone>>

OpenOnDown(r) == LookUpOpen(r) \/ CreateAlert(r) \/ RereadOpen(r)

OneMore(n) == IF n < PageCap THEN n + 1 ELSE n

\* An alert once a page of it has left.
AfterPage(a) ==
    [a EXCEPT !.pages = OneMore(@), !.late = IF a.status = "acked" THEN OneMore(@) ELSE @]

\* Provider errors are logged, so an attempt counts as a page.
Dispatch(r) ==
    /\ At(r, "send")
    /\ IF job[r].alert = 0
       THEN Return(r) /\ UNCHANGED alerts
       ELSE /\ Goto(r, "mark")
            /\ alerts' = [alerts EXCEPT ![job[r].alert] = AfterPage(@)]
    /\ UNCHANGED <<status, maint, throttle, elapses, failures, alone>>

MarkInitialNotified(r) ==
    /\ At(r, "mark")
    /\ alerts' = [alerts EXCEPT ![job[r].alert].initial = TRUE]
    /\ Return(r)
    /\ UNCHANGED <<status, maint, throttle, elapses, failures, alone>>

-----------------------------------------------------------------------------
(* UP after DOWN: resolve the open alert, say so, forget the throttle.     *)

\* Mutant of FindOpen: an acknowledged alert is not looked for.
FindsFiring(r) ==
    /\ At(r, "find")
    /\ IF \E i \in Open : alerts[i].status = "firing"
       THEN GotoWith(r, "resolve", OpenId)
       ELSE Goto(r, "recover")
    /\ UNCHANGED <<status, maint, alerts, throttle, elapses, failures, alone>>

FindOpen(r) ==
    /\ At(r, "find")
    /\ GotoWith(r, IF Open = {} THEN "recover" ELSE "resolve", OpenId)
    /\ UNCHANGED <<status, maint, alerts, throttle, elapses, failures, alone>>

\* AlertStore.Update: only an open row changes, and its throttle goes with it.
ResolveOpen(r) ==
    /\ At(r, "resolve")
    /\ IF job[r].alert \in Open
       THEN /\ alerts' = [alerts EXCEPT ![job[r].alert].status = "resolved"]
            /\ throttle' = "none"
       ELSE UNCHANGED <<alerts, throttle>>
    /\ Goto(r, "recover")
    /\ UNCHANGED <<status, maint, elapses, failures, alone>>

DispatchRecovery(r) ==
    /\ At(r, "recover")
    /\ Goto(r, "forget")
    /\ UNCHANGED <<status, maint, alerts, throttle, elapses, failures, alone>>

Forget(r) ==
    /\ At(r, "forget")
    /\ throttle' = "none"
    /\ Return(r)
    /\ UNCHANGED <<status, maint, alerts, elapses, failures, alone>>

-----------------------------------------------------------------------------
(* DOWN after DOWN: a first page that was never sent, or a repetition.     *)

\* Mutant of PendingInitial: the first page is never looked for.
ForgetsInitial(i) == FALSE

PendingInitial(i) == alerts[i].status = "firing" /\ ~alerts[i].initial

SendLostInitial(r) ==
    /\ At(r, "pending")
    /\ IF \E i \in Open : PendingInitial(i)
       THEN GotoWith(r, "again", OpenId)
       ELSE Goto(r, "acked")
    /\ UNCHANGED <<status, maint, alerts, throttle, elapses, failures, alone>>

CheckAcked(r) ==
    /\ At(r, "acked")
    /\ IF Resend /\ ~\E i \in Open : alerts[i].status = "acked"
       THEN Goto(r, "resend")
       ELSE Return(r)
    /\ UNCHANGED <<status, maint, alerts, throttle, elapses, failures, alone>>

\* Reserve with the resend interval: the row is locked, checked and stamped.
ReserveResend(r) ==
    /\ At(r, "resend")
    /\ IF throttle = "within"
       THEN Return(r) /\ UNCHANGED throttle
       ELSE Goto(r, "open") /\ throttle' = "within"
    /\ UNCHANGED <<status, maint, alerts, elapses, failures, alone>>

-----------------------------------------------------------------------------
(* The rest of the world.                                                  *)

IntervalPasses ==
    /\ throttle = "within" /\ elapses < MaxElapses
    /\ throttle' = "past" /\ elapses' = elapses + 1
    /\ UNCHANGED <<status, maint, alerts, job, failures, alone>>

Acknowledge ==
    /\ \E i \in Open :
          /\ alerts[i].status = "firing"
          /\ alerts' = [alerts EXCEPT ![i].status = "acked"]
    /\ UNCHANGED <<status, maint, throttle, job, elapses, failures, alone>>

ToggleMaintenance ==
    /\ Windows
    /\ maint' = ~maint /\ alone' = FALSE
    /\ UNCHANGED <<status, alerts, throttle, job, elapses, failures>>

\* A failed query is logged and OnHeartbeat goes on: it alerts inside a window, pages
\* without an alert, reports a recovery it did not store, resends without the check.
QueryFails(r) ==
    /\ failures < MaxFailures
    /\ failures' = failures + 1
    /\ \/ /\ At(r, "dispatch") /\ Branch(job[r].cur, job[r].prev) # "idle"
          /\ Goto(r, Branch(job[r].cur, job[r].prev))
       \/ job[r].pc \in {"open", "create", "reread"} /\ GotoWith(r, "send", 0)
       \/ job[r].pc \in {"find", "resolve"} /\ GotoWith(r, "recover", 0)
       \/ At(r, "pending") /\ Goto(r, "acked")
       \/ At(r, "acked") /\ Resend /\ Goto(r, "resend")
    /\ UNCHANGED <<status, maint, alerts, throttle, elapses, alone>>

\* The process stops, or a failed write ends OnHeartbeat.
Crash(r) ==
    /\ ~At(r, "idle") /\ failures < MaxFailures
    /\ failures' = failures + 1
    /\ Return(r)
    /\ UNCHANGED <<status, maint, alerts, throttle, elapses, alone>>

Step(r) ==
    \/ OnHeartbeat(r) \/ ReserveAttempt(r) \/ OpenOnDown(r) \/ Dispatch(r)
    \/ MarkInitialNotified(r) \/ FindOpen(r) \/ ResolveOpen(r) \/ DispatchRecovery(r)
    \/ Forget(r) \/ SendLostInitial(r) \/ CheckAcked(r) \/ ReserveResend(r)

DispatchNext ==
    \/ \E r \in Recorders : RecordHeartbeat(r) \/ Step(r) \/ QueryFails(r) \/ Crash(r)
    \/ IntervalPasses \/ Acknowledge \/ ToggleMaintenance

DispatchSpec == DispatchInit /\ [][DispatchNext]_dispatchVars

\* The scheduler checks the monitor every interval, and a recorder that does not
\* stop gets through OnHeartbeat.
FairDispatchSpec ==
    /\ DispatchSpec
    /\ \A r \in Recorders : WF_dispatchVars(RecordHeartbeat(r)) /\ WF_dispatchVars(Step(r))

-----------------------------------------------------------------------------
(* Properties.                                                             *)

Resting == \A r \in Recorders : At(r, "idle")

\* The lifecycle comment of the dispatcher: with no recorder at work and nothing
\* having failed, a DOWN monitor has an open alert, and a monitor that is not DOWN
\* has none but one whose outage lapsed into PENDING: the UP after that matches no
\* branch of OnHeartbeat.
AlertFollowsStatus ==
    Resting /\ failures = 0 =>
        /\ status = "DOWN" => Open # {}
        /\ \A i \in Open : status = "DOWN" \/ alerts[i].lapses > 0

Ended == \E i \in DOMAIN alerts : alerts[i].status = "resolved"

\* Recorders that open the same outage share its row ("A UNIQUE conflict on
\* open_monitor_id (two workers opening the same outage) is recovered by
\* re-reading the winner's row", OpenOnDown): one alert is open, and a page leaves
\* without one only after a fault or once an alert was resolved under the race.
OpenRaceRecovered ==
    /\ \A i, k \in Open : i = k
    /\ \A r \in Recorders :
          At(r, "send") /\ job[r].alert = 0 => failures > 0 \/ Ended

\* Resends come at most once per interval and a first page is repeated only after
\* a failure, so an alert is paged at most once, and once for every interval, fault
\* and lapse.
PagesAreSpaced ==
    \A i \in DOMAIN alerts : alerts[i].pages <= 1 + elapses + failures + alerts[i].lapses

\* Of an acknowledged alert only the page already past its check goes out; a
\* recovery lost to a fault or a lapse lets the next outage page once more.
AckBoundsPaging ==
    \A i \in DOMAIN alerts : alerts[i].late <= 1 + failures + alerts[i].lapses

\* While recorders come one after the other, as the checks of the owning worker do,
\* and no window covers the monitor, OnHeartbeat keeps its word: the open alert
\* follows the status unless a lapse or a fault kept it, a page beyond the first is
\* explained by a resend interval, a lapse or a fault, and after the acknowledgement
\* only the page already past its check goes out.
OwnerIsFaithful == alone => AlertFollowsStatus /\ PagesAreSpaced /\ AckBoundsPaging

Unsent(i) == alerts[i].status = "firing" /\ ~alerts[i].initial

\* Crash safety of the first page: while the monitor stays DOWN outside windows, an
\* open alert whose first page was never attempted is paged or acknowledged.
InitialPageSent ==
    <>[](status = "DOWN" /\ ~maint) => []<>(\A i \in DOMAIN alerts : ~Unsent(i))

=============================================================================
