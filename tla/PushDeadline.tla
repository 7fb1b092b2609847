---------------------------- MODULE PushDeadline ----------------------------
(***************************************************************************)
(* A push monitor under the local scheduler: pushes are recorded by the    *)
(* push endpoint as they arrive, and the scheduler records a DOWN when one *)
(* is overdue (core/services/push_deadline.go, scheduler/local.go,         *)
(* scheduler/push_arming.go).  Times are kept as ages in seconds.          *)
(***************************************************************************)
EXTENDS Integers

CONSTANTS
  Checks,       \* goroutines a monitor's checks may occupy at once
  Interval,     \* the monitor's interval
  Grace,        \* PushDeadlineGrace
  Jitter,       \* how late a pusher that keeps its interval may be
  OnTime,       \* TRUE: the pusher keeps its interval while it is armed
  MaxChanges,   \* bound: pauses, resumes, stops, starts, windows
  MaxPushes     \* bound: pushes

VARIABLES
  up,         \* the scheduler process runs
  active,     \* the monitor is enabled
  window,     \* a maintenance window is active
  rev,        \* the applied configuration's revision
  lastCheck,  \* age of the last started check
  armed,      \* age of the arming
  latest,     \* the latest heartbeat: its kind and its age
  pushAge,    \* age of the last attempt to push, or of the monitor's creation
  refused,    \* history: a push was refused since the monitor was armed
  check,      \* the checks in flight
  ticked,     \* the scheduler's ticker fired this second
  changes, pushes

vars == <<up, active, window, rev, lastCheck, armed, latest, pushAge, refused, check,
          ticked, changes, pushes>>

Never == -1
Deadline == Interval + Grace
Cap == Deadline + 2
(* A time that is set ages, up to the largest age told apart. *)
Older(n) == IF n = Never THEN Never ELSE IF n < Cap THEN n + 1 ELSE Cap
NoCheck == [at |-> "none"]
Row(kind) == [kind |-> kind, age |-> 0]

-----------------------------------------------------------------------------
(* The push endpoint records a push ... *)
Receive ==
  /\ active /\ pushes < MaxPushes
  /\ latest' = Row("push")
  /\ pushAge' = 0
  /\ pushes' = pushes + 1
  /\ UNCHANGED <<up, active, window, rev, lastCheck, armed, refused, check, changes, ticked>>

(* ... and refuses one for a disabled monitor; nothing keeps that it came. *)
Refuse ==
  /\ ~active /\ pushes < MaxPushes
  /\ pushAge' = 0
  /\ refused' = (armed # Never)
  /\ pushes' = pushes + 1
  /\ UNCHANGED <<up, active, window, rev, lastCheck, armed, latest, check, changes, ticked>>

(* observe: LoadOrStore keeps the first arming. *)
ArmedAt == IF armed = Never THEN 0 ELSE armed

(* observe's other half: a monitor that is not scheduled is disarmed.      *)
(* lastCheck is kept.                                                      *)
Disarm ==
  /\ up /\ ~active /\ ~ticked
  /\ ticked' = TRUE
  /\ armed' = Never
  /\ refused' = FALSE
  /\ UNCHANGED <<up, active, window, rev, lastCheck, latest, pushAge, check, changes, pushes>>

shouldRun == lastCheck = Never \/ lastCheck >= Interval

(* tick: arm, and start a check when the interval has passed. *)
SchedulerTick(c) ==
  /\ up /\ active /\ ~ticked
  /\ ticked' = TRUE
  /\ armed' = ArmedAt
  /\ IF shouldRun
     THEN /\ check[c] = NoCheck
          /\ lastCheck' = 0
          /\ check' = [check EXCEPT ![c] = [at |-> "slot", armed |-> ArmedAt, rev |-> rev]]
     ELSE UNCHANGED <<lastCheck, check>>
  /\ UNCHANGED <<up, active, window, rev, latest, pushAge, refused, changes, pushes>>

(* CommitLocalHeartbeat refuses the result of a superseded configuration. *)
Authorized(c) == check[c].rev = rev

Past(age) == age > Deadline

(* Mutant: the arming does not count. *)
SinceIgnoringArming(c, age) == age

(* The later of the reference and the arming. *)
Since(c, age) == IF age = Never \/ check[c].armed < age THEN check[c].armed ELSE age

(* EvaluatePushDeadline's reference: the latest row, whose stored time may *)
(* be truncated by up to a second; its own overdue row counts as long ago. *)
References == IF latest.kind = "missed" THEN {Never} ELSE {latest.age, latest.age + 1}

(* runCheck, with a slot: in a maintenance window record that and stop,    *)
(* otherwise decide whether the push is overdue.                           *)
RunCheck(c) ==
  /\ check[c].at = "slot"
  /\ IF window
     THEN /\ latest' = IF Authorized(c) THEN Row("maintenance") ELSE latest
          /\ check' = [check EXCEPT ![c] = NoCheck]
     ELSE /\ \E age \in References :
               check' = [check EXCEPT ![c] =
                 IF Past(Since(c, age)) THEN [@ EXCEPT !.at = "record"] ELSE NoCheck]
          /\ UNCHANGED latest
  /\ UNCHANGED <<up, active, window, rev, lastCheck, armed, pushAge, refused, changes, pushes,
                 ticked>>

(* Record the absence, on a context nothing cancels. *)
RecordMissed(c) ==
  /\ check[c].at = "record"
  /\ latest' = IF Authorized(c) THEN Row("missed") ELSE latest
  /\ check' = [check EXCEPT ![c] = NoCheck]
  /\ UNCHANGED <<up, active, window, rev, lastCheck, armed, pushAge, refused, changes, pushes,
                 ticked>>

-----------------------------------------------------------------------------
Changed == changes < MaxChanges /\ changes' = changes + 1

(* Pausing or resuming applies a new configuration.  A pause that ends     *)
(* before a tick of the scheduler saw it leaves the monitor armed.         *)
Pause ==
  /\ Changed
  /\ active' = ~active
  /\ rev' = rev + 1
  /\ UNCHANGED <<up, window, lastCheck, armed, latest, pushAge, refused, check, pushes, ticked>>

Maintenance ==
  /\ Changed
  /\ window' = ~window
  /\ UNCHANGED <<up, active, rev, lastCheck, armed, latest, pushAge, refused, check, pushes, ticked>>

(* The process stops, and its memory with it; a start begins with none.    *)
Restart ==
  /\ Changed
  /\ up' = ~up
  /\ armed' = Never
  /\ refused' = FALSE
  /\ lastCheck' = Never
  /\ check' = [c \in Checks |-> NoCheck]
  /\ UNCHANGED <<active, window, rev, latest, pushAge, pushes, ticked>>

(* A pusher that keeps its interval pushes before a second more would make *)
(* it late, counted from the later of its last attempt and the arming,     *)
(* whether the monitor is paused or not.  The scheduler's ticker fires     *)
(* every second.                                                           *)
Tick ==
  /\ up => ticked
  /\ ticked' = FALSE
  /\ (OnTime /\ armed # Never) =>
       (pushAge < Interval + Jitter \/ armed < Interval + Jitter)
  /\ lastCheck' = Older(lastCheck)
  /\ armed' = Older(armed)
  /\ latest' = [latest EXCEPT !.age = Older(@)]
  /\ pushAge' = Older(pushAge)
  /\ check' = [c \in Checks |->
       IF check[c] = NoCheck THEN NoCheck ELSE [check[c] EXCEPT !.armed = Older(@)]]
  /\ UNCHANGED <<up, active, window, rev, refused, changes, pushes>>

-----------------------------------------------------------------------------
Init ==
  /\ up = TRUE /\ active = TRUE /\ window = FALSE
  /\ rev = 0
  /\ lastCheck = Never /\ armed = Never
  /\ latest = Row("none")
  /\ pushAge = 0 /\ refused = FALSE
  /\ check = [c \in Checks |-> NoCheck]
  /\ ticked = FALSE
  /\ changes = 0 /\ pushes = 0

Scheduler ==
  \/ Disarm
  \/ \E c \in Checks : SchedulerTick(c)

Next ==
  \/ Receive \/ Refuse \/ Scheduler \/ Pause \/ Maintenance \/ Restart \/ Tick
  \/ \E c \in Checks : RunCheck(c) \/ RecordMissed(c)

Spec == Init /\ [][Next]_vars

(* The second ticker fires, slots are released, and time passes. *)
LiveSpec ==
  /\ Spec
  /\ WF_vars(Tick) /\ WF_vars(Scheduler)
  /\ \A c \in Checks : WF_vars(RunCheck(c) \/ RecordMissed(c))

-----------------------------------------------------------------------------
(* Properties *)

TypeOK ==
  /\ latest.kind \in {"none", "push", "missed", "maintenance"}
  /\ latest.age \in 0..Cap /\ pushAge \in 0..Cap
  /\ armed \in Never..Cap /\ lastCheck \in Never..Cap
=============================================================================
