------------------------------ MODULE Watchdog ------------------------------
(***************************************************************************)
(* The connection watchdog of one peer: the owner that receives health    *)
(* samples and ticks (core/services/probe_watchdog_runtime.go), the timer *)
(* on the monotonic clock (probe_watchdog_timer.go), the source that turns *)
(* an evaluation into a proposal (probe_watchdog_source.go) and the fenced *)
(* commit of the checkpoint, the incident and its pages                    *)
(* (adapters/repository/probe_watchdog.go; edge/watchdog.go is its twin).  *)
(*                                                                         *)
(* The process-local clock is now - origin.  Nothing but the owner writes  *)
(* the watchdog row; what can change between its read and its commit is    *)
(* the applied configuration, the session and the process itself.          *)
(***************************************************************************)
EXTENDS Integers, Sequences

CONSTANTS
  Suspect,       \* forty-five seconds, in ticks
  Losts,         \* the loss intervals an operator configures
  Recover,       \* RecoverAfterSeconds
  Resend,        \* ResendInterval; 0: no resends
  InboxLimit,    \* watchdogInboxLimit
  MaxTime, MaxGen, MaxRev, MaxFaults

ASSUME WatchdogAssumption ==
  /\ Losts \subseteq Nat \ {0} /\ Losts # {} /\ {Suspect, Recover, InboxLimit} \subseteq Nat \ {0}
  /\ {Resend, MaxTime, MaxGen, MaxRev, MaxFaults} \subseteq Nat

VARIABLES
  now,
  origin,     \* start of the process; -1 while none runs
  inbox,      \* generation, connected, queue and interrupt of the runtime
  pending,    \* the event Run holds on to until it is committed
  op,         \* the proposal between its read and its commit
  src,        \* the source's timer and the checkpoint it last saw committed
  row,        \* probe_watchdog_state and its incident
  cfg,        \* the applied configuration
  session,    \* the session row
  faults,
  ghost       \* observed: the run of healthy samples received and the one committed,
              \* the last health or arming that counts, pages of the incident

vars == <<now, origin, inbox, pending, op, src, row, cfg, session, faults, ghost>>

NoEvent == [kind |-> "none", at |-> 0, gen |-> 0, since |-> -1]
NoOp == [on |-> FALSE, rev |-> 0, valid |-> TRUE, timer |-> <<>>, next |-> <<>>, page |-> FALSE]
Zero == [armed |-> FALSE, loss |-> 0, pending |-> FALSE]
NoTimer == [on |-> FALSE]
Elapsed(t) == t - origin

Min2(a, b) == IF a < b THEN a ELSE b

Timing(lost) == [suspect |-> IF lost <= Suspect THEN lost \div 2 ELSE Suspect,
                 lost |-> lost, recover |-> Recover]

EmptyInbox == [gen |-> 0, connected |-> FALSE, queue |-> <<>>, interrupt |-> NoEvent]
NoSource == [timer |-> NoTimer, persisted |-> Zero]

NoRun == [since |-> -1, at |-> 0]

Init ==
  /\ now = 0 /\ origin = 0 /\ faults = 0
  /\ inbox = EmptyInbox /\ pending = NoEvent /\ op = NoOp /\ src = NoSource
  /\ row = [cp |-> Zero, status |-> "unarmed", incident |-> "none",
            started |-> 0, paged |-> -1]
  /\ cfg = [rev |-> 0, enabled |-> FALSE, lost |-> CHOOSE l \in Losts : TRUE]
  /\ session = [gen |-> 0, live |-> FALSE]
  /\ ghost = [since |-> -1, heard |-> -1, run |-> NoRun, known |-> 0, downs |-> 0, ups |-> 0]

-----------------------------------------------------------------------------
(* The timer. *)

RestoreTimer(timing, t, cp) ==
  [on |-> TRUE, timing |-> timing, armed |-> cp.armed, last |-> t, base |-> t,
   carried |-> Min2(cp.loss, timing.lost), healthy |-> -1, streak |-> -1,
   latest |-> FALSE, loss |-> cp.pending]

\* Health does not renew the deadline.
AgeFromStart(w, t) == Min2(t - w.base + w.carried, w.timing.lost)

Age(w, t) == IF w.healthy >= 0 THEN Min2(t - w.healthy, w.timing.lost)
                               ELSE Min2(t - w.base + w.carried, w.timing.lost)

\* An off-by-one: the age never exceeds the interval it is capped at.
LatchBeyond(w, t) == [w EXCEPT !.loss = @ \/ Age(w, t) > w.timing.lost]

LatchLoss(w, t) == [w EXCEPT !.loss = @ \/ Age(w, t) >= w.timing.lost]

Arm(w, t) == IF w.armed THEN w ELSE [w EXCEPT !.armed = TRUE, !.base = t]

Health(w, t, good) ==
  LET l == LatchLoss(w, t)
  IN IF ~good THEN [l EXCEPT !.latest = FALSE, !.streak = -1]
     ELSE [l EXCEPT !.streak = IF ~w.latest \/ @ < 0 \/ Age(w, t) >= w.timing.suspect THEN t ELSE @,
                    !.healthy = t, !.latest = TRUE]

\* The timer after Evaluate, the status and the action it proposes.
Evaluate(w, t, open) ==
  LET l == LatchLoss(w, t)
      ok == w.healthy >= 0 /\ w.latest /\ Age(w, t) < w.timing.suspect
      as(timer, status, action) == [timer |-> timer, status |-> status, action |-> action]
  IN IF open
     THEN LET c == [l EXCEPT !.loss = FALSE]
          IN IF ok /\ w.streak >= 0
             THEN IF w.healthy - w.streak >= w.timing.recover
                  THEN as(c, "healthy", "resolve") ELSE as(c, "recovering", "none")
             ELSE as(c, "lost", "none")
     ELSE IF l.loss THEN as(l, "lost", "open")
     ELSE IF ok THEN as(l, "healthy", "none")
     ELSE IF Age(w, t) >= w.timing.suspect \/ (w.healthy >= 0 /\ ~w.latest)
          THEN as(l, "suspect", "none")
     ELSE as(l, "starting", "none")

Checkpoint(w, t) == [armed |-> w.armed, loss |-> Age(w, t), pending |-> LatchLoss(w, t).loss]

-----------------------------------------------------------------------------
(* The runtime's inbox. *)

Same == UNCHANGED <<now, origin, cfg, faults>>

\* The connector adopted a newer session durably; Begin follows.
Adopt ==
  /\ session.gen < MaxGen
  /\ session' = [gen |-> session.gen + 1, live |-> TRUE]
  /\ UNCHANGED <<inbox, pending, op, src, row, ghost>> /\ Same

Cut(gen) == [kind |-> "cut", at |-> Elapsed(now), gen |-> gen, since |-> -1]

Begin ==
  /\ origin >= 0 /\ session.live /\ session.gen > inbox.gen
  /\ inbox' = [gen |-> session.gen, connected |-> TRUE, queue |-> <<>>, interrupt |-> Cut(session.gen)]
  /\ ghost' = [ghost EXCEPT !.since = -1, !.heard = -1]
  /\ UNCHANGED <<session, pending, op, src, row>> /\ Same

\* The connector releases the session row afterwards, before or after a commit.
End ==
  /\ origin >= 0 /\ inbox.connected
  /\ inbox' = [inbox EXCEPT !.connected = FALSE, !.queue = <<>>, !.interrupt = Cut(0)]
  /\ session' \in {session, [session EXCEPT !.live = @ /\ session.gen # inbox.gen]}
  /\ ghost' = [ghost EXCEPT !.since = -1, !.heard = -1]
  /\ UNCHANGED <<pending, op, src, row>> /\ Same

\* The start of the run of healthy samples a sample received now belongs to.
RunStart == IF ghost.since >= 0 /\ Elapsed(now) - ghost.heard < Suspect
            THEN ghost.since ELSE Elapsed(now)

\* A full inbox refuses the sample; the session that brought it then ends.
Admit ==
  /\ origin >= 0 /\ inbox.connected /\ Len(inbox.queue) < InboxLimit
  /\ \E kind \in {"healthy", "degraded"} :
       /\ inbox' = [inbox EXCEPT !.queue = Append(@, [kind |-> kind, at |-> Elapsed(now),
            gen |-> inbox.gen, since |-> IF kind = "healthy" THEN RunStart ELSE -1])]
       /\ ghost' = IF kind = "healthy"
                   THEN [ghost EXCEPT !.since = RunStart, !.heard = Elapsed(now)]
                   ELSE [ghost EXCEPT !.since = -1, !.heard = -1]
  /\ UNCHANGED <<session, pending, op, src, row>> /\ Same

Current(e) == e.gen = 0 \/ (inbox.connected /\ e.gen = inbox.gen)

\* next: the interruption, then the queue, then a tick.
Take ==
  /\ origin >= 0 /\ ~op.on /\ (pending.kind = "none" \/ ~Current(pending))
  /\ IF inbox.interrupt.kind # "none"
     THEN pending' = inbox.interrupt /\ inbox' = [inbox EXCEPT !.interrupt = NoEvent]
     ELSE IF inbox.queue # <<>>
     THEN pending' = Head(inbox.queue) /\ inbox' = [inbox EXCEPT !.queue = Tail(@)]
     ELSE pending' = [kind |-> "tick", at |-> Elapsed(now), gen |-> 0, since |-> -1] /\ UNCHANGED inbox
  /\ UNCHANGED <<op, src, row, session, ghost>> /\ Same

-----------------------------------------------------------------------------
(* The source. *)

Open == row.incident = "firing"

\* The record disabling proposes: no health is invented and nobody is paged.
Disabled(t) ==
  [on |-> TRUE, rev |-> cfg.rev, valid |-> TRUE, page |-> FALSE,
   timer |-> RestoreTimer(Timing(cfg.lost), t, Zero),
   next |-> [row EXCEPT !.cp = Zero, !.status = "unarmed",
                        !.incident = IF Open THEN "resolved" ELSE row.incident]]

\* A new process, new timings or an unexpected checkpoint start from the row.
BaseTimer(t) ==
  IF ~src.timer.on \/ src.timer.timing # Timing(cfg.lost) \/ row.cp # src.persisted
  THEN RestoreTimer(Timing(cfg.lost), t, row.cp) ELSE src.timer

ValidCommit(cp, status, open) ==
  /\ status = "unarmed" => ~cp.armed /\ ~open
  /\ status \in {"starting", "healthy", "suspect"} => cp.armed /\ ~open /\ ~cp.pending
  /\ status \in {"lost", "recovering"} => cp.armed /\ open

Advance(w, t) == [w EXCEPT !.last = t]

Sampled(e) ==
  LET w == Arm(Advance(BaseTimer(e.at), e.at), e.at)
  IN IF e.kind = "tick" THEN w ELSE Health(w, e.at, e.kind = "healthy")

\* The record for an evaluation r and the checkpoint cp taken after it.
Record(e, r, cp) ==
  LET inc == IF r.action = "open" THEN "firing"
             ELSE IF r.action = "resolve" THEN "resolved" ELSE row.incident
      page == \/ r.action # "none"
              \/ /\ r.status = "lost" /\ Open /\ Resend > 0
                 /\ (row.paged < 0 \/ origin + e.at - row.paged >= Resend)
  IN [on |-> TRUE, rev |-> cfg.rev, page |-> page,
      valid |-> e.at >= BaseTimer(e.at).last /\ ValidCommit(cp, r.status, inc = "firing"),
      timer |-> [r.timer EXCEPT !.loss = cp.pending],
      next |-> [cp |-> cp, status |-> r.status, incident |-> inc,
                started |-> IF r.action = "open" THEN origin + e.at ELSE row.started,
                paged |-> IF page THEN origin + e.at ELSE row.paged]]

\* step: no configuration yet counts as progress, a stale event is dropped.
Propose ==
  /\ origin >= 0 /\ ~op.on /\ pending.kind # "none" /\ Current(pending)
  /\ \/ cfg.rev = 0 /\ pending' = NoEvent /\ UNCHANGED op
     \/ cfg.rev > 0 /\ ~cfg.enabled /\ op' = Disabled(pending.at) /\ UNCHANGED pending
     \/ /\ cfg.rev > 0 /\ cfg.enabled
        /\ \E w \in {Sampled(pending)} : \E r \in {Evaluate(w, pending.at, Open)} :
             \E cp \in {Checkpoint(r.timer, pending.at)} : op' = Record(pending, r, cp)
        /\ UNCHANGED pending
  /\ UNCHANGED <<inbox, src, row, session, ghost>> /\ Same

MayCommit ==
  /\ op.valid /\ cfg.rev = op.rev
  /\ pending.gen = 0 \/ (session.live /\ session.gen = pending.gen)

Opens == op.next.incident = "firing" /\ row.incident # "firing"

\* The run of healthy samples an event stands on: a tick on the one committed last.
RunOf(e) == IF e.kind = "tick" THEN ghost.run
            ELSE IF e.kind = "healthy" THEN [since |-> e.since, at |-> e.at] ELSE NoRun

\* Line 105 compares checkpoints, not versions: a source that holds an armed timer
\* may go on with it after a disabling and an arming it was not told of.
Holding == src.timer.on /\ src.timer.armed

Counts(told) == \/ told /\ pending.kind = "healthy"
                \/ ~row.cp.armed /\ (told \/ ~Holding)

Observed(told) ==
  [ghost EXCEPT
     !.known = IF Counts(told) THEN origin + pending.at ELSE @,
     !.run = IF told /\ pending.kind # "tick" THEN RunOf(pending) ELSE @,
     !.downs = IF Opens THEN 1 ELSE IF op.page /\ op.next.incident = "firing" THEN @ + 1 ELSE @,
     !.ups = IF Opens THEN 0 ELSE IF op.page /\ op.next.incident = "resolved" THEN @ + 1 ELSE @]

Commit ==
  /\ op.on /\ MayCommit
  /\ row' = op.next /\ ghost' = Observed(TRUE)
  /\ src' = [timer |-> op.timer, persisted |-> op.next.cp]
  /\ op' = NoOp /\ pending' = NoEvent
  /\ UNCHANGED <<inbox, session>> /\ Same

\* The transaction committed and the owner was told it failed.
CommitUnknown ==
  /\ op.on /\ MayCommit /\ faults < MaxFaults
  /\ row' = op.next /\ ghost' = Observed(FALSE) /\ op' = NoOp /\ faults' = faults + 1
  /\ UNCHANGED <<now, origin, inbox, pending, src, cfg, session>>

\* A refused or failed transaction; the event is retried as long as it is current.
CommitFails ==
  /\ op.on /\ ~MayCommit
  /\ op' = NoOp
  /\ UNCHANGED <<inbox, pending, src, row, session, ghost>> /\ Same

-----------------------------------------------------------------------------
(* The environment. *)

Apply ==
  /\ cfg.rev < MaxRev
  /\ \E e \in BOOLEAN, l \in Losts :
       cfg' = [rev |-> cfg.rev + 1, enabled |-> e \/ cfg.rev = 0, lost |-> l]
  /\ UNCHANGED <<now, origin, inbox, pending, op, src, row, session, faults, ghost>>

Stop ==
  /\ origin >= 0 /\ faults < MaxFaults
  /\ origin' = -1 /\ inbox' = EmptyInbox /\ pending' = NoEvent /\ op' = NoOp /\ src' = NoSource
  /\ ghost' = [ghost EXCEPT !.since = -1, !.heard = -1, !.run = NoRun] /\ faults' = faults + 1
  /\ session' = [session EXCEPT !.live = FALSE]
  /\ UNCHANGED <<now, row, cfg>>

Start ==
  /\ origin < 0 /\ origin' = now
  /\ UNCHANGED <<now, inbox, pending, op, src, row, cfg, session, faults, ghost>>

Tick ==
  /\ now < MaxTime /\ now' = now + 1
  /\ UNCHANGED <<origin, inbox, pending, op, src, row, cfg, session, faults, ghost>>

Next ==
  \/ Adopt \/ Begin \/ End \/ Admit \/ Take \/ Propose
  \/ Commit \/ CommitUnknown \/ CommitFails \/ Apply \/ Stop \/ Start \/ Tick

Spec == Init /\ [][Next]_vars

\* Run loops until its context ends, and a deployment restarts its process.
FairSpec ==
  /\ Spec
  /\ WF_vars(Take) /\ WF_vars(Propose) /\ WF_vars(Commit) /\ WF_vars(CommitFails)
  /\ WF_vars(Begin) /\ WF_vars(Start) /\ WF_vars(Tick)

-----------------------------------------------------------------------------

TypeOK ==
  /\ now \in 0..MaxTime /\ origin \in -1..MaxTime
  /\ Len(inbox.queue) <= InboxLimit
  /\ row.status \in {"unarmed", "starting", "healthy", "suspect", "lost", "recovering"}
  /\ row.incident \in {"none", "firing", "resolved"}
  /\ row.cp.loss \in 0..MaxTime

\* Step: an event the store refuses as invalid is retried for ever and stalls the
\* owner, so no order of events, restarts and settings may produce one.
NeverWedged == op.on => op.valid

\* RestoreProbeWatchdogTimer and Age: a loss is reported only after the configured
\* interval without a healthy sample the owner knows to be committed, and not
\* sooner than that after an arming it knows of, however often the owner restarted
\* and however the interval was changed.
OpensAfterLoss == op.on /\ MayCommit /\ Opens => origin + pending.at - ghost.known >= cfg.lost

\* Evaluate, Begin and End: a loss is over only when samples of one unbroken
\* session, none of them degraded and without a suspicious gap, span the
\* recovery interval.
RecoversAfterStreak ==
  op.on /\ MayCommit /\ cfg.enabled /\ Open /\ op.next.incident = "resolved"
    => \E run \in {RunOf(pending)} :
         /\ run.since >= 0 /\ run.at - run.since >= Recover
         /\ pending.at - run.at < Suspect

\* CommitWatchdog: the pages of a transition are committed with it, so neither a
\* restart nor a commit whose outcome was lost pages twice.
OnePagePerTransition ==
  /\ ghost.ups <= 1
  /\ ghost.downs <= 1 + (IF Resend = 0 THEN 0 ELSE (now - row.started) \div Resend)

\* What the watchdog reports is earned: a loss by silence, a recovery by an
\* unbroken streak, each with one page, and no event stalls it (Step, CommitWatchdog).
ReportsAreEarned ==
  NeverWedged /\ OpensAfterLoss /\ RecoversAfterStreak /\ OnePagePerTransition
=============================================================================
