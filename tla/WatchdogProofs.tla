--------------------------- MODULE WatchdogProofs ---------------------------
(***************************************************************************)
(* Proofs about Watchdog, for any loss, recovery and resend intervals, any *)
(* inbox limit and any number of sessions, settings, restarts and commits  *)
(* whose reply was lost: what the watchdog reports is earned.              *)
(*                                                                         *)
(* A sample is followed from its reception through the inbox and the owner *)
(* to the timer.  The invariant says what each stage keeps of it, the      *)
(* lemmas on the timer what a proposal may be, and one lemma per action    *)
(* that the stages stay in order.                                          *)
(***************************************************************************)
EXTENDS Watchdog, TLAPS

(* The invariant. *)

Kinds == {"cut", "tick", "healthy", "degraded"}
Events == [kind : Kinds, at : Nat, gen : Nat, since : Int]
Some(e) == e.kind # "none"
Timings == {Timing(l) : l \in Losts}
Timers == [on : {TRUE}, timing : Timings, armed : BOOLEAN, last : Nat, base : Nat,
           carried : Nat, healthy : Int, streak : Int, latest : BOOLEAN, loss : BOOLEAN]
Checkpoints == [armed : BOOLEAN, loss : Nat, pending : BOOLEAN]
Runs == [since : Int, at : Int]

Types ==
  /\ now \in Nat /\ origin \in Int /\ -1 <= origin /\ origin <= now
  /\ inbox \in [gen : Nat, connected : BOOLEAN, queue : Seq(Events), interrupt : Events \cup {NoEvent}]
  /\ pending \in Events \cup {NoEvent}
  /\ src = NoSource \/ src \in [timer : Timers, persisted : Checkpoints]
  /\ row \in [cp : Checkpoints,
              status : {"unarmed", "starting", "healthy", "suspect", "lost", "recovering"},
              incident : {"none", "firing", "resolved"}, started : Nat, paged : Int]
  /\ cfg \in [rev : Nat, enabled : BOOLEAN, lost : Losts]
  /\ session \in [gen : Nat, live : BOOLEAN]
  /\ ghost \in [since : Int, heard : Int, run : Runs, known : Int, downs : Nat, ups : Nat]

\* No process, nothing in memory.
Asleep ==
  origin < 0 => /\ inbox = EmptyInbox /\ pending = NoEvent /\ op = NoOp /\ src = NoSource
                /\ ghost.since = -1 /\ ghost.heard = -1

\* The bounds of a timer read at t.
Sound(w, t) ==
  /\ w.last <= t /\ w.base <= t /\ w.healthy <= t /\ -1 <= w.healthy
  /\ w.latest => w.healthy >= 0
  /\ ~w.armed => w.healthy = -1 /\ w.streak = -1 /\ w.carried = 0 /\ ~w.loss

\* The source's timer is the one of the checkpoint it saw committed.
SourceIsSound ==
  src.timer.on =>
    /\ Sound(src.timer, src.timer.last) /\ cfg.rev > 0
    /\ src.timer.armed <=> src.persisted.armed
    /\ src.timer.loss <=> src.persisted.pending

\* An unarmed row carries no loss, and a pending loss has its incident.
RowIsSound ==
  /\ ~row.cp.armed => row.cp = Zero
  /\ row.incident # "firing" => ~row.cp.pending

\* What waits belongs to the session; an event of an older one is about to be dropped.
InboxIsCurrent ==
  /\ Some(inbox.interrupt) => inbox.interrupt.kind = "cut" /\ Current(inbox.interrupt)
  /\ \A i \in 1..Len(inbox.queue) :
       inbox.queue[i].kind \in {"healthy", "degraded"} /\ Current(inbox.queue[i])
  /\ inbox.queue # <<>> => inbox.connected
  /\ Some(pending) /\ ~Current(pending) => Some(inbox.interrupt)

\* Nothing the owner still has to handle happened before v.
Before(v) ==
  /\ Some(pending) => v <= pending.at
  /\ Some(inbox.interrupt) => v <= inbox.interrupt.at
  /\ \A i \in 1..Len(inbox.queue) : v <= inbox.queue[i].at
  /\ v <= Elapsed(now)

\* The same for what is behind the event at hand.
AfterPending(v) ==
  /\ Some(inbox.interrupt) => v <= inbox.interrupt.at
  /\ \A i \in 1..Len(inbox.queue) : v <= inbox.queue[i].at
  /\ v <= Elapsed(now)

\* Timer, event at hand, interruption and queue are in the order of their times.
Ordered ==
  /\ src.timer.on => Before(src.timer.last)
  /\ Some(pending) => AfterPending(pending.at)
  /\ Some(inbox.interrupt) =>
       /\ \A i \in 1..Len(inbox.queue) : inbox.interrupt.at <= inbox.queue[i].at
       /\ inbox.interrupt.at <= Elapsed(now)
  /\ \A i \in 1..Len(inbox.queue) : inbox.queue[i].at <= Elapsed(now)
  /\ \A i, j \in 1..Len(inbox.queue) : i <= j => inbox.queue[i].at <= inbox.queue[j].at

\* The timer knows no health later than the last one that counts.
Grounded(w, known) ==
  /\ w.healthy >= 0 => known = origin + w.healthy
  /\ w.healthy < 0 => known + w.carried <= origin + w.base

\* A stored loss is no older than the silence since then, over restarts too.
KnownIsGrounded ==
  /\ ghost.known + row.cp.loss <= now
  /\ origin >= 0 => Before(ghost.known + row.cp.loss - origin)
  /\ Holding => Grounded(src.timer, ghost.known)

\* Where a run stands at each stage: its start and its last sample.
Mark(s, h) == [since |-> s, heard |-> h]
NoMark == Mark(-1, -1)
SourceMark == IF src.timer.on /\ src.timer.latest /\ src.timer.streak >= 0
              THEN Mark(src.timer.streak, src.timer.healthy) ELSE NoMark
EventMark(e) == IF e.kind = "healthy" THEN Mark(e.since, e.at) ELSE NoMark
PendingMark == IF pending.kind \in {"none", "tick"} THEN SourceMark ELSE EventMark(pending)
InboxMark == IF Some(inbox.interrupt) THEN NoMark ELSE PendingMark
LastMark == IF inbox.queue = <<>> THEN InboxMark ELSE EventMark(inbox.queue[Len(inbox.queue)])

\* A sample goes on with the run before it unless there is a gap.
Extends(e, m) ==
  e.kind = "healthy" =>
    /\ 0 <= e.since /\ e.since <= e.at
    /\ m.since >= 0 /\ e.at - m.heard < Suspect => e.since <= m.since

\* A run is the same one at every stage, from the timer back to its reception.
RunsAreUnbroken ==
  /\ SourceMark.since >= 0 =>
       /\ 0 <= ghost.run.since /\ ghost.run.since <= SourceMark.since
       /\ ghost.run.at = SourceMark.heard
  /\ Extends(pending, SourceMark)
  /\ inbox.queue # <<>> => Extends(inbox.queue[1], InboxMark)
  /\ \A i \in 2..Len(inbox.queue) : Extends(inbox.queue[i], EventMark(inbox.queue[i - 1]))
  /\ LastMark.since >= 0 =>
       /\ 0 <= ghost.since /\ ghost.since <= LastMark.since
       /\ LastMark.heard <= ghost.heard
  /\ origin >= 0 => ghost.since <= Elapsed(now) /\ ghost.heard <= Elapsed(now)

\* What the owner would propose now.
Result == Evaluate(Sampled(pending), pending.at, Open)
Proposal ==
  IF cfg.enabled THEN Record(pending, Result, Checkpoint(Result.timer, pending.at))
                 ELSE Disabled(pending.at)

\* Unless the settings changed, the proposal is the one the owner would make now.
ProposalIsFresh ==
  /\ op.on \/ op = NoOp
  /\ op.on => /\ origin >= 0 /\ Some(pending) /\ op.valid
              /\ op.rev \in Nat /\ 0 < op.rev /\ op.rev <= cfg.rev
              /\ op.rev = cfg.rev => op = Proposal

\* Pages of an open incident lie a resend interval apart.
PagesAreCounted ==
  /\ ghost.ups <= 1 /\ row.started <= now
  /\ IF Resend = 0 THEN ghost.downs <= 1 ELSE (ghost.downs - 1) * Resend <= now - row.started
  /\ row.incident = "firing" =>
       /\ ghost.ups = 0 /\ row.started <= row.paged /\ row.paged <= now
       /\ Resend > 0 => (ghost.downs - 1) * Resend <= row.paged - row.started

IInv ==
  /\ Types /\ Asleep /\ SourceIsSound /\ RowIsSound /\ InboxIsCurrent /\ Ordered
  /\ KnownIsGrounded /\ RunsAreUnbroken /\ ProposalIsFresh /\ PagesAreCounted

-----------------------------------------------------------------------------
(* The timer. *)

LEMMA TimingFacts ==
  ASSUME NEW l \in Losts
  PROVE  /\ l \in Nat /\ l >= 1
         /\ Timing(l).lost = l /\ Timing(l).recover = Recover
         /\ Timing(l).suspect \in Nat /\ Timing(l).suspect <= l /\ Timing(l).suspect <= Suspect
  BY WatchdogAssumption, SMT DEF Timing

LEMMA TimingsFacts ==
  ASSUME NEW g \in Timings
  PROVE  /\ g.lost \in Nat /\ g.lost >= 1 /\ g.recover = Recover
         /\ g.suspect \in Nat /\ g.suspect <= g.lost /\ g.suspect <= Suspect
  <1>1. PICK l \in Losts : g = Timing(l)
    BY DEF Timings
  <1> QED
    BY <1>1, TimingFacts

LEMMA TimerFields ==
  ASSUME NEW w \in Timers
  PROVE  /\ w.on = TRUE /\ w.timing \in Timings /\ w.armed \in BOOLEAN /\ w.last \in Nat
         /\ w.base \in Nat /\ w.carried \in Nat /\ w.healthy \in Int /\ w.streak \in Int
         /\ w.latest \in BOOLEAN /\ w.loss \in BOOLEAN
  BY DEF Timers

\* A restored timer.
Restored(w, g, t, cp) ==
  /\ w \in Timers /\ w.timing = g /\ w.armed = cp.armed /\ w.loss = cp.pending
  /\ w.last = t /\ w.base = t /\ w.healthy = -1 /\ w.streak = -1 /\ w.latest = FALSE
  /\ w.carried <= cp.loss /\ w.carried \in Nat

LEMMA RestoreFacts ==
  ASSUME NEW l \in Losts, NEW t \in Nat, NEW cp \in Checkpoints
  PROVE  Restored(RestoreTimer(Timing(l), t, cp), Timing(l), t, cp)
  <1>0. PICK w : w = RestoreTimer(Timing(l), t, cp)
    OBVIOUS
  <1>1. Timing(l) \in Timings
    BY DEF Timings
  <1>2. Timing(l).lost \in Nat
    BY TimingFacts
  <1>3. cp.armed \in BOOLEAN /\ cp.loss \in Nat /\ cp.pending \in BOOLEAN
    BY DEF Checkpoints
  <1>4. Min2(cp.loss, Timing(l).lost) \in Nat /\ Min2(cp.loss, Timing(l).lost) <= cp.loss
    BY <1>2, <1>3 DEF Min2
  <1>5. w \in Timers
    BY <1>0, <1>1, <1>3, <1>4 DEF RestoreTimer, Timers
  <1>6. Restored(w, Timing(l), t, cp)
    BY <1>0, <1>4, <1>5 DEF RestoreTimer, Restored
  <1> QED
    BY <1>0, <1>6

\* The age is the time since the last health, or since the base, capped.
LEMMA AgeFacts ==
  ASSUME NEW w \in Timers, NEW t \in Nat, Sound(w, t)
  PROVE  /\ Age(w, t) \in Nat /\ Age(w, t) <= w.timing.lost
         /\ w.healthy >= 0 => Age(w, t) <= t - w.healthy
         /\ w.healthy < 0 => Age(w, t) <= t - w.base + w.carried
         /\ w.healthy >= 0 /\ Age(w, t) < w.timing.lost => Age(w, t) = t - w.healthy
  <1>1. /\ w.base \in Nat /\ w.carried \in Nat /\ w.healthy \in Int /\ w.timing \in Timings
        /\ w.base <= t /\ w.healthy <= t
    BY TimerFields DEF Sound
  <1>2. w.timing.lost \in Nat
    BY <1>1, TimingsFacts
  <1>3. \A a \in Nat : /\ Min2(a, w.timing.lost) \in Nat /\ Min2(a, w.timing.lost) <= a
                       /\ Min2(a, w.timing.lost) <= w.timing.lost
                       /\ Min2(a, w.timing.lost) < w.timing.lost => Min2(a, w.timing.lost) = a
    BY <1>2 DEF Min2
  <1>4. CASE w.healthy >= 0
    <2>1. t - w.healthy \in Nat /\ Age(w, t) = Min2(t - w.healthy, w.timing.lost)
      BY <1>1, <1>4 DEF Age
    <2> QED
      BY <1>1, <1>3, <1>4, <2>1
  <1>5. CASE ~(w.healthy >= 0)
    <2>1. t - w.base + w.carried \in Nat /\ Age(w, t) = Min2(t - w.base + w.carried, w.timing.lost)
      BY <1>1, <1>5 DEF Age
    <2> QED
      BY <1>1, <1>3, <1>5, <2>1
  <1> QED
    BY <1>4, <1>5

\* LatchLoss sets one field.
LEMMA LatchFacts ==
  ASSUME NEW w \in Timers, NEW t \in Nat, Sound(w, t)
  PROVE  LET l == LatchLoss(w, t)
         IN /\ l \in Timers /\ l = [w EXCEPT !.loss = l.loss]
            /\ l.loss \in BOOLEAN
            /\ l.loss <=> w.loss \/ Age(w, t) >= w.timing.lost
  <1>1. w.loss \in BOOLEAN
    BY TimerFields
  <1>2. LatchLoss(w, t) = [w EXCEPT !.loss = (w.loss \/ Age(w, t) >= w.timing.lost)]
    BY DEF LatchLoss
  <1>3. ASSUME NEW b \in BOOLEAN
        PROVE  [w EXCEPT !.loss = b] \in Timers /\ [w EXCEPT !.loss = b].loss = b
    BY <1>3 DEF Timers
  <1>4. (w.loss \/ Age(w, t) >= w.timing.lost) \in BOOLEAN
    OBVIOUS
  <1> QED
    BY <1>1, <1>2, <1>3, <1>4, Zenon

\* The age does not look at the loss.
LEMMA AgeOfLatched ==
  ASSUME NEW w \in Timers, NEW b \in BOOLEAN, NEW t \in Nat
  PROVE  /\ Age([w EXCEPT !.loss = b], t) = Age(w, t)
         /\ Sound(w, t) /\ w.armed => Sound([w EXCEPT !.loss = b], t)
         /\ [w EXCEPT !.loss = b] \in Timers
  BY DEF Age, Timers, Sound

-----------------------------------------------------------------------------
(* The fields of the state. *)

Rows == [cp : Checkpoints,
         status : {"unarmed", "starting", "healthy", "suspect", "lost", "recovering"},
         incident : {"none", "firing", "resolved"}, started : Nat, paged : Int]

LEMMA EventFields ==
  ASSUME NEW e \in Events \cup {NoEvent}
  PROVE  /\ e.kind \in Kinds \cup {"none"} /\ e.at \in Nat /\ e.gen \in Nat /\ e.since \in Int
         /\ Some(e) => e \in Events /\ e.kind \in Kinds
  BY DEF Events, NoEvent, Some, Kinds

LEMMA RowFields ==
  ASSUME Types
  PROVE  /\ row.cp \in Checkpoints /\ row.cp.armed \in BOOLEAN /\ row.cp.loss \in Nat
         /\ row.cp.pending \in BOOLEAN /\ row.incident \in {"none", "firing", "resolved"}
         /\ row.started \in Nat /\ row.paged \in Int /\ row \in Rows
  BY DEF Types, Checkpoints, Rows

LEMMA GhostFields ==
  ASSUME Types
  PROVE  /\ ghost.since \in Int /\ ghost.heard \in Int /\ ghost.run.since \in Int
         /\ ghost.run.at \in Int /\ ghost.run \in Runs /\ ghost.known \in Int
         /\ ghost.downs \in Nat /\ ghost.ups \in Nat
  BY DEF Types, Runs

LEMMA OtherFields ==
  ASSUME Types
  PROVE  /\ now \in Nat /\ origin \in Int /\ -1 <= origin /\ origin <= now
         /\ pending \in Events \cup {NoEvent} /\ pending.at \in Nat /\ pending.since \in Int
         /\ pending.kind \in Kinds \cup {"none"}
         /\ cfg.rev \in Nat /\ cfg.enabled \in BOOLEAN /\ cfg.lost \in Losts
  <1>1. pending \in Events \cup {NoEvent}
    BY DEF Types
  <1> QED
    BY <1>1, EventFields DEF Types

LEMMA SourceFields ==
  ASSUME Types, src.timer.on
  PROVE  src.timer \in Timers /\ src.persisted \in Checkpoints
  BY DEF Types, NoSource, NoTimer

\* The timer a proposal starts from agrees with the row.
LEMMA BaseFacts ==
  ASSUME IInv, origin >= 0, Some(pending), NEW w, w = BaseTimer(pending.at)
  PROVE  /\ w \in Timers /\ w.timing = Timing(cfg.lost) /\ Sound(w, pending.at)
         /\ w.last <= pending.at
         /\ w.armed <=> row.cp.armed
         /\ w.loss <=> row.cp.pending
         /\ w.armed => Grounded(w, ghost.known)
         /\ w.latest /\ w.streak >= 0 => src.timer.on /\ w = src.timer
  <1>0. Types /\ SourceIsSound /\ RowIsSound /\ Ordered /\ KnownIsGrounded
    BY DEF IInv
  <1>1. pending.at \in Nat /\ cfg.lost \in Losts /\ row.cp \in Checkpoints /\ origin \in Int
    BY <1>0, OtherFields, RowFields
  <1>2. CASE ~src.timer.on \/ src.timer.timing # Timing(cfg.lost) \/ row.cp # src.persisted
    <2>1. w = RestoreTimer(Timing(cfg.lost), pending.at, row.cp)
      BY <1>2 DEF BaseTimer
    <2>2. /\ w \in Timers /\ w.timing = Timing(cfg.lost) /\ w.armed = row.cp.armed
          /\ w.loss = row.cp.pending
          /\ w.last = pending.at /\ w.base = pending.at /\ w.healthy = -1 /\ w.streak = -1
          /\ w.latest = FALSE /\ w.carried <= row.cp.loss /\ w.carried \in Nat
      <3>1. Restored(w, Timing(cfg.lost), pending.at, row.cp)
        BY <1>1, <2>1, RestoreFacts
      <3> QED
        BY <3>1 DEF Restored
    <2>3. ~w.armed => w.carried = 0 /\ ~w.loss
      <3>1. ~row.cp.armed => row.cp.loss = 0 /\ ~row.cp.pending
        BY <1>0 DEF RowIsSound, Zero
      <3> QED
        BY <2>2, <3>1
    <2>4. Sound(w, pending.at)
      BY <1>1, <2>2, <2>3 DEF Sound
    <2>5. ghost.known + row.cp.loss <= origin + pending.at
      <3>1. ghost.known + row.cp.loss - origin <= pending.at
        BY <1>0 DEF KnownIsGrounded, Before
      <3>2. ghost.known \in Int /\ row.cp.loss \in Nat
        BY <1>0, GhostFields, RowFields
      <3> QED
        BY <1>1, <3>1, <3>2
    <2>6. Grounded(w, ghost.known)
      <3>1. ghost.known \in Int /\ row.cp.loss \in Nat
        BY <1>0, GhostFields, RowFields
      <3> QED
        BY <1>1, <2>2, <2>5, <3>1 DEF Grounded
    <2> QED
      BY <1>1, <2>2, <2>4, <2>6
  <1>3. CASE src.timer.on /\ src.timer.timing = Timing(cfg.lost) /\ row.cp = src.persisted
    <2>1. w = src.timer
      BY <1>3 DEF BaseTimer
    <2>2. w \in Timers
      BY <1>0, <1>3, <2>1, SourceFields
    <2>3. w.last <= pending.at
      BY <1>0, <1>3, <2>1 DEF Ordered, Before
    <2>4. Sound(w, w.last)
      BY <1>0, <1>3, <2>1 DEF SourceIsSound
    <2>5. Sound(w, pending.at)
      <3>1. /\ w.last \in Nat /\ w.base \in Nat /\ w.healthy \in Int /\ w.base <= w.last
            /\ w.healthy <= w.last /\ -1 <= w.healthy
        BY <2>2, <2>4, TimerFields DEF Sound
      <3>2. w.base <= pending.at /\ w.healthy <= pending.at
        BY <1>1, <2>3, <3>1
      <3> QED
        BY <2>3, <2>4, <3>1, <3>2 DEF Sound
    <2>6. (w.armed <=> row.cp.armed) /\ (w.loss <=> row.cp.pending)
      BY <1>0, <1>3, <2>1 DEF SourceIsSound
    <2>7. w.armed => Grounded(w, ghost.known)
      BY <1>0, <1>3, <2>1 DEF KnownIsGrounded, Holding
    <2> QED
      BY <1>3, <2>1, <2>2, <2>3, <2>5, <2>6, <2>7
  <1> QED
    BY <1>2, <1>3

\* What counts for the age once the event is committed and the owner told.
Told == pending.kind = "healthy" \/ ~row.cp.armed
Heard == IF Told THEN origin + pending.at ELSE ghost.known

\* A timer with a running streak stands on the run of samples of the event.
OnRun(w) ==
  w.latest /\ w.streak >= 0 =>
    /\ 0 <= RunOf(pending).since /\ RunOf(pending).since <= w.streak
    /\ RunOf(pending).at = w.healthy
    /\ 0 <= PendingMark.since /\ PendingMark.since <= w.streak /\ PendingMark.heard = w.healthy

\* The timer after Arm: the base of an unarmed one is the event's time.
LEMMA ArmFacts ==
  ASSUME IInv, origin >= 0, Some(pending), NEW w, w = BaseTimer(pending.at),
         NEW v, v = Arm(Advance(w, pending.at), pending.at)
  PROVE  /\ v \in Timers /\ v.timing = Timing(cfg.lost) /\ Sound(v, pending.at)
         /\ v.armed /\ v.last = pending.at
         /\ v.loss <=> row.cp.pending
         /\ row.cp.armed => Grounded(v, ghost.known)
         /\ ~row.cp.armed => v.healthy = -1 /\ v.base = pending.at /\ v.carried = 0 /\ v.streak = -1
         /\ v.latest /\ v.streak >= 0 =>
              src.timer.on /\ src.timer.latest /\ v.streak = src.timer.streak /\ v.healthy = src.timer.healthy
  <1>2. /\ w \in Timers /\ w.timing = Timing(cfg.lost) /\ Sound(w, pending.at)
        /\ w.armed <=> row.cp.armed
        /\ w.loss <=> row.cp.pending
        /\ w.armed => Grounded(w, ghost.known)
        /\ w.latest /\ w.streak >= 0 => src.timer.on /\ w = src.timer
    BY BaseFacts
  <1>3. pending.at \in Nat
    BY OtherFields DEF IInv
  <1>4. w.armed \in BOOLEAN /\ w.loss \in BOOLEAN
    BY <1>2, TimerFields
  <1>5. CASE w.armed
    <2>1. v = [w EXCEPT !.last = pending.at]
      BY <1>2, <1>5 DEF Arm, Advance, Timers
    <2>2. v \in Timers
      BY <1>2, <1>3, <2>1 DEF Timers
    <2>3. /\ v.timing = w.timing /\ v.armed = w.armed /\ v.loss = w.loss /\ v.last = pending.at
          /\ v.base = w.base /\ v.carried = w.carried /\ v.healthy = w.healthy
          /\ v.streak = w.streak /\ v.latest = w.latest
      BY <1>2, <2>1 DEF Timers
    <2>4. Sound(v, pending.at)
      BY <1>2, <1>3, <1>5, <2>3 DEF Sound
    <2>5. Grounded(v, ghost.known)
      BY <1>2, <1>5, <2>3 DEF Grounded
    <2> QED
      BY <1>2, <1>5, <2>2, <2>3, <2>4, <2>5
  <1>6. CASE ~w.armed
    <2>1. v = [[w EXCEPT !.last = pending.at] EXCEPT !.armed = TRUE, !.base = pending.at]
      BY <1>2, <1>6 DEF Arm, Advance, Timers
    <2>2. v \in Timers
      BY <1>2, <1>3, <2>1 DEF Timers
    <2>3. /\ v.timing = w.timing /\ v.armed = TRUE /\ v.loss = w.loss /\ v.last = pending.at
          /\ v.base = pending.at /\ v.carried = w.carried /\ v.healthy = w.healthy
          /\ v.streak = w.streak /\ v.latest = w.latest
      BY <1>2, <2>1 DEF Timers
    <2>4. w.healthy = -1 /\ w.carried = 0 /\ w.streak = -1
      BY <1>2, <1>6 DEF Sound
    <2>5. Sound(v, pending.at)
      BY <1>2, <1>3, <2>3, <2>4 DEF Sound
    <2> QED
      BY <1>2, <1>6, <2>2, <2>3, <2>4, <2>5
  <1> QED
    BY <1>4, <1>5, <1>6

\* The timer an event is evaluated with.
Ready(w) ==
  /\ w \in Timers /\ w.timing = Timing(cfg.lost) /\ Sound(w, pending.at)
  /\ w.armed /\ w.last = pending.at
  /\ Grounded(w, Heard) /\ OnRun(w)
  /\ Told => Age(w, pending.at) = 0
  /\ ghost.known + Age(w, pending.at) <= origin + pending.at
  /\ w.loss /\ ~row.cp.pending => origin + pending.at - ghost.known >= cfg.lost
  /\ Age(w, pending.at) >= cfg.lost => origin + pending.at - ghost.known >= cfg.lost

\* A timer is as old as the silence it stands for.
LEMMA GroundedAge ==
  ASSUME NEW w \in Timers, NEW t \in Nat, Sound(w, t), NEW k \in Int, origin \in Int, Grounded(w, k)
  PROVE  k + Age(w, t) <= origin + t
  <1>1. /\ w.base \in Nat /\ w.carried \in Nat /\ w.healthy \in Int /\ Age(w, t) \in Nat
        /\ w.healthy >= 0 => Age(w, t) <= t - w.healthy
        /\ w.healthy < 0 => Age(w, t) <= t - w.base + w.carried
    BY AgeFacts, TimerFields
  <1> QED
    BY <1>1 DEF Grounded

\* A timer with the bounds, settings and base of Arm.
Armed(v) ==
  /\ v \in Timers /\ v.timing = Timing(cfg.lost) /\ Sound(v, pending.at)
  /\ v.armed /\ v.last = pending.at
  /\ row.cp.armed => Grounded(v, ghost.known)
  /\ ~row.cp.armed => v.healthy = -1 /\ v.base = pending.at /\ v.carried = 0

LEMMA ArmedAge ==
  ASSUME IInv, origin >= 0, Some(pending), NEW v, Armed(v)
  PROVE  /\ Age(v, pending.at) \in Nat /\ ghost.known + Age(v, pending.at) <= origin + pending.at
         /\ ~row.cp.armed => Age(v, pending.at) = 0
         /\ Age(v, pending.at) >= cfg.lost => origin + pending.at - ghost.known >= cfg.lost
  <1>1. /\ pending.at \in Nat /\ origin \in Int /\ ghost.known \in Int /\ row.cp.armed \in BOOLEAN
        /\ cfg.lost \in Losts /\ row.cp.loss \in Nat
    BY OtherFields, GhostFields, RowFields DEF IInv
  <1>2. ghost.known <= origin + pending.at
    <2>1. ghost.known + row.cp.loss - origin <= pending.at
      BY DEF IInv, KnownIsGrounded, Before
    <2> QED
      BY <1>1, <2>1
  <1>3. cfg.lost \in Nat
    BY <1>1, TimingFacts
  <1>4. Age(v, pending.at) \in Nat
    BY <1>1, AgeFacts DEF Armed
  <1>5. CASE row.cp.armed
    <2>1. ghost.known + Age(v, pending.at) <= origin + pending.at
      BY <1>1, <1>5, GroundedAge DEF Armed
    <2> QED
      BY <1>1, <1>3, <1>4, <1>5, <2>1
  <1>6. CASE ~row.cp.armed
    <2>1. Grounded(v, origin + pending.at)
      BY <1>1, <1>6 DEF Armed, Grounded
    <2>2. origin + pending.at + Age(v, pending.at) <= origin + pending.at
      <3>1. PICK k \in Int : k = origin + pending.at
        BY <1>1
      <3>2. k + Age(v, pending.at) <= origin + pending.at
        BY <1>1, <2>1, <3>1, GroundedAge DEF Armed
      <3> QED
        BY <3>1, <3>2
    <2>3. Age(v, pending.at) = 0
      BY <1>1, <1>4, <2>2
    <2> QED
      BY <1>1, <1>2, <1>3, <1>6, <2>3
  <1> QED
    BY <1>1, <1>5, <1>6

\* Heard is what an armed timer is grounded on unless the event is healthy.
LEMMA ArmedIsHeard ==
  ASSUME IInv, origin >= 0, Some(pending), NEW v, Armed(v), pending.kind # "healthy"
  PROVE  Grounded(v, Heard) /\ (Told <=> ~row.cp.armed)
  <1>1. /\ Told <=> ~row.cp.armed
        /\ Told => Heard = origin + pending.at
        /\ ~Told => Heard = ghost.known
    BY DEF Told, Heard
  <1>2. CASE row.cp.armed
    BY <1>1, <1>2 DEF Armed
  <1>3. CASE ~row.cp.armed
    <2>1. pending.at \in Nat /\ origin \in Int
      BY OtherFields DEF IInv
    <2>2. Heard = origin + pending.at
      BY <1>1, <1>3
    <2> QED
      BY <1>1, <1>3, <2>1, <2>2 DEF Armed, Grounded
  <1> QED
    BY <1>2, <1>3

LEMMA TickIsReady ==
  ASSUME IInv, origin >= 0, Some(pending), NEW w, w = BaseTimer(pending.at),
         NEW v, v = Arm(Advance(w, pending.at), pending.at), pending.kind = "tick"
  PROVE  Ready(v)
  <1>1. /\ Armed(v)
        /\ v.loss <=> row.cp.pending
        /\ v.latest /\ v.streak >= 0 =>
             src.timer.on /\ src.timer.latest /\ v.streak = src.timer.streak /\ v.healthy = src.timer.healthy
    BY ArmFacts DEF Armed
  <1>2. Grounded(v, Heard) /\ (Told <=> ~row.cp.armed)
    BY <1>1, ArmedIsHeard
  <1>3. /\ Age(v, pending.at) \in Nat /\ ghost.known + Age(v, pending.at) <= origin + pending.at
        /\ ~row.cp.armed => Age(v, pending.at) = 0
        /\ Age(v, pending.at) >= cfg.lost => origin + pending.at - ghost.known >= cfg.lost
    BY <1>1, ArmedAge
  <1>4. OnRun(v)
    <2>0. RunOf(pending) = ghost.run /\ PendingMark = SourceMark
      BY DEF RunOf, PendingMark
    <2>1. SUFFICES ASSUME v.latest, v.streak >= 0
                   PROVE  /\ 0 <= ghost.run.since /\ ghost.run.since <= v.streak
                          /\ ghost.run.at = v.healthy
                          /\ 0 <= SourceMark.since /\ SourceMark.since <= v.streak
                          /\ SourceMark.heard = v.healthy
      BY <2>0 DEF OnRun
    <2>2. SourceMark = Mark(v.streak, v.healthy)
      BY <1>1, <2>1 DEF SourceMark
    <2>3. SourceMark.since = v.streak /\ SourceMark.heard = v.healthy
      BY <2>2 DEF Mark
    <2>4. v.streak \in Int
      BY <1>1, TimerFields DEF Armed
    <2> QED
      BY <2>1, <2>3, <2>4 DEF IInv, RunsAreUnbroken
  <1> QED
    BY <1>1, <1>2, <1>3, <1>4 DEF Ready, Armed

LEMMA LatchedArmed ==
  ASSUME IInv, origin >= 0, Some(pending), NEW v, Armed(v), v.loss <=> row.cp.pending,
         NEW l, l = LatchLoss(v, pending.at)
  PROVE  /\ l \in Timers /\ l.timing = v.timing /\ l.armed /\ l.last = v.last
         /\ l.base = v.base /\ l.carried = v.carried /\ l.healthy = v.healthy
         /\ l.streak = v.streak /\ l.latest = v.latest
         /\ l.loss /\ ~row.cp.pending => origin + pending.at - ghost.known >= cfg.lost
  <1>1. pending.at \in Nat /\ cfg.lost \in Losts
    BY OtherFields DEF IInv
  <1>2. v \in Timers /\ Sound(v, pending.at) /\ v.timing = Timing(cfg.lost) /\ v.armed
    BY DEF Armed
  <1>3. /\ l \in Timers /\ l = [v EXCEPT !.loss = l.loss]
        /\ l.loss <=> v.loss \/ Age(v, pending.at) >= v.timing.lost
    BY <1>1, <1>2, LatchFacts
  <1>4. /\ l.timing = v.timing /\ l.armed = v.armed /\ l.last = v.last
        /\ l.base = v.base /\ l.carried = v.carried /\ l.healthy = v.healthy
        /\ l.streak = v.streak /\ l.latest = v.latest
    <2>1. PICK b : b = l.loss
      OBVIOUS
    <2>2. l = [v EXCEPT !.loss = b]
      BY <1>3, <2>1
    <2> QED
      BY <1>2, <2>2 DEF Timers
  <1>5. v.timing.lost = cfg.lost
    BY <1>1, <1>2, TimingFacts
  <1>6. Age(v, pending.at) >= cfg.lost => origin + pending.at - ghost.known >= cfg.lost
    BY ArmedAge
  <1> QED
    BY <1>2, <1>3, <1>4, <1>5, <1>6

\* w is l with another latest sample.
Renewed(w, l, healthy, latest, streak) ==
  /\ w \in Timers /\ w.timing = l.timing /\ w.armed = l.armed /\ w.last = l.last
  /\ w.base = l.base /\ w.carried = l.carried /\ w.loss = l.loss
  /\ w.healthy = healthy /\ w.latest = latest /\ w.streak = streak

LEMMA BrokenTimer ==
  ASSUME NEW l \in Timers, NEW b \in BOOLEAN, NEW m \in Int
  PROVE  Renewed([l EXCEPT !.latest = b, !.streak = m], l, l.healthy, b, m)
  BY Zenon DEF Timers, Renewed

LEMMA ExtendedTimer ==
  ASSUME NEW l \in Timers, NEW b \in BOOLEAN, NEW m \in Int, NEW t \in Int
  PROVE  Renewed([l EXCEPT !.streak = m, !.healthy = t, !.latest = b], l, t, b, m)
  BY Zenon DEF Timers, Renewed

LEMMA InterruptionIsReady ==
  ASSUME IInv, origin >= 0, Some(pending), NEW v, Armed(v), v.loss <=> row.cp.pending,
         pending.kind # "healthy", NEW w, w = Health(v, pending.at, FALSE)
  PROVE  Ready(w)
  <1>1. PICK l : l = LatchLoss(v, pending.at)
    OBVIOUS
  <1>2. /\ l \in Timers /\ l.timing = v.timing /\ l.armed /\ l.last = v.last
        /\ l.base = v.base /\ l.carried = v.carried /\ l.healthy = v.healthy
        /\ l.loss /\ ~row.cp.pending => origin + pending.at - ghost.known >= cfg.lost
    BY <1>1, LatchedArmed
  <1>3. FALSE \in BOOLEAN /\ -1 \in Int
    OBVIOUS
  <1>4. /\ w \in Timers /\ w.timing = l.timing /\ w.armed = l.armed /\ w.last = l.last
        /\ w.base = l.base /\ w.carried = l.carried /\ w.healthy = l.healthy
        /\ w.loss = l.loss /\ w.latest = FALSE /\ w.streak = -1
    <2>1. w = [l EXCEPT !.latest = FALSE, !.streak = -1]
      BY <1>1, Zenon DEF Health
    <2> QED
      <3>1. Renewed(w, l, l.healthy, FALSE, -1)
        BY <1>2, <1>3, <2>1, BrokenTimer, Zenon
      <3> QED
        BY <3>1 DEF Renewed
  <1>5. Armed(w)
    <2>1. Sound(w, pending.at)
      BY <1>2, <1>4 DEF Sound, Armed
    <2>2. row.cp.armed => Grounded(w, ghost.known)
      <3>1. w.healthy = v.healthy /\ w.base = v.base /\ w.carried = v.carried
        BY <1>2, <1>4
      <3>2. row.cp.armed => Grounded(v, ghost.known)
        BY DEF Armed
      <3> QED
        BY <3>1, <3>2 DEF Grounded
    <2> QED
      BY <1>2, <1>4, <2>1, <2>2 DEF Armed
  <1>6. Grounded(w, Heard) /\ (Told <=> ~row.cp.armed)
    BY <1>5, ArmedIsHeard
  <1>7. /\ Age(w, pending.at) \in Nat /\ ghost.known + Age(w, pending.at) <= origin + pending.at
        /\ ~row.cp.armed => Age(w, pending.at) = 0
        /\ Age(w, pending.at) >= cfg.lost => origin + pending.at - ghost.known >= cfg.lost
    BY <1>5, ArmedAge
  <1>8. OnRun(w)
    BY <1>4 DEF OnRun
  <1> QED
    BY <1>2, <1>4, <1>5, <1>6, <1>7, <1>8 DEF Ready, Armed

\* A streak that a healthy sample continues is one of the run it belongs to.
LEMMA HealthyIsOnRun ==
  ASSUME IInv, origin >= 0, pending.kind = "healthy", NEW v, Armed(v),
         v.latest /\ v.streak >= 0 =>
           src.timer.on /\ src.timer.latest /\ v.streak = src.timer.streak /\ v.healthy = src.timer.healthy,
         NEW s \in Int,
         s = pending.at \/ (v.latest /\ s >= 0 /\ s = v.streak /\ Age(v, pending.at) < v.timing.suspect)
  PROVE  0 <= pending.since /\ pending.since <= s
  <1>1. pending.at \in Nat /\ cfg.lost \in Losts /\ pending.since \in Int
    BY OtherFields DEF IInv
  <1>2. Extends(pending, SourceMark)
    BY DEF IInv, RunsAreUnbroken
  <1>3. 0 <= pending.since /\ pending.since <= pending.at
    BY <1>2 DEF Extends
  <1>4. CASE s = pending.at
    BY <1>3, <1>4
  <1>5. CASE v.latest /\ s >= 0 /\ s = v.streak /\ Age(v, pending.at) < v.timing.suspect
    <2>1. SourceMark = Mark(v.streak, v.healthy)
      BY <1>5 DEF SourceMark
    <2>2. SourceMark.since = s /\ SourceMark.heard = v.healthy
      BY <1>5, <2>1 DEF Mark
    <2>3. v \in Timers /\ Sound(v, pending.at) /\ v.timing = Timing(cfg.lost)
      BY DEF Armed
    <2>4. v.healthy >= 0
      BY <1>5, <2>3 DEF Sound
    <2>5. /\ v.timing.suspect \in Nat /\ v.timing.suspect <= v.timing.lost /\ v.timing.suspect <= Suspect
          /\ v.timing.lost \in Nat
      BY <1>1, <2>3, TimingFacts
    <2>6. /\ Age(v, pending.at) \in Nat /\ v.healthy \in Int
          /\ v.healthy >= 0 /\ Age(v, pending.at) < v.timing.lost => Age(v, pending.at) = pending.at - v.healthy
      BY <1>1, <2>3, AgeFacts, TimerFields
    <2>7. Suspect \in Nat
      BY WatchdogAssumption
    <2>8. pending.at - v.healthy < Suspect
      BY <1>1, <1>5, <2>4, <2>5, <2>6, <2>7
    <2> QED
      BY <1>2, <1>3, <1>5, <2>2, <2>8 DEF Extends
  <1> QED
    BY <1>4, <1>5

Improved(v, t) == Health(v, t, TRUE)

LEMMA HealthyIsReady ==
  ASSUME IInv, origin >= 0, pending.kind = "healthy", NEW v, Armed(v), v.loss <=> row.cp.pending,
         v.latest /\ v.streak >= 0 =>
           src.timer.on /\ src.timer.latest /\ v.streak = src.timer.streak /\ v.healthy = src.timer.healthy,
         NEW w, w = Improved(v, pending.at)
  PROVE  Ready(w)
  <1>0. Some(pending) /\ pending.at \in Nat /\ origin \in Int /\ cfg.lost \in Losts /\ ghost.known \in Int
    BY OtherFields, GhostFields DEF IInv, Some
  <1>1. PICK l : l = LatchLoss(v, pending.at)
    OBVIOUS
  <1>2. /\ l \in Timers /\ l.timing = v.timing /\ l.armed /\ l.last = v.last
        /\ l.base = v.base /\ l.carried = v.carried /\ l.healthy = v.healthy
        /\ l.streak = v.streak /\ l.latest = v.latest
        /\ l.loss /\ ~row.cp.pending => origin + pending.at - ghost.known >= cfg.lost
    BY <1>0, <1>1, LatchedArmed
  <1>3. PICK s : s = IF ~v.latest \/ v.streak < 0 \/ Age(v, pending.at) >= v.timing.suspect
                     THEN pending.at ELSE v.streak
    OBVIOUS
  <1>4. v \in Timers /\ v.streak \in Int /\ v.timing.suspect \in Nat /\ Age(v, pending.at) \in Nat
    BY <1>0, TimerFields, TimingFacts, AgeFacts DEF Armed
  <1>5. /\ s \in Int
        /\ s = pending.at \/ (v.latest /\ s >= 0 /\ s = v.streak /\ Age(v, pending.at) < v.timing.suspect)
    BY <1>0, <1>3, <1>4
  <1>6. TRUE \in BOOLEAN /\ pending.at \in Int
    BY <1>0
  <1>7. /\ w \in Timers /\ w.timing = l.timing /\ w.armed = l.armed /\ w.last = l.last
        /\ w.base = l.base /\ w.carried = l.carried /\ w.healthy = pending.at
        /\ w.loss = l.loss /\ w.latest = TRUE /\ w.streak = s
    <2>1. w = [l EXCEPT !.streak = IF ~v.latest \/ l.streak < 0 \/ Age(v, pending.at) >= v.timing.suspect
                                   THEN pending.at ELSE l.streak,
                        !.healthy = pending.at, !.latest = TRUE]
      BY <1>1, Zenon DEF Health, Improved
    <2>2. w = [l EXCEPT !.streak = s, !.healthy = pending.at, !.latest = TRUE]
      BY <1>2, <1>3, <2>1, Zenon
    <2> QED
      <3>1. Renewed(w, l, pending.at, TRUE, s)
        <4>1. l \in Timers /\ s \in Int
          BY <1>2, <1>5
        <4> QED
          BY <1>6, <2>2, <4>1, ExtendedTimer, Zenon
      <3> QED
        BY <3>1 DEF Renewed
  <1>8. Sound(w, pending.at)
    BY <1>0, <1>2, <1>7 DEF Sound, Armed
  <1>9. Told /\ Heard = origin + pending.at
    BY DEF Told, Heard
  <1>10. Grounded(w, Heard)
    BY <1>0, <1>7, <1>9 DEF Grounded
  <1>11. Age(w, pending.at) = 0
    <2>1. Age(w, pending.at) \in Nat /\ Age(w, pending.at) <= pending.at - w.healthy
      BY <1>0, <1>7, <1>8, AgeFacts
    <2> QED
      BY <1>0, <1>7, <2>1
  <1>12. 0 <= pending.since /\ pending.since <= s
    BY <1>5, HealthyIsOnRun
  <1>13. OnRun(w)
    <2>1. RunOf(pending) = [since |-> pending.since, at |-> pending.at]
      BY DEF RunOf
    <2>2. PendingMark = Mark(pending.since, pending.at)
      BY DEF PendingMark, EventMark
    <2>3. PendingMark.since = pending.since /\ PendingMark.heard = pending.at
      BY <2>2 DEF Mark
    <2> QED
      BY <1>7, <1>12, <2>1, <2>3 DEF OnRun
  <1>14. ghost.known <= origin + pending.at
    <2>1. ghost.known + Age(v, pending.at) <= origin + pending.at
      BY <1>0, ArmedAge
    <2> QED
      BY <1>0, <1>4, <2>1
  <1>15. cfg.lost \in Nat /\ cfg.lost >= 1
    BY <1>0, TimingFacts
  <1>16. w.timing = Timing(cfg.lost) /\ w.last = pending.at
    BY <1>2, <1>7 DEF Armed
  <1>17. /\ ghost.known + Age(w, pending.at) <= origin + pending.at
         /\ ~(Age(w, pending.at) >= cfg.lost)
    BY <1>0, <1>11, <1>14, <1>15
  <1> QED
    BY <1>2, <1>7, <1>8, <1>10, <1>11, <1>13, <1>16, <1>17 DEF Ready

\* Whatever the event, its evaluation starts from a timer in good order.
LEMMA SampledIsReady ==
  ASSUME IInv, origin >= 0, Some(pending), NEW w, w = Sampled(pending)
  PROVE  Ready(w)
  <1>1. PICK b : b = BaseTimer(pending.at)
    OBVIOUS
  <1>2. PICK v : v = Arm(Advance(b, pending.at), pending.at)
    OBVIOUS
  <1>3. /\ Armed(v)
        /\ v.loss <=> row.cp.pending
        /\ v.latest /\ v.streak >= 0 =>
             src.timer.on /\ src.timer.latest /\ v.streak = src.timer.streak /\ v.healthy = src.timer.healthy
    BY <1>1, <1>2, ArmFacts DEF Armed
  <1>4. w = IF pending.kind = "tick" THEN v ELSE Health(v, pending.at, pending.kind = "healthy")
    BY <1>1, <1>2, Zenon DEF Sampled
  <1>5. CASE pending.kind = "tick"
    BY <1>1, <1>2, <1>4, <1>5, TickIsReady
  <1>6. CASE pending.kind = "healthy"
    <2>1. w = Improved(v, pending.at)
      BY <1>4, <1>6, Zenon DEF Improved
    <2> QED
      BY <1>3, <1>6, <2>1, HealthyIsReady
  <1>7. CASE pending.kind # "tick" /\ pending.kind # "healthy"
    <2>1. w = Health(v, pending.at, FALSE)
      BY <1>4, <1>7, Zenon
    <2> QED
      BY <1>3, <1>7, <2>1, InterruptionIsReady
  <1> QED
    BY <1>5, <1>6, <1>7

-----------------------------------------------------------------------------
(* The evaluation. *)

\* What an evaluation of w can conclude, and what it takes.
Resolves(w, b, status, action) ==
  /\ Open /\ b = FALSE /\ status = "healthy" /\ action = "resolve"
  /\ w.latest /\ w.healthy >= 0 /\ w.streak >= 0 /\ w.healthy - w.streak >= w.timing.recover
  /\ Age(w, pending.at) < w.timing.suspect
StaysOpen(b, status, action) ==
  Open /\ b = FALSE /\ status \in {"recovering", "lost"} /\ action = "none"
Loses(w, b, status, action) ==
  /\ ~Open /\ b = TRUE /\ status = "lost" /\ action = "open"
  /\ w.loss \/ Age(w, pending.at) >= w.timing.lost
StaysClosed(w, b, status, action) ==
  /\ ~Open /\ b = FALSE /\ status \in {"healthy", "suspect", "starting"} /\ action = "none"
  /\ ~(Age(w, pending.at) >= w.timing.lost)

Latched(w, b) == [w EXCEPT !.loss = b]

LEMMA Relatched ==
  ASSUME NEW w \in Timers, NEW a \in BOOLEAN, NEW b \in BOOLEAN
  PROVE  [Latched(w, a) EXCEPT !.loss = b] = Latched(w, b)
  BY DEF Timers, Latched

Concludes(w, r) ==
  \E b \in BOOLEAN : \E status, action :
    /\ r = [timer |-> Latched(w, b), status |-> status, action |-> action]
    /\ \/ Resolves(w, b, status, action) \/ StaysOpen(b, status, action)
       \/ Loses(w, b, status, action) \/ StaysClosed(w, b, status, action)

LEMMA EvaluateFacts ==
  ASSUME NEW w \in Timers, pending.at \in Nat, Sound(w, pending.at)
  PROVE  Concludes(w, Evaluate(w, pending.at, Open))
  <1> DEFINE ok == w.healthy >= 0 /\ w.latest /\ Age(w, pending.at) < w.timing.suspect
             r == Evaluate(w, pending.at, Open)
             as(timer, status, action) == [timer |-> timer, status |-> status, action |-> action]
  <1>1. PICK l : l = LatchLoss(w, pending.at)
    OBVIOUS
  <1>2. /\ l \in Timers /\ l = [w EXCEPT !.loss = l.loss]
        /\ l.loss \in BOOLEAN
        /\ l.loss <=> w.loss \/ Age(w, pending.at) >= w.timing.lost
    BY <1>1, LatchFacts
  <1>3. PICK a : a = l.loss
    OBVIOUS
  <1>4. l = Latched(w, a) /\ a \in BOOLEAN
    BY <1>2, <1>3, Zenon DEF Latched
  <1>5. [l EXCEPT !.loss = FALSE] = Latched(w, FALSE)
    <2>1. FALSE \in BOOLEAN
      OBVIOUS
    <2> QED
      BY <1>4, <2>1, Relatched, Zenon
  <1>6. ASSUME Open, ok, w.streak >= 0, w.healthy - w.streak >= w.timing.recover
        PROVE  Concludes(w, r)
    <2>1. r = as(Latched(w, FALSE), "healthy", "resolve")
      BY <1>1, <1>5, <1>6, Zenon DEF Evaluate
    <2>2. Resolves(w, FALSE, "healthy", "resolve")
      BY <1>6, Zenon DEF Resolves
    <2> HIDE DEF r
    <2> QED
      BY <2>1, <2>2, Zenon DEF Concludes
  <1>7. ASSUME Open, ok, w.streak >= 0, ~(w.healthy - w.streak >= w.timing.recover)
        PROVE  Concludes(w, r)
    <2>1. r = as(Latched(w, FALSE), "recovering", "none")
      BY <1>1, <1>5, <1>7, Zenon DEF Evaluate
    <2>2. StaysOpen(FALSE, "recovering", "none")
      BY <1>7 DEF StaysOpen
    <2> HIDE DEF r
    <2> QED
      BY <2>1, <2>2, Zenon DEF Concludes
  <1>8. ASSUME Open, ~(ok /\ w.streak >= 0)
        PROVE  Concludes(w, r)
    <2>1. r = as(Latched(w, FALSE), "lost", "none")
      BY <1>1, <1>5, <1>8, Zenon DEF Evaluate
    <2>2. StaysOpen(FALSE, "lost", "none")
      BY <1>8 DEF StaysOpen
    <2> HIDE DEF r
    <2> QED
      BY <2>1, <2>2, Zenon DEF Concludes
  <1>9. ASSUME ~Open, a = TRUE
        PROVE  Concludes(w, r)
    <2>1. r = as(Latched(w, TRUE), "lost", "open")
      BY <1>1, <1>3, <1>4, <1>9, Zenon DEF Evaluate
    <2>2. Loses(w, TRUE, "lost", "open")
      BY <1>2, <1>3, <1>9 DEF Loses
    <2> HIDE DEF r
    <2> QED
      BY <2>1, <2>2, Zenon DEF Concludes
  <1>10. ASSUME ~Open, a = FALSE
         PROVE  Concludes(w, r)
    <2>1. /\ \E s \in {"healthy", "suspect", "starting"} : r = as(Latched(w, FALSE), s, "none")
          /\ ~l.loss
      <3>1. ~l.loss
        BY <1>3, <1>10
      <3>2. CASE ok
        BY <1>1, <1>4, <1>10, <3>1, <3>2, Zenon DEF Evaluate
      <3>3. CASE ~ok /\ (Age(w, pending.at) >= w.timing.suspect \/ (w.healthy >= 0 /\ ~w.latest))
        BY <1>1, <1>4, <1>10, <3>1, <3>3, Zenon DEF Evaluate
      <3>4. CASE ~ok /\ ~(Age(w, pending.at) >= w.timing.suspect \/ (w.healthy >= 0 /\ ~w.latest))
        BY <1>1, <1>4, <1>10, <3>1, <3>4, Zenon DEF Evaluate
      <3> QED
        BY <3>1, <3>2, <3>3, <3>4, Zenon
    <2>2. PICK s \in {"healthy", "suspect", "starting"} : r = as(Latched(w, FALSE), s, "none")
      BY <2>1
    <2>3. StaysClosed(w, FALSE, s, "none")
      BY <1>2, <1>10, <2>1, <2>2 DEF StaysClosed
    <2> HIDE DEF r
    <2> QED
      BY <2>2, <2>3, Zenon DEF Concludes
  <1>11. a = TRUE \/ a = FALSE
    BY <1>4
  <1> HIDE DEF r, ok
  <1> QED
    BY <1>6, <1>7, <1>8, <1>9, <1>10, <1>11, Zenon DEF r

-----------------------------------------------------------------------------
(* The proposal. *)

Incident(action) ==
  IF action = "open" THEN "firing" ELSE IF action = "resolve" THEN "resolved" ELSE row.incident
Due == Resend > 0 /\ (row.paged < 0 \/ origin + pending.at - row.paged >= Resend)
Pages(status, action) == action # "none" \/ (status = "lost" /\ Open /\ Due)

LEMMA CheckpointFacts ==
  ASSUME NEW w \in Timers, NEW b \in BOOLEAN, NEW t \in Nat, Sound(w, t), w.armed
  PROVE  \E q \in BOOLEAN :
           /\ Checkpoint(Latched(w, b), t) = [armed |-> TRUE, loss |-> Age(w, t), pending |-> q]
           /\ q <=> b \/ Age(w, t) >= w.timing.lost
  <1>1. PICK v : v = Latched(w, b)
    OBVIOUS
  <1>2. v \in Timers /\ Sound(v, t) /\ Age(v, t) = Age(w, t)
    BY <1>1, AgeOfLatched, Zenon DEF Latched
  <1>3. v.armed = w.armed /\ v.loss = b /\ v.timing = w.timing
    BY <1>1 DEF Latched, Timers
  <1>4. PICK l : l = LatchLoss(v, t)
    OBVIOUS
  <1>5. l.loss \in BOOLEAN /\ (l.loss <=> v.loss \/ Age(v, t) >= v.timing.lost)
    BY <1>2, <1>4, LatchFacts
  <1>6. w.armed = TRUE
    BY TimerFields
  <1>7. Checkpoint(v, t) = [armed |-> TRUE, loss |-> Age(w, t), pending |-> l.loss]
    BY <1>2, <1>3, <1>4, <1>6, Zenon DEF Checkpoint
  <1>8. l.loss <=> b \/ Age(w, t) >= w.timing.lost
    BY <1>2, <1>3, <1>5
  <1> QED
    BY <1>1, <1>5, <1>7, <1>8, Zenon

\* The record of an enabled watchdog in terms of its evaluation.
Recorded(p, w, b, status, action, q) ==
  /\ p.on = TRUE /\ p.rev = cfg.rev
  /\ p.page <=> Pages(status, action)
  /\ p.valid <=> /\ pending.at >= BaseTimer(pending.at).last
                 /\ ValidCommit(p.next.cp, status, Incident(action) = "firing")
  /\ p.timer = Latched(w, q)
  /\ p.next = [cp |-> [armed |-> TRUE, loss |-> Age(w, pending.at), pending |-> q],
               status |-> status, incident |-> Incident(action),
               started |-> IF action = "open" THEN origin + pending.at ELSE row.started,
               paged |-> IF Pages(status, action) THEN origin + pending.at ELSE row.paged]
  /\ q <=> b \/ Age(w, pending.at) >= w.timing.lost

LEMMA RecordFacts ==
  ASSUME IInv, origin >= 0, Some(pending), cfg.enabled
  PROVE  \E w, b, status, action, q :
           /\ Ready(w) /\ b \in BOOLEAN /\ q \in BOOLEAN
           /\ Recorded(Proposal, w, b, status, action, q)
           /\ \/ Resolves(w, b, status, action) \/ StaysOpen(b, status, action)
              \/ Loses(w, b, status, action) \/ StaysClosed(w, b, status, action)
  <1>1. PICK w : w = Sampled(pending)
    OBVIOUS
  <1>2. Ready(w)
    BY <1>1, SampledIsReady
  <1>3. w \in Timers /\ Sound(w, pending.at) /\ w.armed /\ pending.at \in Nat
    BY <1>2, OtherFields DEF Ready, IInv
  <1>4. PICK r : r = Evaluate(w, pending.at, Open)
    OBVIOUS
  <1>5. Concludes(w, r)
    BY <1>3, <1>4, EvaluateFacts
  <1>6. PICK b \in BOOLEAN : \E status, action :
          /\ r = [timer |-> Latched(w, b), status |-> status, action |-> action]
          /\ \/ Resolves(w, b, status, action) \/ StaysOpen(b, status, action)
             \/ Loses(w, b, status, action) \/ StaysClosed(w, b, status, action)
    BY <1>5, Zenon DEF Concludes
  <1>7. PICK status, action :
          /\ r = [timer |-> Latched(w, b), status |-> status, action |-> action]
          /\ \/ Resolves(w, b, status, action) \/ StaysOpen(b, status, action)
             \/ Loses(w, b, status, action) \/ StaysClosed(w, b, status, action)
    BY <1>6, Zenon
  <1>8. PICK q \in BOOLEAN :
          /\ Checkpoint(Latched(w, b), pending.at) = [armed |-> TRUE, loss |-> Age(w, pending.at), pending |-> q]
          /\ q <=> b \/ Age(w, pending.at) >= w.timing.lost
    BY <1>3, <1>6, CheckpointFacts, Zenon
  <1>9. PICK cp : cp = [armed |-> TRUE, loss |-> Age(w, pending.at), pending |-> q]
    OBVIOUS
  <1>10. PICK p : p = Proposal
    OBVIOUS
  <1>11. p = Record(pending, r, cp)
    <2>1. Result = r
      BY <1>1, <1>4, Zenon DEF Result
    <2>2. r.timer = Latched(w, b)
      BY <1>7
    <2> QED
      BY <1>8, <1>9, <1>10, <2>1, <2>2, Zenon DEF Proposal
  <1>12. r.timer = Latched(w, b) /\ r.status = status /\ r.action = action
    BY <1>7
  <1>13. cp.pending = q
    BY <1>9
  <1>14. [Latched(w, b) EXCEPT !.loss = q] = Latched(w, q)
    BY <1>3, <1>6, <1>8, Relatched, Zenon
  <1>15. Recorded(p, w, b, status, action, q)
    <2>1. p.on = TRUE /\ p.rev = cfg.rev
      BY <1>11, Zenon DEF Record
    <2>2. p.page <=> Pages(status, action)
      BY <1>11, <1>12, Zenon DEF Record, Pages, Due
    <2>3. p.timer = Latched(w, q)
      BY <1>11, <1>12, <1>13, <1>14, Zenon DEF Record
    <2>4. p.next = [cp |-> cp, status |-> status, incident |-> Incident(action),
               started |-> IF action = "open" THEN origin + pending.at ELSE row.started,
               paged |-> IF Pages(status, action) THEN origin + pending.at ELSE row.paged]
      BY <1>11, <1>12, Zenon DEF Record, Pages, Due, Incident
    <2>5. p.next.cp = cp
      BY <2>4
    <2>6. p.valid <=> /\ pending.at >= BaseTimer(pending.at).last
                      /\ ValidCommit(cp, status, Incident(action) = "firing")
      BY <1>11, <1>12, Zenon DEF Record, Incident
    <2> QED
      BY <1>8, <1>9, <2>1, <2>2, <2>3, <2>4, <2>5, <2>6, Zenon DEF Recorded
  <1> QED
    BY <1>2, <1>6, <1>7, <1>8, <1>10, <1>15, Zenon

\* What a commit writes: a timer and a row that agree, grounded on the health
\* that counts and on the run of the event.
Sane(p) ==
  /\ p.on = TRUE /\ p.valid /\ p.rev = cfg.rev
  /\ p.timer \in Timers /\ p.timer.last = pending.at /\ Sound(p.timer, pending.at)
  /\ p.next \in Rows
  /\ p.timer.armed <=> p.next.cp.armed
  /\ p.timer.loss <=> p.next.cp.pending
  /\ ~p.next.cp.armed => p.next.cp = Zero
  /\ p.next.incident # "firing" => ~p.next.cp.pending
  /\ p.timer.armed => Grounded(p.timer, Heard)
  /\ ghost.known + p.next.cp.loss <= origin + pending.at
  /\ Told => p.next.cp.loss = 0
  /\ OnRun(p.timer)

\* What a commit reports, and the pages that go with it.
Reports(p) ==
  /\ p.next.incident = "firing" /\ ~Open =>
       /\ origin + pending.at - ghost.known >= cfg.lost
       /\ p.next.started = origin + pending.at /\ p.next.paged = origin + pending.at
  /\ cfg.enabled /\ Open /\ p.next.incident = "resolved" =>
       /\ RunOf(pending).since >= 0 /\ RunOf(pending).at - RunOf(pending).since >= Recover
       /\ pending.at - RunOf(pending).at < Suspect
  /\ p.next.incident # "firing" \/ Open => p.next.started = row.started
  /\ p.page /\ p.next.incident = "firing" /\ Open => Due /\ p.next.paged = origin + pending.at
  /\ p.page /\ p.next.incident = "resolved" => Open
  /\ ~p.page => p.next.paged = row.paged

LEMMA LatchedFields ==
  ASSUME NEW w \in Timers, NEW q \in BOOLEAN
  PROVE  Renewed([Latched(w, q) EXCEPT !.loss = w.loss], w, w.healthy, w.latest, w.streak)
         /\ Latched(w, q) \in Timers
         /\ Latched(w, q).timing = w.timing /\ Latched(w, q).armed = w.armed
         /\ Latched(w, q).last = w.last /\ Latched(w, q).base = w.base
         /\ Latched(w, q).carried = w.carried /\ Latched(w, q).healthy = w.healthy
         /\ Latched(w, q).streak = w.streak /\ Latched(w, q).latest = w.latest
         /\ Latched(w, q).loss = q
  BY DEF Latched, Timers, Renewed

LEMMA RecordIsSane ==
  ASSUME IInv, origin >= 0, Some(pending), cfg.enabled, NEW p, p = Proposal
  PROVE  Sane(p)
  <1>1. PICK w, b, status, action, q :
           /\ Ready(w) /\ b \in BOOLEAN /\ q \in BOOLEAN
           /\ Recorded(p, w, b, status, action, q)
           /\ \/ Resolves(w, b, status, action) \/ StaysOpen(b, status, action)
              \/ Loses(w, b, status, action) \/ StaysClosed(w, b, status, action)
    BY RecordFacts, Zenon
  <1>2. /\ w \in Timers /\ w.timing = Timing(cfg.lost) /\ Sound(w, pending.at)
        /\ w.armed /\ w.last = pending.at
        /\ Grounded(w, Heard) /\ OnRun(w)
        /\ Told => Age(w, pending.at) = 0
        /\ ghost.known + Age(w, pending.at) <= origin + pending.at
    BY <1>1 DEF Ready
  <1>3. /\ pending.at \in Nat /\ origin \in Int /\ cfg.lost \in Losts
        /\ row.incident \in {"none", "firing", "resolved"} /\ row.started \in Nat /\ row.paged \in Int
    BY OtherFields, RowFields DEF IInv
  <1>4. /\ w.timing.suspect \in Nat /\ w.timing.suspect <= w.timing.lost /\ w.timing.lost \in Nat
        /\ Age(w, pending.at) \in Nat /\ origin + pending.at \in Nat
    BY <1>2, <1>3, TimingFacts, AgeFacts
  <1>5. PICK v : v = Latched(w, q)
    OBVIOUS
  <1>6. /\ v \in Timers /\ v.armed = w.armed /\ v.last = w.last /\ v.base = w.base
        /\ v.carried = w.carried /\ v.healthy = w.healthy /\ v.streak = w.streak
        /\ v.latest = w.latest /\ v.loss = q
    BY <1>1, <1>2, <1>5, LatchedFields, Zenon
  <1>7. Sound(v, pending.at) /\ Grounded(v, Heard) /\ OnRun(v)
    <2>1. Sound(v, pending.at)
      BY <1>2, <1>6 DEF Sound
    <2>2. Grounded(v, Heard)
      BY <1>2, <1>6 DEF Grounded
    <2>3. OnRun(v)
      BY <1>2, <1>6 DEF OnRun
    <2> QED
      BY <2>1, <2>2, <2>3
  <1>8. PICK cp : cp = [armed |-> TRUE, loss |-> Age(w, pending.at), pending |-> q]
    OBVIOUS
  <1>9. cp \in Checkpoints /\ cp.armed /\ cp.loss = Age(w, pending.at) /\ cp.pending = q
    BY <1>1, <1>4, <1>8 DEF Checkpoints
  <1>10. /\ p.on = TRUE /\ p.rev = cfg.rev /\ p.timer = v
         /\ p.next = [cp |-> cp, status |-> status, incident |-> Incident(action),
               started |-> IF action = "open" THEN origin + pending.at ELSE row.started,
               paged |-> IF Pages(status, action) THEN origin + pending.at ELSE row.paged]
         /\ q <=> b \/ Age(w, pending.at) >= w.timing.lost
    BY <1>1, <1>5, <1>8, Zenon DEF Recorded
  <1>11. p.next.cp = cp /\ p.next.incident = Incident(action)
    BY <1>10
  <1>12. /\ status \in {"starting", "healthy", "suspect", "lost", "recovering"}
         /\ Incident(action) \in {"none", "firing", "resolved"}
         /\ status \in {"starting", "healthy", "suspect"} => Incident(action) # "firing" /\ q = FALSE
         /\ status \in {"lost", "recovering"} => Incident(action) = "firing"
    <2>1. CASE Resolves(w, b, status, action)
      <3>1. b = FALSE /\ status = "healthy" /\ action = "resolve" /\ Age(w, pending.at) < w.timing.suspect
        BY <2>1 DEF Resolves
      <3>2. q = FALSE
        BY <1>1, <1>4, <1>10, <3>1
      <3> QED
        BY <3>1, <3>2 DEF Incident
    <2>2. CASE StaysOpen(b, status, action)
      BY <2>2 DEF StaysOpen, Incident, Open
    <2>3. CASE Loses(w, b, status, action)
      BY <2>3 DEF Loses, Incident
    <2>4. CASE StaysClosed(w, b, status, action)
      <3>1. /\ ~Open /\ b = FALSE /\ status \in {"healthy", "suspect", "starting"} /\ action = "none"
            /\ ~(Age(w, pending.at) >= w.timing.lost)
        BY <2>4 DEF StaysClosed
      <3>2. q = FALSE
        BY <1>1, <1>10, <3>1
      <3> QED
        BY <1>3, <3>1, <3>2 DEF Incident, Open
    <2> QED
      BY <1>1, <2>1, <2>2, <2>3, <2>4
  <1>13. p.next \in Rows
    <2>1. PICK x : x = IF action = "open" THEN origin + pending.at ELSE row.started
      OBVIOUS
    <2>2. PICK y : y = IF Pages(status, action) THEN origin + pending.at ELSE row.paged
      OBVIOUS
    <2>3. x \in Nat /\ y \in Int
      BY <1>3, <1>4, <2>1, <2>2
    <2>4. p.next = [cp |-> cp, status |-> status, incident |-> Incident(action),
                    started |-> x, paged |-> y]
      BY <1>10, <2>1, <2>2, Zenon
    <2> QED
      BY <1>9, <1>12, <2>3, <2>4 DEF Rows
  <1>14. p.valid
    <2>1. PICK u : u = BaseTimer(pending.at)
      OBVIOUS
    <2>2. u \in Timers /\ u.last <= pending.at
      BY <2>1, BaseFacts
    <2>3. pending.at >= u.last
      BY <1>3, <2>2, TimerFields
    <2>4. ValidCommit(cp, status, Incident(action) = "firing")
      <3>1. ~cp.pending <=> q = FALSE
        BY <1>1, <1>9
      <3> QED
        BY <1>9, <1>12, <3>1, Zenon DEF ValidCommit
    <2> QED
      BY <1>1, <1>11, <2>1, <2>3, <2>4, Zenon DEF Recorded
  <1>15. ~(p.next.incident = "firing") => ~p.next.cp.pending
    BY <1>1, <1>9, <1>11, <1>12
  <1> QED
    BY <1>2, <1>6, <1>7, <1>9, <1>10, <1>11, <1>13, <1>14, <1>15 DEF Sane

LEMMA RecordReports ==
  ASSUME IInv, origin >= 0, Some(pending), cfg.enabled, NEW p, p = Proposal
  PROVE  Reports(p)
  <1>1. PICK w, b, status, action, q :
           /\ Ready(w) /\ b \in BOOLEAN /\ q \in BOOLEAN
           /\ Recorded(p, w, b, status, action, q)
           /\ \/ Resolves(w, b, status, action) \/ StaysOpen(b, status, action)
              \/ Loses(w, b, status, action) \/ StaysClosed(w, b, status, action)
    BY RecordFacts, Zenon
  <1>2. /\ w \in Timers /\ w.timing = Timing(cfg.lost) /\ Sound(w, pending.at) /\ OnRun(w)
        /\ w.loss /\ ~row.cp.pending => origin + pending.at - ghost.known >= cfg.lost
        /\ Age(w, pending.at) >= cfg.lost => origin + pending.at - ghost.known >= cfg.lost
    BY <1>1 DEF Ready
  <1>3. /\ pending.at \in Nat /\ origin \in Int /\ cfg.lost \in Losts
        /\ row.incident \in {"none", "firing", "resolved"}
    BY OtherFields, RowFields DEF IInv
  <1>4. /\ w.timing.suspect \in Nat /\ w.timing.suspect <= w.timing.lost /\ w.timing.lost \in Nat
        /\ w.timing.suspect <= Suspect /\ w.timing.lost = cfg.lost /\ w.timing.recover = Recover
        /\ Suspect \in Nat /\ Recover \in Nat
    BY <1>2, <1>3, TimingFacts, WatchdogAssumption
  <1>5. p.page <=> Pages(status, action)
    BY <1>1, Zenon DEF Recorded
  <1>6. PICK x : x = IF action = "open" THEN origin + pending.at ELSE row.started
    OBVIOUS
  <1>7. PICK y : y = IF Pages(status, action) THEN origin + pending.at ELSE row.paged
    OBVIOUS
  <1>8. p.next.incident = Incident(action) /\ p.next.started = x /\ p.next.paged = y
    <2>1. PICK cp : p.next = [cp |-> cp, status |-> status, incident |-> Incident(action),
                              started |-> x, paged |-> y]
      BY <1>1, <1>6, <1>7, Zenon DEF Recorded
    <2> QED
      BY <2>1
  <1>9. Open <=> row.incident = "firing"
    BY DEF Open
  <1>10. CASE Resolves(w, b, status, action)
    <2>1. /\ Open /\ action = "resolve" /\ status = "healthy"
          /\ w.latest /\ w.healthy >= 0 /\ w.streak >= 0 /\ w.healthy - w.streak >= w.timing.recover
          /\ Age(w, pending.at) < w.timing.suspect
      BY <1>10 DEF Resolves
    <2>2. p.next.incident = "resolved" /\ p.next.started = row.started
      BY <1>6, <1>8, <2>1 DEF Incident
    <2>3. /\ 0 <= RunOf(pending).since /\ RunOf(pending).since <= w.streak
          /\ RunOf(pending).at = w.healthy
      BY <1>2, <2>1 DEF OnRun
    <2>4. RunOf(pending).since \in Int /\ w.healthy \in Int /\ w.streak \in Int
      <3>1. ghost.run.since \in Int /\ pending.since \in Int
        BY GhostFields, OtherFields DEF IInv
      <3>2. \/ RunOf(pending) = ghost.run
            \/ RunOf(pending) = [since |-> pending.since, at |-> pending.at]
            \/ RunOf(pending) = [since |-> -1, at |-> 0]
        BY Zenon DEF RunOf, NoRun
      <3>3. RunOf(pending).since \in Int
        BY <3>1, <3>2
      <3> QED
        BY <1>2, <3>3, TimerFields
    <2>5. RunOf(pending).at - RunOf(pending).since >= Recover
      BY <1>4, <2>1, <2>3, <2>4
    <2>6. pending.at - w.healthy < Suspect
      <3>1. /\ Age(w, pending.at) \in Nat
            /\ w.healthy >= 0 /\ Age(w, pending.at) < w.timing.lost => Age(w, pending.at) = pending.at - w.healthy
        BY <1>2, <1>3, AgeFacts
      <3> QED
        BY <1>3, <1>4, <2>1, <2>4, <3>1
    <2>7. Pages(status, action)
      BY <2>1 DEF Pages
    <2> QED
      BY <1>5, <2>1, <2>2, <2>3, <2>4, <2>5, <2>6, <2>7 DEF Reports
  <1>11. CASE StaysOpen(b, status, action)
    <2>1. Open /\ action = "none"
      BY <1>11 DEF StaysOpen
    <2>2. p.next.incident = "firing" /\ p.next.started = row.started
      BY <1>6, <1>8, <1>9, <2>1 DEF Incident
    <2>3. Pages(status, action) => Due /\ y = origin + pending.at
      BY <1>7, <2>1 DEF Pages
    <2>4. ~Pages(status, action) => y = row.paged
      BY <1>7
    <2> QED
      BY <1>5, <1>8, <2>1, <2>2, <2>3, <2>4 DEF Reports
  <1>12. CASE Loses(w, b, status, action)
    <2>1. /\ ~Open /\ action = "open"
          /\ w.loss \/ Age(w, pending.at) >= w.timing.lost
      BY <1>12 DEF Loses
    <2>2. ~row.cp.pending
      BY <1>9, <2>1 DEF IInv, RowIsSound
    <2>3. origin + pending.at - ghost.known >= cfg.lost
      BY <1>2, <1>4, <2>1, <2>2
    <2>4. Pages(status, action)
      BY <2>1 DEF Pages
    <2>5. p.next.incident = "firing" /\ p.next.started = origin + pending.at /\ p.next.paged = origin + pending.at
      BY <1>6, <1>7, <1>8, <2>1, <2>4 DEF Incident
    <2> QED
      BY <1>5, <2>1, <2>3, <2>4, <2>5 DEF Reports
  <1>13. CASE StaysClosed(w, b, status, action)
    <2>1. ~Open /\ action = "none"
      BY <1>13 DEF StaysClosed
    <2>2. p.next.incident # "firing" /\ p.next.started = row.started
      BY <1>6, <1>8, <1>9, <2>1 DEF Incident
    <2>3. ~Pages(status, action)
      BY <2>1 DEF Pages
    <2>4. y = row.paged
      BY <1>7, <2>3
    <2> QED
      BY <1>5, <1>8, <2>1, <2>2, <2>3, <2>4 DEF Reports
  <1> QED
    BY <1>1, <1>10, <1>11, <1>12, <1>13

LEMMA DisabledIsSane ==
  ASSUME IInv, origin >= 0, Some(pending), ~cfg.enabled, NEW p, p = Proposal
  PROVE  Sane(p) /\ Reports(p)
  <1>1. /\ pending.at \in Nat /\ origin \in Int /\ cfg.lost \in Losts /\ row \in Rows
        /\ row.started \in Nat /\ row.paged \in Int /\ ghost.known \in Int /\ row.cp.loss \in Nat
        /\ row.incident \in {"none", "firing", "resolved"}
    BY OtherFields, RowFields, GhostFields DEF IInv
  <1>2. p = Disabled(pending.at)
    BY DEF Proposal
  <1>3. Zero \in Checkpoints /\ Zero.armed = FALSE /\ Zero.loss = 0 /\ Zero.pending = FALSE
    BY DEF Zero, Checkpoints
  <1>4. PICK v : v = RestoreTimer(Timing(cfg.lost), pending.at, Zero)
    OBVIOUS
  <1>5. Restored(v, Timing(cfg.lost), pending.at, Zero)
    BY <1>1, <1>3, <1>4, RestoreFacts
  <1>6. /\ v \in Timers /\ v.armed = FALSE /\ v.loss = FALSE /\ v.last = pending.at
        /\ v.base = pending.at /\ v.healthy = -1 /\ v.streak = -1 /\ v.latest = FALSE /\ v.carried = 0
    BY <1>3, <1>5 DEF Restored
  <1>7. Sound(v, pending.at) /\ OnRun(v)
    BY <1>1, <1>6 DEF Sound, OnRun
  <1>8. PICK n : n = IF Open THEN "resolved" ELSE row.incident
    OBVIOUS
  <1>9. /\ p.on = TRUE /\ p.valid = TRUE /\ p.page = FALSE /\ p.rev = cfg.rev /\ p.timer = v
        /\ p.next = [row EXCEPT !.cp = Zero, !.status = "unarmed", !.incident = n]
    <2>1. Disabled(pending.at) =
            [on |-> TRUE, rev |-> cfg.rev, valid |-> TRUE, page |-> FALSE, timer |-> v,
             next |-> [row EXCEPT !.cp = Zero, !.status = "unarmed", !.incident = n]]
      BY <1>4, <1>8 DEF Disabled
    <2>2. PICK x : x = [row EXCEPT !.cp = Zero, !.status = "unarmed", !.incident = n]
      OBVIOUS
    <2>3. p = [on |-> TRUE, rev |-> cfg.rev, valid |-> TRUE, page |-> FALSE, timer |-> v, next |-> x]
      BY <1>2, <2>1, <2>2, Zenon
    <2>4. p.on = TRUE /\ p.valid = TRUE /\ p.page = FALSE /\ p.rev = cfg.rev /\ p.timer = v /\ p.next = x
      BY <2>3
    <2> QED
      BY <2>2, <2>4, Zenon
  <1>10. n \in {"none", "firing", "resolved"} /\ n # "firing"
    BY <1>1, <1>8 DEF Open
  <1>11. /\ p.next \in Rows /\ p.next.cp = Zero /\ p.next.incident = n
         /\ p.next.started = row.started /\ p.next.paged = row.paged
    <2>1. "unarmed" \in {"unarmed", "starting", "healthy", "suspect", "lost", "recovering"}
      OBVIOUS
    <2> QED
      BY <1>1, <1>3, <1>9, <1>10, <2>1, Zenon DEF Rows
  <1>12. ghost.known <= origin + pending.at
    <2>1. ghost.known + row.cp.loss - origin <= pending.at
      BY DEF IInv, KnownIsGrounded, Before
    <2> QED
      BY <1>1, <2>1
  <1>13. ghost.known + Zero.loss <= origin + pending.at
    BY <1>1, <1>3, <1>12
  <1>14. Sane(p)
    BY <1>3, <1>6, <1>7, <1>9, <1>11, <1>13 DEF Sane
  <1>15. Reports(p)
    BY <1>9, <1>10, <1>11 DEF Reports
  <1> QED
    BY <1>14, <1>15

\* Whatever the settings, a proposal writes and reports only what it may.
LEMMA ProposalFacts ==
  ASSUME IInv, origin >= 0, Some(pending), NEW p, p = Proposal
  PROVE  Sane(p) /\ Reports(p)
  <1>1. CASE cfg.enabled
    BY <1>1, RecordIsSane, RecordReports
  <1>2. CASE ~cfg.enabled
    BY <1>2, DisabledIsSane
  <1> QED
    BY <1>1, <1>2

-----------------------------------------------------------------------------
(* The steps. *)

\* The proposal reads the settings, the event, the row and the source.
LEMMA SameProposal ==
  ASSUME UNCHANGED <<origin, pending, src, row, cfg>>
  PROVE  Proposal' = Proposal
  <1>1. BaseTimer(pending.at)' = BaseTimer(pending.at)
    BY DEF BaseTimer
  <1>2. Sampled(pending)' = Sampled(pending)
    BY <1>1 DEF Sampled
  <1>3. Open' = Open
    BY DEF Open
  <1>4. Result' = Result
    BY <1>2, <1>3 DEF Result
  <1>5. Disabled(pending.at)' = Disabled(pending.at)
    BY <1>3 DEF Disabled
  <1> QED
    BY <1>1, <1>3, <1>4, <1>5 DEF Proposal, Record

LEMMA SameSource ==
  ASSUME UNCHANGED src
  PROVE  SourceMark' = SourceMark /\ (Holding <=> Holding')
  BY DEF SourceMark, Mark, NoMark, Holding

LEMMA SamePending ==
  ASSUME UNCHANGED <<src, pending>>
  PROVE  PendingMark' = PendingMark
  BY SameSource DEF PendingMark, EventMark, Mark, NoMark

LEMMA SameInbox ==
  ASSUME UNCHANGED <<src, pending, inbox>>
  PROVE  InboxMark' = InboxMark /\ LastMark' = LastMark
  BY SamePending DEF InboxMark, LastMark, EventMark, Mark, NoMark, Some

\* Steps that leave the owner, its inbox and what it reads as they are.
LEMMA SettledStep ==
  ASSUME IInv, UNCHANGED <<now, origin, inbox, pending, src, row, cfg, ghost>>,
         session' \in [gen : Nat, live : BOOLEAN], Asleep', ProposalIsFresh'
  PROVE  IInv'
  <1>1. Types'
    BY DEF IInv, Types
  <1>2. SourceIsSound' /\ RowIsSound'
    BY DEF IInv, SourceIsSound, RowIsSound, Sound
  <1>3. InboxIsCurrent'
    BY DEF IInv, InboxIsCurrent, Some, Current
  <1>4. Ordered'
    BY DEF IInv, Ordered, Before, AfterPending, Some, Elapsed
  <1>5. KnownIsGrounded'
    BY DEF IInv, KnownIsGrounded, Before, Some, Elapsed, Holding, Grounded
  <1>6. RunsAreUnbroken'
    <2>1. SourceMark' = SourceMark /\ InboxMark' = InboxMark /\ LastMark' = LastMark
      BY SameSource, SameInbox
    <2> QED
      BY <2>1 DEF IInv, RunsAreUnbroken, Extends, EventMark, Mark, NoMark, Elapsed
  <1>7. PagesAreCounted'
    BY DEF IInv, PagesAreCounted
  <1> QED
    BY <1>1, <1>2, <1>3, <1>4, <1>5, <1>6, <1>7 DEF IInv

LEMMA QuietStep ==
  ASSUME IInv, UNCHANGED <<now, origin, inbox, pending, op, src, row, cfg, ghost>>,
         session' \in [gen : Nat, live : BOOLEAN]
  PROVE  IInv'
  <1>1. Asleep'
    BY DEF IInv, Asleep
  <1>2. ProposalIsFresh'
    BY SameProposal DEF IInv, ProposalIsFresh, Some
  <1> QED
    BY <1>1, <1>2, SettledStep

LEMMA AdoptStep ==
  ASSUME IInv, Adopt
  PROVE  IInv'
  <1>1. session' \in [gen : Nat, live : BOOLEAN]
    BY DEF IInv, Types, Adopt
  <1> QED
    BY <1>1, QuietStep DEF Adopt, Same

LEMMA QueueFields ==
  ASSUME Types, NEW i \in 1..Len(inbox.queue)
  PROVE  /\ inbox.queue[i] \in Events /\ inbox.queue[i].at \in Nat /\ inbox.queue[i].since \in Int
  <1>1. inbox.queue \in Seq(Events)
    BY DEF Types
  <1>2. inbox.queue[i] \in Events
    BY <1>1
  <1> QED
    BY <1>2 DEF Events

LEMMA InboxFields ==
  ASSUME Types
  PROVE  /\ inbox.queue \in Seq(Events) /\ Len(inbox.queue) \in Nat
         /\ inbox.interrupt \in Events \cup {NoEvent} /\ inbox.interrupt.at \in Nat
         /\ inbox.gen \in Nat /\ inbox.connected \in BOOLEAN
  <1>1. /\ inbox.queue \in Seq(Events) /\ inbox.interrupt \in Events \cup {NoEvent}
        /\ inbox.gen \in Nat /\ inbox.connected \in BOOLEAN
    BY DEF Types
  <1> QED
    BY <1>1, EventFields

\* The times in the owner's hands are integers.
LEMMA TimeFields ==
  ASSUME Types
  PROVE  /\ src.timer.on => src.timer.last \in Int
         /\ pending.at \in Int /\ inbox.interrupt.at \in Int
         /\ \A i \in 1..Len(inbox.queue) : inbox.queue[i].at \in Int
         /\ Elapsed(now) \in Int
  <1>1. src.timer.on => src.timer.last \in Int
    <2>1. SUFFICES ASSUME src.timer.on PROVE src.timer.last \in Int
      OBVIOUS
    <2>2. src.timer \in Timers
      BY <2>1, SourceFields
    <2>3. src.timer.last \in Nat
      BY <2>2, TimerFields
    <2> QED
      BY <2>3
  <1>2. pending.at \in Int /\ inbox.interrupt.at \in Int
    BY OtherFields, InboxFields
  <1>3. \A i \in 1..Len(inbox.queue) : inbox.queue[i].at \in Int
    BY QueueFields
  <1>4. Elapsed(now) \in Int
    BY OtherFields DEF Elapsed
  <1> QED
    BY <1>1, <1>2, <1>3, <1>4

LEMMA TickStep ==
  ASSUME IInv, Tick
  PROVE  IInv'
  <1>0. /\ now' = now + 1 /\ now \in Nat /\ origin \in Int
        /\ UNCHANGED <<origin, inbox, pending, op, src, row, cfg, session, faults, ghost>>
    BY OtherFields DEF IInv, Tick
  <1>1. Types'
    <2>1. now' \in Nat /\ -1 <= origin' /\ origin' <= now'
      BY <1>0, OtherFields DEF IInv
    <2> QED
      BY <1>0, <2>1 DEF IInv, Types
  <1>2. Asleep' /\ SourceIsSound' /\ RowIsSound'
    BY <1>0 DEF IInv, Asleep, SourceIsSound, RowIsSound, Sound
  <1>3. InboxIsCurrent'
    BY <1>0 DEF IInv, InboxIsCurrent, Some, Current
  <1>4. Elapsed(now)' = Elapsed(now) + 1 /\ Elapsed(now) \in Int
    BY <1>0 DEF Elapsed
  <1>5. \A v \in Int : Before(v) => Before(v)'
    BY <1>0, <1>4 DEF Before, Some
  <1>6. \A v \in Int : AfterPending(v) => AfterPending(v)'
    BY <1>0, <1>4 DEF AfterPending, Some
  <1>7. Ordered'
    <2>1. /\ src.timer.on => src.timer.last \in Int
          /\ pending.at \in Int /\ inbox.interrupt.at \in Int
          /\ \A i \in 1..Len(inbox.queue) : inbox.queue[i].at \in Int
      BY TimeFields DEF IInv
    <2>2. src'.timer.on => Before(src.timer.last)'
      BY <1>0, <1>5, <2>1 DEF IInv, Ordered
    <2>3. Some(pending)' => AfterPending(pending.at)'
      <3>1. PICK t : t = pending.at
        OBVIOUS
      <3>2. Some(pending) => AfterPending(t)'
        BY <1>6, <2>1, <3>1 DEF IInv, Ordered
      <3> QED
        BY <1>0, <3>1, <3>2 DEF Some, AfterPending, Elapsed
    <2> QED
      BY <1>0, <1>4, <2>1, <2>2, <2>3 DEF IInv, Ordered, Before, AfterPending, Some
  <1>8. KnownIsGrounded'
    <2>1. ghost.known \in Int /\ row.cp.loss \in Nat
      BY GhostFields, RowFields DEF IInv
    <2>2. PICK v : v = ghost.known + row.cp.loss - origin
      OBVIOUS
    <2>3. v \in Int
      BY <1>0, <2>1, <2>2
    <2>4. origin >= 0 => Before(v)'
      BY <1>5, <2>2, <2>3 DEF IInv, KnownIsGrounded
    <2>5. Holding' => Grounded(src.timer, ghost.known)'
      BY <1>0 DEF IInv, KnownIsGrounded, Holding, Grounded
    <2>6. ghost'.known + row'.cp.loss <= now'
      BY <1>0, <2>1 DEF IInv, KnownIsGrounded
    <2>7. origin' >= 0 => Before(ghost.known + row.cp.loss - origin)'
      BY <1>0, <2>2, <2>4 DEF Before, Some, Elapsed
    <2> QED
      BY <2>5, <2>6, <2>7 DEF KnownIsGrounded
  <1>9. RunsAreUnbroken'
    <2>1. SourceMark' = SourceMark /\ InboxMark' = InboxMark /\ LastMark' = LastMark
      BY <1>0, SameSource, SameInbox
    <2>2. ghost.since \in Int /\ ghost.heard \in Int
      BY GhostFields DEF IInv
    <2> QED
      BY <1>0, <1>4, <2>1, <2>2 DEF IInv, RunsAreUnbroken, Extends, EventMark, Mark, NoMark
  <1>10. ProposalIsFresh'
    BY <1>0, SameProposal DEF IInv, ProposalIsFresh, Some
  <1>11. PagesAreCounted'
    <2>1. row.started \in Nat /\ row.paged \in Int /\ Resend \in Nat /\ ghost.downs \in Nat
      BY RowFields, GhostFields, WatchdogAssumption DEF IInv
    <2>2. PICK d \in Int : d = (ghost.downs - 1) * Resend
      BY <2>1
    <2>3. d = (ghost'.downs - 1) * Resend
      BY <1>0, <2>2
    <2> QED
      BY <1>0, <2>1, <2>2, <2>3 DEF IInv, PagesAreCounted
  <1> QED
    BY <1>1, <1>2, <1>3, <1>7, <1>8, <1>9, <1>10, <1>11 DEF IInv

LEMMA ApplyStep ==
  ASSUME IInv, Apply
  PROVE  IInv'
  <1>0. /\ cfg'.rev = cfg.rev + 1 /\ cfg' \in [rev : Nat, enabled : BOOLEAN, lost : Losts]
        /\ UNCHANGED <<now, origin, inbox, pending, op, src, row, session, faults, ghost>>
    <2>1. cfg.rev \in Nat
      BY OtherFields DEF IInv
    <2>2. PICK e \in BOOLEAN, l \in Losts :
            cfg' = [rev |-> cfg.rev + 1, enabled |-> (e \/ cfg.rev = 0), lost |-> l]
      BY DEF Apply
    <2>3. (e \/ cfg.rev = 0) \in BOOLEAN
      OBVIOUS
    <2>4. PICK b \in BOOLEAN : b = (e \/ cfg.rev = 0)
      BY <2>3
    <2>5. cfg' = [rev |-> cfg.rev + 1, enabled |-> b, lost |-> l]
      BY <2>2, <2>4, Zenon
    <2> QED
      BY <2>1, <2>2, <2>4, <2>5 DEF Apply
  <1>1. Types'
    BY <1>0 DEF IInv, Types
  <1>2. Asleep' /\ RowIsSound' /\ PagesAreCounted'
    BY <1>0 DEF IInv, Asleep, RowIsSound, PagesAreCounted
  <1>3. SourceIsSound'
    <2>1. cfg.rev \in Nat
      BY OtherFields DEF IInv
    <2> QED
      BY <1>0, <2>1 DEF IInv, SourceIsSound, Sound
  <1>4. InboxIsCurrent'
    BY <1>0 DEF IInv, InboxIsCurrent, Some, Current
  <1>5. Ordered'
    BY <1>0 DEF IInv, Ordered, Before, AfterPending, Some, Elapsed
  <1>6. KnownIsGrounded'
    BY <1>0 DEF IInv, KnownIsGrounded, Before, Some, Elapsed, Holding, Grounded
  <1>7. RunsAreUnbroken'
    <2>1. SourceMark' = SourceMark /\ InboxMark' = InboxMark /\ LastMark' = LastMark
      BY <1>0, SameSource, SameInbox
    <2> QED
      BY <1>0, <2>1 DEF IInv, RunsAreUnbroken, Extends, EventMark, Mark, NoMark, Elapsed
  <1>8. ProposalIsFresh'
    <2>1. cfg.rev \in Nat
      BY OtherFields DEF IInv
    <2>2. op.on => op.rev <= cfg.rev /\ op.rev \in Int
      BY DEF IInv, ProposalIsFresh
    <2> QED
      BY <1>0, <2>1, <2>2 DEF IInv, ProposalIsFresh, Some
  <1> QED
    BY <1>1, <1>2, <1>3, <1>4, <1>5, <1>6, <1>7, <1>8 DEF IInv

LEMMA EmptyIsClean ==
  ASSUME inbox = EmptyInbox, pending = NoEvent, src = NoSource
  PROVE  /\ ~Some(pending) /\ ~Some(inbox.interrupt) /\ inbox.queue = <<>> /\ Len(inbox.queue) = 0
         /\ ~src.timer.on /\ ~Holding
         /\ SourceMark = NoMark /\ InboxMark = NoMark /\ LastMark = NoMark
  <1>1. /\ ~Some(pending) /\ ~Some(inbox.interrupt) /\ inbox.queue = <<>> /\ Len(inbox.queue) = 0
        /\ ~src.timer.on /\ pending.kind = "none"
    BY DEF EmptyInbox, NoEvent, Some, NoSource, NoTimer
  <1>2. ~Holding /\ SourceMark = NoMark
    BY <1>1 DEF Holding, SourceMark
  <1>3. InboxMark = NoMark
    BY <1>1, <1>2 DEF InboxMark, PendingMark
  <1>4. LastMark = NoMark
    BY <1>1, <1>3 DEF LastMark
  <1> QED
    BY <1>1, <1>2, <1>3, <1>4

\* With nothing in the owner's hands the parts about it hold.
LEMMA EmptyParts ==
  ASSUME inbox = EmptyInbox, pending = NoEvent, src = NoSource, op = NoOp,
         now \in Nat, origin \in Int, ghost.known \in Int, row.cp.loss \in Nat,
         ghost.known + row.cp.loss <= now, origin < 0 \/ origin = now,
         ghost.since = -1, ghost.heard = -1
  PROVE  /\ Asleep /\ SourceIsSound /\ InboxIsCurrent /\ Ordered /\ KnownIsGrounded
         /\ RunsAreUnbroken /\ ProposalIsFresh
  <1>1. /\ ~Some(pending) /\ ~Some(inbox.interrupt) /\ inbox.queue = <<>> /\ Len(inbox.queue) = 0
        /\ ~src.timer.on /\ ~Holding
        /\ SourceMark = NoMark /\ InboxMark = NoMark /\ LastMark = NoMark
    BY EmptyIsClean
  <1>2. Asleep
    BY DEF Asleep
  <1>3. SourceIsSound /\ InboxIsCurrent
    BY <1>1 DEF SourceIsSound, InboxIsCurrent
  <1>4. Ordered
    BY <1>1 DEF Ordered
  <1>5. KnownIsGrounded
    <2>1. origin >= 0 => ghost.known + row.cp.loss - origin <= Elapsed(now)
      BY DEF Elapsed
    <2> QED
      BY <1>1, <2>1 DEF KnownIsGrounded, Before
  <1>6. RunsAreUnbroken
    <2>1. NoMark.since = -1 /\ pending.kind # "healthy"
      BY DEF NoMark, Mark, NoEvent
    <2>2. origin >= 0 => Elapsed(now) = 0
      BY DEF Elapsed
    <2> QED
      BY <1>1, <2>1, <2>2 DEF RunsAreUnbroken, Extends
  <1>7. ProposalIsFresh
    BY DEF ProposalIsFresh, NoOp
  <1> QED
    BY <1>2, <1>3, <1>4, <1>5, <1>6, <1>7

LEMMA EmptyIsCleanNext ==
  ASSUME inbox' = EmptyInbox, pending' = NoEvent, src' = NoSource
  PROVE  /\ ~Some(pending)' /\ ~Some(inbox.interrupt)' /\ inbox'.queue = <<>> /\ Len(inbox'.queue) = 0
         /\ ~src'.timer.on /\ ~Holding'
         /\ SourceMark' = NoMark /\ InboxMark' = NoMark /\ LastMark' = NoMark
  <1>1. /\ ~Some(pending)' /\ ~Some(inbox.interrupt)' /\ inbox'.queue = <<>> /\ Len(inbox'.queue) = 0
        /\ ~src'.timer.on /\ pending'.kind = "none"
    BY DEF EmptyInbox, NoEvent, Some, NoSource, NoTimer
  <1>2. ~Holding' /\ SourceMark' = NoMark
    BY <1>1 DEF Holding, SourceMark
  <1>3. InboxMark' = NoMark
    BY <1>1, <1>2 DEF InboxMark, PendingMark
  <1>4. LastMark' = NoMark
    BY <1>1, <1>3 DEF LastMark
  <1> QED
    BY <1>1, <1>2, <1>3, <1>4

\* With nothing in the owner's hands the parts about it hold.
LEMMA EmptyPartsNext ==
  ASSUME inbox' = EmptyInbox, pending' = NoEvent, src' = NoSource, op' = NoOp,
         now' \in Nat, origin' \in Int, ghost'.known \in Int, row'.cp.loss \in Nat,
         ghost'.known + row'.cp.loss <= now', origin' < 0 \/ origin' = now',
         ghost'.since = -1, ghost'.heard = -1
  PROVE  /\ Asleep' /\ SourceIsSound' /\ InboxIsCurrent' /\ Ordered' /\ KnownIsGrounded'
         /\ RunsAreUnbroken' /\ ProposalIsFresh'
  <1>1. /\ ~Some(pending)' /\ ~Some(inbox.interrupt)' /\ inbox'.queue = <<>> /\ Len(inbox'.queue) = 0
        /\ ~src'.timer.on /\ ~Holding'
        /\ SourceMark' = NoMark /\ InboxMark' = NoMark /\ LastMark' = NoMark
    BY EmptyIsCleanNext
  <1>2. Asleep'
    BY DEF Asleep
  <1>3. SourceIsSound' /\ InboxIsCurrent'
    BY <1>1 DEF SourceIsSound, InboxIsCurrent
  <1>4. Ordered'
    BY <1>1 DEF Ordered
  <1>5. KnownIsGrounded'
    <2>0. Elapsed(now)' = now' - origin'
      BY DEF Elapsed
    <2>1. origin' >= 0 => ghost'.known + row'.cp.loss - origin' <= Elapsed(now)'
      BY <2>0
    <2> QED
      BY <1>1, <2>1 DEF KnownIsGrounded, Before
  <1>6. RunsAreUnbroken'
    <2>1. NoMark.since = -1 /\ pending'.kind # "healthy"
      BY DEF NoMark, Mark, NoEvent
    <2>3. Elapsed(now)' = now' - origin'
      BY DEF Elapsed
    <2>4. origin' >= 0 => origin' = now'
      OBVIOUS
    <2>5. \A n \in Nat : n - n = 0
      OBVIOUS
    <2>2. origin' >= 0 => Elapsed(now)' = 0
      BY <2>3, <2>4, <2>5, Zenon
    <2> QED
      BY <1>1, <2>1, <2>2 DEF RunsAreUnbroken, Extends
  <1>7. ProposalIsFresh'
    BY DEF ProposalIsFresh, NoOp
  <1> QED
    BY <1>2, <1>3, <1>4, <1>5, <1>6, <1>7

LEMMA StartStep ==
  ASSUME IInv, Start
  PROVE  IInv'
  <1>0. /\ origin < 0 /\ origin' = now
        /\ UNCHANGED <<now, inbox, pending, op, src, row, cfg, session, faults, ghost>>
    BY DEF Start
  <1>1. Types'
    BY <1>0 DEF IInv, Types
  <1>2. inbox = EmptyInbox /\ pending = NoEvent /\ op = NoOp /\ src = NoSource
    BY <1>0 DEF IInv, Asleep
  <1>3. /\ now' \in Nat /\ origin' \in Int /\ ghost'.known \in Int /\ row'.cp.loss \in Nat
        /\ ghost'.known + row'.cp.loss <= now'
    BY <1>0, OtherFields, GhostFields, RowFields DEF IInv, KnownIsGrounded
  <1>4. ghost'.since = -1 /\ ghost'.heard = -1
    BY <1>0 DEF IInv, Asleep
  <1>5. /\ Asleep /\ SourceIsSound /\ InboxIsCurrent /\ Ordered /\ KnownIsGrounded
        /\ RunsAreUnbroken /\ ProposalIsFresh
    BY DEF IInv
  <1>6. /\ Asleep' /\ SourceIsSound' /\ InboxIsCurrent' /\ Ordered' /\ KnownIsGrounded'
        /\ RunsAreUnbroken' /\ ProposalIsFresh'
    BY <1>0, <1>2, <1>3, <1>4, EmptyPartsNext
  <1>7. RowIsSound' /\ PagesAreCounted'
    BY <1>0 DEF IInv, RowIsSound, PagesAreCounted
  <1> QED
    BY <1>1, <1>6, <1>7 DEF IInv

LEMMA StopStep ==
  ASSUME IInv, Stop
  PROVE  IInv'
  <1>0. /\ origin' = -1 /\ inbox' = EmptyInbox /\ pending' = NoEvent /\ op' = NoOp /\ src' = NoSource
        /\ ghost' = [ghost EXCEPT !.since = -1, !.heard = -1, !.run = NoRun]
        /\ session' = [session EXCEPT !.live = FALSE]
        /\ UNCHANGED <<now, row, cfg>>
    BY DEF Stop
  <1>1. /\ ghost'.since = -1 /\ ghost'.heard = -1 /\ ghost'.known = ghost.known
        /\ ghost'.downs = ghost.downs /\ ghost'.ups = ghost.ups
    BY <1>0 DEF IInv, Types
  <1>2. ghost' \in [since : Int, heard : Int, run : Runs, known : Int, downs : Nat, ups : Nat]
    <2>1. NoRun \in Runs /\ -1 \in Int
      BY DEF NoRun, Runs
    <2>2. PICK m \in Int : m = -1
      BY <2>1
    <2>3. ghost' = [ghost EXCEPT !.since = m, !.heard = m, !.run = NoRun]
      BY <1>0, <2>2, Zenon
    <2>4. ghost \in [since : Int, heard : Int, run : Runs, known : Int, downs : Nat, ups : Nat]
      BY DEF IInv, Types
    <2> QED
      BY <2>1, <2>2, <2>3, <2>4, Zenon
  <1>3. Types'
    <2>1. inbox' \in [gen : Nat, connected : BOOLEAN, queue : Seq(Events), interrupt : Events \cup {NoEvent}]
      BY <1>0 DEF EmptyInbox
    <2>2. session' \in [gen : Nat, live : BOOLEAN]
      BY <1>0 DEF IInv, Types
    <2>3. now \in Nat /\ -1 \in Int /\ -1 <= -1 /\ -1 <= now
      BY OtherFields DEF IInv
    <2> QED
      BY <1>0, <1>2, <2>1, <2>2, <2>3 DEF IInv, Types
  <1>4. /\ now' \in Nat /\ origin' \in Int /\ ghost'.known \in Int /\ row'.cp.loss \in Nat
        /\ ghost'.known + row'.cp.loss <= now' /\ origin' < 0
    BY <1>0, <1>1, OtherFields, GhostFields, RowFields DEF IInv, KnownIsGrounded
  <1>5. /\ Asleep' /\ SourceIsSound' /\ InboxIsCurrent' /\ Ordered' /\ KnownIsGrounded'
        /\ RunsAreUnbroken' /\ ProposalIsFresh'
    BY <1>0, <1>1, <1>4, EmptyPartsNext
  <1>6. RowIsSound' /\ PagesAreCounted'
    BY <1>0, <1>1 DEF IInv, RowIsSound, PagesAreCounted
  <1> QED
    BY <1>3, <1>5, <1>6 DEF IInv

\* A session begins or ends: the queue is empty and the cut is the latest event.
Interrupted(gen) ==
  /\ inbox' = [gen |-> inbox'.gen, connected |-> inbox'.connected, queue |-> <<>>, interrupt |-> Cut(gen)]
  /\ inbox'.gen \in Nat /\ inbox'.connected \in BOOLEAN
  /\ gen = 0 \/ (inbox'.connected /\ gen = inbox'.gen)
  /\ ghost' = [ghost EXCEPT !.since = -1, !.heard = -1]
  /\ session' \in [gen : Nat, live : BOOLEAN]
  /\ UNCHANGED <<now, origin, pending, op, src, row, cfg>>

LEMMA InterruptedStep ==
  ASSUME IInv, origin >= 0, NEW gen \in Nat, Interrupted(gen)
  PROVE  IInv'
  <1>0. /\ inbox' = [gen |-> inbox'.gen, connected |-> inbox'.connected, queue |-> <<>>, interrupt |-> Cut(gen)]
        /\ inbox'.gen \in Nat /\ inbox'.connected \in BOOLEAN
        /\ gen = 0 \/ (inbox'.connected /\ gen = inbox'.gen)
        /\ ghost' = [ghost EXCEPT !.since = -1, !.heard = -1]
        /\ session' \in [gen : Nat, live : BOOLEAN]
        /\ UNCHANGED <<now, origin, pending, op, src, row, cfg>>
    BY DEF Interrupted
  <1>1. Types
    BY DEF IInv
  <1>2. /\ now \in Nat /\ origin \in Int /\ Elapsed(now) \in Nat
        /\ Elapsed(now) = now - origin /\ Elapsed(now)' = now - origin
    <2>1. now \in Nat /\ origin \in Int /\ origin <= now
      BY <1>1, OtherFields
    <2>2. Elapsed(now) = now - origin /\ Elapsed(now)' = now' - origin'
      BY DEF Elapsed
    <2> QED
      BY <1>0, <2>1, <2>2
  <1>3. PICK c : c = Cut(gen)
    OBVIOUS
  <1>4. /\ c \in Events /\ c.kind = "cut" /\ c.at = Elapsed(now) /\ c.gen = gen
    BY <1>2, <1>3 DEF Cut, Events, Kinds
  <1>5. inbox'.queue = <<>> /\ inbox'.interrupt = c /\ Len(inbox'.queue) = 0
    BY <1>0, <1>3
  <1>6. /\ ghost'.since = -1 /\ ghost'.heard = -1 /\ ghost'.known = ghost.known /\ ghost'.run = ghost.run
        /\ ghost'.downs = ghost.downs /\ ghost'.ups = ghost.ups
        /\ ghost' \in [since : Int, heard : Int, run : Runs, known : Int, downs : Nat, ups : Nat]
    <2>1. PICK m \in Int : m = -1
      OBVIOUS
    <2>2. ghost' = [ghost EXCEPT !.since = m, !.heard = m]
      BY <1>0, <2>1, Zenon
    <2>3. ghost \in [since : Int, heard : Int, run : Runs, known : Int, downs : Nat, ups : Nat]
      BY <1>1 DEF Types
    <2>4. ghost' \in [since : Int, heard : Int, run : Runs, known : Int, downs : Nat, ups : Nat]
      BY <2>1, <2>2, <2>3, Zenon
    <2>5. /\ ghost'.since = m /\ ghost'.heard = m /\ ghost'.known = ghost.known /\ ghost'.run = ghost.run
          /\ ghost'.downs = ghost.downs /\ ghost'.ups = ghost.ups
      BY <2>2, <2>3, Zenon
    <2> QED
      BY <2>1, <2>4, <2>5
  <1>7. Types'
    <2>1. inbox' \in [gen : Nat, connected : BOOLEAN, queue : Seq(Events), interrupt : Events \cup {NoEvent}]
      <3>1. inbox' = [gen |-> inbox'.gen, connected |-> inbox'.connected, queue |-> <<>>, interrupt |-> c]
        BY <1>0, <1>3, Zenon
      <3>2. <<>> \in Seq(Events) /\ c \in Events \cup {NoEvent}
        BY <1>4
      <3> QED
        <4>1. PICK g \in Nat, k \in BOOLEAN : g = inbox'.gen /\ k = inbox'.connected
          BY <1>0
        <4>2. inbox' = [gen |-> g, connected |-> k, queue |-> <<>>, interrupt |-> c]
          BY <3>1, <4>1, Zenon
        <4> QED
          BY <3>2, <4>1, <4>2
    <2> QED
      BY <1>0, <1>1, <1>6, <2>1 DEF Types
  <1>8. Asleep' /\ SourceIsSound' /\ RowIsSound' /\ PagesAreCounted'
    <2>1. Asleep'
      BY <1>0, <1>2 DEF Asleep
    <2>2. SourceIsSound' /\ RowIsSound'
      BY <1>0 DEF IInv, SourceIsSound, RowIsSound, Sound
    <2>3. PagesAreCounted'
      BY <1>0, <1>6 DEF IInv, PagesAreCounted
    <2> QED
      BY <2>1, <2>2, <2>3
  <1>9. Some(inbox.interrupt)'
    BY <1>4, <1>5 DEF Some
  <1>10. InboxIsCurrent'
    <2>1. Current(inbox.interrupt)'
      BY <1>0, <1>4, <1>5 DEF Current
    <2> QED
      BY <1>4, <1>5, <1>9, <2>1 DEF InboxIsCurrent
  <1>11. ASSUME NEW v \in Int, Before(v) PROVE Before(v)'
    <2>1. v <= Elapsed(now)
      BY <1>11 DEF Before
    <2>2. Some(pending)' => v <= pending'.at
      BY <1>0, <1>11 DEF Before, Some
    <2> QED
      BY <1>2, <1>4, <1>5, <2>1, <2>2 DEF Before
  <1>12. Ordered'
    <2>1. src'.timer.on => Before(src.timer.last)'
      <3>1. src.timer.on => src.timer.last \in Int
        BY <1>1, TimeFields
      <3>2. src.timer.on => Before(src.timer.last)
        BY DEF IInv, Ordered
      <3>3. PICK v : v = src.timer.last
        OBVIOUS
      <3>4. src.timer.on => Before(v)'
        BY <1>11, <3>1, <3>2, <3>3
      <3> QED
        BY <1>0, <3>3, <3>4 DEF Before
    <2>2. Some(pending)' => AfterPending(pending.at)'
      <3>1. Some(pending) => pending.at <= Elapsed(now)
        BY DEF IInv, Ordered, AfterPending
      <3> QED
        BY <1>0, <1>2, <1>4, <1>5, <3>1 DEF Some, AfterPending
    <2> QED
      BY <1>2, <1>4, <1>5, <2>1, <2>2 DEF Ordered
  <1>13. KnownIsGrounded'
    <2>1. PICK v : v = ghost.known + row.cp.loss - origin
      OBVIOUS
    <2>2. v \in Int
      BY <1>1, <1>2, <2>1, GhostFields, RowFields
    <2>3. Before(v)'
      BY <1>11, <2>1, <2>2 DEF IInv, KnownIsGrounded
    <2>4. Before(ghost.known + row.cp.loss - origin)'
      BY <1>0, <1>6, <2>1, <2>3 DEF Before
    <2>5. Holding' => Grounded(src.timer, ghost.known)'
      BY <1>0, <1>6 DEF IInv, KnownIsGrounded, Holding, Grounded
    <2> QED
      BY <1>0, <1>6, <2>4, <2>5 DEF IInv, KnownIsGrounded
  <1>14. RunsAreUnbroken'
    <2>1. SourceMark' = SourceMark
      BY <1>0, SameSource
    <2>2. LastMark' = NoMark /\ NoMark.since = -1
      BY <1>5, <1>9 DEF LastMark, InboxMark, NoMark, Mark
    <2>3. Extends(pending, SourceMark)'
      BY <1>0, <2>1 DEF IInv, RunsAreUnbroken, Extends
    <2> QED
      BY <1>0, <1>2, <1>5, <1>6, <2>1, <2>2, <2>3 DEF IInv, RunsAreUnbroken
  <1>15. ProposalIsFresh'
    BY <1>0, SameProposal DEF IInv, ProposalIsFresh, Some
  <1> QED
    BY <1>7, <1>8, <1>10, <1>12, <1>13, <1>14, <1>15 DEF IInv

LEMMA BeginStep ==
  ASSUME IInv, Begin
  PROVE  IInv'
  <1>1. session.gen \in Nat /\ session \in [gen : Nat, live : BOOLEAN]
    BY DEF IInv, Types
  <1>2. Interrupted(session.gen)
    BY <1>1 DEF Begin, Same, Interrupted
  <1> QED
    BY <1>1, <1>2, InterruptedStep DEF Begin

LEMMA EndStep ==
  ASSUME IInv, End
  PROVE  IInv'
  <1>1. /\ inbox \in [gen : Nat, connected : BOOLEAN, queue : Seq(Events), interrupt : Events \cup {NoEvent}]
        /\ session \in [gen : Nat, live : BOOLEAN]
    BY DEF IInv, Types
  <1>2. session' \in [gen : Nat, live : BOOLEAN]
    <2>1. CASE session' = session
      BY <1>1, <2>1
    <2>2. CASE session' = [session EXCEPT !.live = @ /\ session.gen # inbox.gen]
      <3>1. PICK b \in BOOLEAN : b = (session.live /\ session.gen # inbox.gen)
        OBVIOUS
      <3>2. session' = [session EXCEPT !.live = b]
        BY <2>2, <3>1, Zenon
      <3> QED
        BY <1>1, <3>1, <3>2, Zenon
    <2> QED
      BY <2>1, <2>2 DEF End
  <1>3. PICK c : c = Cut(0)
    OBVIOUS
  <1>4. inbox' = [inbox EXCEPT !.connected = FALSE, !.queue = <<>>, !.interrupt = c]
    BY <1>3 DEF End
  <1>5. inbox' = [gen |-> inbox.gen, connected |-> FALSE, queue |-> <<>>, interrupt |-> c]
    BY <1>1, <1>4
  <1>6. /\ inbox' = [gen |-> inbox'.gen, connected |-> inbox'.connected, queue |-> <<>>, interrupt |-> Cut(0)]
        /\ inbox'.gen \in Nat /\ inbox'.connected \in BOOLEAN
    BY <1>1, <1>3, <1>5
  <1>7. Interrupted(0)
    BY <1>2, <1>6 DEF End, Same, Interrupted
  <1> QED
    BY <1>7, InterruptedStep DEF End

Marks == [since : Int, heard : Int]

LEMMA MarkFields ==
  ASSUME Types
  PROVE  /\ NoMark \in Marks /\ NoMark.since = -1
         /\ SourceMark \in Marks /\ PendingMark \in Marks /\ InboxMark \in Marks
         /\ \A e \in Events \cup {NoEvent} : EventMark(e) \in Marks
         /\ \A i \in 1..Len(inbox.queue) : EventMark(inbox.queue[i]) \in Marks
  <1>1. NoMark \in Marks /\ NoMark.since = -1
    BY DEF NoMark, Mark, Marks
  <1>2. SourceMark \in Marks
    <2>1. CASE src.timer.on
      <3>1. src.timer.streak \in Int /\ src.timer.healthy \in Int
        BY <2>1, SourceFields, TimerFields
      <3>2. SourceMark = Mark(src.timer.streak, src.timer.healthy) \/ SourceMark = NoMark
        BY DEF SourceMark
      <3> QED
        BY <1>1, <3>1, <3>2 DEF Mark, Marks
    <2>2. CASE ~src.timer.on
      BY <1>1, <2>2 DEF SourceMark
    <2> QED
      BY <2>1, <2>2
  <1>3. ASSUME NEW e \in Events \cup {NoEvent} PROVE EventMark(e) \in Marks
    <2>1. e.since \in Int /\ e.at \in Int
      BY EventFields
    <2>2. EventMark(e) = Mark(e.since, e.at) \/ EventMark(e) = NoMark
      BY DEF EventMark
    <2> QED
      BY <1>1, <2>1, <2>2 DEF Mark, Marks
  <1>4. PendingMark \in Marks
    <2>1. pending \in Events \cup {NoEvent}
      BY OtherFields
    <2>2. PendingMark = SourceMark \/ PendingMark = EventMark(pending)
      BY DEF PendingMark
    <2> QED
      BY <1>2, <1>3, <2>1, <2>2
  <1>5. InboxMark \in Marks
    BY <1>1, <1>4 DEF InboxMark
  <1>6. \A i \in 1..Len(inbox.queue) : EventMark(inbox.queue[i]) \in Marks
    BY <1>3, QueueFields
  <1> QED
    BY <1>1, <1>2, <1>3, <1>4, <1>5, <1>6

LEMMA LastFields ==
  ASSUME Types
  PROVE  /\ LastMark \in Marks /\ LastMark.since \in Int /\ LastMark.heard \in Int
         /\ inbox.queue # <<>> => Len(inbox.queue) \in 1..Len(inbox.queue)
  <1>1. inbox.queue # <<>> => Len(inbox.queue) \in 1..Len(inbox.queue)
    BY InboxFields
  <1>2. CASE inbox.queue = <<>>
    BY <1>1, <1>2, MarkFields DEF LastMark, Marks
  <1>3. CASE inbox.queue # <<>>
    <2>1. PICK i \in 1..Len(inbox.queue) : i = Len(inbox.queue)
      BY <1>1, <1>3
    <2>2. LastMark = EventMark(inbox.queue[i])
      BY <1>3, <2>1 DEF LastMark
    <2>3. LastMark \in Marks
      BY <2>1, <2>2, MarkFields
    <2> QED
      BY <1>1, <2>3 DEF Marks
  <1> QED
    BY <1>2, <1>3

\* A sample received now goes on with the run of the last one.
LEMMA AdmittedExtends ==
  ASSUME IInv, origin >= 0
  PROVE  /\ RunStart \in Nat /\ RunStart <= Elapsed(now)
         /\ LastMark.since >= 0 /\ Elapsed(now) - LastMark.heard < Suspect => RunStart <= LastMark.since
  <1>1. /\ ghost.since \in Int /\ ghost.heard \in Int /\ LastMark.since \in Int /\ LastMark.heard \in Int
        /\ Elapsed(now) \in Nat /\ Suspect \in Nat
    <2>1. ghost.since \in Int /\ ghost.heard \in Int
      BY GhostFields DEF IInv
    <2>2. LastMark.since \in Int /\ LastMark.heard \in Int
      BY LastFields DEF IInv
    <2>3. Elapsed(now) \in Nat
      BY OtherFields DEF IInv, Elapsed
    <2> QED
      BY <2>1, <2>2, <2>3, WatchdogAssumption
  <1>2. /\ LastMark.since >= 0 =>
             /\ 0 <= ghost.since /\ ghost.since <= LastMark.since
             /\ LastMark.heard <= ghost.heard
        /\ ghost.since <= Elapsed(now)
    BY DEF IInv, RunsAreUnbroken
  <1>3. CASE ghost.since >= 0 /\ Elapsed(now) - ghost.heard < Suspect
    <2>1. RunStart = ghost.since
      BY <1>3 DEF RunStart
    <2> QED
      BY <1>1, <1>2, <1>3, <2>1
  <1>4. CASE ~(ghost.since >= 0 /\ Elapsed(now) - ghost.heard < Suspect)
    <2>1. RunStart = Elapsed(now)
      BY <1>4 DEF RunStart
    <2> QED
      BY <1>1, <1>2, <1>4, <2>1
  <1> QED
    BY <1>3, <1>4

LEMMA AdmitStep ==
  ASSUME IInv, Admit
  PROVE  IInv'
  <1>0. /\ origin >= 0 /\ inbox.connected
        /\ UNCHANGED <<now, origin, pending, op, src, row, cfg, session>>
    BY DEF Admit, Same
  <1>1. Types
    BY DEF IInv
  <1>2. PICK kind \in {"healthy", "degraded"} :
       /\ inbox' = [inbox EXCEPT !.queue = Append(@, [kind |-> kind, at |-> Elapsed(now),
            gen |-> inbox.gen, since |-> IF kind = "healthy" THEN RunStart ELSE -1])]
       /\ ghost' = IF kind = "healthy"
                   THEN [ghost EXCEPT !.since = RunStart, !.heard = Elapsed(now)]
                   ELSE [ghost EXCEPT !.since = -1, !.heard = -1]
    BY DEF Admit
  <1>3. PICK s : s = IF kind = "healthy" THEN RunStart ELSE -1
    OBVIOUS
  <1>4. PICK e : e = [kind |-> kind, at |-> Elapsed(now), gen |-> inbox.gen, since |-> s]
    OBVIOUS
  <1>5. /\ RunStart \in Nat /\ RunStart <= Elapsed(now)
        /\ LastMark.since >= 0 /\ Elapsed(now) - LastMark.heard < Suspect => RunStart <= LastMark.since
    BY <1>0, AdmittedExtends
  <1>6. Elapsed(now) \in Nat /\ Elapsed(now)' = Elapsed(now) /\ inbox.gen \in Nat
    BY <1>0, <1>1, OtherFields, InboxFields DEF Elapsed
  <1>7. /\ e \in Events /\ e.kind = kind /\ e.at = Elapsed(now) /\ e.gen = inbox.gen /\ e.since = s /\ s \in Int
    <2>1. s \in Int
      BY <1>3, <1>5
    <2> QED
      BY <1>2, <1>4, <1>6, <2>1 DEF Events, Kinds
  <1>8. inbox' = [inbox EXCEPT !.queue = Append(inbox.queue, e)]
    BY <1>2, <1>3, <1>4, Zenon
  <1>9. PICK q : q = Append(inbox.queue, e)
    OBVIOUS
  <1>10. /\ inbox' = [inbox EXCEPT !.queue = q]
         /\ inbox \in [gen : Nat, connected : BOOLEAN, queue : Seq(Events), interrupt : Events \cup {NoEvent}]
    BY <1>1, <1>8, <1>9, Zenon DEF Types
  <1>11. /\ inbox'.queue = q /\ inbox'.gen = inbox.gen /\ inbox'.connected = inbox.connected
         /\ inbox'.interrupt = inbox.interrupt
    BY <1>10
  <1>12. PICK n : n = Len(inbox.queue)
    OBVIOUS
  <1>13. /\ n \in Nat /\ Len(q) = n + 1 /\ q \in Seq(Events) /\ q # <<>>
         /\ q[n + 1] = e /\ \A i \in 1..n : q[i] = inbox.queue[i]
    BY <1>1, <1>7, <1>9, <1>12, InboxFields
  <1>14. PICK h : h = IF kind = "healthy" THEN Elapsed(now) ELSE -1
    OBVIOUS
  <1>15. /\ ghost'.since = s /\ ghost'.heard = h /\ ghost'.known = ghost.known /\ ghost'.run = ghost.run
         /\ ghost'.downs = ghost.downs /\ ghost'.ups = ghost.ups
         /\ ghost' \in [since : Int, heard : Int, run : Runs, known : Int, downs : Nat, ups : Nat]
    <2>1. ghost' = [ghost EXCEPT !.since = s, !.heard = h]
      BY <1>2, <1>3, <1>14
    <2>2. h \in Int
      BY <1>6, <1>14
    <2>3. ghost \in [since : Int, heard : Int, run : Runs, known : Int, downs : Nat, ups : Nat]
      BY <1>1 DEF Types
    <2>4. ghost' \in [since : Int, heard : Int, run : Runs, known : Int, downs : Nat, ups : Nat]
      BY <1>7, <2>1, <2>2, <2>3, Zenon
    <2>5. /\ ghost'.since = s /\ ghost'.heard = h /\ ghost'.known = ghost.known /\ ghost'.run = ghost.run
          /\ ghost'.downs = ghost.downs /\ ghost'.ups = ghost.ups
      BY <2>1, <2>3, Zenon
    <2> QED
      BY <2>4, <2>5
  <1>16. Types'
    <2>1. inbox' \in [gen : Nat, connected : BOOLEAN, queue : Seq(Events), interrupt : Events \cup {NoEvent}]
      BY <1>10, <1>13, Zenon
    <2> QED
      BY <1>0, <1>1, <1>15, <2>1 DEF Types
  <1>17. Asleep' /\ SourceIsSound' /\ RowIsSound' /\ PagesAreCounted'
    <2>1. Asleep'
      <3>1. origin \in Int
        BY <1>1, OtherFields
      <3> QED
        BY <1>0, <3>1 DEF Asleep
    <2>2. SourceIsSound' /\ RowIsSound'
      BY <1>0 DEF IInv, SourceIsSound, RowIsSound, Sound
    <2>3. PagesAreCounted'
      BY <1>0, <1>15 DEF IInv, PagesAreCounted
    <2> QED
      BY <2>1, <2>2, <2>3
  <1>18. InboxIsCurrent'
    <2>1. ASSUME NEW i \in 1..(n + 1)
          PROVE  q[i].kind \in {"healthy", "degraded"} /\ (q[i].gen = 0 \/ (inbox.connected /\ q[i].gen = inbox.gen))
      <3>1. CASE i \in 1..n
        BY <1>12, <1>13, <3>1 DEF IInv, InboxIsCurrent, Current
      <3>2. CASE i = n + 1
        BY <1>0, <1>2, <1>7, <1>13, <3>2
      <3> QED
        BY <1>13, <3>1, <3>2
    <2> QED
      BY <1>0, <1>11, <1>13, <2>1 DEF IInv, InboxIsCurrent, Current, Some
  <1>19. ASSUME NEW v \in Int, v <= Elapsed(now), \A i \in 1..n : v <= inbox.queue[i].at
         PROVE  \A i \in 1..Len(inbox'.queue) : v <= inbox'.queue[i].at
    <2>1. ASSUME NEW i \in 1..(n + 1) PROVE v <= q[i].at
      <3>1. CASE i \in 1..n
        BY <1>13, <1>19, <3>1
      <3>2. CASE i = n + 1
        BY <1>7, <1>13, <1>19, <3>2
      <3> QED
        BY <1>13, <3>1, <3>2
    <2> QED
      BY <1>11, <1>13, <2>1
  <1>20. ASSUME NEW v \in Int, Before(v) PROVE Before(v)'
    <2>1. \A i \in 1..Len(inbox'.queue) : v <= inbox'.queue[i].at
      BY <1>12, <1>19, <1>20 DEF Before
    <2> QED
      BY <1>0, <1>6, <1>11, <1>20, <2>1 DEF Before, Some
  <1>21. Ordered'
    <2>0. /\ src.timer.on => src.timer.last \in Int
          /\ pending.at \in Int /\ inbox.interrupt.at \in Int
          /\ \A i \in 1..n : inbox.queue[i].at \in Int
      BY <1>1, <1>12, TimeFields
    <2>1. src'.timer.on => Before(src.timer.last)'
      <3>1. PICK v : v = src.timer.last
        OBVIOUS
      <3>2. src.timer.on => Before(v)'
        BY <1>20, <2>0, <3>1 DEF IInv, Ordered
      <3> QED
        BY <1>0, <3>1, <3>2 DEF Before
    <2>2. Some(pending)' => AfterPending(pending.at)'
      <3>1. PICK v : v = pending.at
        OBVIOUS
      <3>2. Some(pending) => \A i \in 1..Len(inbox'.queue) : v <= inbox'.queue[i].at
        BY <1>12, <1>19, <2>0, <3>1 DEF IInv, Ordered, AfterPending
      <3> QED
        BY <1>0, <1>6, <1>11, <3>1, <3>2 DEF IInv, Ordered, Some, AfterPending
    <2>3. Some(inbox.interrupt)' =>
       /\ \A i \in 1..Len(inbox'.queue) : inbox'.interrupt.at <= inbox'.queue[i].at
       /\ inbox'.interrupt.at <= Elapsed(now)'
      <3>1. PICK v : v = inbox.interrupt.at
        OBVIOUS
      <3>2. Some(inbox.interrupt) => \A i \in 1..Len(inbox'.queue) : v <= inbox'.queue[i].at
        BY <1>12, <1>19, <2>0, <3>1 DEF IInv, Ordered
      <3> QED
        BY <1>0, <1>6, <1>11, <3>1, <3>2 DEF IInv, Ordered, Some
    <2>4. ASSUME NEW i \in 1..(n + 1) PROVE q[i].at <= Elapsed(now)
      <3>1. CASE i \in 1..n
        BY <1>12, <1>13, <3>1 DEF IInv, Ordered
      <3>2. CASE i = n + 1
        BY <1>6, <1>7, <1>13, <3>2
      <3> QED
        BY <1>13, <3>1, <3>2
    <2>5. ASSUME NEW i \in 1..(n + 1), NEW j \in 1..(n + 1), i <= j PROVE q[i].at <= q[j].at
      <3>1. CASE j = n + 1
        BY <1>7, <1>13, <2>4, <3>1
      <3>2. CASE j \in 1..n
        <4>1. i \in 1..n
          BY <1>13, <2>5, <3>2
        <4> QED
          BY <1>12, <1>13, <2>5, <3>2, <4>1 DEF IInv, Ordered
      <3> QED
        BY <1>13, <3>1, <3>2
    <2> QED
      BY <1>6, <1>11, <1>13, <2>1, <2>2, <2>3, <2>4, <2>5 DEF Ordered
  <1>22. KnownIsGrounded'
    <2>1. PICK v : v = ghost.known + row.cp.loss - origin
      OBVIOUS
    <2>2. v \in Int
      BY <1>1, <2>1, OtherFields, GhostFields, RowFields
    <2>3. Before(v)'
      BY <1>0, <1>20, <2>1, <2>2 DEF IInv, KnownIsGrounded
    <2>4. Before(ghost.known + row.cp.loss - origin)'
      BY <1>0, <1>15, <2>1, <2>3 DEF Before
    <2>5. Holding' => Grounded(src.timer, ghost.known)'
      BY <1>0, <1>15 DEF IInv, KnownIsGrounded, Holding, Grounded
    <2> QED
      BY <1>0, <1>15, <2>4, <2>5 DEF IInv, KnownIsGrounded
  <1>23. \/ Extends(e, LastMark) /\ EventMark(e) = Mark(s, h)
         \/ EventMark(e).since = -1 /\ Extends(e, LastMark)
    <2>1. CASE kind = "healthy"
      BY <1>3, <1>5, <1>6, <1>7, <1>14, <2>1 DEF Extends, EventMark
    <2>2. CASE kind # "healthy"
      BY <1>7, <2>2 DEF Extends, EventMark, NoMark, Mark
    <2> QED
      BY <2>1, <2>2
  <1>24. RunsAreUnbroken'
    <2>1. SourceMark' = SourceMark /\ PendingMark' = PendingMark
      BY <1>0, SameSource, SamePending
    <2>2. InboxMark' = InboxMark
      BY <1>11, <2>1 DEF InboxMark, Some, NoMark, Mark
    <2>3. Extends(pending, SourceMark)'
      BY <1>0, <2>1 DEF IInv, RunsAreUnbroken, Extends
    <2>4. Extends(q[1], InboxMark)
      <3>1. CASE n = 0
        <4>1. inbox.queue = <<>>
          BY <1>1, <1>12, <3>1, LastFields
        <4>2. LastMark = InboxMark
          BY <4>1 DEF LastMark
        <4>3. q[1] = e
          BY <1>13, <3>1
        <4> QED
          BY <1>23, <4>2, <4>3
      <3>2. CASE n # 0
        <4>1. inbox.queue # <<>> /\ q[1] = inbox.queue[1]
          BY <1>12, <1>13, <3>2
        <4> QED
          BY <4>1 DEF IInv, RunsAreUnbroken
      <3> QED
        BY <3>1, <3>2
    <2>5. ASSUME NEW i \in 2..(n + 1) PROVE Extends(q[i], EventMark(q[i - 1]))
      <3>1. CASE i \in 2..n
        <4>1. q[i] = inbox.queue[i] /\ q[i - 1] = inbox.queue[i - 1]
          BY <1>13, <3>1
        <4> QED
          BY <1>12, <3>1, <4>1 DEF IInv, RunsAreUnbroken
      <3>2. CASE i = n + 1
        <4>1. inbox.queue # <<>> /\ q[i] = e /\ q[i - 1] = inbox.queue[n]
          BY <1>12, <1>13, <3>2
        <4>2. LastMark = EventMark(inbox.queue[n])
          BY <1>12, <4>1 DEF LastMark
        <4> QED
          BY <1>23, <4>1, <4>2
      <3> QED
        BY <1>13, <3>1, <3>2
    <2>6. LastMark' = EventMark(e)
      <3>1. LastMark' = EventMark(inbox'.queue[Len(inbox'.queue)])
        BY <1>11, <1>13 DEF LastMark, EventMark, Mark, NoMark
      <3> QED
        BY <1>11, <1>13, <3>1
    <2>7. LastMark'.since >= 0 =>
       /\ 0 <= ghost'.since /\ ghost'.since <= LastMark'.since
       /\ LastMark'.heard <= ghost'.heard
      <3>1. CASE EventMark(e) = Mark(s, h)
        <4>1. LastMark'.since = s /\ LastMark'.heard = h
          BY <2>6, <3>1 DEF Mark
        <4>2. s \in Int /\ h \in Int
          BY <1>6, <1>7, <1>14
        <4> QED
          BY <1>15, <4>1, <4>2
      <3>2. CASE EventMark(e).since = -1
        BY <2>6, <3>2
      <3> QED
        BY <1>23, <3>1, <3>2
    <2>8. ghost'.since <= Elapsed(now)' /\ ghost'.heard <= Elapsed(now)'
      BY <1>3, <1>5, <1>6, <1>14, <1>15
    <2>9. /\ SourceMark'.since >= 0 =>
             /\ 0 <= ghost'.run.since /\ ghost'.run.since <= SourceMark'.since
             /\ ghost'.run.at = SourceMark'.heard
      BY <1>15, <2>1 DEF IInv, RunsAreUnbroken
    <2>10. Extends(inbox.queue[1], InboxMark)'
      BY <1>11, <2>2, <2>4 DEF Extends
    <2>11. \A i \in 2..Len(inbox'.queue) : Extends(inbox'.queue[i], EventMark(inbox'.queue[i - 1]))
      BY <1>11, <1>13, <2>5
    <2> QED
      BY <2>3, <2>7, <2>8, <2>9, <2>10, <2>11 DEF RunsAreUnbroken, Extends, EventMark, Mark, NoMark
  <1>25. ProposalIsFresh'
    BY <1>0, SameProposal DEF IInv, ProposalIsFresh, Some
  <1> QED
    BY <1>16, <1>17, <1>18, <1>21, <1>22, <1>24, <1>25 DEF IInv


\* Whatever is taken, the source, the row and the counts stay.
LEMMA TakenStep ==
  ASSUME IInv, origin >= 0, ~op.on, UNCHANGED <<now, origin, op, src, row, cfg, session, ghost>>,
         inbox' \in [gen : Nat, connected : BOOLEAN, queue : Seq(Events), interrupt : Events \cup {NoEvent}],
         pending' \in Events, InboxIsCurrent',
         \A v \in Int : Before(v) => Before(v)',
         AfterPending(pending.at)',
         Some(inbox.interrupt)' =>
           /\ \A i \in 1..Len(inbox'.queue) : inbox'.interrupt.at <= inbox'.queue[i].at
           /\ inbox'.interrupt.at <= Elapsed(now)',
         \A i \in 1..Len(inbox'.queue) : inbox'.queue[i].at <= Elapsed(now)',
         \A i, j \in 1..Len(inbox'.queue) : i <= j => inbox'.queue[i].at <= inbox'.queue[j].at,
         Extends(pending, SourceMark)',
         inbox'.queue # <<>> => Extends(inbox.queue[1], InboxMark)',
         \A i \in 2..Len(inbox'.queue) : Extends(inbox'.queue[i], EventMark(inbox'.queue[i - 1])),
         LastMark' = LastMark
  PROVE  IInv'
  <1>1. Types
    BY DEF IInv
  <1>2. Types'
    BY <1>1 DEF Types
  <1>3. Asleep'
    <2>1. origin \in Int
      BY <1>1, OtherFields
    <2> QED
      BY <2>1 DEF Asleep
  <1>4. SourceIsSound' /\ RowIsSound'
    BY DEF IInv, SourceIsSound, RowIsSound, Sound
  <1>5. PagesAreCounted'
    BY DEF IInv, PagesAreCounted
  <1>6. Ordered'
    <2>1. src'.timer.on => Before(src.timer.last)'
      <3>1. PICK v : v = src.timer.last
        OBVIOUS
      <3>2. src.timer.on => v \in Int /\ Before(v)
        BY <1>1, <3>1, TimeFields DEF IInv, Ordered
      <3>3. src.timer.on => Before(v)'
        BY <3>2
      <3> QED
        BY <3>1, <3>3 DEF Before
    <2> QED
      BY <2>1 DEF Ordered
  <1>7. KnownIsGrounded'
    <2>1. PICK v : v = ghost.known + row.cp.loss - origin
      OBVIOUS
    <2>2. v \in Int
      BY <1>1, <2>1, OtherFields, GhostFields, RowFields
    <2>3. Before(v)'
      BY <2>1, <2>2 DEF IInv, KnownIsGrounded
    <2>4. Before(ghost.known + row.cp.loss - origin)'
      BY <2>1, <2>3 DEF Before
    <2>5. Holding' => Grounded(src.timer, ghost.known)'
      BY DEF IInv, KnownIsGrounded, Holding, Grounded
    <2> QED
      BY <2>4, <2>5 DEF IInv, KnownIsGrounded
  <1>8. RunsAreUnbroken'
    <2>1. SourceMark' = SourceMark
      BY SameSource
    <2>2. Elapsed(now)' = Elapsed(now)
      BY DEF Elapsed
    <2>3. /\ SourceMark.since >= 0 =>
             /\ 0 <= ghost.run.since /\ ghost.run.since <= SourceMark.since
             /\ ghost.run.at = SourceMark.heard
          /\ LastMark.since >= 0 =>
             /\ 0 <= ghost.since /\ ghost.since <= LastMark.since
             /\ LastMark.heard <= ghost.heard
          /\ ghost.since <= Elapsed(now) /\ ghost.heard <= Elapsed(now)
      BY DEF IInv, RunsAreUnbroken
    <2>4. /\ SourceMark'.since >= 0 =>
             /\ 0 <= ghost'.run.since /\ ghost'.run.since <= SourceMark'.since
             /\ ghost'.run.at = SourceMark'.heard
          /\ LastMark'.since >= 0 =>
             /\ 0 <= ghost'.since /\ ghost'.since <= LastMark'.since
             /\ LastMark'.heard <= ghost'.heard
          /\ ghost'.since <= Elapsed(now)' /\ ghost'.heard <= Elapsed(now)'
      BY <2>1, <2>2, <2>3
    <2>5. \A i \in 2..Len(inbox'.queue) : Extends(inbox.queue[i], EventMark(inbox.queue[i - 1]))'
      BY DEF Extends, EventMark, Mark, NoMark
    <2> QED
      BY <2>4, <2>5 DEF RunsAreUnbroken
  <1>9. ProposalIsFresh'
    BY DEF IInv, ProposalIsFresh
  <1> QED
    BY <1>2, <1>3, <1>4, <1>5, <1>6, <1>7, <1>8, <1>9 DEF IInv

LEMMA TakeInterruption ==
  ASSUME IInv, origin >= 0, ~op.on, UNCHANGED <<now, origin, op, src, row, cfg, session, ghost>>,
         Some(inbox.interrupt), pending' = inbox.interrupt, inbox' = [inbox EXCEPT !.interrupt = NoEvent]
  PROVE  IInv'
  <1>1. Types
    BY DEF IInv
  <1>2. inbox \in [gen : Nat, connected : BOOLEAN, queue : Seq(Events), interrupt : Events \cup {NoEvent}]
    BY <1>1 DEF Types
  <1>3. /\ inbox' \in [gen : Nat, connected : BOOLEAN, queue : Seq(Events), interrupt : Events \cup {NoEvent}]
        /\ inbox'.gen = inbox.gen /\ inbox'.connected = inbox.connected /\ inbox'.queue = inbox.queue
        /\ inbox'.interrupt = NoEvent
    BY <1>2, Zenon
  <1>4. pending' \in Events /\ pending'.kind = "cut" /\ Current(pending')
    <2>1. inbox.interrupt \in Events
      BY <1>1, InboxFields, EventFields
    <2> QED
      BY <2>1 DEF IInv, InboxIsCurrent
  <1>5. ~Some(inbox.interrupt)' /\ Elapsed(now)' = Elapsed(now)
    BY <1>3 DEF Some, NoEvent, Elapsed
  <1>6. InboxIsCurrent'
    <2>1. Current(pending)'
      BY <1>3, <1>4 DEF Current
    <2>2. \A i \in 1..Len(inbox.queue) :
            inbox.queue[i].kind \in {"healthy", "degraded"} /\ Current(inbox.queue[i])
      BY DEF IInv, InboxIsCurrent
    <2>3. \A i \in 1..Len(inbox'.queue) :
            inbox'.queue[i].kind \in {"healthy", "degraded"} /\ Current(inbox.queue[i])'
      BY <1>3, <2>2 DEF Current
    <2> QED
      BY <1>3, <1>5, <2>1, <2>3 DEF IInv, InboxIsCurrent
  <1>7. \A v \in Int : Before(v) => Before(v)'
    BY <1>3, <1>5 DEF Before
  <1>8. AfterPending(pending.at)'
    BY <1>3, <1>5 DEF IInv, Ordered, AfterPending
  <1>9. /\ \A i \in 1..Len(inbox'.queue) : inbox'.queue[i].at <= Elapsed(now)'
        /\ \A i, j \in 1..Len(inbox'.queue) : i <= j => inbox'.queue[i].at <= inbox'.queue[j].at
    BY <1>3, <1>5 DEF IInv, Ordered
  <1>10. Extends(pending, SourceMark)'
    BY <1>4 DEF Extends
  <1>11. InboxMark' = NoMark /\ InboxMark = NoMark
    <2>1. InboxMark' = PendingMark'
      BY <1>5 DEF InboxMark
    <2>2. PendingMark' = NoMark
      BY <1>4 DEF PendingMark, EventMark, NoMark, Mark
    <2>3. InboxMark = NoMark
      BY DEF InboxMark
    <2> QED
      BY <2>1, <2>2, <2>3
  <1>12. LastMark' = LastMark
    BY <1>3, <1>11 DEF LastMark, EventMark, NoMark, Mark
  <1>13. inbox'.queue # <<>> => Extends(inbox.queue[1], InboxMark)'
    BY <1>3, <1>11 DEF IInv, RunsAreUnbroken, Extends
  <1>14. \A i \in 2..Len(inbox'.queue) : Extends(inbox'.queue[i], EventMark(inbox'.queue[i - 1]))
    BY <1>3 DEF IInv, RunsAreUnbroken
  <1> QED
    BY <1>3, <1>4, <1>5, <1>6, <1>7, <1>8, <1>9, <1>10, <1>12, <1>13, <1>14, TakenStep

\* An event is given up only for the interruption that made it stale.
LEMMA NothingPending ==
  ASSUME IInv, ~Some(inbox.interrupt), pending.kind = "none" \/ ~Current(pending)
  PROVE  pending.kind = "none" /\ InboxMark = SourceMark
  <1>1. pending.kind = "none"
    BY DEF IInv, InboxIsCurrent, Some
  <1> QED
    BY <1>1 DEF InboxMark, PendingMark

LEMMA TakeSample ==
  ASSUME IInv, origin >= 0, ~op.on, UNCHANGED <<now, origin, op, src, row, cfg, session, ghost>>,
         ~Some(inbox.interrupt), pending.kind = "none" \/ ~Current(pending), inbox.queue # <<>>,
         pending' = Head(inbox.queue), inbox' = [inbox EXCEPT !.queue = Tail(inbox.queue)]
  PROVE  IInv'
  <1>1. Types
    BY DEF IInv
  <1>2. PICK n : n = Len(inbox.queue)
    OBVIOUS
  <1>3. n \in Nat /\ n >= 1 /\ inbox.queue \in Seq(Events)
    BY <1>1, <1>2, InboxFields, LastFields
  <1>4. PICK q : q = Tail(inbox.queue)
    OBVIOUS
  <1>5. /\ q \in Seq(Events) /\ Len(q) = n - 1 /\ \A i \in 1..(n - 1) : q[i] = inbox.queue[i + 1]
    BY <1>2, <1>3, <1>4
  <1>6. inbox' = [inbox EXCEPT !.queue = q]
    BY <1>4, Zenon
  <1>7. inbox \in [gen : Nat, connected : BOOLEAN, queue : Seq(Events), interrupt : Events \cup {NoEvent}]
    BY <1>1 DEF Types
  <1>8. /\ inbox' \in [gen : Nat, connected : BOOLEAN, queue : Seq(Events), interrupt : Events \cup {NoEvent}]
        /\ inbox'.gen = inbox.gen /\ inbox'.connected = inbox.connected /\ inbox'.queue = q
        /\ inbox'.interrupt = inbox.interrupt
    BY <1>5, <1>6, <1>7, Zenon
  <1>9. pending' = inbox.queue[1] /\ pending' \in Events
    BY <1>2, <1>3
  <1>10. ~Some(inbox.interrupt)' /\ Elapsed(now)' = Elapsed(now)
    BY <1>8 DEF Some, Elapsed
  <1>11. \A i \in 1..n : /\ inbox.queue[i].kind \in {"healthy", "degraded"} /\ inbox.connected
                         /\ inbox.queue[i].gen = 0 \/ inbox.queue[i].gen = inbox.gen
    BY <1>2 DEF IInv, InboxIsCurrent, Current
  <1>12. InboxIsCurrent'
    <2>1. Current(pending)'
      BY <1>3, <1>8, <1>9, <1>11 DEF Current
    <2>2. ASSUME NEW i \in 1..(n - 1)
          PROVE  q[i].kind \in {"healthy", "degraded"} /\ inbox.connected /\ (q[i].gen = 0 \/ q[i].gen = inbox.gen)
      <3>1. q[i] = inbox.queue[i + 1] /\ i + 1 \in 1..n
        BY <1>3, <1>5
      <3> QED
        BY <1>11, <3>1
    <2>3. \A i \in 1..Len(inbox'.queue) :
            inbox'.queue[i].kind \in {"healthy", "degraded"} /\ Current(inbox.queue[i])'
      BY <1>5, <1>8, <2>2 DEF Current
    <2>4. inbox.connected
      BY <1>3, <1>11
    <2> QED
      BY <1>8, <1>10, <2>1, <2>3, <2>4 DEF InboxIsCurrent
  <1>13. \A i \in 1..n : inbox.queue[i].at \in Int
    BY <1>1, <1>2, TimeFields
  <1>14. ASSUME NEW v \in Int, Before(v) PROVE Before(v)'
    <2>1. \A i \in 1..n : v <= inbox.queue[i].at
      BY <1>2, <1>14 DEF Before
    <2>2. v <= pending'.at
      BY <1>3, <1>9, <2>1
    <2>3. \A i \in 1..Len(inbox'.queue) : v <= inbox'.queue[i].at
      <3>1. ASSUME NEW i \in 1..(n - 1) PROVE v <= q[i].at
        <4>1. q[i] = inbox.queue[i + 1] /\ i + 1 \in 1..n
          BY <1>3, <1>5
        <4> QED
          BY <2>1, <4>1
      <3> QED
        BY <1>5, <1>8, <3>1
    <2> QED
      BY <1>10, <1>14, <2>2, <2>3 DEF Before
  <1>15. /\ \A i \in 1..n : inbox.queue[i].at <= Elapsed(now)
         /\ \A i, j \in 1..n : i <= j => inbox.queue[i].at <= inbox.queue[j].at
    BY <1>2 DEF IInv, Ordered
  <1>16. AfterPending(pending.at)'
    <2>1. pending'.at <= Elapsed(now)'
      BY <1>3, <1>9, <1>10, <1>15
    <2>2. \A i \in 1..Len(inbox'.queue) : pending'.at <= inbox'.queue[i].at
      <3>1. ASSUME NEW i \in 1..(n - 1) PROVE inbox.queue[1].at <= q[i].at
        <4>1. q[i] = inbox.queue[i + 1] /\ i + 1 \in 1..n /\ 1 \in 1..n /\ 1 <= i + 1
          BY <1>3, <1>5
        <4> QED
          BY <1>15, <4>1
      <3> QED
        BY <1>5, <1>8, <1>9, <3>1
    <2> QED
      BY <1>10, <2>1, <2>2 DEF AfterPending
  <1>17. /\ \A i \in 1..Len(inbox'.queue) : inbox'.queue[i].at <= Elapsed(now)'
         /\ \A i, j \in 1..Len(inbox'.queue) : i <= j => inbox'.queue[i].at <= inbox'.queue[j].at
    <2>1. ASSUME NEW i \in 1..(n - 1), NEW j \in 1..(n - 1)
          PROVE  q[i].at <= Elapsed(now) /\ (i <= j => q[i].at <= q[j].at)
      <3>1. q[i] = inbox.queue[i + 1] /\ q[j] = inbox.queue[j + 1] /\ i + 1 \in 1..n /\ j + 1 \in 1..n
        <4>1. i + 1 \in 1..n /\ j + 1 \in 1..n
          BY <1>3
        <4> QED
          BY <1>5, <4>1
      <3>2. i <= j => i + 1 <= j + 1
        OBVIOUS
      <3> QED
        BY <1>15, <3>1, <3>2
    <2> QED
      BY <1>5, <1>8, <1>10, <2>1
  <1>18. InboxMark = SourceMark
    BY NothingPending
  <1>19. SourceMark' = SourceMark
    BY SameSource
  <1>20. /\ Extends(inbox.queue[1], InboxMark)
         /\ \A i \in 2..n : Extends(inbox.queue[i], EventMark(inbox.queue[i - 1]))
    BY <1>2 DEF IInv, RunsAreUnbroken
  <1>21. Extends(pending, SourceMark)'
    BY <1>9, <1>18, <1>19, <1>20 DEF Extends
  <1>22. InboxMark' = EventMark(inbox.queue[1])
    <2>1. InboxMark' = PendingMark'
      BY <1>10 DEF InboxMark
    <2>2. pending'.kind \in {"healthy", "degraded"}
      BY <1>3, <1>9, <1>11
    <2>3. PendingMark' = EventMark(pending)'
      BY <2>2 DEF PendingMark
    <2> QED
      BY <1>9, <2>1, <2>3 DEF EventMark, NoMark, Mark
  <1>23. ASSUME q # <<>> PROVE n >= 2
    BY <1>3, <1>5, <1>23
  <1>24. inbox'.queue # <<>> => Extends(inbox.queue[1], InboxMark)'
    <2>1. ASSUME q # <<>> PROVE Extends(q[1], InboxMark')
      <3>1. n >= 2
        BY <1>23, <2>1
      <3>2. q[1] = inbox.queue[2]
        BY <1>3, <1>5, <3>1
      <3>3. Extends(inbox.queue[2], EventMark(inbox.queue[2 - 1]))
        BY <1>3, <1>20, <3>1
      <3> QED
        BY <1>22, <3>2, <3>3
    <2> QED
      BY <1>8, <2>1 DEF Extends
  <1>25. \A i \in 2..Len(inbox'.queue) : Extends(inbox'.queue[i], EventMark(inbox'.queue[i - 1]))
    <2>1. ASSUME NEW i \in 2..(n - 1) PROVE Extends(q[i], EventMark(q[i - 1]))
      <3>1. q[i] = inbox.queue[i + 1] /\ q[i - 1] = inbox.queue[i]
        <4>1. i \in 1..(n - 1) /\ i - 1 \in 1..(n - 1) /\ (i - 1) + 1 = i
          BY <1>3
        <4> QED
          BY <1>5, <4>1
      <3>2. PICK j \in 2..n : j = i + 1
        BY <1>3
      <3>3. Extends(inbox.queue[j], EventMark(inbox.queue[j - 1])) /\ j - 1 = i
        BY <1>20, <3>2
      <3> QED
        BY <3>1, <3>2, <3>3
    <2> QED
      BY <1>3, <1>5, <1>8, <2>1
  <1>26. LastMark' = LastMark
    <2>1. LastMark = EventMark(inbox.queue[n])
      BY <1>2 DEF LastMark
    <2>2. CASE q = <<>>
      <3>1. n = 1
        BY <1>3, <1>5, <2>2
      <3>2. LastMark' = InboxMark'
        BY <1>8, <2>2 DEF LastMark
      <3> QED
        BY <1>22, <2>1, <3>1, <3>2
    <2>3. CASE q # <<>>
      <3>1. q[n - 1] = inbox.queue[n]
        BY <1>3, <1>5, <1>23, <2>3
      <3>2. LastMark' = EventMark(inbox'.queue[Len(inbox'.queue)])
        BY <1>8, <2>3 DEF LastMark, EventMark, Mark, NoMark
      <3> QED
        BY <1>5, <1>8, <2>1, <3>1, <3>2
    <2> QED
      BY <2>2, <2>3
  <1> QED
    BY <1>8, <1>9, <1>10, <1>12, <1>14, <1>16, <1>17, <1>21, <1>24, <1>25, <1>26, TakenStep

LEMMA TakeTick ==
  ASSUME IInv, origin >= 0, ~op.on, UNCHANGED <<now, origin, inbox, op, src, row, cfg, session, ghost>>,
         ~Some(inbox.interrupt), pending.kind = "none" \/ ~Current(pending), inbox.queue = <<>>,
         pending' = [kind |-> "tick", at |-> Elapsed(now), gen |-> 0, since |-> -1]
  PROVE  IInv'
  <1>1. Types
    BY DEF IInv
  <1>2. Elapsed(now) \in Nat /\ Elapsed(now)' = Elapsed(now)
    BY <1>1, OtherFields DEF Elapsed
  <1>3. pending' \in Events /\ pending'.kind = "tick" /\ pending'.at = Elapsed(now) /\ pending'.gen = 0
    BY <1>2 DEF Events, Kinds
  <1>4. inbox \in [gen : Nat, connected : BOOLEAN, queue : Seq(Events), interrupt : Events \cup {NoEvent}]
    BY <1>1 DEF Types
  <1>5. ~Some(inbox.interrupt)' /\ Len(inbox'.queue) = 0
    BY DEF Some
  <1>6. InboxIsCurrent'
    BY <1>3, <1>5 DEF InboxIsCurrent, Current
  <1>7. \A v \in Int : Before(v) => Before(v)'
    BY <1>2, <1>3, <1>5 DEF Before
  <1>8. AfterPending(pending.at)'
    BY <1>2, <1>3, <1>5 DEF AfterPending
  <1>9. Extends(pending, SourceMark)'
    BY <1>3 DEF Extends
  <1>10. InboxMark = SourceMark /\ SourceMark' = SourceMark
    BY NothingPending, SameSource
  <1>11. InboxMark' = SourceMark'
    BY <1>3, <1>5 DEF InboxMark, PendingMark
  <1>12. LastMark' = LastMark
    BY <1>10, <1>11 DEF LastMark
  <1> QED
    BY <1>3, <1>4, <1>5, <1>6, <1>7, <1>8, <1>9, <1>12, TakenStep

LEMMA TakeStep ==
  ASSUME IInv, Take
  PROVE  IInv'
  <1>1. /\ origin >= 0 /\ ~op.on /\ (pending.kind = "none" \/ ~Current(pending))
        /\ UNCHANGED <<now, origin, op, src, row, cfg, session, ghost>>
    BY DEF Take, Same
  <1>2. CASE Some(inbox.interrupt)
    BY <1>1, <1>2, TakeInterruption DEF Take, Some
  <1>3. CASE ~Some(inbox.interrupt) /\ inbox.queue # <<>>
    BY <1>1, <1>3, TakeSample DEF Take, Some
  <1>4. CASE ~Some(inbox.interrupt) /\ inbox.queue = <<>>
    BY <1>1, <1>4, TakeTick DEF Take, Some
  <1> QED
    BY <1>2, <1>3, <1>4

\* Without a configuration there is no timer, and an event leaves no trace.
LEMMA DropStep ==
  ASSUME IInv, origin >= 0, ~op.on, cfg.rev = 0, pending' = NoEvent,
         UNCHANGED <<now, origin, inbox, op, src, row, cfg, session, ghost>>
  PROVE  IInv'
  <1>1. Types /\ NoEvent \in Events \cup {NoEvent} /\ NoEvent.kind = "none"
    BY DEF IInv, NoEvent
  <1>2. ~Some(pending)' /\ Elapsed(now)' = Elapsed(now) /\ ~src.timer.on
    BY DEF Some, NoEvent, Elapsed, IInv, SourceIsSound
  <1>3. Types'
    BY <1>1 DEF Types
  <1>4. Asleep' /\ SourceIsSound' /\ RowIsSound' /\ PagesAreCounted'
    <2>1. Asleep'
      BY <1>1, OtherFields DEF Asleep
    <2> QED
      BY <2>1 DEF IInv, SourceIsSound, RowIsSound, PagesAreCounted, Sound
  <1>5. InboxIsCurrent'
    BY <1>2 DEF IInv, InboxIsCurrent, Some, Current
  <1>6. Ordered'
    BY <1>2 DEF IInv, Ordered, Some, Elapsed
  <1>7. KnownIsGrounded'
    BY <1>2 DEF IInv, KnownIsGrounded, Before, Some, Elapsed, Holding
  <1>8. RunsAreUnbroken'
    <2>1. SourceMark = NoMark /\ SourceMark' = NoMark
      BY <1>2 DEF SourceMark, NoMark, Mark
    <2>2. NoMark.since = -1
      BY DEF NoMark, Mark
    <2>3. InboxMark' = NoMark
      BY <1>1, <2>1 DEF InboxMark, PendingMark, NoMark, Mark
    <2>4. Extends(pending, SourceMark)'
      BY <1>1 DEF Extends
    <2>5. inbox'.queue # <<>> => Extends(inbox.queue[1], InboxMark)'
      BY <2>2, <2>3 DEF IInv, RunsAreUnbroken, Extends
    <2>6. \A i \in 2..Len(inbox'.queue) : Extends(inbox.queue[i], EventMark(inbox.queue[i - 1]))'
      BY DEF IInv, RunsAreUnbroken, Extends, EventMark, Mark, NoMark
    <2>7. LastMark' = NoMark \/ LastMark' = LastMark
      BY <2>3 DEF LastMark, EventMark, Mark, NoMark
    <2> QED
      BY <1>2, <2>1, <2>2, <2>4, <2>5, <2>6, <2>7 DEF IInv, RunsAreUnbroken
  <1>9. ProposalIsFresh'
    BY DEF IInv, ProposalIsFresh
  <1> QED
    BY <1>3, <1>4, <1>5, <1>6, <1>7, <1>8, <1>9 DEF IInv

LEMMA ProposeStep ==
  ASSUME IInv, Propose
  PROVE  IInv'
  <1>1. /\ origin >= 0 /\ ~op.on /\ Some(pending)
        /\ UNCHANGED <<now, origin, inbox, src, row, cfg, session, ghost>>
    BY DEF Propose, Same, Some
  <1>2. cfg.rev \in Nat /\ cfg.enabled \in BOOLEAN
    BY OtherFields DEF IInv
  <1>3. CASE cfg.rev = 0
    BY <1>1, <1>3, DropStep DEF Propose
  <1>4. CASE cfg.rev > 0
    <2>1. op' = Proposal /\ UNCHANGED pending
      <3>1. CASE cfg.enabled
        <4>1. Proposal = Record(pending, Result, Checkpoint(Result.timer, pending.at))
          BY <3>1 DEF Proposal
        <4>2. UNCHANGED pending /\ op' = Record(pending, Result, Checkpoint(Result.timer, pending.at))
          BY <1>4, <3>1 DEF Propose, Result
        <4> QED
          BY <4>1, <4>2
      <3>2. CASE ~cfg.enabled
        BY <1>4, <3>2 DEF Propose, Proposal
      <3> QED
        BY <3>1, <3>2
    <2>2. Proposal' = Proposal
      BY <1>1, <2>1, SameProposal
    <2>3. PICK p : p = Proposal
      OBVIOUS
    <2>4. Sane(p)
      BY <1>1, <2>3, ProposalFacts
    <2>5. ProposalIsFresh'
      BY <1>1, <1>2, <1>4, <2>1, <2>2, <2>3, <2>4 DEF Sane, ProposalIsFresh, Some
    <2>6. Asleep' /\ session' \in [gen : Nat, live : BOOLEAN]
      <3>1. origin \in Int
        BY OtherFields DEF IInv
      <3> QED
        BY <1>1, <3>1 DEF Asleep, IInv, Types
    <2> QED
      BY <1>1, <2>1, <2>5, <2>6, SettledStep
  <1> QED
    BY <1>2, <1>3, <1>4

LEMMA CommitFailsStep ==
  ASSUME IInv, CommitFails
  PROVE  IInv'
  <1>1. op' = NoOp /\ UNCHANGED <<now, origin, inbox, pending, src, row, cfg, session, ghost>>
    BY DEF CommitFails, Same
  <1>2. Asleep' /\ session' \in [gen : Nat, live : BOOLEAN]
    BY <1>1 DEF IInv, Asleep, Types
  <1>3. ProposalIsFresh'
    BY <1>1 DEF ProposalIsFresh, NoOp
  <1> QED
    BY <1>1, <1>2, <1>3, SettledStep

\* What a commit does to the pages counted for the incident.
Counted ==
  /\ ghost'.downs = IF Opens THEN 1 ELSE IF op.page /\ op.next.incident = "firing" THEN ghost.downs + 1 ELSE ghost.downs
  /\ ghost'.ups = IF Opens THEN 0 ELSE IF op.page /\ op.next.incident = "resolved" THEN ghost.ups + 1 ELSE ghost.ups

\* The times a commit stands at.
LEMMA CommitTime ==
  ASSUME IInv, origin >= 0, Some(pending)
  PROVE  pending.at \in Nat /\ pending.at <= Elapsed(now) /\ origin + pending.at <= now
         /\ Elapsed(now) = now - origin /\ origin \in Int /\ now \in Nat
  <1>1. pending.at <= Elapsed(now)
    BY DEF IInv, Ordered, AfterPending
  <1>2. now \in Nat /\ origin \in Int /\ pending.at \in Nat
    BY OtherFields DEF IInv
  <1> QED
    BY <1>1, <1>2 DEF Elapsed

LEMMA OnePageMore ==
  ASSUME NEW d \in Nat, NEW r \in Nat
  PROVE  /\ (d - 1) * r \in Int /\ ((d + 1) - 1) * r = (d - 1) * r + r
         /\ (1 - 1) * r = 0
  OBVIOUS

LEMMA PagesStep ==
  ASSUME IInv, origin >= 0, Some(pending), op = Proposal, Counted, row' = op.next, now' = now
  PROVE  PagesAreCounted' /\ ghost'.downs \in Nat /\ ghost'.ups \in Nat
  <1>1. Sane(op) /\ Reports(op)
    BY ProposalFacts
  <1>2. /\ row.started \in Nat /\ row.paged \in Int /\ ghost.downs \in Nat /\ ghost.ups \in Nat /\ Resend \in Nat
        /\ pending.at \in Nat /\ origin \in Int /\ now \in Nat /\ origin + pending.at <= now
    BY RowFields, GhostFields, WatchdogAssumption, CommitTime DEF IInv
  <1>3. PICK t \in Nat : t = origin + pending.at
    BY <1>2
  <1>4. PICK d \in Int : d = (ghost.downs - 1) * Resend
    BY <1>2
  <1>5. /\ ghost.ups <= 1 /\ row.started <= now
        /\ Resend = 0 => ghost.downs <= 1
        /\ Resend # 0 => d <= now - row.started
        /\ Open => /\ ghost.ups = 0 /\ row.started <= row.paged /\ row.paged <= now
                   /\ Resend > 0 => d <= row.paged - row.started
    BY <1>4 DEF IInv, PagesAreCounted, Open
  <1>6. row'.started \in Nat /\ row'.paged \in Int
    BY <1>1 DEF Sane, Rows
  <1>7. CASE Opens
    <2>1. ghost'.downs = 1 /\ ghost'.ups = 0 /\ row'.started = t /\ row'.paged = t
      BY <1>1, <1>3, <1>7 DEF Counted, Opens, Reports, Open
    <2>2. (ghost'.downs - 1) * Resend = 0
      BY <1>2, <2>1, OnePageMore
    <2> QED
      BY <1>2, <1>3, <2>1, <2>2 DEF PagesAreCounted
  <1>8. CASE ~Opens /\ op.page /\ op.next.incident = "firing"
    <2>1. Open
      BY <1>8 DEF Opens, Open
    <2>2. ghost'.downs = ghost.downs + 1 /\ ghost'.ups = ghost.ups /\ row'.started = row.started /\ row'.paged = t
      BY <1>1, <1>3, <1>8, <2>1 DEF Counted, Reports
    <2>3. Resend > 0 /\ (row.paged < 0 \/ t - row.paged >= Resend)
      <3>1. Due
        BY <1>1, <1>8, <2>1 DEF Reports
      <3> QED
        BY <1>2, <1>3, <3>1 DEF Due
    <2>4. (ghost'.downs - 1) * Resend = d + Resend
      BY <1>2, <1>4, <2>2, OnePageMore
    <2>5. d <= row.paged - row.started /\ row.started <= row.paged
      BY <1>5, <2>1, <2>3
    <2>6. d + Resend <= t - row.started /\ row.started <= t
      BY <1>2, <1>3, <2>3, <2>5
    <2> QED
      BY <1>2, <1>3, <1>5, <2>1, <2>2, <2>3, <2>4, <2>6 DEF PagesAreCounted
  <1>9. CASE ~Opens /\ ~(op.page /\ op.next.incident = "firing")
    <2>1. ghost'.downs = ghost.downs
      BY <1>9 DEF Counted
    <2>2. row'.started = row.started
      BY <1>1, <1>9 DEF Reports, Opens, Open
    <2>3. (ghost'.downs - 1) * Resend = d
      BY <1>4, <2>1
    <2>4. row'.incident = "firing" => ghost'.ups = ghost.ups /\ row'.paged = row.paged /\ Open
      BY <1>1, <1>9 DEF Counted, Reports, Opens, Open
    <2>5. ghost'.ups \in Nat /\ ghost'.ups <= 1
      <3>1. CASE op.page /\ op.next.incident = "resolved"
        <4>1. Open /\ ghost'.ups = ghost.ups + 1
          BY <1>1, <1>9, <3>1 DEF Counted, Reports
        <4> QED
          BY <1>5, <4>1
      <3>2. CASE ~(op.page /\ op.next.incident = "resolved")
        BY <1>2, <1>5, <1>9, <3>2 DEF Counted
      <3> QED
        BY <3>1, <3>2
    <2> QED
      BY <1>2, <1>5, <2>1, <2>2, <2>3, <2>4, <2>5 DEF PagesAreCounted
  <1> QED
    BY <1>7, <1>8, <1>9

\* A commit that is refused by no fence commits what the owner would propose now.
LEMMA MayCommitFacts ==
  ASSUME IInv, op.on, MayCommit
  PROVE  /\ origin >= 0 /\ Some(pending) /\ op = Proposal /\ Sane(op) /\ Reports(op) /\ cfg.rev > 0
  <1>1. /\ origin >= 0 /\ Some(pending) /\ op = Proposal /\ cfg.rev > 0
    BY DEF IInv, ProposalIsFresh, MayCommit
  <1> QED
    BY <1>1, ProposalFacts

\* What both outcomes of a commit leave behind: the row, the counts and the order.
LEMMA CommittedParts ==
  ASSUME IInv, op.on, MayCommit, Counted, row' = op.next, op' = NoOp, UNCHANGED <<now, origin, inbox, cfg>>,
         pending' = NoEvent \/ UNCHANGED pending,
         ghost'.known \in Int, ghost'.known + op.next.cp.loss <= origin + pending.at
  PROVE  /\ Asleep' /\ RowIsSound' /\ InboxIsCurrent' /\ ProposalIsFresh' /\ PagesAreCounted'
         /\ row' \in Rows /\ row'.cp \in Checkpoints
         /\ \A v \in Int : v <= pending.at => Before(v)'
         /\ Some(pending)' => AfterPending(pending.at)'
         /\ ghost'.known + row'.cp.loss <= now'
         /\ Before(ghost.known + row.cp.loss - origin)'
  <1>1. origin >= 0 /\ Some(pending) /\ op = Proposal /\ Sane(op)
    BY MayCommitFacts
  <1>2. pending.at \in Nat /\ pending.at <= Elapsed(now) /\ origin + pending.at <= now
         /\ origin \in Int /\ now \in Nat
    BY <1>1, CommitTime
  <1>3. Elapsed(now)' = Elapsed(now) /\ Elapsed(now) \in Int
    BY <1>2 DEF Elapsed
  <1>4. ~Some(pending)' \/ UNCHANGED pending
    BY DEF Some, NoEvent
  <1>5. Asleep' /\ ProposalIsFresh'
    BY <1>1, <1>2 DEF Asleep, ProposalIsFresh, NoOp
  <1>6. /\ row' \in Rows /\ RowIsSound' /\ row'.cp \in Checkpoints /\ row'.cp.loss \in Nat
    BY <1>1 DEF Sane, RowIsSound, Rows, Checkpoints
  <1>7. InboxIsCurrent'
    BY <1>4 DEF IInv, InboxIsCurrent, Some, Current
  <1>8. PagesAreCounted'
    BY <1>1, PagesStep
  <1>9. ASSUME NEW v \in Int, v <= pending.at PROVE Before(v)'
    <2>1. AfterPending(pending.at)
      BY <1>1 DEF IInv, Ordered
    <2>2. inbox.interrupt.at \in Int /\ \A i \in 1..Len(inbox.queue) : inbox.queue[i].at \in Int
      BY TimeFields DEF IInv
    <2>3. Some(inbox.interrupt) => v <= inbox.interrupt.at
      BY <1>2, <1>9, <2>1, <2>2 DEF AfterPending
    <2>4. \A i \in 1..Len(inbox.queue) : v <= inbox.queue[i].at
      BY <1>2, <1>9, <2>1, <2>2 DEF AfterPending
    <2>5. v <= Elapsed(now)
      BY <1>2, <1>3, <1>9
    <2> QED
      BY <1>3, <1>4, <1>9, <2>3, <2>4, <2>5 DEF Before, Some
  <1>10. Some(pending)' => AfterPending(pending.at)'
    <2>1. AfterPending(pending.at)
      BY <1>1 DEF IInv, Ordered
    <2> QED
      BY <1>3, <1>4, <2>1 DEF AfterPending, Some
  <1>11. ghost'.known + row'.cp.loss <= now'
    BY <1>2, <1>6
  <1>12. Before(ghost.known + row.cp.loss - origin)'
    <2>1. PICK v : v = ghost'.known + row'.cp.loss - origin'
      OBVIOUS
    <2>2. v \in Int /\ v <= pending.at
      BY <1>2, <1>6, <2>1
    <2>3. Before(v)'
      BY <1>9, <2>2
    <2> QED
      BY <2>1, <2>3 DEF Before
  <1> QED
    BY <1>5, <1>6, <1>7, <1>8, <1>9, <1>10, <1>11, <1>12

LEMMA CommitUnknownStep ==
  ASSUME IInv, CommitUnknown
  PROVE  IInv'
  <1>1. /\ op.on /\ MayCommit /\ row' = op.next /\ op' = NoOp
        /\ UNCHANGED <<now, origin, inbox, pending, src, cfg, session>>
    BY DEF CommitUnknown
  <1>2. origin >= 0 /\ Some(pending) /\ op = Proposal /\ Sane(op) /\ cfg.rev > 0
    BY <1>1, MayCommitFacts
  <1>3. PICK n, d, u :
          /\ n = IF ~row.cp.armed /\ ~Holding THEN origin + pending.at ELSE ghost.known
          /\ d = IF Opens THEN 1 ELSE IF op.page /\ op.next.incident = "firing" THEN ghost.downs + 1 ELSE ghost.downs
          /\ u = IF Opens THEN 0 ELSE IF op.page /\ op.next.incident = "resolved" THEN ghost.ups + 1 ELSE ghost.ups
    OBVIOUS
  <1>4. ghost' = [ghost EXCEPT !.known = n, !.run = ghost.run, !.downs = d, !.ups = u]
    <2>1. ghost' = Observed(FALSE)
      BY DEF CommitUnknown
    <2> QED
      BY <1>3, <2>1, Zenon DEF Observed, Counts
  <1>5. ghost \in [since : Int, heard : Int, run : Runs, known : Int, downs : Nat, ups : Nat]
    BY DEF IInv, Types
  <1>6. /\ ghost'.known = n /\ ghost'.run = ghost.run /\ ghost'.downs = d /\ ghost'.ups = u
        /\ ghost'.since = ghost.since /\ ghost'.heard = ghost.heard
    BY <1>4, <1>5, Zenon
  <1>7. Counted
    BY <1>3, <1>6 DEF Counted
  <1>8. d \in Nat /\ u \in Nat
    BY <1>1, <1>2, <1>6, <1>7, PagesStep
  <1>9. pending.at \in Nat /\ origin \in Int /\ ghost.known \in Int /\ ghost.run \in Runs
    BY OtherFields, GhostFields DEF IInv
  <1>10. n \in Int /\ (Holding => n = ghost.known)
    BY <1>3, <1>9
  <1>11. ghost' \in [since : Int, heard : Int, run : Runs, known : Int, downs : Nat, ups : Nat]
    BY <1>4, <1>5, <1>8, <1>9, <1>10, Zenon
  <1>12. ghost'.known + op.next.cp.loss <= origin + pending.at
    <2>1. CASE ~row.cp.armed /\ ~Holding
      <3>1. op.next.cp.loss = 0
        BY <1>2, <2>1 DEF Sane, Told
      <3> QED
        BY <1>3, <1>6, <1>9, <2>1, <3>1
    <2>2. CASE ~(~row.cp.armed /\ ~Holding)
      BY <1>2, <1>3, <1>6, <2>2 DEF Sane
    <2> QED
      BY <2>1, <2>2
  <1>13. /\ Asleep' /\ RowIsSound' /\ InboxIsCurrent' /\ ProposalIsFresh' /\ PagesAreCounted'
         /\ row' \in Rows
         /\ \A v \in Int : v <= pending.at => Before(v)'
         /\ Some(pending)' => AfterPending(pending.at)'
         /\ ghost'.known + row'.cp.loss <= now'
         /\ Before(ghost.known + row.cp.loss - origin)'
    BY <1>1, <1>6, <1>7, <1>10, <1>12, CommittedParts
  <1>14. Types'
    BY <1>1, <1>11, <1>13 DEF IInv, Types, Rows
  <1>15. SourceIsSound'
    BY <1>1 DEF IInv, SourceIsSound, Sound
  <1>16. Ordered'
    <2>1. src'.timer.on => Before(src.timer.last)'
      <3>1. PICK v : v = src.timer.last
        OBVIOUS
      <3>2. src.timer.on => v \in Int /\ v <= pending.at
        BY <1>2, <3>1, TimeFields DEF IInv, Ordered, Before
      <3>3. src.timer.on => Before(v)'
        BY <1>13, <3>2
      <3> QED
        BY <1>1, <3>1, <3>3 DEF Before
    <2> QED
      BY <1>1, <1>13, <2>1 DEF IInv, Ordered, Some, Elapsed
  <1>17. KnownIsGrounded'
    <2>1. Holding' => Grounded(src.timer, ghost.known)'
      BY <1>1, <1>6, <1>10 DEF IInv, KnownIsGrounded, Holding, Grounded
    <2> QED
      BY <1>13, <2>1 DEF KnownIsGrounded
  <1>18. RunsAreUnbroken'
    <2>1. SourceMark' = SourceMark /\ InboxMark' = InboxMark /\ LastMark' = LastMark
      BY <1>1, SameSource, SameInbox
    <2> QED
      BY <1>1, <1>6, <2>1 DEF IInv, RunsAreUnbroken, Extends, EventMark, Mark, NoMark, Elapsed
  <1> QED
    BY <1>13, <1>14, <1>15, <1>16, <1>17, <1>18 DEF IInv

\* The timer a commit leaves goes on with the run of the event it was made of.
LEMMA CommittedRun ==
  ASSUME IInv, op.on, MayCommit, src' = [timer |-> op.timer, persisted |-> op.next.cp], pending' = NoEvent,
         UNCHANGED inbox
  PROVE  /\ SourceMark' \in Marks
         /\ SourceMark'.since >= 0 =>
              /\ 0 <= RunOf(pending).since /\ RunOf(pending).since <= SourceMark'.since
              /\ RunOf(pending).at = SourceMark'.heard
         /\ InboxMark'.since >= 0 =>
              /\ 0 <= InboxMark.since /\ InboxMark.since <= InboxMark'.since
              /\ InboxMark.heard = InboxMark'.heard
         /\ InboxMark' \in Marks
  <1>1. Sane(op)
    BY MayCommitFacts
  <1>2. op.timer \in Timers /\ OnRun(op.timer) /\ src'.timer = op.timer
    BY <1>1 DEF Sane
  <1>3. op.timer.streak \in Int /\ op.timer.healthy \in Int
    BY <1>2, TimerFields
  <1>4. NoMark.since = -1 /\ NoMark \in Marks
    BY DEF NoMark, Mark, Marks
  <1>5. CASE op.timer.latest /\ op.timer.streak >= 0
    <2>1. op.timer.on = TRUE
      BY <1>2, TimerFields
    <2>2. SourceMark' = Mark(op.timer.streak, op.timer.healthy)
      BY <1>2, <1>5, <2>1 DEF SourceMark, Mark
    <2>3. SourceMark' \in Marks /\ SourceMark'.since = op.timer.streak /\ SourceMark'.heard = op.timer.healthy
      BY <1>3, <2>2 DEF Mark, Marks
    <2>4. /\ 0 <= RunOf(pending).since /\ RunOf(pending).since <= op.timer.streak
          /\ RunOf(pending).at = op.timer.healthy
          /\ 0 <= PendingMark.since /\ PendingMark.since <= op.timer.streak /\ PendingMark.heard = op.timer.healthy
      BY <1>2, <1>5 DEF OnRun
    <2>5. CASE Some(inbox.interrupt)
      <3>1. InboxMark' = NoMark
        BY <2>5 DEF InboxMark, Some, NoMark, Mark
      <3> QED
        BY <1>4, <2>3, <2>4, <3>1
    <2>6. CASE ~Some(inbox.interrupt)
      <3>1. InboxMark' = SourceMark' /\ InboxMark = PendingMark
        BY <2>6 DEF InboxMark, PendingMark, Some, NoEvent
      <3> QED
        BY <2>3, <2>4, <3>1
    <2> QED
      BY <2>5, <2>6
  <1>6. CASE ~(op.timer.latest /\ op.timer.streak >= 0)
    <2>1. SourceMark' = NoMark
      BY <1>2, <1>6 DEF SourceMark, NoMark, Mark
    <2>2. InboxMark' = NoMark
      BY <2>1 DEF InboxMark, PendingMark, NoEvent, NoMark, Mark
    <2> QED
      BY <1>4, <2>1, <2>2
  <1> QED
    BY <1>5, <1>6

LEMMA CommitStep ==
  ASSUME IInv, Commit
  PROVE  IInv'
  <1>1. /\ op.on /\ MayCommit /\ row' = op.next /\ op' = NoOp /\ pending' = NoEvent
        /\ src' = [timer |-> op.timer, persisted |-> op.next.cp]
        /\ UNCHANGED <<now, origin, inbox, cfg, session>>
    BY DEF Commit, Same
  <1>2. origin >= 0 /\ Some(pending) /\ op = Proposal /\ Sane(op) /\ cfg.rev > 0
    BY <1>1, MayCommitFacts
  <1>3. PICK n, g, d, u :
          /\ n = Heard /\ g = RunOf(pending)
          /\ d = IF Opens THEN 1 ELSE IF op.page /\ op.next.incident = "firing" THEN ghost.downs + 1 ELSE ghost.downs
          /\ u = IF Opens THEN 0 ELSE IF op.page /\ op.next.incident = "resolved" THEN ghost.ups + 1 ELSE ghost.ups
    OBVIOUS
  <1>4. ghost' = [ghost EXCEPT !.known = n, !.run = g, !.downs = d, !.ups = u]
    <2>1. ghost' = Observed(TRUE)
      BY DEF Commit
    <2>2. n = IF Counts(TRUE) THEN origin + pending.at ELSE ghost.known
      BY <1>3, Zenon DEF Heard, Told, Counts
    <2>3. g = IF TRUE /\ pending.kind # "tick" THEN RunOf(pending) ELSE ghost.run
      BY <1>3 DEF RunOf
    <2> QED
      BY <1>3, <2>1, <2>2, <2>3, Zenon DEF Observed
  <1>5. ghost \in [since : Int, heard : Int, run : Runs, known : Int, downs : Nat, ups : Nat]
    BY DEF IInv, Types
  <1>6. /\ ghost'.known = n /\ ghost'.run = g /\ ghost'.downs = d /\ ghost'.ups = u
        /\ ghost'.since = ghost.since /\ ghost'.heard = ghost.heard
    BY <1>4, <1>5, Zenon
  <1>7. Counted
    BY <1>3, <1>6 DEF Counted
  <1>8. d \in Nat /\ u \in Nat
    BY <1>1, <1>2, <1>6, <1>7, PagesStep
  <1>9. pending.at \in Nat /\ pending.since \in Int /\ origin \in Int /\ ghost.known \in Int /\ ghost.run \in Runs
    BY OtherFields, GhostFields DEF IInv
  <1>10. n \in Int /\ g \in Runs
    BY <1>3, <1>9 DEF Heard, RunOf, Runs, NoRun
  <1>11. ghost' \in [since : Int, heard : Int, run : Runs, known : Int, downs : Nat, ups : Nat]
    BY <1>4, <1>5, <1>8, <1>10, Zenon
  <1>12. ghost'.known + op.next.cp.loss <= origin + pending.at
    <2>1. CASE Told
      <3>1. op.next.cp.loss = 0
        BY <1>2, <2>1 DEF Sane
      <3> QED
        BY <1>3, <1>6, <1>9, <2>1, <3>1 DEF Heard
    <2>2. CASE ~Told
      BY <1>2, <1>3, <1>6, <2>2 DEF Sane, Heard
    <2> QED
      BY <2>1, <2>2
  <1>13. /\ Asleep' /\ RowIsSound' /\ InboxIsCurrent' /\ ProposalIsFresh' /\ PagesAreCounted'
         /\ row' \in Rows /\ row'.cp \in Checkpoints
         /\ \A v \in Int : v <= pending.at => Before(v)'
         /\ Some(pending)' => AfterPending(pending.at)'
         /\ ghost'.known + row'.cp.loss <= now'
         /\ Before(ghost.known + row.cp.loss - origin)'
    BY <1>1, <1>6, <1>7, <1>10, <1>12, CommittedParts
  <1>14. /\ src'.timer = op.timer /\ src'.persisted = row'.cp /\ op.timer \in Timers
         /\ op.timer.last = pending.at /\ Sound(op.timer, pending.at)
         /\ op.timer.armed <=> row'.cp.armed
         /\ op.timer.loss <=> row'.cp.pending
         /\ op.timer.armed => Grounded(op.timer, n)
    BY <1>1, <1>2, <1>3 DEF Sane
  <1>15. Types'
    <2>1. src' \in [timer : Timers, persisted : Checkpoints]
      BY <1>1, <1>13, <1>14
    <2>2. pending' \in Events \cup {NoEvent}
      BY <1>1
    <2> QED
      BY <1>1, <1>11, <1>13, <2>1, <2>2 DEF IInv, Types, Rows
  <1>16. SourceIsSound'
    BY <1>1, <1>2, <1>14 DEF SourceIsSound, Sound
  <1>17. Ordered'
    <2>1. Before(src.timer.last)'
      <3>1. PICK v : v = pending.at
        OBVIOUS
      <3>2. Before(v)'
        BY <1>9, <1>13, <3>1
      <3> QED
        BY <1>14, <3>1, <3>2 DEF Before
    <2> QED
      BY <1>1, <1>13, <2>1 DEF IInv, Ordered, Some, Elapsed
  <1>18. KnownIsGrounded'
    <2>1. Holding' => Grounded(src.timer, ghost.known)'
      BY <1>1, <1>6, <1>14 DEF Holding, Grounded
    <2> QED
      BY <1>13, <2>1 DEF KnownIsGrounded
  <1>19. RunsAreUnbroken'
    <2>1. /\ SourceMark' \in Marks
          /\ SourceMark'.since >= 0 =>
              /\ 0 <= RunOf(pending).since /\ RunOf(pending).since <= SourceMark'.since
              /\ RunOf(pending).at = SourceMark'.heard
          /\ InboxMark'.since >= 0 =>
              /\ 0 <= InboxMark.since /\ InboxMark.since <= InboxMark'.since
              /\ InboxMark.heard = InboxMark'.heard
          /\ InboxMark' \in Marks
      BY <1>1, CommittedRun
    <2>2. SourceMark'.since >= 0 =>
             /\ 0 <= ghost'.run.since /\ ghost'.run.since <= SourceMark'.since
             /\ ghost'.run.at = SourceMark'.heard
      BY <1>3, <1>6, <2>1
    <2>3. Extends(pending, SourceMark)'
      BY <1>1 DEF Extends, NoEvent
    <2>4. inbox'.queue # <<>> => Extends(inbox.queue[1], InboxMark)'
      <3>1. ASSUME inbox.queue # <<>> PROVE Extends(inbox.queue[1], InboxMark')
        <4>1. Extends(inbox.queue[1], InboxMark)
          BY <3>1 DEF IInv, RunsAreUnbroken
        <4>2. inbox.queue[1].since \in Int /\ inbox.queue[1].at \in Int /\ InboxMark \in Marks
          BY <3>1, QueueFields, LastFields, MarkFields DEF IInv
        <4> QED
          BY <2>1, <4>1, <4>2, WatchdogAssumption DEF Extends, Marks
      <3> QED
        BY <1>1, <3>1 DEF Extends
    <2>5. \A i \in 2..Len(inbox'.queue) : Extends(inbox.queue[i], EventMark(inbox.queue[i - 1]))'
      BY <1>1 DEF IInv, RunsAreUnbroken, Extends, EventMark, Mark, NoMark
    <2>6. LastMark'.since >= 0 =>
             /\ 0 <= ghost'.since /\ ghost'.since <= LastMark'.since
             /\ LastMark'.heard <= ghost'.heard
      <3>0. LastMark.since >= 0 =>
              /\ 0 <= ghost.since /\ ghost.since <= LastMark.since
              /\ LastMark.heard <= ghost.heard
        BY DEF IInv, RunsAreUnbroken
      <3>1. CASE inbox.queue = <<>>
        <4>1. LastMark = InboxMark /\ LastMark' = InboxMark'
          BY <1>1, <3>1 DEF LastMark
        <4>2. InboxMark \in Marks /\ ghost.since \in Int
          BY MarkFields, GhostFields DEF IInv
        <4> QED
          BY <1>6, <2>1, <3>0, <4>1, <4>2 DEF Marks
      <3>2. CASE inbox.queue # <<>>
        <4>1. LastMark = LastMark'
          BY <1>1, <3>2 DEF LastMark, EventMark, NoMark, Mark
        <4> QED
          BY <1>6, <3>0, <4>1
      <3> QED
        BY <3>1, <3>2
    <2>7. ghost'.since <= Elapsed(now)' /\ ghost'.heard <= Elapsed(now)'
      BY <1>1, <1>2, <1>6 DEF IInv, RunsAreUnbroken, Elapsed
    <2> QED
      BY <2>2, <2>3, <2>4, <2>5, <2>6, <2>7 DEF RunsAreUnbroken
  <1> QED
    BY <1>13, <1>15, <1>16, <1>17, <1>18, <1>19 DEF IInv

LEMMA InitStep == Init => IInv
  <1>1. SUFFICES ASSUME Init PROVE IInv
    OBVIOUS
  <1>2. /\ now = 0 /\ origin = 0 /\ inbox = EmptyInbox /\ pending = NoEvent /\ op = NoOp /\ src = NoSource
        /\ row = [cp |-> Zero, status |-> "unarmed", incident |-> "none", started |-> 0, paged |-> -1]
        /\ cfg = [rev |-> 0, enabled |-> FALSE, lost |-> CHOOSE l \in Losts : TRUE]
        /\ session = [gen |-> 0, live |-> FALSE]
        /\ ghost = [since |-> -1, heard |-> -1, run |-> NoRun, known |-> 0, downs |-> 0, ups |-> 0]
    BY <1>1 DEF Init
  <1>3. row.cp = Zero /\ row.cp.loss = 0 /\ ghost.known = 0 /\ ghost.since = -1 /\ ghost.heard = -1
    BY <1>2 DEF Zero
  <1>4. /\ Asleep /\ SourceIsSound /\ InboxIsCurrent /\ Ordered /\ KnownIsGrounded
        /\ RunsAreUnbroken /\ ProposalIsFresh
    BY <1>2, <1>3, EmptyParts
  <1>5. Types
    <2>1. PICK l \in Losts : l = CHOOSE m \in Losts : TRUE
      BY WatchdogAssumption, Zenon
    <2>2. cfg \in [rev : Nat, enabled : BOOLEAN, lost : Losts]
      BY <1>2, <2>1
    <2>3. inbox \in [gen : Nat, connected : BOOLEAN, queue : Seq(Events), interrupt : Events \cup {NoEvent}]
      BY <1>2 DEF EmptyInbox
    <2>4. row \in [cp : Checkpoints,
              status : {"unarmed", "starting", "healthy", "suspect", "lost", "recovering"},
              incident : {"none", "firing", "resolved"}, started : Nat, paged : Int]
      BY <1>2 DEF Zero, Checkpoints
    <2>5. ghost \in [since : Int, heard : Int, run : Runs, known : Int, downs : Nat, ups : Nat]
      BY <1>2 DEF NoRun, Runs
    <2>6. session \in [gen : Nat, live : BOOLEAN]
      BY <1>2
    <2> QED
      BY <1>2, <2>2, <2>3, <2>4, <2>5, <2>6 DEF Types
  <1>6. RowIsSound
    BY <1>2 DEF RowIsSound, Zero
  <1>7. PagesAreCounted
    <2>1. (0 - 1) * Resend <= 0 /\ Resend \in Nat
      BY WatchdogAssumption
    <2> QED
      BY <1>2, <2>1 DEF PagesAreCounted
  <1> QED
    BY <1>4, <1>5, <1>6, <1>7 DEF IInv

LEMMA StepKeepsInvariant == IInv /\ [Next]_vars => IInv'
  <1>1. SUFFICES ASSUME IInv, [Next]_vars PROVE IInv'
    OBVIOUS
  <1>2. CASE UNCHANGED vars
    <2>1. session' \in [gen : Nat, live : BOOLEAN]
      BY <1>1, <1>2 DEF vars, IInv, Types
    <2> QED
      BY <1>1, <1>2, <2>1, QuietStep DEF vars
  <1>3. CASE Next
    BY <1>1, <1>3, AdoptStep, BeginStep, EndStep, AdmitStep, TakeStep, ProposeStep, CommitStep,
       CommitUnknownStep, CommitFailsStep, ApplyStep, StopStep, StartStep, TickStep DEF Next
  <1> QED
    BY <1>1, <1>2, <1>3

\* The inductive invariant: what the owner still has to handle is ordered and
\* current, the timer it holds knows no health later than the last one counted,
\* and a run of samples is unbroken from its reception to its commit.
THEOREM WatchdogInvariant == Spec => []IInv
  BY InitStep, StepKeepsInvariant, PTL DEF Spec

LEMMA Quotient ==
  ASSUME NEW d \in Int, NEW r \in Nat, r > 0, NEW a \in Nat, d * r <= a
  PROVE  d <= a \div r
  OBVIOUS

LEMMA InvariantEarns == IInv => ReportsAreEarned
  <1>1. SUFFICES ASSUME IInv PROVE ReportsAreEarned
    OBVIOUS
  <1>2. NeverWedged
    BY <1>1 DEF NeverWedged, IInv, ProposalIsFresh
  <1>3. OpensAfterLoss
    <2>1. SUFFICES ASSUME op.on, MayCommit, Opens PROVE origin + pending.at - ghost.known >= cfg.lost
      BY DEF OpensAfterLoss
    <2>2. Reports(op)
      BY <1>1, <2>1, MayCommitFacts
    <2> QED
      BY <2>1, <2>2 DEF Reports, Opens, Open
  <1>4. RecoversAfterStreak
    <2>1. SUFFICES ASSUME op.on, MayCommit, cfg.enabled, Open, op.next.incident = "resolved"
                   PROVE  /\ RunOf(pending).since >= 0 /\ RunOf(pending).at - RunOf(pending).since >= Recover
                          /\ pending.at - RunOf(pending).at < Suspect
      BY DEF RecoversAfterStreak
    <2>2. Reports(op)
      BY <1>1, <2>1, MayCommitFacts
    <2> QED
      BY <2>1, <2>2 DEF Reports
  <1>5. OnePagePerTransition
    <2>1. /\ ghost.downs \in Nat /\ row.started \in Nat /\ now \in Nat /\ Resend \in Nat
      BY <1>1, GhostFields, RowFields, OtherFields, WatchdogAssumption DEF IInv
    <2>2. ghost.ups <= 1 /\ row.started <= now
      BY <1>1 DEF IInv, PagesAreCounted
    <2>3. CASE Resend = 0
      BY <1>1, <2>1, <2>2, <2>3 DEF IInv, PagesAreCounted, OnePagePerTransition
    <2>4. CASE Resend > 0
      <3>1. PICK d \in Int, a \in Nat : d = ghost.downs - 1 /\ a = now - row.started
        BY <2>1, <2>2
      <3>2. d * Resend <= a
        BY <1>1, <2>1, <2>4, <3>1 DEF IInv, PagesAreCounted
      <3>3. d <= a \div Resend /\ a \div Resend \in Int
        BY <2>1, <2>4, <3>1, <3>2, Quotient
      <3>4. ghost.downs <= 1 + a \div Resend
        BY <2>1, <3>1, <3>3
      <3> QED
        BY <2>2, <2>4, <3>1, <3>4 DEF OnePagePerTransition
    <2> QED
      BY <2>1, <2>3, <2>4
  <1> QED
    BY <1>2, <1>3, <1>4, <1>5 DEF ReportsAreEarned

\* CommitWatchdog, Evaluate and step: for every interval, inbox limit and number of
\* restarts and lost replies, a loss is reported by silence alone, a recovery by an
\* unbroken run, each with one page, and no event is refused as invalid.
THEOREM EveryReportIsEarned == Spec => []ReportsAreEarned
  BY WatchdogInvariant, InvariantEarns, PTL
=============================================================================
