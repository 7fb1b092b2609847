---------------------------- MODULE WorkerProofs ----------------------------
(***************************************************************************)
(* Proofs about work that several workers share: WorkerLease, for any      *)
(* monitors, workers, TTL and bounds and for clocks that are unrelated to  *)
(* each other; Escalation, for any runners, ladders, waits, leases and     *)
(* numbers of edits and faults; PushDeadline, for any interval, grace and  *)
(* jitter within it.                                                       *)
(***************************************************************************)
EXTENDS WorkerLease, Escalation, TLAPS

\* A lease instance that has lapsed while its row still names a worker stays
\* expired on that worker's clock: nothing extends it in place.
LapsedStaysExpired ==
    \A m \in Monitors : worker[m] \in Workers /\ epoch[m] \in lapsed[m]
                            => leasedAt[m] < clock[worker[m]] - TTL

\* Only instances up to the present one can have lapsed.
LapsedIsPast ==
    \A m \in Monitors : \A e \in lapsed[m] : e <= epoch[m]

\* What carries the fence <<w, e>> was queued under the present instance, or an
\* earlier one; the present instance has one holder.
FenceOf(m, w, e) ==
    /\ e <= epoch[m]
    /\ e = epoch[m] /\ worker[m] \in Workers => worker[m] = w

ChecksCarryFences  == \A c \in checks : FenceOf(c.mon, c.wkr, c.ep)
CommitsCarryFences ==
    \A m \in Monitors : commits[m] # NoCheck => FenceOf(m, commits[m].wkr, commits[m].ep)

LeaseInv ==
    /\ TypeOK
    /\ LapsedStaysExpired
    /\ LapsedIsPast
    /\ ChecksCarryFences
    /\ CommitsCarryFences
    /\ FenceNamesOneWorker

-----------------------------------------------------------------------------

\* Every step keeps the variables in their types.
LEMMA TypeStep == TypeOK /\ [Next]_vars => TypeOK'
<1> SUFFICES ASSUME TypeOK, [Next]_vars PROVE TypeOK'
  OBVIOUS
<1> USE LeaseAssumption
<1>1. ASSUME NEW w \in Workers, Tick(w) PROVE TypeOK'
  BY <1>1 DEF TypeOK, Tick, dbVars, Lapse
<1>2. ASSUME NEW w \in Workers, Start(w) PROVE TypeOK'
  BY <1>2 DEF TypeOK, Start, dbVars
<1>3. ASSUME NEW w \in Workers, RefreshLease(w) PROVE TypeOK'
  BY <1>3 DEF TypeOK, RefreshLease
<1>4. ASSUME NEW w \in Workers, RefreshFails(w) PROVE TypeOK'
  BY <1>4 DEF TypeOK, RefreshFails, dbVars
<1>5. ASSUME NEW w \in Workers, ClaimAdmit(w) PROVE TypeOK'
  BY <1>5 DEF TypeOK, ClaimAdmit, dbVars
<1>6. ASSUME NEW w \in Workers, ClaimBatch(w) PROVE TypeOK'
  <2> DEFINE batch == Batch(w)
  <2>1. batch \subseteq Monitors
    BY DEF Batch
  <2>2. /\ worker' \in [Monitors -> Workers \cup {NoWorker}]
        /\ leasedAt' \in [Monitors -> Nat]
        /\ epoch' \in [Monitors -> Nat]
    BY <1>6 DEF TypeOK, ClaimBatch
  <2>3. lapsed' \in [Monitors -> SUBSET Nat]
    BY <1>6, <2>1 DEF TypeOK, ClaimBatch, Lapse
  <2>4. QED BY <1>6, <2>2, <2>3 DEF TypeOK, ClaimBatch
<1>7. ASSUME NEW w \in Workers, ClaimFails(w) PROVE TypeOK'
  BY <1>7 DEF TypeOK, ClaimFails, dbVars
<1>8. ASSUME NEW w \in Workers, SchedulerTick(w) PROVE TypeOK'
  <2>1. Due(w) \subseteq Monitors
    BY DEF Due
  <2>2. checks' \subseteq Check
    <3>1. \A m \in Due(w) : [mon |-> m, wkr |-> w, ep |-> epoch[m], run |-> FALSE] \in Check
      BY <2>1 DEF TypeOK, Check
    <3>2. QED BY <1>8, <3>1 DEF TypeOK, SchedulerTick
  <2>3. lastCheck' \in [Workers -> [Monitors -> Times]]
    <3>1. [m \in Monitors |-> IF m \in Due(w) THEN clock[w] ELSE lastCheck[w][m]]
             \in [Monitors -> Times]
      BY DEF TypeOK, Times
    <3>2. QED BY <1>8, <3>1 DEF TypeOK, SchedulerTick
  <2>4. QED BY <1>8, <2>2, <2>3 DEF TypeOK, SchedulerTick, dbVars
<1>9. ASSUME NEW w \in Workers, Stop(w) PROVE TypeOK'
  BY <1>9 DEF TypeOK, Stop, dbVars
<1>10. ASSUME NEW w \in Workers, ReleaseLeases(w) PROVE TypeOK'
  BY <1>10 DEF TypeOK, ReleaseLeases, Lapse
<1>11. ASSUME NEW w \in Workers, Exit(w) PROVE TypeOK'
  BY <1>11 DEF TypeOK, Exit, dbVars, Times, Never, ChecksOf
<1>12. ASSUME NEW c \in checks, AcquireSlot(c) PROVE TypeOK'
  BY <1>12 DEF TypeOK, AcquireSlot, dbVars, Check
<1>13. ASSUME NEW c \in checks, CommitLocalHeartbeat(c) PROVE TypeOK'
  BY <1>13 DEF TypeOK, CommitLocalHeartbeat, dbVars, Check
<1>14. ASSUME NEW c \in checks, CheckDropped(c) PROVE TypeOK'
  BY <1>14 DEF TypeOK, CheckDropped, dbVars
<1>15. ASSUME NEW m \in Monitors, SetActive(m) PROVE TypeOK'
  BY <1>15 DEF TypeOK, SetActive
<1>16. CASE UNCHANGED vars
  BY <1>16 DEF TypeOK, vars, dbVars
<1>17. QED
  BY <1>1, <1>2, <1>3, <1>4, <1>5, <1>6, <1>7, <1>8, <1>9, <1>10, <1>11, <1>12,
     <1>13, <1>14, <1>15, <1>16 DEF Next, WorkerStep, CheckStep

\* Whatever the constants, the variables keep their types.
THEOREM TypeCorrect == Spec => []TypeOK
<1>1. Init => TypeOK
  BY LeaseAssumption DEF Init, TypeOK, Times, Never, NoCheck
<1>2. QED BY <1>1, TypeStep, PTL DEF Spec

-----------------------------------------------------------------------------

\* The lease invariant is inductive.
LEMMA LeaseStep == LeaseInv /\ [Next]_vars => LeaseInv'
<1> SUFFICES ASSUME LeaseInv, [Next]_vars PROVE LeaseInv'
  OBVIOUS
<1> USE LeaseAssumption
<1> DEFINE Rest == /\ LapsedStaysExpired /\ LapsedIsPast /\ ChecksCarryFences
                   /\ CommitsCarryFences /\ FenceNamesOneWorker
<1>0. TypeOK'
  BY TypeStep DEF LeaseInv
<1>1. ASSUME NEW w \in Workers, Tick(w) PROVE Rest'
  <2>1. /\ UNCHANGED <<worker, leasedAt, epoch, checks, commits>>
        /\ clock' = [clock EXCEPT ![w] = @ + 1]
    BY <1>1 DEF Tick, dbVars
  <2>2. LapsedStaysExpired'
    BY <1>1, <2>1 DEF LeaseInv, TypeOK, Tick, Lapse, LapsedStaysExpired
  <2>3. LapsedIsPast'
    BY <1>1, <2>1 DEF LeaseInv, TypeOK, Tick, Lapse, LapsedIsPast
  <2>4. QED
    BY <2>1, <2>2, <2>3 DEF LeaseInv, ChecksCarryFences, CommitsCarryFences, FenceOf,
       FenceNamesOneWorker
<1>2. ASSUME NEW w \in Workers, RefreshLease(w) PROVE Rest'
  \* Only a lease that holds is extended, and that one has not lapsed.
  <2>1. UNCHANGED <<worker, epoch, clock, checks, commits, lapsed>>
    BY <1>2 DEF RefreshLease
  <2>2. LapsedStaysExpired'
    BY <1>2, <2>1 DEF LeaseInv, TypeOK, RefreshLease, Holds, LapsedStaysExpired
  <2>3. QED
    BY <2>1, <2>2 DEF LeaseInv, LapsedIsPast, ChecksCarryFences, CommitsCarryFences,
       FenceOf, FenceNamesOneWorker
<1>3. ASSUME NEW w \in Workers, ClaimBatch(w) PROVE Rest'
  <2>1. UNCHANGED <<clock, checks, commits>>
    BY <1>3 DEF ClaimBatch
  <2>2. PICK batch \in SUBSET Monitors :
            /\ worker' = [m \in Monitors |-> IF m \in batch THEN w ELSE worker[m]]
            /\ leasedAt' = [m \in Monitors |-> IF m \in batch THEN clock[w] ELSE leasedAt[m]]
            /\ epoch' = [m \in Monitors |-> IF m \in batch /\ ~Holds(w, m)
                                            THEN epoch[m] + 1 ELSE epoch[m]]
            /\ lapsed' = Lapse({m \in batch : worker[m] \in Workers \ {w}})
    BY <1>3 DEF ClaimBatch, Batch, Renews
  \* A new instance has not lapsed, and a renewed one has not either.
  <2>3. LapsedStaysExpired'
    BY <2>1, <2>2 DEF LeaseInv, TypeOK, Holds, Lapse, LapsedStaysExpired, LapsedIsPast
  <2>4. LapsedIsPast'
    BY <2>2 DEF LeaseInv, TypeOK, Lapse, LapsedIsPast
  <2>5. ASSUME NEW m \in Monitors, NEW v \in Workers, NEW e \in Nat, FenceOf(m, v, e)
        PROVE  FenceOf(m, v, e)'
    BY <2>2, <2>5 DEF LeaseInv, TypeOK, Holds, FenceOf
  <2>6. ChecksCarryFences'
    BY <2>1, <2>5 DEF LeaseInv, TypeOK, Check, ChecksCarryFences
  <2>7. CommitsCarryFences'
    BY <2>1, <2>5 DEF LeaseInv, TypeOK, Check, CommitsCarryFences
  <2>8. QED BY <2>1, <2>3, <2>4, <2>6, <2>7 DEF LeaseInv, FenceNamesOneWorker
<1>4. ASSUME NEW w \in Workers, SchedulerTick(w) PROVE Rest'
  <2>1. UNCHANGED <<worker, leasedAt, epoch, clock, commits, lapsed>>
    BY <1>4 DEF SchedulerTick, dbVars
  <2>2. \A c \in checks' : c \in checks \/ (/\ c \in Check
                                            /\ worker[c.mon] = w
                                            /\ c.wkr = w
                                            /\ c.ep = epoch[c.mon])
    BY <1>4, <1>0 DEF SchedulerTick, Due, Holds, Check, TypeOK
  <2>3. ChecksCarryFences'
    BY <2>1, <2>2 DEF LeaseInv, TypeOK, ChecksCarryFences, FenceOf, Check
  <2>4. FenceNamesOneWorker'
    BY <2>1, <2>2 DEF LeaseInv, FenceNamesOneWorker, ChecksCarryFences, FenceOf
  <2>5. QED
    BY <2>1, <2>3, <2>4 DEF LeaseInv, LapsedStaysExpired, LapsedIsPast,
       CommitsCarryFences, FenceOf
<1>5. ASSUME NEW c \in checks, AcquireSlot(c) PROVE Rest'
  <2>1. UNCHANGED <<worker, leasedAt, epoch, clock, commits, lapsed>>
    BY <1>5 DEF AcquireSlot, dbVars
  <2>2. \A d \in checks' : \E x \in checks : d.mon = x.mon /\ d.wkr = x.wkr /\ d.ep = x.ep
    BY <1>5 DEF AcquireSlot, LeaseInv, TypeOK, Check
  <2>3. ChecksCarryFences' /\ FenceNamesOneWorker'
    BY <2>1, <2>2 DEF LeaseInv, ChecksCarryFences, FenceOf, FenceNamesOneWorker
  <2>4. QED
    BY <2>1, <2>3 DEF LeaseInv, LapsedStaysExpired, LapsedIsPast, CommitsCarryFences, FenceOf
<1>6. ASSUME NEW c \in checks, CommitLocalHeartbeat(c) PROVE Rest'
  <2>1. UNCHANGED <<worker, leasedAt, epoch, clock, lapsed>> /\ checks' \subseteq checks
    BY <1>6 DEF CommitLocalHeartbeat, dbVars
  <2>2. CommitsCarryFences'
    BY <1>6, <2>1 DEF LeaseInv, TypeOK, Check, CommitLocalHeartbeat, FenceHolds,
       CommitsCarryFences, FenceOf
  <2>3. QED
    BY <2>1, <2>2 DEF LeaseInv, LapsedStaysExpired, LapsedIsPast, ChecksCarryFences,
       FenceOf, FenceNamesOneWorker
<1>7. ASSUME NEW w \in Workers, ReleaseLeases(w) PROVE Rest'
  <2>1. /\ UNCHANGED <<epoch, clock, checks, commits>>
        /\ worker' = [m \in Monitors |-> IF worker[m] = w THEN NoWorker ELSE worker[m]]
        /\ leasedAt' = [m \in Monitors |-> IF worker[m] = w THEN 0 ELSE leasedAt[m]]
        /\ lapsed' = Lapse({m \in Monitors : worker[m] = w})
    BY <1>7 DEF ReleaseLeases
  <2>2. LapsedStaysExpired' /\ LapsedIsPast'
    BY <2>1 DEF LeaseInv, TypeOK, Lapse, LapsedStaysExpired, LapsedIsPast
  <2>3. ASSUME NEW m \in Monitors, NEW v \in Workers, NEW e \in Nat, FenceOf(m, v, e)
        PROVE  FenceOf(m, v, e)'
    BY <2>1, <2>3 DEF LeaseInv, TypeOK, FenceOf
  <2>4. ChecksCarryFences'
    BY <2>1, <2>3 DEF LeaseInv, TypeOK, Check, ChecksCarryFences
  <2>5. CommitsCarryFences'
    BY <2>1, <2>3 DEF LeaseInv, TypeOK, Check, CommitsCarryFences
  <2>6. QED BY <2>1, <2>2, <2>4, <2>5 DEF LeaseInv, FenceNamesOneWorker
<1>8. ASSUME UNCHANGED <<worker, leasedAt, epoch, clock, commits, lapsed>>, checks' \subseteq checks
      PROVE  Rest'
  \* Steps that touch neither the leases nor the histories, and queue nothing.
  BY <1>8 DEF LeaseInv, LapsedStaysExpired, LapsedIsPast, ChecksCarryFences,
     CommitsCarryFences, FenceOf, FenceNamesOneWorker
<1>9. ASSUME NEW w \in Workers,
             \/ Start(w) \/ RefreshFails(w) \/ ClaimAdmit(w) \/ ClaimFails(w) \/ Stop(w) \/ Exit(w)
      PROVE  Rest'
  BY <1>9, <1>8 DEF Start, RefreshFails, ClaimAdmit, ClaimFails, Stop, Exit, dbVars
<1>10. ASSUME NEW c \in checks, CheckDropped(c) PROVE Rest'
  BY <1>10, <1>8 DEF CheckDropped, dbVars
<1>11. ASSUME NEW m \in Monitors, SetActive(m) PROVE Rest'
  BY <1>11, <1>8 DEF SetActive
<1>12. ASSUME UNCHANGED vars PROVE Rest'
  BY <1>12, <1>8 DEF vars, dbVars
<1>13. Rest'
  BY <1>1, <1>2, <1>3, <1>4, <1>5, <1>6, <1>7, <1>9, <1>10, <1>11, <1>12
     DEF Next, WorkerStep, CheckStep
<1>14. QED BY <1>0, <1>13 DEF LeaseInv

\* The lease invariant holds in every reachable state.
THEOREM LeaseInvariant == Spec => []LeaseInv
<1>1. Init => LeaseInv
  BY LeaseAssumption DEF Init, LeaseInv, TypeOK, Times, Never, NoCheck, LapsedStaysExpired,
     LapsedIsPast, ChecksCarryFences, CommitsCarryFences, FenceNamesOneWorker
<1>2. QED BY <1>1, LeaseStep, PTL DEF Spec

\* A check's epoch alone names the worker it belongs to.
THEOREM EpochNamesWorker == Spec => []FenceNamesOneWorker
<1>1. LeaseInv => FenceNamesOneWorker
  BY DEF LeaseInv
<1>2. QED BY <1>1, LeaseInvariant, PTL

\* No result queued under a lease instance that lapsed is ever recorded.
THEOREM LapsedNeverCommits == Spec => LapsedLeaseNeverCommits
<1>1. ASSUME LeaseInv
      PROVE  \A c \in checks : CommitLocalHeartbeat(c) => c.ep \notin lapsed[c.mon]
  <2> SUFFICES ASSUME NEW c \in checks, FenceHolds(c) PROVE c.ep \notin lapsed[c.mon]
    BY DEF CommitLocalHeartbeat
  <2>1. c.mon \in Monitors /\ c.wkr \in Workers
    BY <1>1 DEF LeaseInv, TypeOK, Check
  <2>2. /\ leasedAt[c.mon] \in Nat /\ clock[c.wkr] \in Nat /\ TTL \in Nat
    BY <1>1, <2>1, LeaseAssumption DEF LeaseInv, TypeOK
  <2>3. QED BY <1>1, <2>1, <2>2 DEF LeaseInv, FenceHolds, LapsedStaysExpired
<1>2. QED BY <1>1, LeaseInvariant, PTL DEF LapsedLeaseNeverCommits

\* Heartbeats of a monitor are recorded in the order of its lease instances.
THEOREM CommitOrder == Spec => CommitsInLeaseOrder
<1> DEFINE Ordered ==
      \A m \in Monitors : commits'[m] # commits[m] /\ commits[m] # NoCheck =>
            \/ commits'[m].ep > commits[m].ep
            \/ commits'[m].ep = commits[m].ep /\ commits'[m].wkr = commits[m].wkr
<1>1. ASSUME LeaseInv, [Next]_vars PROVE [Ordered]_vars
  <2>1. ASSUME NEW c \in checks, CommitLocalHeartbeat(c) PROVE Ordered
    <3>1. /\ c \in Check
          /\ \A m \in Monitors : m # c.mon => commits'[m] = commits[m]
          /\ commits'[c.mon] = c
          /\ c.ep = epoch[c.mon]
          /\ c.wkr = worker[c.mon]
      BY <1>1, <2>1 DEF LeaseInv, TypeOK, Check, CommitLocalHeartbeat, FenceHolds
    <3>2. commits[c.mon] # NoCheck => FenceOf(c.mon, commits[c.mon].wkr, commits[c.mon].ep)
      BY <1>1, <3>1 DEF LeaseInv, CommitsCarryFences, Check
    <3>3. epoch[c.mon] \in Nat /\ (commits[c.mon] # NoCheck => commits[c.mon].ep \in Nat)
      BY <1>1, <3>1 DEF LeaseInv, TypeOK, Check
    <3>4. c.wkr \in Workers
      BY <3>1 DEF Check
    <3>5. QED BY <3>1, <3>2, <3>3, <3>4 DEF FenceOf
  <2>2. ASSUME UNCHANGED commits PROVE Ordered
    BY <2>2
  <2>3. QED
    BY <1>1, <2>1, <2>2 DEF Next, WorkerStep, CheckStep, Tick, Start, RefreshLease,
       RefreshFails, ClaimAdmit, ClaimBatch, ClaimFails, SchedulerTick, Stop,
       ReleaseLeases, Exit, AcquireSlot, CheckDropped, SetActive, vars
<1>2. QED BY <1>1, LeaseInvariant, PTL DEF Spec, CommitsInLeaseOrder
-----------------------------------------------------------------------------
(* The escalation runners. *)

LadderRow == [status : {"pending", "done", "canceled"}, step : Steps, due : Nat,
        owner : Runners \cup {NoRunner}, lease : Nat]

Reading    == [at : {"alert", "policy"}, step : Steps, age : Nat]
\* What a round planned: the step it read, and whether it was the last one.
Planned    == [at : {"commit", "send", "advance"}, step : Steps, age : Nat, rev : Nat, last : BOOLEAN]

LadderTypes ==
  /\ server \in [outbox : BOOLEAN, timeout : Nat \ {0}]
  /\ ladder \in [rev : Nat, steps : 0..MaxSteps]
  /\ row \in {NoRow} \cup LadderRow
  /\ work \in [Runners -> {Idle} \cup Reading \cup Planned]
  /\ sent \in [Steps -> Nat]

\* A round that is not at its last step has a step after it.
PlansFit == \A w \in Runners : work[w] \in Planned /\ ~work[w].last => work[w].step + 1 \in Steps

\* Only a server without the outbox sends by itself.
OutboxNeverSends == \A w \in Runners : work[w].at \in {"send", "advance"} => ~server.outbox

\* There is no ladder before the alert, and none is owed.
NoRowBeforeAlert == alert = "none" => row = NoRow /\ "start" \notin owed

\* What was queued lies below the pending step.
QueuedBelow ==
  server.outbox =>
    \A s \in Steps : sent[s] > 0 => /\ sent[s] = 1 /\ row # NoRow
                                    /\ row.status = "pending" => s < row.step

EscalationInv ==
  /\ LadderTypes
  /\ PlansFit
  /\ OutboxNeverSends
  /\ NoRowBeforeAlert
  /\ QueuedBelow

-----------------------------------------------------------------------------

\* The forms the row takes stay within its type.
RowStatus == {"pending", "done", "canceled"}

LEMMA RowForms ==
  ASSUME NEW r \in LadderRow
  PROVE  r # NoRow /\ r.status \in RowStatus /\ r.step \in Steps
<1>1. "step" \in DOMAIN r
  BY DEF LadderRow
<1>2. "step" \notin DOMAIN NoRow
  BY DEF NoRow
<1>3. QED BY <1>1, <1>2 DEF LadderRow, RowStatus

EndedWith(r, s) == [r EXCEPT !.status = s, !.owner = NoRunner, !.lease = 0]
LEMMA RowEnded ==
  ASSUME NEW r \in LadderRow, NEW s \in RowStatus
  PROVE  EndedWith(r, s) \in LadderRow /\ EndedWith(r, s).step = r.step /\ EndedWith(r, s).status = s
BY DEF LadderRow, RowStatus, EndedWith

CanceledRow(r) == [r EXCEPT !.status = "canceled"]
LEMMA RowCanceled ==
  ASSUME NEW r \in LadderRow
  PROVE  CanceledRow(r) \in LadderRow /\ CanceledRow(r).step = r.step /\ CanceledRow(r).status = "canceled"
BY DEF LadderRow, CanceledRow

LEMMA RowClaimed ==
  ASSUME NEW r \in LadderRow, NEW o \in Runners, NEW q, q = [r EXCEPT !.owner = o, !.lease = LeaseTTL]
  PROVE  q \in LadderRow /\ q.step = r.step /\ q.status = r.status
BY EscalationAssumption DEF LadderRow

AdvancedTo(r, n, d) == [r EXCEPT !.step = n, !.owner = NoRunner, !.lease = 0, !.due = d]
LEMMA RowAdvanced ==
  ASSUME NEW r \in LadderRow, NEW n, n \in Steps, NEW d, d \in Nat
  PROVE  /\ AdvancedTo(r, n, d) \in LadderRow /\ AdvancedTo(r, n, d).step = n
         /\ AdvancedTo(r, n, d).status = r.status
BY DEF LadderRow, AdvancedTo

Aged(r) == [r EXCEPT !.due = Minus1(@), !.lease = Minus1(@)]
LEMMA RowAges ==
  ASSUME NEW r \in LadderRow
  PROVE  Aged(r) \in LadderRow /\ Aged(r).step = r.step /\ Aged(r).status = r.status
<1>1. PICK d : d = Minus1(r.due)
  OBVIOUS
<1>2. PICK l : l = Minus1(r.lease)
  OBVIOUS
<1>3. d \in Nat /\ l \in Nat
  BY <1>1, <1>2 DEF LadderRow, Minus1
<1>4. Aged(r) = [r EXCEPT !.due = d, !.lease = l]
  BY <1>1, <1>2 DEF Aged
<1>5. QED BY <1>3, <1>4 DEF LadderRow

LEMMA RowTypes ==
  /\ NewRow \in LadderRow /\ NewRow.status = "pending" /\ NoRow.status = "none" /\ NoRow \notin LadderRow
  /\ Idle \notin Reading /\ Idle \notin Planned /\ Idle.at = "idle"
  /\ \A v \in Reading : v \notin Planned /\ v.at \in {"alert", "policy"}
<1>1. NewRow \in LadderRow /\ NewRow.status = "pending"
  BY EscalationAssumption DEF NewRow, LadderRow, Steps
<1>2. NoRow.status = "none" /\ NoRow \notin LadderRow
  BY RowForms DEF NoRow
<1>3. Idle.at = "idle"
  BY DEF Idle
<1>4. \A v \in Reading : v.at \in {"alert", "policy"}
  BY DEF Reading
<1>5. \A v \in Planned : v.at \in {"commit", "send", "advance"}
  BY DEF Planned
<1>6. QED BY <1>1, <1>2, <1>3, <1>4, <1>5

\* A row is started where there was none, or goes on at the step it is at and
\* is never pending again once it has ended.
RowMove ==
  \/ row' = row
  \/ row = NoRow /\ row' = NewRow
  \/ /\ row \in LadderRow /\ row' \in LadderRow
     /\ row'.step = row.step /\ (row'.status = "pending" => row.status = "pending")

LEMMA RowMoves ==
  ASSUME EscalationInv, RowMove, UNCHANGED <<server, sent>>
  PROVE  row' \in {NoRow} \cup LadderRow /\ QueuedBelow'
<1>1. row' \in {NoRow} \cup LadderRow
  BY RowTypes DEF RowMove, EscalationInv, LadderTypes
<1>2. QueuedBelow'
  <2>1. CASE row' = row
    BY <2>1 DEF EscalationInv, QueuedBelow
  <2>2. CASE row = NoRow /\ row' = NewRow
    BY <2>2 DEF EscalationInv, QueuedBelow
  <2>3. CASE row \in LadderRow /\ row' \in LadderRow /\ row'.step = row.step /\ (row'.status = "pending" => row.status = "pending")
    BY <2>3, RowTypes DEF EscalationInv, QueuedBelow
  <2>4. QED BY <2>1, <2>2, <2>3 DEF RowMove
<1>3. QED BY <1>1, <1>2

\* A round goes on.
LEMMA RoundMoves ==
  ASSUME EscalationInv, UNCHANGED server, NEW w \in Runners, NEW v \in {Idle} \cup Reading \cup Planned,
         work' = [work EXCEPT ![w] = v],
         v \in Planned /\ ~v.last => v.step + 1 \in Steps,
         v.at \in {"send", "advance"} => ~server.outbox
  PROVE  work' \in [Runners -> {Idle} \cup Reading \cup Planned] /\ PlansFit' /\ OutboxNeverSends'
<1>1. /\ work' \in [Runners -> {Idle} \cup Reading \cup Planned]
      /\ \A u \in Runners : work'[u] = IF u = w THEN v ELSE work[u]
  BY DEF EscalationInv, LadderTypes
<1>2. QED BY <1>1 DEF EscalationInv, PlansFit, OutboxNeverSends

\* The writes of FinishEscalation and CancelEscalationByAlertID.
LEMMA RowEnds ==
  ASSUME EscalationInv
  PROVE  /\ Pending => row \in LadderRow
         /\ \A w \in Runners, s \in {"done", "canceled"} : row' = Finished(w, s) => RowMove
         /\ row' = Cancelled => RowMove
         /\ row' = (IF Pending THEN [row EXCEPT !.status = "canceled"] ELSE row) => RowMove
<1>1. Pending => row \in LadderRow
  BY RowTypes DEF Pending, EscalationInv, LadderTypes
<1>2. ASSUME NEW w \in Runners, NEW s \in {"done", "canceled"}, row' = Finished(w, s) PROVE RowMove
  <2>1. CASE ~Mine(w)
    BY <1>2, <2>1 DEF Finished, RowMove
  <2>2. CASE Mine(w)
    <3>1. row \in LadderRow /\ row' = EndedWith(row, s) /\ s \in RowStatus
      BY <1>1, <1>2, <2>2 DEF Mine, Finished, RowStatus, EndedWith
    <3>2. row' \in LadderRow /\ row'.step = row.step /\ row'.status = s
      BY <3>1, RowEnded
    <3>3. QED BY <3>1, <3>2 DEF RowMove
  <2>3. QED BY <2>1, <2>2
<1>3. ASSUME row' = Cancelled PROVE RowMove
  <2>1. CASE ~Pending
    BY <1>3, <2>1 DEF Cancelled, RowMove
  <2>2. CASE Pending
    <3>1. PICK s \in RowStatus : s = "canceled"
      BY DEF RowStatus
    <3>2. row \in LadderRow /\ row' = EndedWith(row, s)
      BY <1>1, <1>3, <2>2, <3>1 DEF Cancelled, EndedWith
    <3>3. row' \in LadderRow /\ row'.step = row.step /\ row'.status = s
      BY <3>2, RowEnded
    <3>4. QED BY <3>1, <3>2, <3>3 DEF RowMove
  <2>3. QED BY <2>1, <2>2
<1>4. ASSUME row' = (IF Pending THEN [row EXCEPT !.status = "canceled"] ELSE row) PROVE RowMove
  <2>1. CASE ~Pending
    BY <1>4, <2>1 DEF RowMove
  <2>2. CASE Pending
    <3>1. row \in LadderRow /\ row' = CanceledRow(row)
      BY <1>1, <1>4, <2>2 DEF CanceledRow
    <3>2. row' \in LadderRow /\ row'.step = row.step /\ row'.status = "canceled"
      BY <3>1, RowCanceled
    <3>3. QED BY <3>1, <3>2 DEF RowMove
  <2>3. QED BY <2>1, <2>2
<1>5. QED BY <1>1, <1>2, <1>3, <1>4

\* The alert, the operator and the follow-up writes.
LEMMA LifecycleStep ==
  ASSUME EscalationInv,
         \/ Lifecycle
         \/ \E x \in {"start", "cancel"} : FollowUpLost(x)
         \/ \E s \in {"DOWN", "other", "suppressed"} : Observe(s)
         \/ \E n \in 0..MaxSteps : UpdatePolicy(n)
  PROVE  EscalationInv'
<1>q. ASSUME RowMove, UNCHANGED <<server, work, sent>>, ladder' \in [rev : Nat, steps : 0..MaxSteps],
             alert' = "none" => row' = NoRow /\ "start" \notin owed'
      PROVE  EscalationInv'
  <2>1. row' \in {NoRow} \cup LadderRow /\ QueuedBelow'
    BY <1>q, RowMoves
  <2>2. QED BY <1>q, <2>1 DEF EscalationInv, LadderTypes, PlansFit, OutboxNeverSends, NoRowBeforeAlert
<1>l. ladder \in [rev : Nat, steps : 0..MaxSteps]
  BY DEF EscalationInv, LadderTypes
<1>1. CASE Open
  <2>1. RowMove
    BY <1>1 DEF Open, RowMove, EscalationInv, NoRowBeforeAlert
  <2>2. QED BY <1>1, <1>l, <1>q, <2>1 DEF Open
<1>2. CASE StartForAlert
  BY <1>2, <1>l, <1>q DEF StartForAlert, RowMove, EscalationInv, NoRowBeforeAlert
<1>3. CASE Acknowledge
  BY <1>3, <1>l, <1>q DEF Acknowledge, RowMove
<1>4. CASE Resolve
  <2>1. RowMove
    BY <1>4, RowEnds DEF Resolve, RowMove
  <2>2. QED BY <1>4, <1>l, <1>q, <2>1 DEF Resolve
<1>5. CASE CancelForAlert
  <2>1. RowMove
    BY <1>5, RowEnds DEF CancelForAlert
  <2>2. alert' = "none" => row' = NoRow /\ "start" \notin owed'
    BY <1>5, RowTypes DEF CancelForAlert, Cancelled, Pending, EscalationInv, NoRowBeforeAlert
  <2>3. QED BY <1>5, <1>l, <1>q, <2>1, <2>2 DEF CancelForAlert
<1>6. CASE \/ \E x \in {"start", "cancel"} : FollowUpLost(x)
           \/ \E s \in {"DOWN", "other", "suppressed"} : Observe(s)
  BY <1>6, <1>l, <1>q DEF FollowUpLost, Observe, RowMove, EscalationInv, NoRowBeforeAlert
<1>7. ASSUME NEW n \in 0..MaxSteps, UpdatePolicy(n) PROVE EscalationInv'
  <2>1. ladder' \in [rev : Nat, steps : 0..MaxSteps]
    BY <1>7, <1>l DEF UpdatePolicy
  <2>2. QED BY <1>7, <1>q, <2>1 DEF UpdatePolicy, RowMove, EscalationInv, NoRowBeforeAlert
<1>8. QED BY <1>1, <1>2, <1>3, <1>4, <1>5, <1>6, <1>7 DEF Lifecycle

\* The runners.
LEMMA RunnerStep ==
  ASSUME EscalationInv, NEW w \in Runners, ClaimDue(w) \/ RunOne(w) \/ CutOff(w)
  PROVE  EscalationInv'
<1>w. /\ work[w] \in {Idle} \cup Reading \cup Planned
      /\ ladder \in [rev : Nat, steps : 0..MaxSteps] /\ server.outbox \in BOOLEAN
      /\ MaxSteps \in Nat \ {0} /\ LeaseTTL \in Nat /\ Wait \in Nat
  BY EscalationAssumption DEF EscalationInv, LadderTypes
<1>a. \A a : work[w].at = a /\ a \in {"alert", "policy"} => work[w] \in Reading
  BY <1>w, RowTypes DEF Planned
<1>p. \A a : work[w].at = a /\ a \in {"commit", "send", "advance"} => work[w] \in Planned
  BY <1>w, RowTypes
<1>q. ASSUME NEW v \in {Idle} \cup Reading \cup Planned, work' = [work EXCEPT ![w] = v],
             v \in Planned /\ ~v.last => v.step + 1 \in Steps,
             v.at \in {"send", "advance"} => ~server.outbox,
             UNCHANGED <<server, alert, ladder, owed>>, sent' \in [Steps -> Nat],
             row' \in {NoRow} \cup LadderRow, QueuedBelow', row = NoRow => row' = NoRow
      PROVE  EscalationInv'
  <2>1. work' \in [Runners -> {Idle} \cup Reading \cup Planned] /\ PlansFit' /\ OutboxNeverSends'
    BY <1>q, RoundMoves
  <2>2. QED BY <1>q, <2>1 DEF EscalationInv, LadderTypes, NoRowBeforeAlert
<1>s. ASSUME EndRound(w), RowMove, row' # NewRow \/ row # NoRow, UNCHANGED <<server, alert, ladder, owed, sent>>
      PROVE  EscalationInv'
  <2>1. row' \in {NoRow} \cup LadderRow /\ QueuedBelow'
    BY <1>s, RowMoves
  <2>2. row = NoRow => row' = NoRow
    BY <1>s, RowTypes DEF RowMove
  <2>3. sent' \in [Steps -> Nat]
    BY <1>s DEF EscalationInv, LadderTypes
  <2>4. QED BY <1>q, <1>s, <2>1, <2>2, <2>3, RowTypes DEF EndRound
<1>n. \A s : row = NoRow => Finished(w, s) = NoRow /\ Advanced(w) = NoRow
  BY RowTypes DEF Finished, Advanced, Mine, Pending
<1>1. CASE ClaimDue(w)
  <2>1. row \in LadderRow
    BY <1>1, RowEnds DEF ClaimDue, Claimable
  <2>2. row' \in LadderRow /\ row'.step = row.step /\ row'.status = row.status
    BY <1>1, <2>1, RowClaimed DEF ClaimDue
  <2>3. QueuedBelow' /\ sent' \in [Steps -> Nat]
    BY <1>1, <2>1, <2>2, RowMoves DEF ClaimDue, RowMove, EscalationInv, LadderTypes
  <2>4. PICK v \in Reading : v = [at |-> "alert", step |-> row.step, age |-> 0]
    BY <2>1, RowForms DEF Reading
  <2>5. work' = [work EXCEPT ![w] = v]
    BY <1>1, <2>4 DEF ClaimDue
  <2>6. QED BY <1>1, <1>q, <2>1, <2>2, <2>3, <2>4, <2>5, RowTypes DEF ClaimDue
<1>2. CASE ReadAlert(w)
  <2>1. work[w] \in Reading
    BY <1>2, <1>a DEF ReadAlert
  <2>2. CASE alert = "firing"
    <3>1. PICK v \in Reading : v = [work[w] EXCEPT !.at = "policy"]
      BY <2>1 DEF Reading
    <3>2. work' = [work EXCEPT ![w] = v] /\ UNCHANGED <<server, alert, ladder, owed, sent, row>>
      BY <1>2, <2>2, <3>1 DEF ReadAlert
    <3>3. QueuedBelow' /\ sent' \in [Steps -> Nat] /\ row' \in {NoRow} \cup LadderRow
      BY <3>2, RowMoves DEF RowMove, EscalationInv, LadderTypes
    <3>4. QED BY <1>q, <3>1, <3>2, <3>3, RowTypes
  <2>3. CASE alert # "firing"
    <3>1. EndRound(w) /\ row' = Finished(w, "canceled") /\ UNCHANGED <<server, alert, ladder, owed, sent>>
      BY <1>2, <2>3 DEF ReadAlert, Closed
    <3>2. RowMove
      BY <3>1, RowEnds
    <3>3. QED BY <1>n, <1>s, <3>1, <3>2, RowTypes
  <2>4. QED BY <2>2, <2>3
<1>3. CASE ReadPolicy(w)
  <2>1. work[w] \in Reading /\ UNCHANGED <<server, alert, ladder, owed, sent>>
    BY <1>3, <1>a DEF ReadPolicy
  <2>2. CASE work[w].step > ladder.steps
    <3>1. PICK s \in {"done", "canceled"} : row' = Finished(w, s)
      BY <1>3, <2>2 DEF ReadPolicy
    <3>2. RowMove /\ EndRound(w)
      BY <1>3, <2>2, <3>1, RowEnds DEF ReadPolicy
    <3>3. QED BY <1>n, <1>s, <2>1, <3>1, <3>2, RowTypes
  <2>3. CASE ~(work[w].step > ladder.steps)
    <3>1. PICK a \in {"commit", "send"} : a = IF server.outbox THEN "commit" ELSE "send"
      OBVIOUS
    <3>2. PICK l \in BOOLEAN : l = (work[w].step = ladder.steps)
      OBVIOUS
    <3>3. /\ work[w].step \in Steps /\ work[w].age \in Nat /\ ladder.rev \in Nat
          /\ work[w].step \in Int /\ ladder.steps \in 0..MaxSteps
      BY <1>w, <2>1 DEF Reading, Steps
    <3>4. PICK v : v = [at |-> a, step |-> work[w].step, age |-> work[w].age, rev |-> ladder.rev, last |-> l]
      OBVIOUS
    <3>5. v \in Planned /\ v.at = a /\ v.step = work[w].step /\ v.last = l
      BY <3>3, <3>4 DEF Planned
    <3>6. ASSUME ~v.last PROVE v.step + 1 \in Steps
      <4>1. work[w].step # ladder.steps
        BY <3>2, <3>5, <3>6
      <4>2. QED BY <1>w, <2>3, <3>3, <3>5, <4>1 DEF Steps
    <3>7. work' = [work EXCEPT ![w] = v] /\ UNCHANGED row
      BY <1>3, <2>3, <3>1, <3>2, <3>4 DEF ReadPolicy
    <3>8. QueuedBelow' /\ sent' \in [Steps -> Nat] /\ row' \in {NoRow} \cup LadderRow
      BY <2>1, <3>7, RowMoves DEF RowMove, EscalationInv, LadderTypes
    <3>9. v.at \in {"send", "advance"} => ~server.outbox
      BY <3>1, <3>5
    <3>10. QED BY <1>q, <2>1, <3>5, <3>6, <3>7, <3>8, <3>9
  <2>4. QED BY <2>2, <2>3
<1>4. CASE CommitEscalationStep(w)
  <2>0. work[w] \in Planned /\ EndRound(w) /\ UNCHANGED <<server, alert, ladder, owed>>
    BY <1>4, <1>p DEF CommitEscalationStep
  <2>1. PICK valid \in BOOLEAN : valid = (ladder.rev = work[w].rev /\ StillMine(w))
    OBVIOUS
  <2>2. PICK ended \in BOOLEAN : ended = (valid /\ (~StillFiring(w) \/ observed = "suppressed"))
    OBVIOUS
  <2>3. PICK queued \in BOOLEAN : queued = (valid /\ ~ended /\ observed = "DOWN")
    OBVIOUS
  <2>4. /\ row' = IF ended THEN Finished(w, "canceled")
                  ELSE IF ~queued THEN row
                  ELSE IF work[w].last THEN Finished(w, "done") ELSE Advanced(w)
        /\ sent' = IF queued THEN [sent EXCEPT ![work[w].step] = @ + 1] ELSE sent
    BY <1>4, <2>1, <2>2, <2>3 DEF CommitEscalationStep
  <2>5. CASE ~queued
    <3>1. UNCHANGED sent /\ (row' = row \/ row' = Finished(w, "canceled"))
      BY <2>4, <2>5
    <3>2. RowMove
      BY <3>1, RowEnds DEF RowMove
    <3>3. QED BY <1>n, <1>s, <2>0, <3>1, <3>2, RowTypes
  <2>6. CASE queued
    <3>1. ~ended /\ Mine(w) /\ row.step = work[w].step /\ row \in LadderRow /\ Pending
      BY <2>1, <2>2, <2>3, <2>6, RowEnds DEF StillMine, Mine
    <3>2. row.step \in Steps /\ sent \in [Steps -> Nat]
      BY <3>1, RowForms DEF EscalationInv, LadderTypes
    <3>3. /\ sent' \in [Steps -> Nat] /\ sent'[row.step] = sent[row.step] + 1
          /\ \A s \in Steps : s # row.step => sent'[s] = sent[s]
      BY <2>4, <2>6, <3>1, <3>2
    <3>4. server.outbox => sent[row.step] = 0
      BY <3>1, <3>2 DEF EscalationInv, QueuedBelow, Pending, Steps
    <3>5. row' \in LadderRow /\ (row'.status = "pending" => row'.step = row.step + 1)
      <4>1. CASE work[w].last
        <5>1. PICK s \in RowStatus : s = "done"
          BY DEF RowStatus
        <5>2. row' = EndedWith(row, s)
          BY <2>4, <2>6, <3>1, <4>1, <5>1 DEF Finished, EndedWith
        <5>3. row' \in LadderRow /\ row'.status = s
          BY <3>1, <5>2, RowEnded
        <5>4. QED BY <5>1, <5>3
      <4>2. CASE ~work[w].last
        <5>1. PICK n : n \in Steps /\ n = work[w].step + 1
          BY <2>0, <4>2 DEF EscalationInv, PlansFit
        <5>2. PICK d : d \in Nat /\ d = IF Wait > work[w].age THEN Wait - work[w].age ELSE 0
          BY <1>w, <2>0 DEF Planned
        <5>3. row' = AdvancedTo(row, n, d)
          BY <2>4, <2>6, <3>1, <4>2, <5>1, <5>2 DEF Advanced, AdvancedTo
        <5>4. row' \in LadderRow /\ row'.step = n
          BY <3>1, <5>1, <5>2, <5>3, RowAdvanced
        <5>5. QED BY <3>1, <5>1, <5>4
      <4>3. QED BY <4>1, <4>2
    <3>6. QueuedBelow'
      <4>1. SUFFICES ASSUME server.outbox, NEW s \in Steps, sent'[s] > 0
                     PROVE  sent'[s] = 1 /\ row' # NoRow /\ (row'.status = "pending" => s < row'.step)
        BY <2>0 DEF QueuedBelow
      <4>2. CASE s = row.step
        BY <3>2, <3>3, <3>4, <3>5, <4>1, <4>2, RowTypes DEF Steps
      <4>3. CASE s # row.step
        BY <3>1, <3>2, <3>3, <3>5, <4>1, <4>3, RowTypes DEF EscalationInv, QueuedBelow, Pending, Steps
      <4>4. QED BY <4>2, <4>3
    <3>7. QED BY <1>q, <2>0, <3>1, <3>3, <3>5, <3>6, RowTypes DEF EndRound
  <2>7. QED BY <2>5, <2>6
\* Without the outbox nothing is claimed about what was sent.
<1>5. CASE Dispatch(w)
  <2>1. work[w] \in Planned /\ ~server.outbox /\ UNCHANGED <<server, alert, ladder, owed, row>>
    BY <1>5, <1>p DEF Dispatch, EscalationInv, OutboxNeverSends
  <2>2. PICK v : v = [work[w] EXCEPT !.at = "advance"]
    OBVIOUS
  <2>3. v \in Planned /\ v.step = work[w].step /\ v.last = work[w].last
    BY <2>1, <2>2 DEF Planned
  <2>4. work' = [work EXCEPT ![w] = v]
    BY <1>5, <2>2 DEF Dispatch
  <2>5. sent' \in [Steps -> Nat]
    <3>1. work[w].step \in Steps /\ sent \in [Steps -> Nat]
      BY <2>1 DEF Planned, EscalationInv, LadderTypes
    <3>2. QED BY <1>5, <3>1 DEF Dispatch
  <2>6. QueuedBelow' /\ row' \in {NoRow} \cup LadderRow
    BY <2>1 DEF QueuedBelow, EscalationInv, LadderTypes
  <2>7. ~v.last => v.step + 1 \in Steps
    BY <2>1, <2>3 DEF EscalationInv, PlansFit
  <2>8. QED BY <1>q, <2>1, <2>3, <2>4, <2>5, <2>6, <2>7
<1>6. CASE Advance(w)
  <2>1. work[w] \in Planned /\ ~server.outbox /\ EndRound(w) /\ UNCHANGED <<server, alert, ladder, owed, sent>>
    BY <1>6, <1>p DEF Advance, EscalationInv, OutboxNeverSends
  <2>2. CASE work[w].last \/ ~Mine(w)
    <3>1. row' = row \/ row' = Finished(w, "done")
      BY <1>6, <2>2 DEF Advance, Advanced
    <3>2. RowMove
      BY <3>1, RowEnds DEF RowMove
    <3>3. QED BY <1>n, <1>s, <2>1, <3>1, <3>2, RowTypes
  <2>3. CASE ~work[w].last /\ Mine(w)
    <3>1. PICK n : n \in Steps /\ n = work[w].step + 1
      BY <2>1, <2>3 DEF EscalationInv, PlansFit
    <3>2. PICK d : d \in Nat /\ d = IF Wait > work[w].age THEN Wait - work[w].age ELSE 0
      BY <1>w, <2>1 DEF Planned
    <3>3. row \in LadderRow /\ row' = AdvancedTo(row, n, d)
      BY <1>6, <2>3, <3>1, <3>2, RowEnds DEF Advance, Advanced, Mine, AdvancedTo
    <3>4. row' \in LadderRow
      BY <3>1, <3>2, <3>3, RowAdvanced
    <3>5. QueuedBelow' /\ sent' \in [Steps -> Nat]
      BY <2>1 DEF QueuedBelow, EscalationInv, LadderTypes
    <3>6. QED BY <1>q, <2>1, <3>3, <3>4, <3>5, RowTypes DEF EndRound
  <2>4. QED BY <2>2, <2>3
<1>7. CASE CutOff(w)
  BY <1>7, <1>s, RowTypes DEF CutOff, RowMove
<1>8. QED BY <1>1, <1>2, <1>3, <1>4, <1>5, <1>6, <1>7 DEF RunOne

LEMMA EscalationStep == EscalationInv /\ [LadderNext]_ladderVars => EscalationInv'
<1> SUFFICES ASSUME EscalationInv, [LadderNext]_ladderVars PROVE EscalationInv'
  OBVIOUS
<1>1. CASE \/ Lifecycle
           \/ \E x \in {"start", "cancel"} : FollowUpLost(x)
           \/ \E s \in {"DOWN", "other", "suppressed"} : Observe(s)
           \/ \E n \in 0..MaxSteps : UpdatePolicy(n)
  BY <1>1, LifecycleStep
<1>2. CASE \E w \in Runners : ClaimDue(w) \/ RunOne(w) \/ CutOff(w)
  BY <1>2, RunnerStep
<1>3. CASE Elapse
  <2>1. RowMove
    <3>1. CASE Pending
      <4>1. row \in LadderRow /\ row' = Aged(row)
        BY <1>3, <3>1, RowEnds DEF Elapse, Aged
      <4>2. row' \in LadderRow /\ row'.step = row.step /\ row'.status = row.status
        BY <4>1, RowAges
      <4>3. QED BY <4>1, <4>2 DEF RowMove
    <3>2. CASE ~Pending
      BY <1>3, <3>2 DEF Elapse, RowMove
    <3>3. QED BY <3>1, <3>2
  <2>2. row' \in {NoRow} \cup LadderRow /\ QueuedBelow'
    BY <1>3, <2>1, RowMoves DEF Elapse
  <2>3. \A w \in Runners : work'[w] = IF work[w] = Idle THEN Idle ELSE [work[w] EXCEPT !.age = @ + 1]
    BY <1>3 DEF Elapse
  <2>4. ASSUME NEW w \in Runners
        PROVE  /\ work'[w] \in {Idle} \cup Reading \cup Planned /\ work'[w].at = work[w].at
               /\ work'[w] \in Planned => /\ work[w] \in Planned /\ work'[w].last = work[w].last
                                          /\ work'[w].step = work[w].step
    <3>0. work[w] \in {Idle} \cup Reading \cup Planned
      BY DEF EscalationInv, LadderTypes
    <3>1. CASE work[w] = Idle
      BY <2>3, <3>1, RowTypes
    <3>2. CASE work[w] \in Reading
      <4>1. work'[w] = [work[w] EXCEPT !.age = work[w].age + 1]
        BY <2>3, <3>2, RowTypes
      <4>2. PICK a : a \in Nat /\ a = work[w].age + 1
        BY <3>2 DEF Reading
      <4>3. work'[w] \in Reading /\ work'[w].at = work[w].at
        BY <3>2, <4>1, <4>2 DEF Reading
      <4>4. QED BY <4>3, RowTypes
    <3>3. CASE work[w] \in Planned
      <4>1. work'[w] = [work[w] EXCEPT !.age = work[w].age + 1]
        BY <2>3, <3>3, RowTypes
      <4>2. PICK a : a \in Nat /\ a = work[w].age + 1
        BY <3>3 DEF Planned
      <4>3. work'[w] \in Planned /\ work'[w].at = work[w].at /\ work'[w].last = work[w].last
            /\ work'[w].step = work[w].step
        BY <3>3, <4>1, <4>2 DEF Planned
      <4>4. QED BY <3>3, <4>3
    <3>4. QED BY <3>0, <3>1, <3>2, <3>3
  <2>5. work' \in [Runners -> {Idle} \cup Reading \cup Planned]
    <3>1. work' = [w \in Runners |-> work'[w]]
      BY <1>3 DEF Elapse
    <3>2. QED BY <2>4, <3>1
  <2>6. PlansFit' /\ OutboxNeverSends'
    BY <1>3, <2>4 DEF Elapse, EscalationInv, PlansFit, OutboxNeverSends
  <2>7. NoRowBeforeAlert'
    BY <1>3, RowTypes DEF Elapse, EscalationInv, NoRowBeforeAlert, Pending
  <2>8. QED BY <1>3, <2>2, <2>5, <2>6, <2>7 DEF Elapse, EscalationInv, LadderTypes
<1>4. CASE UNCHANGED ladderVars
  BY <1>4 DEF ladderVars, EscalationInv, LadderTypes, PlansFit, OutboxNeverSends, NoRowBeforeAlert, QueuedBelow
<1>5. QED BY <1>1, <1>2, <1>3, <1>4 DEF LadderNext

\* What was queued lies below the pending step, and only servers without the
\* outbox send by themselves, in every reachable state.
THEOREM EscalationInvariant == LadderSpec => []EscalationInv
<1>1. LadderInit => EscalationInv
  <2> SUFFICES ASSUME LadderInit PROVE EscalationInv
    OBVIOUS
  <2>1. LadderTypes
    BY EscalationAssumption DEF LadderInit, LadderTypes, Steps
  <2>2. PlansFit /\ OutboxNeverSends
    BY RowTypes DEF LadderInit, PlansFit, OutboxNeverSends
  <2>3. NoRowBeforeAlert /\ QueuedBelow
    BY DEF LadderInit, NoRowBeforeAlert, QueuedBelow
  <2>4. QED BY <2>1, <2>2, <2>3 DEF EscalationInv
<1>2. QED BY <1>1, EscalationStep, PTL DEF LadderSpec

\* StepQueuedOnce for any number of workers, rungs, edits and faults: a step is
\* queued in the transaction that moves the row past it, under the row's token
\* and step (CommitEscalationStep).
THEOREM QueuedOnce == LadderSpec => []StepQueuedOnce
<1>1. EscalationInv => StepQueuedOnce
  <2> SUFFICES ASSUME EscalationInv, server.outbox, NEW s \in Steps PROVE sent[s] <= 1
    BY DEF StepQueuedOnce
  <2>1. sent[s] \in Nat /\ (sent[s] > 0 => sent[s] = 1)
    BY DEF EscalationInv, LadderTypes, QueuedBelow
  <2>2. QED BY <2>1
<1>2. QED BY <1>1, EscalationInvariant, PTL

\* AckIsAuthoritative: with the outbox the transaction that queues a step reads
\* the alert again (CommitEscalationStep).
THEOREM AckEndsPaging == LadderSpec => AckIsAuthoritative
<1>1. EscalationInv /\ [LadderNext]_ladderVars => [server.outbox /\ sent' # sent => alert = "firing"]_ladderVars
  <2> SUFFICES ASSUME EscalationInv, LadderNext, server.outbox, sent' # sent PROVE alert = "firing"
    OBVIOUS
  <2>1. PICK w \in Runners : CommitEscalationStep(w) \/ Dispatch(w)
    BY DEF LadderNext, Lifecycle, Open, StartForAlert, Acknowledge, Resolve, CancelForAlert, FollowUpLost, Observe,
           UpdatePolicy, ClaimDue, RunOne, ReadAlert, ReadPolicy, Advance, CutOff, Elapse
  <2>2. ~Dispatch(w)
    BY DEF Dispatch, EscalationInv, OutboxNeverSends
  <2>3. QED BY <2>1, <2>2 DEF CommitEscalationStep, StillFiring
<1>2. QED BY <1>1, EscalationInvariant, PTL DEF LadderSpec, AckIsAuthoritative

-----------------------------------------------------------------------------
(* The local scheduler and a push monitor (PushDeadline).                  *)

CONSTANTS Goroutines, PushInterval, PushGrace, Jitter, MaxChanges, MaxPushes

VARIABLES up, enabled, window, rev, lastRun, armed, latest, pushAge, refused, check, ticked,
          changes, pushes

Push == INSTANCE PushDeadline WITH
    Checks <- Goroutines, Interval <- PushInterval, Grace <- PushGrace, OnTime <- TRUE,
    active <- enabled, lastCheck <- lastRun

\* The grace covers the jitter and the second by which a stored time may be cut.
GraceIsEnough == {PushInterval, PushGrace, Jitter} \subseteq Nat /\ Jitter < PushGrace

\* A check in flight: one of the present revision was started since the monitor
\* was armed, carries that arming, and is about to record an absence only if a
\* push was refused.
CheckFits(v) ==
    \/ v = [at |-> "none"]
    \/ /\ v = [at |-> v.at, armed |-> v.armed, rev |-> v.rev]
       /\ v.at \in {"slot", "record"} /\ v.armed \in Nat /\ v.rev \in Nat /\ v.rev <= rev
       /\ v.rev = rev => /\ up /\ enabled /\ armed # -1 /\ v.armed = armed
                         /\ v.at = "slot" \/ refused

PushTypes ==
    /\ up \in BOOLEAN /\ enabled \in BOOLEAN /\ refused \in BOOLEAN
    /\ rev \in Nat /\ pushAge \in Nat /\ armed \in Nat \cup {-1}
    /\ latest = [kind |-> latest.kind, age |-> latest.age] /\ latest.age \in Nat
    /\ check = [c \in Goroutines |-> check[c]]

\* The last attempt or the arming is no longer ago than a pusher that keeps its
\* interval lets pass.
PushedInTime == pushAge <= PushInterval + Jitter \/ armed <= PushInterval + Jitter

\* No attempt is later than both the latest heartbeat, an absence apart, and the
\* arming: none was lost.
NoneLost == armed <= pushAge \/ (latest.kind # "missed" /\ latest.age <= pushAge)

PushInv ==
    /\ PushTypes
    /\ \A c \in Goroutines : CheckFits(check[c])
    /\ armed # -1 => PushedInTime
    /\ armed # -1 /\ ~refused => NoneLost

\* How a time that is set ages.
LEMMA Ages ==
    ASSUME GraceIsEnough, NEW n \in Nat
    PROVE  /\ Push!Older(n) \in Nat /\ Push!Older(n) <= n + 1 /\ Push!Older(-1) = -1
           /\ \A m \in Nat : n <= m => Push!Older(n) <= Push!Older(m)
BY DEF GraceIsEnough, Push!Older, Push!Never, Push!Cap, Push!Deadline

LEMMA PushStep ==
    ASSUME GraceIsEnough, PushInv, [Push!Next]_(Push!vars)
    PROVE  PushInv'
<1> USE DEF Push!Never, Push!NoCheck
<1>0. /\ PushTypes
      /\ \A c \in Goroutines : CheckFits(check[c])
      /\ armed # -1 => PushedInTime
      /\ armed # -1 /\ ~refused => NoneLost
  BY DEF PushInv
<1>i. PushInterval \in Nat /\ PushGrace \in Nat /\ Jitter \in Nat /\ Jitter + 1 <= PushGrace
  BY DEF GraceIsEnough
\* A check that ends, or goes on, leaves the others as they are.
<1>c. ASSUME NEW c \in Goroutines, NEW v, check' = [check EXCEPT ![c] = v], CheckFits(v),
             UNCHANGED <<rev, up, enabled, armed, refused>>
      PROVE  check' = [d \in Goroutines |-> check'[d]] /\ \A d \in Goroutines : CheckFits(check[d])'
  <2>1. \A d \in Goroutines : check'[d] = IF d = c THEN v ELSE check[d]
    BY <1>0, <1>c DEF PushTypes
  <2>2. \A d \in Goroutines : CheckFits(check'[d])
    BY <1>0, <1>c, <2>1
  <2>3. check' = [d \in Goroutines |-> check'[d]]
    BY <1>0, <1>c DEF PushTypes
  <2>4. QED BY <1>c, <2>2, <2>3 DEF CheckFits
<1>n. CheckFits([at |-> "none"])
  BY DEF CheckFits
<1>1. CASE Push!Receive
  <2>1. latest' = [kind |-> "push", age |-> 0] /\ pushAge' = 0
        /\ UNCHANGED <<up, enabled, rev, armed, refused, check>>
    BY <1>1 DEF Push!Receive, Push!Row
  <2>2. PushTypes' /\ NoneLost' /\ PushedInTime'
    BY <1>0, <1>i, <2>1 DEF PushTypes, NoneLost, PushedInTime
  <2>3. QED BY <1>0, <2>1, <2>2 DEF PushInv, CheckFits
\* A push that is refused while the monitor is armed is remembered as such; one
\* refused before that was made before the next arming.
<1>r. CASE Push!Refuse
  <2>1. /\ pushAge' = 0 /\ refused' = (armed # -1) /\ ~enabled
        /\ UNCHANGED <<up, enabled, rev, armed, latest, check>>
    BY <1>r DEF Push!Refuse
  <2>2. PushTypes' /\ PushedInTime'
    BY <1>0, <1>i, <2>1 DEF PushTypes, PushedInTime
  <2>3. \A c \in Goroutines : CheckFits(check[c])'
    BY <1>0, <2>1 DEF CheckFits
  <2>4. QED BY <2>1, <2>2, <2>3 DEF PushInv
<1>2. CASE Push!Disarm
  <2>1. /\ armed' = -1 /\ refused' = FALSE /\ ~enabled
        /\ UNCHANGED <<up, enabled, rev, latest, pushAge, check>>
    BY <1>2 DEF Push!Disarm
  <2>2. PushTypes'
    BY <1>0, <2>1 DEF PushTypes
  <2>3. \A c \in Goroutines : CheckFits(check[c])'
    BY <1>0, <2>1 DEF CheckFits
  <2>4. QED BY <2>1, <2>2, <2>3 DEF PushInv
<1>3. ASSUME NEW c \in Goroutines, Push!SchedulerTick(c) PROVE PushInv'
  <2>1. PICK a \in Nat : a = Push!ArmedAt /\ (armed # -1 => a = armed) /\ (armed = -1 => a = 0)
    BY <1>0 DEF Push!ArmedAt, PushTypes
  <2>2. armed' = a /\ up /\ enabled /\ UNCHANGED <<up, enabled, rev, latest, pushAge, refused>>
    BY <1>3, <2>1 DEF Push!SchedulerTick
  <2>3. PICK v : v = [at |-> "slot", armed |-> a, rev |-> rev]
    OBVIOUS
  <2>4. UNCHANGED check \/ check' = [check EXCEPT ![c] = v]
    BY <1>3, <2>1, <2>3 DEF Push!SchedulerTick
  <2>5. CheckFits(v)'
    BY <1>0, <2>2, <2>3 DEF CheckFits, PushTypes
  <2>6. \A d \in Goroutines : check'[d] = check[d] => CheckFits(check[d])'
    BY <1>0, <2>1, <2>2 DEF CheckFits
  <2>7. check' = [d \in Goroutines |-> check'[d]] /\ \A d \in Goroutines : check'[d] = check[d] \/ check'[d] = v
    BY <1>0, <2>4 DEF PushTypes
  <2>8. \A d \in Goroutines : CheckFits(check[d])'
    <3>1. ASSUME NEW d \in Goroutines, check'[d] = v PROVE CheckFits(check[d])'
      BY <2>5, <3>1 DEF CheckFits
    <3>2. QED BY <2>6, <2>7, <3>1
  <2>9. PushTypes'
    BY <1>0, <2>2, <2>7 DEF PushTypes
  <2>10. PushedInTime' /\ (~refused' => NoneLost')
    BY <1>0, <1>i, <2>1, <2>2 DEF PushedInTime, NoneLost, PushTypes
  <2>11. QED BY <2>8, <2>9, <2>10 DEF PushInv
\* The decision: within the interval, the jitter and the second that may be cut.
<1>4. ASSUME NEW c \in Goroutines, Push!RunCheck(c) PROVE PushInv'
  <2>1. check[c].at = "slot" /\ UNCHANGED <<up, enabled, rev, armed, pushAge, refused>>
    BY <1>4 DEF Push!RunCheck
  <2>2. PICK v : v = check[c]
    OBVIOUS
  <2>3. /\ v = [at |-> "slot", armed |-> v.armed, rev |-> v.rev] /\ v.armed \in Nat
        /\ v.rev \in Nat /\ v.rev <= rev
        /\ v.rev = rev => up /\ enabled /\ armed # -1 /\ v.armed = armed
    BY <1>0, <2>1, <2>2 DEF CheckFits
  <2>4. PICK w : /\ check' = [check EXCEPT ![c] = w] /\ CheckFits(w)
                 /\ latest' = latest \/ latest' = [kind |-> "maintenance", age |-> 0]
    <3>1. CASE window
      BY <1>4, <1>n, <3>1 DEF Push!RunCheck, Push!Row
    <3>2. CASE ~window
      <4>1. PICK age \in Push!References :
              check' = [check EXCEPT ![c] =
                 IF Push!Past(Push!Since(c, age)) THEN [@ EXCEPT !.at = "record"] ELSE [at |-> "none"]]
        BY <1>4, <3>2 DEF Push!RunCheck
      <4>2. \/ latest.kind = "missed" /\ age = -1
            \/ latest.kind # "missed" /\ age \in Nat /\ age <= latest.age + 1
        BY <1>0, <4>1 DEF Push!References, PushTypes
      <4>3. latest' = latest
        BY <1>4, <3>2 DEF Push!RunCheck
      <4>4. CASE ~Push!Past(Push!Since(c, age))
        BY <1>n, <4>1, <4>3, <4>4
      <4>5. CASE Push!Past(Push!Since(c, age))
        <5>1. v.armed > PushInterval + PushGrace /\ (age = -1 \/ age > PushInterval + PushGrace)
          BY <1>i, <2>2, <2>3, <4>2, <4>5 DEF Push!Past, Push!Since, Push!Deadline
        <5>2. v.rev = rev => refused
          <6>1. SUFFICES ASSUME v.rev = rev, ~refused PROVE FALSE
            BY <1>0 DEF PushTypes
          <6>2. PushedInTime /\ NoneLost /\ v.armed = armed
            BY <1>0, <2>3, <6>1
          <6>3. QED BY <1>0, <1>i, <2>3, <4>2, <5>1, <6>2 DEF PushedInTime, NoneLost, PushTypes
        <5>3. PICK x : x = [check[c] EXCEPT !.at = "record"]
          OBVIOUS
        <5>4. x = [at |-> "record", armed |-> v.armed, rev |-> v.rev]
          BY <2>2, <2>3, <5>3
        <5>5. CheckFits(x)
          BY <2>3, <5>2, <5>4 DEF CheckFits
        <5>6. check' = [check EXCEPT ![c] = x]
          BY <4>1, <4>5, <5>3
        <5>7. QED BY <4>3, <5>5, <5>6
      <4>6. QED BY <4>4, <4>5
    <3>3. QED BY <3>1, <3>2
  <2>5. check' = [d \in Goroutines |-> check'[d]] /\ \A d \in Goroutines : CheckFits(check[d])'
    BY <1>c, <2>1, <2>4
  <2>6. PushTypes' /\ (NoneLost => NoneLost')
    BY <1>0, <2>1, <2>4, <2>5 DEF PushTypes, NoneLost
  <2>7. QED BY <1>0, <2>1, <2>5, <2>6 DEF PushInv, PushedInTime
\* An absence is recorded by a superseded check, whose result is refused, or
\* after a push was refused.
<1>5. ASSUME NEW c \in Goroutines, Push!RecordMissed(c) PROVE PushInv'
  <2>1. /\ check[c].at = "record" /\ UNCHANGED <<up, enabled, rev, armed, pushAge, refused>>
        /\ check' = [check EXCEPT ![c] = [at |-> "none"]]
    BY <1>5 DEF Push!RecordMissed
  <2>2. refused \/ check[c].rev # rev
    <3>1. PICK v : v = check[c] /\ CheckFits(v) /\ v.at = "record"
      BY <1>0, <2>1
    <3>2. v # [at |-> "none"]
      BY <3>1
    <3>3. QED BY <3>1, <3>2 DEF CheckFits
  <2>3. latest' = latest \/ (refused /\ latest' = [kind |-> "missed", age |-> 0])
    BY <1>5, <2>2 DEF Push!RecordMissed, Push!Authorized, Push!Row
  <2>4. check' = [d \in Goroutines |-> check'[d]] /\ \A d \in Goroutines : CheckFits(check[d])'
    BY <1>c, <1>n, <2>1
  <2>5. PushTypes'
    BY <1>0, <2>1, <2>3, <2>4 DEF PushTypes
  <2>6. QED BY <1>0, <2>1, <2>3, <2>4, <2>5 DEF PushInv, PushedInTime, NoneLost
<1>6. CASE Push!Pause
  <2>1. enabled' = ~enabled /\ rev' = rev + 1 /\ UNCHANGED <<up, armed, latest, pushAge, refused, check>>
    BY <1>6 DEF Push!Pause
  <2>2. PushTypes'
    BY <1>0, <2>1 DEF PushTypes
  <2>3. \A c \in Goroutines : CheckFits(check[c])'
    BY <1>0, <2>1 DEF CheckFits, PushTypes
  <2>4. QED BY <1>0, <2>1, <2>2, <2>3 DEF PushInv, PushedInTime, NoneLost
<1>7. CASE Push!Maintenance
  <2>1. UNCHANGED <<up, enabled, rev, armed, latest, pushAge, refused, check>>
    BY <1>7 DEF Push!Maintenance
  <2>2. QED BY <1>0, <2>1 DEF PushInv, PushTypes, CheckFits, PushedInTime, NoneLost
<1>8. CASE Push!Restart
  <2>1. /\ up' = ~up /\ armed' = -1 /\ refused' = FALSE /\ check' = [c \in Goroutines |-> [at |-> "none"]]
        /\ UNCHANGED <<enabled, rev, latest, pushAge>>
    BY <1>8 DEF Push!Restart
  <2>2. PushTypes'
    BY <1>0, <2>1 DEF PushTypes
  <2>3. \A c \in Goroutines : CheckFits(check[c])'
    BY <2>1 DEF CheckFits
  <2>4. QED BY <2>1, <2>2, <2>3 DEF PushInv
<1>9. CASE Push!Tick
  <2>1. /\ armed' = Push!Older(armed) /\ pushAge' = Push!Older(pushAge)
        /\ latest' = [latest EXCEPT !.age = Push!Older(latest.age)]
        /\ check' = [c \in Goroutines |-> IF check[c] = [at |-> "none"] THEN [at |-> "none"]
                       ELSE [check[c] EXCEPT !.armed = Push!Older(check[c].armed)]]
        /\ armed # -1 => pushAge < PushInterval + Jitter \/ armed < PushInterval + Jitter
        /\ UNCHANGED <<up, enabled, rev, refused>>
    BY <1>9 DEF Push!Tick
  <2>2. /\ armed' \in Nat \cup {-1} /\ (armed' = -1 <=> armed = -1) /\ (armed # -1 => armed' <= armed + 1)
        /\ pushAge' \in Nat /\ pushAge' <= pushAge + 1
    BY <1>0, <2>1, Ages DEF PushTypes
  <2>3. latest' = [kind |-> latest.kind, age |-> Push!Older(latest.age)]
    BY <1>0, <2>1 DEF PushTypes
  <2>4. /\ Push!Older(latest.age) \in Nat
        /\ latest.age <= pushAge => Push!Older(latest.age) <= pushAge'
        /\ armed # -1 /\ armed <= pushAge => armed' <= pushAge'
    BY <1>0, <2>1, Ages DEF PushTypes
  <2>5. PushTypes' /\ (armed # -1 /\ NoneLost => NoneLost')
    BY <1>0, <2>1, <2>2, <2>3, <2>4 DEF PushTypes, NoneLost
  <2>6. ASSUME NEW c \in Goroutines PROVE CheckFits(check[c])'
    <3>1. CASE check[c] = [at |-> "none"]
      BY <2>1, <3>1 DEF CheckFits
    <3>2. CASE check[c] # [at |-> "none"]
      <4>1. PICK v : v = check[c]
        OBVIOUS
      <4>2. /\ v = [at |-> v.at, armed |-> v.armed, rev |-> v.rev]
            /\ v.at \in {"slot", "record"} /\ v.armed \in Nat /\ v.rev \in Nat /\ v.rev <= rev
            /\ v.rev = rev => up /\ enabled /\ armed # -1 /\ v.armed = armed /\ (v.at = "slot" \/ refused)
        BY <1>0, <3>2, <4>1 DEF CheckFits
      <4>3. PICK x : x = [v EXCEPT !.armed = Push!Older(v.armed)]
        OBVIOUS
      <4>4. check'[c] = x
        BY <2>1, <3>2, <4>1, <4>3
      <4>5. x = [at |-> v.at, armed |-> Push!Older(v.armed), rev |-> v.rev]
        BY <4>2, <4>3
      <4>6. Push!Older(v.armed) \in Nat
        BY <4>2, Ages
      <4>7. CheckFits(x)'
        BY <2>1, <2>2, <4>2, <4>5, <4>6 DEF CheckFits
      <4>8. QED BY <4>4, <4>7
    <3>3. QED BY <3>1, <3>2
  <2>7. armed # -1 => PushedInTime'
    BY <1>0, <1>i, <2>1, <2>2 DEF PushedInTime, PushTypes
  <2>8. QED BY <1>0, <2>1, <2>2, <2>5, <2>6, <2>7 DEF PushInv
<1>10. CASE UNCHANGED Push!vars
  BY <1>0, <1>10 DEF Push!vars, PushInv, PushTypes, CheckFits, PushedInTime, NoneLost
<1>11. QED
  BY <1>1, <1>r, <1>2, <1>3, <1>4, <1>5, <1>6, <1>7, <1>8, <1>9, <1>10 DEF Push!Next, Push!Scheduler

\* What PushInv holds for: the step that records an absence.
LEMMA MissedNeedsRefusal ==
    ASSUME GraceIsEnough, PushInv, [Push!Next]_(Push!vars), latest' = Push!Row("missed"),
           latest' # latest
    PROVE  refused
<1>0. PushTypes /\ \A c \in Goroutines : CheckFits(check[c])
  BY DEF PushInv
<1>1. latest' = [kind |-> "missed", age |-> 0]
  BY DEF Push!Row
<1>2. ~Push!Tick
  <2>1. SUFFICES ASSUME Push!Tick PROVE FALSE
    OBVIOUS
  <2>2. latest' = [latest EXCEPT !.age = Push!Older(latest.age)]
    BY <2>1 DEF Push!Tick
  <2>3. latest' = [kind |-> latest.kind, age |-> Push!Older(latest.age)] /\ latest.age \in Nat
    BY <1>0, <2>2 DEF PushTypes
  <2>4. Push!Older(latest.age) = 0 /\ latest.kind = "missed"
    BY <1>1, <2>3
  <2>5. latest.age = 0
    BY <2>3, <2>4 DEF Push!Older, Push!Never, Push!Cap, Push!Deadline, GraceIsEnough
  <2>6. QED BY <1>0, <1>1, <2>4, <2>5 DEF PushTypes
<1>3. PICK c \in Goroutines : Push!RecordMissed(c)
  BY <1>1, <1>2 DEF Push!Next, Push!vars, Push!Receive, Push!Refuse, Push!Scheduler, Push!Disarm,
     Push!SchedulerTick, Push!Pause, Push!Maintenance, Push!Restart, Push!RunCheck, Push!Row
<1>4. check[c].at = "record" /\ check[c].rev = rev
  BY <1>3 DEF Push!RecordMissed, Push!Authorized
<1>5. PICK v : v = check[c] /\ CheckFits(v) /\ v.at = "record" /\ v.rev = rev
  BY <1>0, <1>4
<1>6. v # [at |-> "none"]
  BY <1>5
<1>7. QED BY <1>5, <1>6 DEF CheckFits

\* The safety half of DeadlineTellsSilence for any interval, jitter within the
\* grace, number of goroutines, pauses, restarts and windows: a pusher that keeps
\* its interval is reported missing only when one of its pushes was refused since
\* the monitor was armed (EvaluatePushDeadline, observe, CommitLocalHeartbeat's
\* refusal of superseded results).
THEOREM PunctualNeverMissed ==
    ASSUME GraceIsEnough
    PROVE  Push!Spec => [][latest' = Push!Row("missed") => refused \/ latest' = latest]_(Push!vars)
<1>1. Push!Init => PushInv
  <2> SUFFICES ASSUME Push!Init PROVE PushInv
    OBVIOUS
  <2>1. /\ up = TRUE /\ enabled = TRUE /\ rev = 0 /\ armed = -1 /\ pushAge = 0 /\ refused = FALSE
        /\ latest = [kind |-> "none", age |-> 0] /\ check = [c \in Goroutines |-> [at |-> "none"]]
    BY DEF Push!Init, Push!Never, Push!Row, Push!NoCheck
  <2>2. QED BY <2>1 DEF PushInv, PushTypes, CheckFits
<1>2. PushInv /\ [Push!Next]_(Push!vars) => PushInv'
  BY PushStep
<1>3. PushInv /\ [Push!Next]_(Push!vars)
        => [latest' = Push!Row("missed") => refused \/ latest' = latest]_(Push!vars)
  BY MissedNeedsRefusal
<1>4. QED BY <1>1, <1>2, <1>3, PTL DEF Push!Spec
=============================================================================
