---------------------------- MODULE WorkerLease ----------------------------
(***************************************************************************)
(* The hub's sharded scheduler: several worker replicas share the monitors *)
(* through leases kept in the monitors table (worker_id, leased_at,        *)
(* lease_epoch).  A tick captures the lease it was queued under as a       *)
(* fence; the check then waits for a slot, runs, and its result commits    *)
(* only if the stored lease still carries that fence and has not expired.  *)
(*                                                                         *)
(* Every worker reads its own clock.  The clocks never run backwards, but  *)
(* nothing else relates them: one may be arbitrarily far behind another.   *)
(***************************************************************************)
EXTENDS Integers, FiniteSets

CONSTANTS
    Monitors,    \* monitor ids; ClaimBatch takes them in id order
    Workers,     \* worker ids of the replicas
    NoWorker,    \* worker_id IS NULL
    TTL,         \* leaseTTL, in clock units
    Interval,    \* the monitors' check interval, in clock units
    BatchSize,   \* ClaimBatch's LIMIT
    Slots,       \* checks that run at once in one worker
    MaxClock,    \* bound: no clock passes it
    MaxStarts,   \* bound: worker starts, over all workers
    MaxChecks    \* bound: checks a worker has queued or running

ASSUME LeaseAssumption ==
    /\ Monitors \subseteq Nat
    /\ NoWorker \notin Workers
    /\ TTL \in Nat \ {0}
    /\ Interval \in Nat \ {0}
    /\ BatchSize \in Nat \ {0}
    /\ Slots \in Nat \ {0}
    /\ MaxClock \in Nat
    /\ MaxStarts \in Nat
    /\ MaxChecks \in Nat

VARIABLES
    active,      \* monitors.active
    worker,      \* monitors.worker_id
    leasedAt,    \* monitors.leased_at, meaningful while worker is not null
    epoch,       \* monitors.lease_epoch
    clock,       \* each worker's own wall clock
    pc,          \* where each worker's Run loop is
    admission,   \* the clock ClaimBatch sampled before it waited for the locks
    lastCheck,   \* each worker's lastCheck map, in memory
    checks,      \* check goroutines: queued behind the slots, or running
    starts,      \* worker starts so far
    commits,     \* history: the last check committed for each monitor
    lapsed       \* history: each monitor's lease instances that expired on
                 \* their holder's clock, were released or were taken over

dbVars  == <<active, worker, leasedAt, epoch>>
vars    == <<dbVars, clock, pc, admission, lastCheck, checks, starts, commits, lapsed>>

Never   == -1
Times   == Nat \cup {Never}
NoCheck == [mon |-> Never, wkr |-> NoWorker, ep |-> 0, run |-> FALSE]

\* A scheduledCheck with its LeaseFence.  Checks of one monitor under one fence
\* are alike: the set holds at most one queued and one running.
Check   == [mon : Monitors, wkr : Workers, ep : Nat, run : BOOLEAN]

ChecksOf(w) == {c \in checks : c.wkr = w}

\* worker_id = w AND leased_at >= now - TTL, on w's own clock.
Holds(w, m) == worker[m] = w /\ leasedAt[m] >= clock[w] - TTL

TypeOK ==
    /\ active \in [Monitors -> BOOLEAN]
    /\ worker \in [Monitors -> Workers \cup {NoWorker}]
    /\ leasedAt \in [Monitors -> Nat]
    /\ epoch \in [Monitors -> Nat]
    /\ clock \in [Workers -> Nat]
    /\ pc \in [Workers -> {"off", "loop", "claim", "locking", "stopping"}]
    /\ admission \in [Workers -> Nat]
    /\ lastCheck \in [Workers -> [Monitors -> Times]]
    /\ checks \subseteq Check
    /\ starts \in Nat
    /\ commits \in [Monitors -> Check \cup {NoCheck}]
    /\ lapsed \in [Monitors -> SUBSET Nat]

Init ==
    /\ active = [m \in Monitors |-> TRUE]
    /\ worker = [m \in Monitors |-> NoWorker]
    /\ leasedAt = [m \in Monitors |-> 0]
    /\ epoch = [m \in Monitors |-> 0]
    /\ clock = [w \in Workers |-> 0]
    /\ pc = [w \in Workers |-> "off"]
    /\ admission = [w \in Workers |-> 0]
    /\ lastCheck = [w \in Workers |-> [m \in Monitors |-> Never]]
    /\ checks = {}
    /\ starts = 0
    /\ commits = [m \in Monitors |-> NoCheck]
    /\ lapsed = [m \in Monitors |-> {}]

-----------------------------------------------------------------------------
\* The present instances of the monitors in ms are over.
Lapse(ms) == [m \in Monitors |-> IF m \in ms THEN lapsed[m] \cup {epoch[m]} ELSE lapsed[m]]

(* Time passes on one host.  The history notes the leases that expire.     *)

Tick(w) ==
    /\ clock[w] < MaxClock
    /\ clock' = [clock EXCEPT ![w] = @ + 1]
    /\ lapsed' = Lapse({m \in Monitors : worker[m] = w /\ leasedAt[m] < clock[w] + 1 - TTL})
    /\ UNCHANGED <<dbVars, pc, admission, lastCheck, checks, starts, commits>>

-----------------------------------------------------------------------------
(* The Run loop of one worker.                                             *)

\* Run goes straight to its first claim.
Start(w) ==
    /\ pc[w] = "off"
    /\ starts < MaxStarts
    /\ starts' = starts + 1
    /\ pc' = [pc EXCEPT ![w] = "claim"]
    /\ UNCHANGED <<dbVars, clock, admission, lastCheck, checks, commits, lapsed>>

\* RefreshLease: only leases still inside their window are extended, with the
\* clock read under the row locks.  An expired lease is left alone.
RefreshLease(w) ==
    /\ pc[w] = "loop"
    /\ leasedAt' = [m \in Monitors |-> IF Holds(w, m) THEN clock[w] ELSE leasedAt[m]]
    /\ pc' = [pc EXCEPT ![w] = "claim"]
    /\ UNCHANGED <<active, worker, epoch, clock, admission, lastCheck, checks,
                   starts, commits, lapsed>>

\* The refresh failed: refreshAndClaim logs it and claims all the same.
RefreshFails(w) ==
    /\ pc[w] = "loop"
    /\ pc' = [pc EXCEPT ![w] = "claim"]
    /\ UNCHANGED <<dbVars, clock, admission, lastCheck, checks, starts, commits, lapsed>>

\* ClaimBatch samples its admission cutoff, then waits for the row locks.
ClaimAdmit(w) ==
    /\ pc[w] = "claim"
    /\ admission' = [admission EXCEPT ![w] = clock[w]]
    /\ pc' = [pc EXCEPT ![w] = "locking"]
    /\ UNCHANGED <<dbVars, clock, lastCheck, checks, starts, commits, lapsed>>

\* Mutant of Candidate: expired leases of other workers are not taken over.
CandidateUnleasedOnly(w, m) == active[m] /\ worker[m] \in {NoWorker, w}

\* WHERE active AND (worker_id IS NULL OR leased_at < cutoff OR worker_id = w).
Candidate(w, m) ==
    /\ active[m]
    /\ \/ worker[m] \in {NoWorker, w}
       \/ leasedAt[m] < admission[w] - TTL

\* ORDER BY id LIMIT BatchSize.
Batch(w) ==
    {m \in Monitors : /\ Candidate(w, m)
                      /\ Cardinality({n \in Monitors : Candidate(w, n) /\ n < m}) < BatchSize}

\* Mutant of Renews: the verdict uses the clock sampled before the lock wait.
RenewsByAdmissionClock(w, m) == worker[m] = w /\ leasedAt[m] >= admission[w] - TTL

\* A lease this worker still validly holds is renewed and keeps its epoch;
\* the verdict uses the clock read after the locks are held.
Renews(w, m) == Holds(w, m)

ClaimBatch(w) ==
    /\ pc[w] = "locking"
    /\ LET batch    == Batch(w)
           acquired == {m \in batch : ~Renews(w, m)}
       IN  /\ worker' = [m \in Monitors |-> IF m \in batch THEN w ELSE worker[m]]
           /\ leasedAt' = [m \in Monitors |-> IF m \in batch THEN clock[w] ELSE leasedAt[m]]
           /\ epoch' = [m \in Monitors |-> IF m \in acquired THEN epoch[m] + 1 ELSE epoch[m]]
           /\ lapsed' = Lapse({m \in batch : worker[m] \in Workers \ {w}})
    /\ pc' = [pc EXCEPT ![w] = "loop"]
    /\ admission' = [admission EXCEPT ![w] = 0]
    /\ UNCHANGED <<active, clock, lastCheck, checks, starts, commits>>

\* The claim failed and was rolled back: claim logs it and the loop goes on.
ClaimFails(w) ==
    /\ pc[w] = "locking"
    /\ pc' = [pc EXCEPT ![w] = "loop"]
    /\ admission' = [admission EXCEPT ![w] = 0]
    /\ UNCHANGED <<dbVars, clock, lastCheck, checks, starts, commits, lapsed>>

-----------------------------------------------------------------------------
(* Checks.                                                                 *)

\* ListByWorker re-reads the leases; shouldRun compares with lastCheck.
Due(w) ==
    {m \in Monitors : /\ active[m]
                      /\ Holds(w, m)
                      /\ \/ lastCheck[w][m] = Never
                         \/ clock[w] - lastCheck[w][m] >= Interval}

\* tick: every due monitor gets a goroutine carrying the fence read just now.
SchedulerTick(w) ==
    /\ pc[w] = "loop"
    /\ Due(w) # {}
    /\ Cardinality(ChecksOf(w)) + Cardinality(Due(w)) <= MaxChecks
    /\ checks' = checks \cup {[mon |-> m, wkr |-> w, ep |-> epoch[m],
                               run |-> FALSE] : m \in Due(w)}
    /\ lastCheck' = [lastCheck EXCEPT ![w] =
                       [m \in Monitors |-> IF m \in Due(w) THEN clock[w] ELSE @[m]]]
    /\ UNCHANGED <<dbVars, clock, pc, admission, starts, commits, lapsed>>

\* slots.acquire succeeded; with the context canceled it still may.
AcquireSlot(c) ==
    /\ ~c.run
    /\ Cardinality({d \in ChecksOf(c.wkr) : d.run}) < Slots
    /\ checks' = (checks \ {c}) \cup {[c EXCEPT !.run = TRUE]}
    /\ UNCHANGED <<dbVars, clock, pc, admission, lastCheck, starts, commits, lapsed>>

\* Mutant of FenceHolds: the lease instance is not compared.
FenceWithoutEpoch(c) ==
    /\ worker[c.mon] = c.wkr
    /\ leasedAt[c.mon] >= clock[c.wkr] - TTL

\* CommitLocalHeartbeat's fence: owner, instance and expiry, under the row lock.
FenceHolds(c) ==
    /\ worker[c.mon] = c.wkr
    /\ epoch[c.mon] = c.ep
    /\ leasedAt[c.mon] >= clock[c.wkr] - TTL

CommitLocalHeartbeat(c) ==
    /\ c.run
    /\ FenceHolds(c)
    /\ commits' = [commits EXCEPT ![c.mon] = c]
    /\ checks' = checks \ {c}
    /\ UNCHANGED <<dbVars, clock, pc, admission, lastCheck, starts, lapsed>>

\* The check ends without a heartbeat: ErrStaleLease or another refusal, no
\* checker for the type, a push that is not overdue, a panic; or, while still
\* queued, acquire saw the canceled context.
CheckDropped(c) ==
    /\ c.run \/ pc[c.wkr] = "stopping"
    /\ checks' = checks \ {c}
    /\ UNCHANGED <<dbVars, clock, pc, admission, lastCheck, starts, commits, lapsed>>

-----------------------------------------------------------------------------
(* The end of a worker, and the operator.                                  *)

\* The context is canceled; the deferred ReleaseLeases is still to come, and
\* running checks may still record (heartbeatRecordContext is detached).
Stop(w) ==
    /\ pc[w] \in {"loop", "claim", "locking"}
    /\ pc' = [pc EXCEPT ![w] = "stopping"]
    /\ admission' = [admission EXCEPT ![w] = 0]
    /\ UNCHANGED <<dbVars, clock, lastCheck, checks, starts, commits, lapsed>>

ReleaseLeases(w) ==
    /\ pc[w] = "stopping"
    /\ worker' = [m \in Monitors |-> IF worker[m] = w THEN NoWorker ELSE worker[m]]
    /\ leasedAt' = [m \in Monitors |-> IF worker[m] = w THEN 0 ELSE leasedAt[m]]
    /\ lapsed' = Lapse({m \in Monitors : worker[m] = w})
    /\ UNCHANGED <<active, epoch, clock, pc, admission, lastCheck, checks, starts, commits>>

\* The process ends, in the middle of anything: its goroutines and its memory
\* are gone, its leases stay in the table.
Exit(w) ==
    /\ pc[w] # "off"
    /\ pc' = [pc EXCEPT ![w] = "off"]
    /\ checks' = checks \ ChecksOf(w)
    /\ lastCheck' = [lastCheck EXCEPT ![w] = [m \in Monitors |-> Never]]
    /\ admission' = [admission EXCEPT ![w] = 0]
    /\ UNCHANGED <<dbVars, clock, starts, commits, lapsed>>

\* Monitor Update: pause and resume; the lease columns are excluded.
SetActive(m) ==
    /\ active' = [active EXCEPT ![m] = ~@]
    /\ UNCHANGED <<worker, leasedAt, epoch, clock, pc, admission, lastCheck, checks,
                   starts, commits, lapsed>>

WorkerStep(w) ==
    \/ Start(w) \/ RefreshLease(w) \/ RefreshFails(w)
    \/ ClaimAdmit(w) \/ ClaimBatch(w) \/ ClaimFails(w)
    \/ SchedulerTick(w)
    \/ Stop(w) \/ ReleaseLeases(w) \/ Exit(w)

CheckStep(c) == AcquireSlot(c) \/ CommitLocalHeartbeat(c) \/ CheckDropped(c)

Next ==
    \/ \E w \in Workers : Tick(w) \/ WorkerStep(w)
    \/ \E c \in checks : CheckStep(c)
    \/ \E m \in Monitors : SetActive(m)

Spec == Init /\ [][Next]_vars

\* A worker's loop and its clock go on; the database does not fail every time.
\* Nobody has to stop, exit, start, pause or run a check.
Fairness ==
    \A w \in Workers :
        /\ WF_vars(Tick(w))
        /\ WF_vars(RefreshLease(w) \/ RefreshFails(w))
        /\ WF_vars(ClaimAdmit(w))
        /\ SF_vars(ClaimBatch(w))

FairSpec == Spec /\ Fairness

-----------------------------------------------------------------------------
(* Properties.                                                             *)

\* A result commits only while the lease instance it was queued under has been
\* held without a break: once that instance expired on its holder's clock, was
\* released or was taken over, nothing queued under it is ever recorded, even
\* if the same worker gets the monitor back (RefreshLease must not revive it,
\* ClaimBatch must not count it as a renewal).
LapsedLeaseNeverCommits ==
    [][\A c \in checks : CommitLocalHeartbeat(c) => c.ep \notin lapsed[c.mon]]_vars

\* Heartbeats of one monitor are recorded in the order of its lease instances:
\* a deposed worker's result never lands after one of its successor, and one
\* instance only ever records for one worker.
CommitsInLeaseOrder ==
    [][\A m \in Monitors : commits'[m] # commits[m] /\ commits[m] # NoCheck =>
            \/ commits'[m].ep > commits[m].ep
            \/ commits'[m].ep = commits[m].ep /\ commits'[m].wkr = commits[m].wkr]_vars

\* The epoch alone identifies the holder: two checks in flight for a monitor
\* that carry the same epoch belong to the same worker.
FenceNamesOneWorker ==
    \A c, d \in checks : c.mon = d.mon /\ c.ep = d.ep => c.wkr = d.wkr

\* A monitor whose worker is gone is taken over: if from some time on the monitor
\* is active and there is always a running worker, it is again and again leased
\* to a live worker, as long as the lease in the table can still expire before
\* MaxClock.
Serving(m)  == worker[m] \in Workers /\ pc[worker[m]] # "off"
Horizon(m)  == leasedAt[m] + TTL < MaxClock
AbandonedMonitorTakenOver ==
    \A m \in Monitors :
        <>[](active[m] /\ \E w \in Workers : pc[w] \in {"loop", "claim", "locking"})
            => []<>(Serving(m) \/ ~Horizon(m))
=============================================================================
