--------------------------- MODULE LocalHeartbeat ---------------------------
(***************************************************************************)
(* Recording the hub's own checks.  Several checks of one monitor may be   *)
(* in flight at once: schedulers do not exclude it, and workers overlap.   *)
(* HeartbeatService.persistCheck evaluates a result against the state it   *)
(* read and commits it with that state's sequence number as expectation;   *)
(* CommitLocalHeartbeat refuses a stale expectation and persistCheck then  *)
(* reads and evaluates again, MaxAttempts times.  Meanwhile assignments    *)
(* are replaced and configurations activated.                              *)
(*                                                                         *)
(* The lease fence of a check is WorkerLease's matter; here a fenced check *)
(* simply may be abandoned.                                                *)
(***************************************************************************)
EXTENDS RegionalHealth, Sequences

CONSTANTS
    Monitors,
    Checks,        \* check goroutines
    Inputs,        \* what checks bring: <<checker's result, in maintenance>>
    MaxRetries,    \* monitors.max_retries
    MaxAttempts,   \* commit attempts of persistCheck: 16 in the code
    MaxSeq,        \* bound: sequence numbers allocated
    MaxRev,        \* bound: configuration revisions
    MaxSetRev      \* bound: assignment-set revisions per monitor

ASSUME RecordingAssumption ==
    /\ Inputs \subseteq RawStatuses \X BOOLEAN
    /\ MaxRetries \in Nat
    /\ MaxAttempts \in Nat \ {0}
    /\ MaxSeq \in Nat /\ MaxRev \in Nat /\ MaxSetRev \in Nat

VARIABLES
    assigned,   \* monitor_probe_assignments.active of the local probe
    gen,        \* monitor_probe_assignments.generation of the local probe
    setRev,     \* monitor_probe_assignment_sets.revision
    applied,    \* the active local configuration and what it was built from
    state,      \* monitor_probe_states, the row of the local probe
    lastSeq,    \* probe_local_sequence.last_seq
    log,        \* the observations of each monitor, in commit order
    check       \* the goroutines in HeartbeatService.Record

adminVars == <<assigned, gen, setRev, applied>>
vars      == <<adminVars, state, lastSeq, log, check>>

\* domain.RegionalState; NoRow when none was ever stored.
NoRow == [seq |-> 0, gen |-> 0, status |-> "NONE", downCount |-> 0]
Row   == [seq : Nat \ {0}, gen : Nat, status : Statuses, downCount : Nat]

Observation ==
    [seq : Nat \ {0}, gen : Nat, rev : Nat, raw : RawStatuses, maint : BOOLEAN,
     status : Statuses, downCount : Nat, important : BOOLEAN]

\* gen, rev, raw and maint stay fixed over the attempts; exp and prev are the
\* last read; begun and aborts are history: the commits before the check
\* began, and how many of its attempts the engine aborted.
CheckRecord ==
    [pc : {"idle", "revision", "generation", "state", "commit"}, mon : Monitors,
     gen : Nat, rev : Nat, raw : RawStatuses, maint : BOOLEAN, tries : Nat,
     exp : Nat, prev : RetryStates, begun : Nat, aborts : Nat]

Idle(c) == [c EXCEPT !.pc = "idle", !.gen = 0, !.rev = 0, !.raw = "UP", !.maint = FALSE,
                     !.tries = 0, !.exp = 0, !.prev = NoState, !.begun = 0, !.aborts = 0]

TypeOK ==
    /\ assigned \in [Monitors -> BOOLEAN]
    /\ gen \in [Monitors -> Nat \ {0}]
    /\ setRev \in [Monitors -> Nat \ {0}]
    /\ applied \in [rev : Nat \ {0}, gen : [Monitors -> Nat], setRev : [Monitors -> Nat]]
    /\ state \in [Monitors -> Row \cup {NoRow}]
    /\ lastSeq \in Nat
    /\ log \in [Monitors -> Seq(Observation)]
    /\ check \in [Checks -> CheckRecord]

\* What activation builds from the source tables: 0 for a monitor not assigned.
Definition(rev) ==
    [rev |-> rev, gen |-> [m \in Monitors |-> IF assigned[m] THEN gen[m] ELSE 0],
     setRev |-> setRev]

Init ==
    /\ assigned = [m \in Monitors |-> TRUE]
    /\ gen = [m \in Monitors |-> 1]
    /\ setRev = [m \in Monitors |-> 1]
    /\ applied = [rev |-> 1, gen |-> gen, setRev |-> setRev]
    /\ state = [m \in Monitors |-> NoRow]
    /\ lastSeq = 0
    /\ log = [m \in Monitors |-> << >>]
    /\ \E m \in Monitors :
         check = [c \in Checks |->
                    [pc |-> "idle", mon |-> m, gen |-> 0, rev |-> 0, raw |-> "UP", maint |-> FALSE,
                     tries |-> 0, exp |-> 0, prev |-> NoState, begun |-> 0, aborts |-> 0]]

-----------------------------------------------------------------------------
(* The operator: assignments and configurations.                           *)

\* replaceProbeAssignmentRows: the local probe is removed, is added again
\* under the next generation, or only other members of the set change.
ReplaceAssignments(m, local) ==
    /\ setRev[m] < MaxSetRev
    /\ setRev' = [setRev EXCEPT ![m] = @ + 1]
    /\ assigned' = [assigned EXCEPT ![m] = local]
    /\ gen' = IF local /\ ~assigned[m] THEN [gen EXCEPT ![m] = @ + 1] ELSE gen
    /\ UNCHANGED <<applied, state, lastSeq, log, check>>

\* A configuration built from the present assignments becomes active.
Activate ==
    /\ applied.rev < MaxRev
    /\ applied' = Definition(applied.rev + 1)
    /\ UNCHANGED <<assigned, gen, setRev, state, lastSeq, log, check>>

-----------------------------------------------------------------------------
(* HeartbeatService.Record and persistCheck.                               *)

\* A result, under the generation and revision the check was scheduled with.
Record(c, m, raw, maint) ==
    /\ check[c].pc = "idle"
    /\ applied.gen[m] # 0
    /\ check' = [check EXCEPT ![c] =
                   [pc |-> "revision", mon |-> m, gen |-> applied.gen[m], rev |-> applied.rev,
                    raw |-> raw, maint |-> maint, tries |-> 0, exp |-> 0, prev |-> NoState,
                    begun |-> Len(log[m]), aborts |-> 0]]
    /\ UNCHANGED <<adminVars, state, lastSeq, log>>

\* The early look at the active revision.
CheckRevision(c) ==
    /\ check[c].pc = "revision"
    /\ check' = [check EXCEPT ![c] = IF applied.rev = @.rev THEN [@ EXCEPT !.pc = "generation"] ELSE Idle(@)]
    /\ UNCHANGED <<adminVars, state, lastSeq, log>>

\* localRegionalState's first read; a changed generation ends the check.
ReadGeneration(c) ==
    /\ check[c].pc = "generation"
    /\ LET m == check[c].mon
       IN  check' = [check EXCEPT ![c] =
                       IF assigned[m] /\ gen[m] = @.gen THEN [@ EXCEPT !.pc = "state"] ELSE Idle(@)]
    /\ UNCHANGED <<adminVars, state, lastSeq, log>>

\* Mutants of ReadState: the expectation is refreshed but the evaluation of the
\* first attempt is kept; nothing is read again after the first attempt.
KeepsFirstEvaluation(c) ==
    /\ check[c].pc = "state"
    /\ LET row == state[check[c].mon]
       IN  check' = [check EXCEPT ![c].pc = "commit", ![c].exp = row.seq,
                       ![c].prev = IF check[c].tries = 0 /\ row.gen = check[c].gen
                                   THEN [status |-> row.status, downCount |-> row.downCount]
                                   ELSE @]
    /\ UNCHANGED <<adminVars, state, lastSeq, log>>
ReadsOnlyOnce(c) ==
    /\ check[c].pc = "state"
    /\ LET row == state[check[c].mon]
       IN  check' = [check EXCEPT ![c].pc = "commit",
                       ![c].exp = IF check[c].tries = 0 THEN row.seq ELSE @,
                       ![c].prev = IF check[c].tries = 0 /\ row.gen = check[c].gen
                                   THEN [status |-> row.status, downCount |-> row.downCount]
                                   ELSE @]
    /\ UNCHANGED <<adminVars, state, lastSeq, log>>

\* The second read: the row, and from it the expectation; only a row of the
\* same generation is a previous state.
ReadState(c) ==
    /\ check[c].pc = "state"
    /\ LET row == state[check[c].mon]
       IN  check' = [check EXCEPT ![c].pc = "commit", ![c].exp = row.seq,
                       ![c].prev = IF row.gen = check[c].gen
                                   THEN [status |-> row.status, downCount |-> row.downCount]
                                   ELSE NoState]
    /\ UNCHANGED <<adminVars, state, lastSeq, log>>

\* Mutant of Authorized: the revision is only compared before the transaction.
AuthorizedWithoutRevision(k) ==
    assigned[k.mon] /\ gen[k.mon] = k.gen /\ applied.setRev[k.mon] = setRev[k.mon]

\* Inside the transaction: the active generation, the active revision, and the
\* application the active configuration was recorded for.
Authorized(k) ==
    /\ assigned[k.mon] /\ gen[k.mon] = k.gen
    /\ applied.rev = k.rev
    /\ applied.gen[k.mon] = k.gen /\ applied.setRev[k.mon] = setRev[k.mon]

\* The compare of the compare-and-set.
StateMatches(k) == state[k.mon].seq = k.exp

Evaluated(k) == EvaluateObservation(k.prev, k.raw, k.maint, MaxRetries)

CommitLocalHeartbeat(c) ==
    LET k == check[c]
        e == Evaluated(k)
        n == lastSeq + 1
    IN  /\ k.pc = "commit"
        /\ Authorized(k) /\ StateMatches(k)
        /\ n <= MaxSeq
        /\ lastSeq' = n
        /\ state' = [state EXCEPT ![k.mon] =
                       [seq |-> n, gen |-> k.gen, status |-> e.status, downCount |-> e.downCount]]
        /\ log' = [log EXCEPT ![k.mon] =
                     Append(@, [seq |-> n, gen |-> k.gen, rev |-> k.rev, raw |-> k.raw,
                                maint |-> k.maint, status |-> e.status,
                                downCount |-> e.downCount, important |-> e.important])]
        /\ check' = [check EXCEPT ![c] = Idle(@)]
        /\ UNCHANGED adminVars

\* ErrConflict: the transaction rolls back and the result is gone.
CommitRefused(c) ==
    /\ check[c].pc = "commit"
    /\ ~Authorized(check[c])
    /\ check' = [check EXCEPT ![c] = Idle(@)]
    /\ UNCHANGED <<adminVars, state, lastSeq, log>>

\* Mutant of RolledBack: the refused attempt keeps its number.
KeepsItsNumber == lastSeq' = lastSeq + 1 /\ UNCHANGED <<adminVars, state, log>>

\* RunInTx undoes everything, the allocation too.
RolledBack == UNCHANGED <<adminVars, state, lastSeq, log>>

\* ErrStaleLocalState: the state moved since it was read, or the engine aborted
\* the transaction (deadlock, lock wait, snapshot conflict).
Stale(k)    == Authorized(k) /\ ~StateMatches(k)
LastTry(k)  == k.tries + 1 = MaxAttempts

CommitRetried(c, aborted) ==
    /\ check[c].pc = "commit"
    /\ aborted \/ Stale(check[c])
    /\ ~LastTry(check[c])
    /\ check' = [check EXCEPT ![c].pc = "generation", ![c].tries = @ + 1,
                                 ![c].aborts = IF aborted THEN @ + 1 ELSE @]
    /\ RolledBack

\* The last attempt failed too: local recording contention, the result is gone.
GiveUp(c, aborted) ==
    /\ check[c].pc = "commit"
    /\ aborted \/ Stale(check[c])
    /\ LastTry(check[c])
    /\ check' = [check EXCEPT ![c] = Idle(@)]
    /\ RolledBack

\* The process ends, its lease is stale, or the database fails otherwise.
Abandon(c) ==
    /\ check[c].pc # "idle"
    /\ check' = [check EXCEPT ![c] = Idle(@)]
    /\ UNCHANGED <<adminVars, state, lastSeq, log>>

CheckStep(c) ==
    \/ \E m \in Monitors, in \in Inputs : Record(c, m, in[1], in[2])
    \/ CheckRevision(c) \/ ReadGeneration(c) \/ ReadState(c)
    \/ CommitLocalHeartbeat(c) \/ CommitRefused(c)
    \/ \E aborted \in BOOLEAN : CommitRetried(c, aborted) \/ GiveUp(c, aborted)
    \/ Abandon(c)

Next ==
    \/ \E m \in Monitors, local \in BOOLEAN : ReplaceAssignments(m, local)
    \/ Activate
    \/ \E c \in Checks : CheckStep(c)

Spec == Init /\ [][Next]_vars

-----------------------------------------------------------------------------
(* Properties.                                                             *)

\* What the observation before the i-th of m was, in the same generation.
Predecessor(m, i) ==
    IF i > 1 /\ log[m][i-1].gen = log[m][i].gen
    THEN [status |-> log[m][i-1].status, downCount |-> log[m][i-1].downCount]
    ELSE NoState

\* However checks interleave, the committed history of a monitor is that of
\* checks recorded one after the other: each observation was evaluated from
\* exactly the one committed before it in its generation.  No failure is lost
\* from the count, no transition is missed and none is announced twice.
SerialHistory ==
    \A m \in Monitors : \A i \in DOMAIN log[m] :
        LET o == log[m][i]
        IN  [status |-> o.status, downCount |-> o.downCount, important |-> o.important]
              = EvaluateObservation(Predecessor(m, i), o.raw, o.maint, MaxRetries)

\* The length of the run of unexcused failures that ends at observation i.
FailureRun(m, i) ==
    LET run(j) == \A x \in j..i : /\ log[m][x].raw = "DOWN" /\ ~log[m][x].maint
                                  /\ log[m][x].gen = log[m][i].gen
    IN  Cardinality({j \in 1..i : run(j)})

\* DOWN is confirmed by more than MaxRetries consecutive failed checks of one
\* generation outside maintenance, and by nothing less (DownCount up to its cap).
ConfirmedByConsecutiveFailures ==
    \A m \in Monitors : \A i \in DOMAIN log[m] :
        /\ log[m][i].downCount = (IF FailureRun(m, i) < MaxInt THEN FailureRun(m, i) ELSE MaxInt)
        /\ MaxRetries < MaxInt =>
             (log[m][i].status = "DOWN") = (FailureRun(m, i) > MaxRetries)

\* Sequence numbers are dense over all monitors: a refused, aborted or abandoned
\* attempt consumes none, and none is given out twice.
SequenceGapFree ==
    \A n \in 1..MaxSeq :
        Cardinality({m \in Monitors : \E i \in DOMAIN log[m] : log[m][i].seq = n})
            = (IF n <= lastSeq THEN 1 ELSE 0)

\* Once a monitor recorded under a generation or a revision, nothing of an older
\* one is recorded: a check that was running while the assignment was replaced
\* or a configuration activated cannot write after its successor.
SupersededNeverRecords ==
    \A m \in Monitors : \A i \in DOMAIN log[m] :
        i > 1 => /\ log[m][i-1].gen <= log[m][i].gen
                 /\ log[m][i-1].rev <= log[m][i].rev
                 /\ log[m][i-1].seq < log[m][i].seq

\* A result is given up for contention only if each of its attempts was beaten
\* by another check's commit to the same monitor, or aborted by the engine.
ContentionMeansProgress ==
    [][\A c \in Checks, aborted \in BOOLEAN : GiveUp(c, aborted) =>
            (Len(log[check[c].mon]) - check[c].begun)
              + check[c].aborts + (IF aborted THEN 1 ELSE 0) >= MaxAttempts]_vars
=============================================================================
