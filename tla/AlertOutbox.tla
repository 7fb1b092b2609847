---------------------------- MODULE AlertOutbox ----------------------------
(***************************************************************************)
(* From a recorded status to a page.  The transaction that records a check *)
(* of the hub's own probe also moves the incident and its alert row and    *)
(* queues one delivery intent per linked channel                           *)
(* (commitLifecycleAndDeliveriesTx).  Consumers claim intents under a      *)
(* lease, reconcile each against the present state, obtain a grant in one  *)
(* last transaction, call the provider and record the outcome under the    *)
(* fence of the claim.  Operators acknowledge, change channels, schedule   *)
(* maintenance and hand paging to the aggregate source meanwhile.          *)
(*                                                                         *)
(* One monitor.  Which status is recorded is LocalHeartbeat's matter: any  *)
(* may follow any.  Escalation steps, disabled monitors and deletion are   *)
(* not modelled; a disabled channel counts as unlinked.                    *)
(***************************************************************************)
EXTENDS Integers, FiniteSets, Sequences, SequencesExt

CONSTANTS
    Channels,      \* notification channels
    Workers,       \* processes running deliveryConsumerLoop
    Recorded,      \* statuses the checks record
    Resend,        \* whether monitors.resend_interval > 0
    Windows,       \* whether maintenance windows cover the monitor at times
    Aggregate,     \* whether the aggregate source may take over paging
    MaxAttempts,   \* DeliveryConsumerConfig.MaxAttempts
    MaxIncidents,  \* bound: incidents
    MaxIntents,    \* bound: intents
    MaxRev,        \* bound: configuration revisions
    MaxFaults      \* bound: faults

ASSUME OutboxAssumption ==
    /\ IsFiniteSet(Channels) /\ IsFiniteSet(Workers)
    /\ Recorded \subseteq {"UP", "DOWN", "PENDING", "MAINTENANCE"}
    /\ Resend \in BOOLEAN /\ Windows \in BOOLEAN /\ Aggregate \in BOOLEAN
    /\ MaxAttempts \in Nat \ {0}
    /\ MaxIncidents \in Nat /\ MaxIntents \in Nat /\ MaxRev \in Nat /\ MaxFaults \in Nat

NoWorker == "none"
ASSUME HolderAssumption == NoWorker \notin Workers

VARIABLES
    gen,        \* generation of the local assignment
    rev,        \* revision of the active configuration
    chanRev,    \* the revision that last changed a channel's settings
    linked,     \* channels linked to the monitor in the active configuration
    maint,      \* a maintenance window covers the present moment
    gate,       \* an operative_source_gates row holds paging for the aggregate
    status,     \* status of the generation's regional state
    incidents,  \* probe_incidents
    alerts,     \* alerts: alerts[i] has the source_alert_id of incidents[i]
    throttle,   \* notification_throttles: none, or last attempt before/since the outage began
    intents,    \* probe_delivery_intents
    worker,     \* the consumers
    faults      \* history: crashes, timeouts and lost answers so far

configVars    == <<gen, rev, chanRev, linked>>
windowVars    == <<maint, gate>>
lifecycleVars == <<status, incidents, alerts, throttle>>
vars == <<configVars, windowVars, lifecycleVars, intents, worker, faults>>

Lifecycle == {"firing", "acked", "resolved"}
Incident  == [status : Lifecycle, version : Nat \ {0}, rev : Nat \ {0}, gen : Nat \ {0}]
Alert     == [status : Lifecycle, version : Nat \ {0}]
Settled   == {"sent", "failed", "superseded"}

\* accepted is history: how often the provider took this message.
Intent ==
    [inc : Nat \ {0}, ver : Nat \ {0}, ch : Channels, rev : Nat \ {0}, check : {"DOWN", "UP"},
     kind : {"status_change", "incident_summary"},
     status : {"pending", "retrying", "leased"} \cup Settled,
     holder : Workers \cup {NoWorker}, live : BOOLEAN, attempt : 0..MaxAttempts,
     accepted : Nat]

Consumer ==
    [pc : {"idle", "supersede", "grant", "send", "finish"}, todo : SUBSET Nat, cur : Nat,
     rev : Nat, result : {"", "ok", "transient", "permanent"}]

Waiting == [pc |-> "idle", todo |-> {}, cur |-> 0, rev |-> 0, result |-> ""]
NextUp(w) == [Waiting EXCEPT !.todo = worker[w].todo]

TypeOK ==
    /\ gen \in Nat \ {0} /\ rev \in Nat \ {0}
    /\ chanRev \in [Channels -> Nat \ {0}] /\ linked \subseteq Channels
    /\ maint \in BOOLEAN /\ gate \in BOOLEAN
    /\ status \in Recorded \cup {"NONE"}
    /\ incidents \in Seq(Incident) /\ alerts \in Seq(Alert) /\ Len(alerts) = Len(incidents)
    /\ throttle \in {"none", "before", "since"}
    /\ intents \in Seq(Intent)
    /\ worker \in [Workers -> Consumer]
    /\ faults \in 0..MaxFaults

Init ==
    /\ gen = 1 /\ rev = 1
    /\ chanRev = [c \in Channels |-> 1] /\ linked = Channels
    /\ maint = FALSE /\ gate = FALSE
    /\ status = "NONE"
    /\ incidents = << >> /\ alerts = << >> /\ throttle = "none" /\ intents = << >>
    /\ worker = [w \in Workers |-> Waiting]
    /\ faults = 0

-----------------------------------------------------------------------------
(* The recording transaction.                                              *)

\* The open alert rows of this assignment; open_monitor_id is null once resolved.
OpenAlerts == {i \in DOMAIN alerts : alerts[i].status # "resolved" /\ incidents[i].gen = gen}

\* The stored incident under the present revision; a changed one is a new version.
Refired(i) ==
    IF incidents[i].rev = rev THEN incidents[i]
    ELSE [incidents[i] EXCEPT !.rev = rev, !.version = alerts[i].version + 1]

Recovered(i) ==
    [incidents[i] EXCEPT !.rev = rev, !.version = alerts[i].version + 1, !.status = "resolved"]

\* putIncidentWithOwnerTx: a newer version that does not reopen, or a repetition.
Accepts(old, new) ==
    \/ new.version > old.version /\ (old.status = "resolved" => new.status = "resolved")
    \/ new = old

\* Intents a transition queues: none while the aggregate source pages.
Queued(i, ver, check, kind) ==
    IF gate THEN << >>
    ELSE LET chs == SetToSeq(linked)
         IN  [k \in DOMAIN chs |->
                [inc |-> i, ver |-> ver, ch |-> chs[k], rev |-> rev, check |-> check,
                 kind |-> kind[chs[k]], status |-> "pending", holder |-> NoWorker,
                 live |-> FALSE, attempt |-> 0, accepted |-> 0]]
StatusChange == [c \in Channels |-> "status_change"]

Retire(n) == [n EXCEPT !.status = "superseded", !.holder = NoWorker, !.live = FALSE, !.attempt = 0]

\* Work that waits on incident i is superseded; leased work is left to its holder.
Superseded(i) ==
    [k \in DOMAIN intents |->
        IF intents[k].inc = i /\ intents[k].status \in {"pending", "retrying"}
        THEN Retire(intents[k]) ELSE intents[k]]

\* PENDING follows DOWN only when max_retries was raised.
Follows(s) == s \in Recorded /\ (s = "PENDING" /\ status = "DOWN" => rev > 1)

\* An open firing incident pages again only when a resend is due.
Throttled(elapsed) == throttle = "since" /\ ~(status = "DOWN" /\ Resend /\ elapsed)

\* The last attempt is stamped with the time of the check; checks may commit out
\* of that order, so on an older incident it may lie before the outage began.
Stamped(late) == IF gate THEN throttle ELSE IF late THEN "before" ELSE "since"

\* The status is recorded and the incident stays as it is.
RecordQuietly(s, elapsed) ==
    /\ Follows(s)
    /\ \/ s \notin {"UP", "DOWN"}
       \/ s = "UP" /\ (status = "UP" \/ OpenAlerts = {})
       \/ s = "DOWN" /\ (\E i \in OpenAlerts : alerts[i].status = "acked" \/ Throttled(elapsed))
    /\ status' = s
    /\ UNCHANGED <<configVars, windowVars, incidents, alerts, throttle, intents, worker, faults>>

OpenIncident ==
    LET i == Len(incidents) + 1
    IN  /\ Follows("DOWN") /\ OpenAlerts = {} /\ i <= MaxIncidents
        /\ status' = "DOWN"
        /\ incidents' = Append(incidents, [status |-> "firing", version |-> 1, rev |-> rev, gen |-> gen])
        /\ alerts' = Append(alerts, [status |-> "firing", version |-> 1])
        /\ throttle' = Stamped(FALSE)
        /\ intents' = intents \o Queued(i, 1, "DOWN", StatusChange)
        /\ Len(intents') <= MaxIntents
        /\ UNCHANGED <<configVars, windowVars, worker, faults>>

\* DOWN again: a resend, a first page after the gate opened, or a new revision.
RenewIncident(i, elapsed, late) ==
    LET new == Refired(i)
    IN  /\ Follows("DOWN") /\ i \in OpenAlerts /\ alerts[i].status = "firing"
        /\ ~Throttled(elapsed)
        /\ Accepts(incidents[i], new)
        /\ status' = "DOWN"
        /\ incidents' = [incidents EXCEPT ![i] = new]
        /\ alerts' = [alerts EXCEPT ![i].version = IF @ < new.version THEN new.version ELSE @]
        /\ throttle' = Stamped(late)
        /\ intents' = intents \o Queued(i, new.version, "DOWN", StatusChange)
        /\ Len(intents') <= MaxIntents
        /\ UNCHANGED <<configVars, windowVars, worker, faults>>

\* A channel that never received the outage gets a summary instead.
RecoveryKind(i, c) ==
    IF \E k \in DOMAIN intents : /\ intents[k].inc = i /\ intents[k].ch = c
                                 /\ intents[k].check = "DOWN" /\ intents[k].status = "sent"
    THEN "status_change" ELSE "incident_summary"

ResolveIncident(i) ==
    LET new == Recovered(i)
    IN  /\ Follows("UP") /\ status # "UP" /\ i \in OpenAlerts
        /\ Accepts(incidents[i], new)
        /\ status' = "UP"
        /\ incidents' = [incidents EXCEPT ![i] = new]
        /\ alerts' = [alerts EXCEPT ![i] = [status |-> "resolved", version |-> new.version]]
        /\ throttle' = "none"
        /\ intents' = Superseded(i) \o Queued(i, new.version, "UP", [c \in Channels |-> RecoveryKind(i, c)])
        /\ Len(intents') <= MaxIntents
        /\ UNCHANGED <<configVars, windowVars, worker, faults>>

-----------------------------------------------------------------------------
(* The operator.                                                           *)

\* Mutant of Acknowledge: the incident is not moved with the alert.
AcknowledgeAlertOnly(i) ==
    /\ alerts[i].status = "firing"
    /\ alerts' = [alerts EXCEPT ![i] = [status |-> "acked", version |-> alerts[i].version + 1]]
    /\ intents' = Superseded(i)
    /\ UNCHANGED <<configVars, windowVars, status, incidents, throttle, worker, faults>>

\* The alert was read as firing some time ago; the update only takes effect on
\* one that still is, of whatever generation.
Acknowledge(i) ==
    LET version == alerts[i].version + 1
    IN  /\ alerts[i].status = "firing"
        /\ alerts' = [alerts EXCEPT ![i] = [status |-> "acked", version |-> version]]
        /\ incidents' = [incidents EXCEPT ![i].status = "acked", ![i].version = version]
        /\ intents' = Superseded(i)
        /\ UNCHANGED <<configVars, windowVars, status, throttle, worker, faults>>

\* A configuration becomes active that changes some channels and the links.
Activate(changed, links) ==
    /\ rev < MaxRev
    /\ rev' = rev + 1
    /\ chanRev' = [c \in Channels |-> IF c \in changed THEN rev + 1 ELSE chanRev[c]]
    /\ linked' = links
    /\ UNCHANGED <<gen, windowVars, lifecycleVars, intents, worker, faults>>

\* The local probe is removed and assigned again, and that is activated.  What
\* the retired generation left open stays as it is.
Reassign ==
    /\ rev < MaxRev
    /\ gen' = gen + 1 /\ rev' = rev + 1
    /\ status' = "NONE" /\ throttle' = "none"
    /\ UNCHANGED <<chanRev, linked, windowVars, incidents, alerts, intents, worker, faults>>

ToggleMaintenance ==
    /\ Windows /\ maint' = ~maint
    /\ UNCHANGED <<configVars, gate, lifecycleVars, intents, worker, faults>>

ToggleGate ==
    /\ Aggregate /\ gate' = ~gate
    /\ UNCHANGED <<configVars, maint, lifecycleVars, intents, worker, faults>>

-----------------------------------------------------------------------------
(* The delivery consumer.                                                  *)

\* Mutant of Due: an unexpired lease of another consumer is no obstacle.
DueThoughLeased(k) ==
    intents[k].status \notin Settled /\ incidents[intents[k].inc].gen = gen

\* available_at only delays; the rest is the predicate of ClaimDeliveries.
Due(k) ==
    /\ \/ intents[k].status \in {"pending", "retrying"}
       \/ intents[k].status = "leased" /\ ~intents[k].live
    /\ incidents[intents[k].inc].gen = gen

\* Some of the due work: the rest is not available yet or locked by another claim.
ClaimDeliveries(w, batch) ==
    /\ worker[w] = Waiting
    /\ batch # {} /\ \A k \in batch : Due(k)
    /\ intents' = [k \in DOMAIN intents |->
                     IF k \in batch
                     THEN [intents[k] EXCEPT !.status = "leased", !.holder = w, !.live = TRUE,
                                             !.attempt = IF @ < MaxAttempts THEN @ + 1 ELSE @]
                     ELSE intents[k]]
    /\ worker' = [worker EXCEPT ![w].todo = batch]
    /\ UNCHANGED <<configVars, windowVars, lifecycleVars, faults>>

\* The claim is still this consumer's.
Holds(w, k) == intents[k].status = "leased" /\ intents[k].holder = w /\ intents[k].live

Rotated(n) == chanRev[n.ch] > n.rev

\* Grounds to supersede a delivery before it is sent.
Obsolete(n) ==
    \/ incidents[n.inc].gen # gen
    \/ Rotated(n) \/ n.ch \notin linked
    \/ maint
    \/ n.check = "DOWN" /\ incidents[n.inc].status # "firing"

ReconcileBeforeSend(w, k) ==
    /\ worker[w].pc = "idle" /\ k \in worker[w].todo
    /\ LET next == [NextUp(w) EXCEPT !.todo = @ \ {k}]
       IN  worker' = [worker EXCEPT ![w] =
                        IF ~Holds(w, k) THEN next
                        ELSE IF Obsolete(intents[k]) THEN [next EXCEPT !.pc = "supersede", !.cur = k]
                        ELSE [next EXCEPT !.pc = "grant", !.cur = k, !.rev = rev]]
    /\ UNCHANGED <<configVars, windowVars, lifecycleVars, intents, faults>>

\* Mutant of Granted: what reconciliation saw of the incident still stands.
GrantedOnClaim(w) ==
    LET n == intents[worker[w].cur]
    IN  /\ worker[w].rev = rev /\ Holds(w, worker[w].cur)
        /\ ~Rotated(n) /\ n.ch \in linked /\ incidents[n.inc].gen = gen /\ ~gate

\* grantLocalAttemptTx.  Maintenance is not looked at again.
Granted(w) ==
    LET n == intents[worker[w].cur]
        i == incidents[n.inc]
    IN  /\ worker[w].rev = rev /\ Holds(w, worker[w].cur)
        /\ ~Rotated(n) /\ n.ch \in linked /\ i.gen = gen /\ ~gate
        /\ i.version = n.ver
        /\ i.status = (IF n.check = "DOWN" THEN "firing" ELSE "resolved")

\* A refused grant leaves the intent leased until the lease runs out.
AuthorizeLocalDelivery(w) ==
    /\ worker[w].pc = "grant"
    /\ worker' = [worker EXCEPT ![w] = IF Granted(w) THEN [@ EXCEPT !.pc = "send"] ELSE NextUp(w)]
    /\ UNCHANGED <<configVars, windowVars, lifecycleVars, intents, faults>>

\* The provider took the message or not; a timeout leaves that open, and one
\* that hides a taken message is a fault.
Send(w, result, taken) ==
    LET k == worker[w].cur
        hidden == taken /\ result = "transient"
    IN  /\ worker[w].pc = "send"
        /\ result = "ok" => taken
        /\ result = "permanent" => ~taken
        /\ hidden => faults < MaxFaults
        /\ worker' = [worker EXCEPT ![w].pc = "finish", ![w].result = result]
        /\ intents' = [intents EXCEPT ![k].accepted = IF taken THEN @ + 1 ELSE @]
        /\ faults' = IF hidden THEN faults + 1 ELSE faults
        /\ UNCHANGED <<configVars, windowVars, lifecycleVars>>

\* Mutant of Outcome: a transient error is tried again without end.
OutcomeWithoutLimit(result, attempt) ==
    CASE result = "ok" -> "sent" [] result = "transient" -> "retrying" [] OTHER -> "failed"

Outcome(result, attempt) ==
    CASE result = "ok" -> "sent"
      [] result = "transient" /\ attempt < MaxAttempts -> "retrying"
      [] OTHER -> "failed"

\* Recorded only under the claim's fence; a lost claim changes nothing.
FinishDelivery(w) ==
    LET k == worker[w].cur
        new == IF worker[w].pc = "supersede" THEN "superseded"
               ELSE Outcome(worker[w].result, intents[k].attempt)
    IN  /\ worker[w].pc \in {"supersede", "finish"}
        /\ intents' = IF Holds(w, k)
                      THEN [intents EXCEPT ![k].status = new, ![k].holder = NoWorker, ![k].live = FALSE,
                                           ![k].attempt = IF new = "retrying" THEN @ ELSE 0]
                      ELSE intents
        /\ worker' = [worker EXCEPT ![w] = NextUp(w)]
        /\ UNCHANGED <<configVars, windowVars, lifecycleVars, faults>>

\* The process ends or the batch's deadline passes: nothing more of it is done.
AbandonBatch(w) ==
    /\ worker[w] # Waiting /\ faults < MaxFaults
    /\ worker' = [worker EXCEPT ![w] = Waiting]
    /\ faults' = faults + 1
    /\ UNCHANGED <<configVars, windowVars, lifecycleVars, intents>>

\* The attempt journal cannot be written: the delivery's outcome is not either.
OutcomeLost(w) ==
    /\ worker[w].pc = "finish" /\ faults < MaxFaults
    /\ worker' = [worker EXCEPT ![w] = NextUp(w)]
    /\ faults' = faults + 1
    /\ UNCHANGED <<configVars, windowVars, lifecycleVars, intents>>

AtWork(w, k) == k \in worker[w].todo \/ worker[w].cur = k

\* A lease outlives the work on it unless the consumer stalls, which is a fault.
Expire(k) ==
    LET stalled == \E w \in Workers : intents[k].holder = w /\ AtWork(w, k)
    IN  /\ intents[k].status = "leased" /\ intents[k].live
        /\ stalled => faults < MaxFaults
        /\ intents' = [intents EXCEPT ![k].live = FALSE]
        /\ faults' = IF stalled THEN faults + 1 ELSE faults
        /\ UNCHANGED <<configVars, windowVars, lifecycleVars, worker>>

-----------------------------------------------------------------------------

RecordStep ==
    \/ \E s \in Recorded, elapsed \in BOOLEAN : RecordQuietly(s, elapsed)
    \/ OpenIncident
    \/ \E i \in DOMAIN alerts, elapsed, late \in BOOLEAN : RenewIncident(i, elapsed, late)
    \/ \E i \in DOMAIN alerts : ResolveIncident(i)

OperatorStep ==
    \/ \E i \in DOMAIN alerts : Acknowledge(i)
    \/ \E changed, links \in SUBSET Channels : Activate(changed, links)
    \/ Reassign \/ ToggleMaintenance \/ ToggleGate

\* What a consumer does with the batch it holds.
Process(w) ==
    \/ \E k \in worker[w].todo : ReconcileBeforeSend(w, k)
    \/ AuthorizeLocalDelivery(w)
    \/ \E result \in {"ok", "transient", "permanent"}, taken \in BOOLEAN : Send(w, result, taken)
    \/ FinishDelivery(w)

ConsumerStep(w) ==
    \/ \E batch \in SUBSET DOMAIN intents : ClaimDeliveries(w, batch)
    \/ Process(w) \/ AbandonBatch(w) \/ OutcomeLost(w)

Next ==
    \/ RecordStep
    \/ OperatorStep
    \/ \E w \in Workers : ConsumerStep(w)
    \/ \E k \in DOMAIN intents : Expire(k)

Spec == Init /\ [][Next]_vars

\* Consumers poll every second and end what they begin, leases run out, and each
\* intent that keeps becoming due is claimed: the oldest come first.
Claimed(k) == \E w \in Workers, batch \in SUBSET DOMAIN intents : k \in batch /\ ClaimDeliveries(w, batch)
Fairness ==
    /\ \A w \in Workers : WF_vars(Process(w))
    /\ \A k \in 1..MaxIntents : SF_vars(Claimed(k)) /\ WF_vars(k \in DOMAIN intents /\ Expire(k))
FairSpec == Spec /\ Fairness

-----------------------------------------------------------------------------
(* Properties.                                                             *)

\* The alert row people acknowledge and the incident row the grant looks at are
\* written by three different transactions and always agree.
AlertMirrorsIncident ==
    \A i \in DOMAIN alerts : /\ alerts[i].status = incidents[i].status
                             /\ alerts[i].version = incidents[i].version

\* The lifecycle part never makes the store refuse a heartbeat: one open alert
\* per assignment, and any transition a check may ask for is accepted.
HeartbeatNeverBlocked ==
    /\ Cardinality(OpenAlerts) <= 1
    /\ \A i \in OpenAlerts : Accepts(incidents[i], Refired(i)) /\ Accepts(incidents[i], Recovered(i))

\* A monitor recorded DOWN has an open alert, one recorded UP has none, by
\* whatever detour through retries, maintenance, gates and revisions.
AlertTracksStatus ==
    /\ status = "DOWN" => OpenAlerts # {}
    /\ status = "UP" => OpenAlerts = {}

\* A plain recovery message only goes to a channel whose provider took the page
\* of that outage.
NoOrphanRecovery ==
    \A k \in DOMAIN intents : intents[k].check = "UP" /\ intents[k].kind = "status_change" =>
        \E d \in DOMAIN intents : /\ intents[d].inc = intents[k].inc /\ intents[d].ch = intents[k].ch
                                  /\ intents[d].check = "DOWN" /\ intents[d].accepted > 0

\* A provider takes a message again only for a fault: every repetition is paid
\* for by one crash, stall, or lost answer.
Repetitions == UNION {{k} \X (2..intents[k].accepted) : k \in DOMAIN intents}
DuplicatesNeedFaults == Cardinality(Repetitions) <= faults

\* An acknowledgement or a recovery stops the pages not yet handed to a
\* provider, also those already claimed and reconciled.
AckStopsPaging ==
    [][\A w \in Workers : worker[w].pc = "grant" /\ worker'[w].pc = "send" =>
          LET n == intents[worker[w].cur]
          IN  n.check = "DOWN" => alerts[n.inc].status = "firing"]_vars

\* A resolved incident stays resolved, and no row goes back in version.
ResolvedIsFinal ==
    [][\A i \in DOMAIN incidents :
          /\ incidents[i].status = "resolved" => incidents'[i] = incidents[i] /\ alerts'[i] = alerts[i]
          /\ alerts'[i].version >= alerts[i].version]_vars

\* Once its outage is over every message comes to rest, unless its assignment is
\* retired or the aggregate source keeps taking over.
Unsettled(k) == k \in DOMAIN intents /\ incidents[intents[k].inc].status = "resolved"
                  /\ intents[k].status \notin Settled /\ incidents[intents[k].inc].gen = gen
MessagesSettle == <>[]~gate => \A k \in 1..MaxIntents : Unsettled(k) ~> ~Unsettled(k)

\* The lifecycle rows are sound whatever checks, acknowledgements, revisions,
\* reassignments and gates interleave (CommitLocalHeartbeat's lifecycle part).
LifecycleIsSound == AlertMirrorsIncident /\ HeartbeatNeverBlocked /\ AlertTracksStatus

\* What reaches a channel is explained: a repetition by a fault, a recovery by a
\* page its provider took (AttemptDelivery, RecoveryKind).
MessagesAreExplained == DuplicatesNeedFaults /\ NoOrphanRecovery
=============================================================================
