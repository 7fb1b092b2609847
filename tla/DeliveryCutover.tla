-------------------------- MODULE DeliveryCutover --------------------------
(***************************************************************************)
(* The operative cutover of one monitor from regional paging (every probe  *)
(* pages for what it sees) to aggregate paging (the hub pages for the      *)
(* monitor) and back.  The hub's coordinator moves a barrier through       *)
(*                                                                         *)
(*   preparing -> quiescing -> quiesced -> applying -> active              *)
(*                     \___________ | ____________/       |                *)
(*                                  v                     v                *)
(*                   (blocked) -> draining ------> released -> preparing   *)
(*                                                                         *)
(* sending delivery.quiesce, delivery.apply and delivery.resume to the     *)
(* barrier's members; a member keeps a gate per barrier, and a quiesced or *)
(* applied gate of an aggregate barrier suppresses its own pages.  A       *)
(* coordinator pass is one database transaction under a stored lease, and  *)
(* is one action here; a pass that changes nothing is a stuttering step.   *)
(* The hub-local member's command takes effect inside the pass.            *)
(*                                                                         *)
(* Time is counted in ticks; every timer is a countdown or an age that     *)
(* stops at its last interesting value.                                    *)
(***************************************************************************)
EXTENDS Integers, FiniteSets, Sequences

CONSTANTS
    Probes,        \* the members, numbered in the order the barrier keeps them
    Local,         \* the hub-local member (0: the hub itself checks nothing)
    Modes,         \* the consolidated modes an operator may ask for
    Deadline,      \* ticks a barrier, or a preparation, may stay before active
    Budget,        \* ticks a provider call may last
    Settle,        \* ticks after its grant an unfinished attempt counts as running
    Cooldown,      \* ticks before a busy command is issued again
    Grace,         \* ticks an active barrier tolerates a lapsed session
    Backoff, BackoffMax,  \* ticks before a deadline drain's monitor prepares again
    MaxBarriers, MaxTries, MaxRevision, MaxFaults,
    Outage,        \* whether there is an outage to page for
    Resets         \* whether an operator may reset a member's stream

ASSUME CutoverAssumption ==
    /\ Probes \subseteq Nat \ {0} /\ IsFiniteSet(Probes) /\ Probes # {}
    /\ Local \in Probes \cup {0}
    /\ Modes \subseteq {"aggregate", "both"}
    /\ {Deadline, Budget, Cooldown, Grace, Backoff, BackoffMax} \subseteq Nat \ {0}
    /\ Settle \in Nat /\ Settle > Budget
    /\ {MaxBarriers, MaxRevision, MaxFaults} \subseteq Nat /\ MaxTries \in Nat \ {0}
    /\ Outage \in BOOLEAN /\ Resets \in BOOLEAN

VARIABLES
    phase, reason,              \* operative_cutover_state
    barriers,                   \* every barrier so far: the mode, set, configurations and
                                \* streams it is bound to, and whether it was ever active
    life,                       \* ticks left of the activation deadline
    wait,                       \* ticks left of the re-entry backoff
    enabled,                    \* PROBES_AGGREGATE_PAGING_ENABLED
    desired, set,               \* the assignment set: its mode, the revision it came in
    revision,                   \* the configuration revision published to the members
    rows,                       \* probe_commands and operative_cutover_commands
    cool,                       \* ticks left before a busy command may be rearmed
    config, acked, stream,      \* per member: the revision it runs, the one the hub has
                                \* acknowledged and prepared, its stream epoch
    away,                       \* 0: live attested session; n: ended n - 1 ticks ago
    sent, replies,              \* commands and results on a member's socket, in order
    receipts,                   \* edge_applied_commands
    gate,                       \* edge_delivery_cutover_gates, operative_source_gates
    send, aggregate,            \* the provider attempt of each member, and the hub's own
    faults

hubVars == <<phase, reason, barriers, life, wait>>
setVars == <<enabled, desired, set, revision, faults>>
probeVars == <<config, acked, stream, away>>
wireVars == <<sent, replies, receipts>>
sendVars == <<send, aggregate>>
vars == <<hubVars, setVars, rows, cool, probeVars, wireVars, gate, sendVars>>

Kinds == {"quiesce", "apply", "resume"}
Barriers == 1 .. MaxBarriers
Command == [probe : Probes, barrier : Barriers, kind : Kinds, try : 1 .. MaxTries]
Outcomes == {"done", "busy", "refused", "expired"}
Remote == Probes \ {Local}
Live == {"quiescing", "quiesced", "applied"}
NoAttempt == [row |-> FALSE, io |-> FALSE, age |-> 0]
Granted == [row |-> TRUE, io |-> TRUE, age |-> 0]

barrier == Len(barriers)

\* The mode, set, configurations and streams of the current barrier.
tuple == barriers[barrier]

mode == IF barrier = 0 THEN "regional" ELSE tuple.mode

----------------------------------------------------------------------------
(* Provider attempts. *)

\* An attempt that may still be doing provider I/O: in flight, inside its
\* window.  Attempts past it are dropped by Tick.
Unsettled(attempt) == attempt.row

\* Mutant: the hub-local member's own attempts are not counted.
UnsettledElsewhere == Unsettled(aggregate)

UnsettledAttempts ==
    Unsettled(aggregate) \/ (Local # 0 /\ Unsettled(send[Local]))

\* A quiesced or applied gate of an aggregate barrier holds back the member's
\* own pages; a refused gate and a both-mode gate do not.
HoldActive(p) ==
    \E b \in 1 .. barrier : barriers[b].mode = "aggregate" /\ gate[p][b] \in {"quiesced", "applied"}

----------------------------------------------------------------------------
(* Commands. *)

Issued(p, k) == {n \in 1 .. MaxTries : rows[[probe |-> p, barrier |-> barrier, kind |-> k, try |-> n]] # "none"}

Current(p, k) == [probe |-> p, barrier |-> barrier, kind |-> k, try |-> Cardinality(Issued(p, k))]

\* What the current command of a member has come to; "none" before it is issued.
State(p, k) == IF Issued(p, k) = {} THEN "none" ELSE rows[Current(p, k)]

AllDone(k) == \A p \in Probes : State(p, k) = "done"

\* The hub-local member's gate and receipt, committed in the coordinator's pass.
\* A busy quiesce withdraws the hold it wrote.
LocalOutcome(k) == IF k = "quiesce" /\ UnsettledAttempts THEN "busy" ELSE "done"

LocalGate(k) ==
    CASE k = "quiesce" -> IF UnsettledAttempts THEN "none" ELSE "quiesced"
      [] k = "apply" -> "applied"
      [] k = "resume" -> "released"

\* One fresh command for each of the members ps, at barrier b; the rows in
\* canceled are withdrawn in the same transaction.
Issue(ps, k, b, canceled) ==
    LET fresh == {[probe |-> p, barrier |-> b, kind |-> k,
                   try |-> IF b = barrier THEN Cardinality(Issued(p, k)) + 1 ELSE 1] : p \in ps}
    IN /\ rows' = [c \in Command |->
                     CASE c \in fresh /\ c.probe \in Remote -> "pending"
                       [] c \in fresh /\ c.probe \notin Remote -> LocalOutcome(k)
                       [] c \in canceled -> "canceled"
                       [] OTHER -> rows[c]]
       /\ gate' = IF Local \in ps
                    THEN [gate EXCEPT ![Local][b] = LocalGate(k)]
                    ELSE gate
       /\ cool' = IF Local \in ps /\ LocalOutcome(k) = "busy"
                    THEN [cool EXCEPT ![Local] = Cooldown]
                    ELSE cool

----------------------------------------------------------------------------
(* The coordinator's pass, one action per phase. *)

Prepared ==
    /\ \A p \in Probes : acked[p] >= set /\ away[p] = 0
    /\ Local = 0 => ~UnsettledAttempts

NewBarrier == [mode |-> desired, set |-> set, configs |-> acked, streams |-> stream,
               activated |-> FALSE]

\* The wait doubles with every barrier since the last active one.
ReentryWait(bs) ==
    LET failed == {i \in 1 .. Len(bs) : \A j \in i .. Len(bs) : ~bs[j].activated}
        doubled == Backoff * 2 ^ (Cardinality(failed) - 1)
    IN IF failed = {} \/ doubled < BackoffMax THEN doubled ELSE BackoffMax

\* A disabled opt-in is not preparation time: a disabled pass marks the row,
\* and the first enabled pass starts its deadline again.
PreparingLife == IF reason = "disabled" THEN Deadline ELSE life

PreparingPass ==
    /\ phase = "preparing" /\ enabled /\ desired # "regional"
    /\ barrier < MaxBarriers
    /\ \/ /\ Prepared
          /\ barriers' = Append(barriers, NewBarrier)
          /\ phase' = "quiescing" /\ reason' = "" /\ life' = Deadline
          /\ Issue(Probes, "quiesce", barrier + 1, {})
          /\ UNCHANGED wait
       \/ /\ ~Prepared /\ PreparingLife = 0
          /\ barriers' = Append(barriers, NewBarrier)
          /\ phase' = "released" /\ reason' = "deadline"
          /\ wait' = ReentryWait(barriers')
          /\ UNCHANGED <<life, rows, cool, gate>>
       \/ /\ ~Prepared /\ reason = "disabled"
          /\ reason' = "" /\ life' = PreparingLife
          /\ UNCHANGED <<phase, barriers, wait, rows, cool, gate>>
    /\ UNCHANGED <<setVars, probeVars, wireVars, sendVars>>

DisabledPreparing ==
    /\ phase = "preparing" /\ ~enabled
    /\ reason' = "disabled"
    /\ UNCHANGED <<phase, barriers, life, wait, setVars, rows, cool, probeVars, wireVars,
                   gate, sendVars>>

\* The set, or a member's acknowledged configuration or accepted stream, is no
\* longer the barrier's.
Drifted ==
    \/ set # tuple.set
    \/ acked # tuple.configs
    \/ stream # tuple.streams

EnterDraining(why) ==
    /\ phase' = "draining" /\ reason' = why
    /\ UNCHANGED <<barriers, life, wait, setVars, rows, cool, probeVars, wireVars, gate,
                   sendVars>>

Move(to) ==
    /\ phase' = to
    /\ UNCHANGED <<reason, barriers, life, wait, setVars, probeVars, wireVars, sendVars>>

\* A busy or expired command is issued again once its cooldown has passed.
Rearmable(k) == {p \in Probes : /\ State(p, k) \in {"busy", "expired"} /\ cool[p] = 0
                                /\ Cardinality(Issued(p, k)) < MaxTries}

Refusing(k) == {p \in Probes : State(p, k) = "refused"}

\* memberCommandPassTx for every member in turn: a refusal blocks the barrier,
\* after the members before it were rearmed.
MemberCommandPass(k) ==
    LET visited == {p \in Probes : \A q \in Refusing(k) : p < q}
    IN /\ Refusing(k) # {} \/ Rearmable(k) # {}
       /\ phase' = IF Refusing(k) # {} THEN "blocked" ELSE phase
       /\ reason' = IF Refusing(k) # {} THEN k ELSE reason
       /\ Issue(Rearmable(k) \cap visited, k, barrier, {})
       /\ UNCHANGED <<barriers, life, wait, setVars, probeVars, wireVars, sendVars>>

\* What drains a barrier before it is active.
PreActiveDrain ==
    /\ phase \in {"quiescing", "quiesced", "applying"}
    /\ \/ ~enabled /\ EnterDraining("disabled")
       \/ enabled /\ Drifted /\ EnterDraining("drift")
       \/ enabled /\ ~Drifted /\ life = 0 /\ EnterDraining("deadline")

Progressing == enabled /\ ~Drifted /\ life > 0

QuiescingPass ==
    /\ phase = "quiescing" /\ Progressing
    /\ \/ MemberCommandPass("quiesce")
       \/ /\ AllDone("quiesce") /\ ~UnsettledAttempts
          /\ Move("quiesced") /\ UNCHANGED <<rows, cool, gate>>

QuiescedPass ==
    /\ phase = "quiesced" /\ Progressing
    /\ Move("applying")
    /\ Issue(Probes, "apply", barrier, {})

ApplyingPass ==
    /\ phase = "applying" /\ Progressing
    /\ \/ MemberCommandPass("apply")
       \/ /\ AllDone("apply") /\ \A p \in Probes : away[p] = 0
          /\ phase' = "active"
          /\ barriers' = [barriers EXCEPT ![barrier].activated = TRUE]
          /\ UNCHANGED <<reason, life, wait, setVars, rows, cool, probeVars, wireVars,
                         gate, sendVars>>
       \/ /\ AllDone("apply") /\ \E p \in Probes : away[p] > 0
          /\ phase' = "blocked" /\ reason' = "evidence"
          /\ UNCHANGED <<barriers, life, wait, setVars, rows, cool, probeVars, wireVars,
                         gate, sendVars>>

\* An active barrier is kept while the only thing missing is a session that
\* lapsed within the grace.
ActivePass ==
    /\ phase = "active"
    /\ \/ Drifted /\ EnterDraining("drift")
       \/ ~Drifted /\ ~enabled /\ EnterDraining("disabled")
       \/ /\ ~Drifted /\ enabled /\ \E p \in Probes : away[p] > Grace
          /\ EnterDraining("evidence")

\* Still queued phase commands of a member are withdrawn when its resume is
\* issued; a claimed one is not, and meets the released gate.
Queued(ps) == {c \in Command : /\ c.probe \in ps /\ c.barrier = barrier
                               /\ c.kind # "resume" /\ rows[c] = "pending"}

DrainingPass ==
    /\ phase = "draining"
    /\ ~Unsettled(aggregate)
    /\ \E unasked \in {{p \in Probes : State(p, "resume") = "none"}} :
         \/ /\ unasked # {}
            /\ Move("draining")
            /\ Issue(unasked, "resume", barrier, Queued(unasked))
         \/ /\ unasked = {}
            /\ MemberCommandPass("resume")
         \/ /\ AllDone("resume")
            /\ phase' = "released"
            /\ reason' = IF reason = "deadline" THEN "deadline" ELSE ""
            /\ wait' = IF reason = "deadline" THEN ReentryWait(barriers) ELSE wait
            /\ UNCHANGED <<barriers, life, setVars, rows, cool, probeVars, wireVars, gate,
                           sendVars>>

\* Mutant: a blocked barrier waits for the operator.
BlockedForever == phase = "blocked" /\ ~enabled /\ EnterDraining("disabled")

\* A block by a member's refusal is bounded by the activation deadline; any
\* other waits for the operator to disable the feature.
BlockedPass ==
    /\ phase = "blocked"
    /\ \/ ~enabled /\ EnterDraining("disabled")
       \/ /\ enabled /\ reason \in {"quiesce", "apply", "evidence"} /\ ~tuple.activated /\ life = 0
          /\ EnterDraining("deadline")

\* A set that still asks for the mode of the finished barrier starts a new one.
ReleasedPass ==
    /\ phase = "released" /\ enabled
    /\ reason = "deadline" => wait = 0
    /\ mode = desired /\ desired # "regional"
    /\ phase' = "preparing" /\ reason' = "" /\ life' = Deadline
    /\ UNCHANGED <<barriers, wait, setVars, rows, cool, probeVars, wireVars, gate, sendVars>>

----------------------------------------------------------------------------
(* The member's source gate. *)

OnWire(c) == \E i \in 1 .. Len(sent[c.probe]) : sent[c.probe][i] = c

Answered(c) == \E i \in 1 .. Len(replies[c.probe]) : replies[c.probe][i] = c

\* ClaimCommand and sendCommands: the row is sent on the member's current
\* session, which carries only commands of its own stream.  A copy of a command
\* that is still on the wire would be answered from its receipt, and is left out.
Claim(c) ==
    /\ rows[c] = "pending" /\ away[c.probe] = 0
    /\ stream[c.probe] = barriers[c.barrier].streams[c.probe]
    /\ ~OnWire(c) /\ ~Answered(c)
    /\ sent' = [sent EXCEPT ![c.probe] = Append(@, c)]
    /\ UNCHANGED <<hubVars, setVars, rows, cool, probeVars, replies, receipts, gate, sendVars>>

LiveElsewhere(p, b) == \E other \in Barriers \ {b} : gate[p][other] \in Live

\* The member still runs the exact configuration the barrier was built on.
Bound(c) == config[c.probe] = barriers[c.barrier].configs[c.probe]

\* commitDeliveryGate for quiesce: the gate row is written before the attempts
\* are counted, and a busy refusal leaves it as a marker that holds nothing.
QuiesceOutcome(c) ==
    LET g == gate[c.probe][c.barrier] IN
    CASE ~Bound(c) \/ g = "released" \/ (g = "none" /\ LiveElsewhere(c.probe, c.barrier)) -> <<"refused", g>>
      [] Bound(c) /\ g \in {"quiesced", "applied"} -> <<"done", g>>
      [] OTHER -> IF Unsettled(send[c.probe]) THEN <<"busy", "quiescing">> ELSE <<"done", "quiesced">>

ApplyOutcome(c) ==
    LET g == gate[c.probe][c.barrier] IN
    IF Bound(c) /\ g \in {"quiesced", "applied"} THEN <<"done", "applied">> ELSE <<"refused", g>>

\* releaseDeliveryGate: a resume that overtakes its quiesce leaves a released
\* tombstone; it needs no current configuration.
ResumeOutcome(c) ==
    LET g == gate[c.probe][c.barrier] IN
    IF g = "none" /\ LiveElsewhere(c.probe, c.barrier) THEN <<"refused", g>> ELSE <<"done", "released">>

Outcome(c) ==
    CASE c.kind = "quiesce" -> QuiesceOutcome(c)
      [] c.kind = "apply" -> ApplyOutcome(c)
      [] c.kind = "resume" -> ResumeOutcome(c)

Answer(p) ==
    /\ sent' = [sent EXCEPT ![p] = Tail(@)]
    /\ replies' = [replies EXCEPT ![p] = Append(@, Head(sent[p]))]

\* The member executes a command it has no receipt for, and answers; a repeated
\* one is answered from its receipt.
Execute(p) ==
    /\ sent[p] # <<>>
    /\ \E c \in {Head(sent[p])} :
         IF receipts[c] = "none"
           THEN /\ receipts' = [receipts EXCEPT ![c] = Outcome(c)[1]]
                /\ gate' = [gate EXCEPT ![p][c.barrier] = Outcome(c)[2]]
           ELSE UNCHANGED <<receipts, gate>>
    /\ Answer(p)
    /\ UNCHANGED <<hubVars, setVars, rows, cool, probeVars, sendVars>>

\* A resume that waited out its day for a member that was away is answered
\* "expired".
ExpireResume(p) ==
    /\ sent[p] # <<>>
    /\ \E c \in {Head(sent[p])} :
         /\ c.kind = "resume" /\ receipts[c] = "none" /\ c.try < MaxTries
         /\ receipts' = [receipts EXCEPT ![c] = "expired"]
    /\ Answer(p)
    /\ UNCHANGED <<hubVars, setVars, rows, cool, probeVars, gate, sendVars>>

\* CompleteCommand: only a pending row takes a result.
Complete(p) ==
    /\ replies[p] # <<>>
    /\ replies' = [replies EXCEPT ![p] = Tail(@)]
    /\ \E c \in {Head(replies[p])} :
         IF rows[c] = "pending"
           THEN /\ rows' = [rows EXCEPT ![c] = receipts[c]]
                /\ cool' = IF receipts[c] \in {"busy", "expired"}
                             THEN [cool EXCEPT ![p] = Cooldown] ELSE cool
           ELSE UNCHANGED <<rows, cool>>
    /\ UNCHANGED <<hubVars, setVars, probeVars, sent, receipts, gate, sendVars>>

----------------------------------------------------------------------------
(* Provider sends. *)

\* A member's page is granted unless its gate holds it.
StartRegional(p) ==
    /\ Outage /\ ~send[p].row /\ ~HoldActive(p)
    /\ send' = [send EXCEPT ![p] = Granted]
    /\ UNCHANGED <<hubVars, setVars, rows, cool, probeVars, wireVars, gate, aggregate>>

\* AuthorizeAggregateDelivery: an active barrier nothing drifted from, and a
\* live attested session of every member.
StartAggregate ==
    /\ phase = "active" /\ tuple.activated /\ ~Drifted
    /\ \A p \in Probes : away[p] = 0
    /\ Outage /\ ~aggregate.row
    /\ aggregate' = Granted
    /\ UNCHANGED <<hubVars, setVars, rows, cool, probeVars, wireVars, gate, send>>

\* The provider call returns and its outcome is journaled; or the outcome, or
\* the process, is lost and the row stays in flight.
ReturnRegional(p) ==
    /\ send[p].io
    /\ \E kept \in BOOLEAN :
         send' = [send EXCEPT ![p] = IF kept THEN [@ EXCEPT !.io = FALSE] ELSE NoAttempt]
    /\ UNCHANGED <<hubVars, setVars, rows, cool, probeVars, wireVars, gate, aggregate>>

ReturnAggregate ==
    /\ aggregate.io
    /\ \E kept \in BOOLEAN :
         aggregate' = IF kept THEN [aggregate EXCEPT !.io = FALSE] ELSE NoAttempt
    /\ UNCHANGED <<hubVars, setVars, rows, cool, probeVars, wireVars, gate, send>>

Older(attempt) ==
    IF attempt.row /\ attempt.age < Settle - 1 THEN [attempt EXCEPT !.age = @ + 1] ELSE NoAttempt

\* A provider call does not outlive its budget.
InBudget(attempt) == attempt.io => attempt.age < Budget

Down(n) == IF n > 0 THEN n - 1 ELSE 0

Tick ==
    /\ InBudget(aggregate) /\ \A p \in Probes : InBudget(send[p])
    /\ life' = Down(life) /\ wait' = Down(wait)
    /\ cool' = [p \in Probes |-> Down(cool[p])]
    /\ away' = [p \in Probes |-> IF away[p] \in 1 .. Grace THEN away[p] + 1 ELSE away[p]]
    /\ send' = [p \in Probes |-> Older(send[p])]
    /\ aggregate' = Older(aggregate)
    /\ UNCHANGED <<phase, reason, barriers, setVars, rows, config, acked, stream, wireVars, gate>>

----------------------------------------------------------------------------
(* The operator and the network. *)

Toggle ==
    /\ faults < MaxFaults
    /\ faults' = faults + 1
    /\ enabled' = ~enabled
    /\ UNCHANGED <<desired, set, revision, hubVars, rows, cool, probeVars, wireVars, gate, sendVars>>

ChangeSet(m) ==
    /\ revision < MaxRevision
    /\ revision' = revision + 1 /\ set' = revision' /\ desired' = m
    /\ UNCHANGED <<enabled, faults, hubVars, rows, cool, probeVars, wireVars, gate, sendVars>>

\* Another monitor of the members changes: they get a new whole configuration.
ChangeOther ==
    /\ revision < MaxRevision
    /\ revision' = revision + 1
    /\ UNCHANGED <<enabled, desired, set, faults, hubVars, rows, cool, probeVars, wireVars,
                   gate, sendVars>>

\* A member selects the published configuration.  A remote one answers later;
\* the hub's own selection is one transaction.
ApplyConfig(p) ==
    /\ config[p] # revision /\ away[p] = 0
    /\ config' = [config EXCEPT ![p] = revision]
    /\ acked' = IF p = Local THEN [acked EXCEPT ![p] = revision] ELSE acked
    /\ UNCHANGED <<stream, away, hubVars, setVars, rows, cool, wireVars, gate, sendVars>>

\* The hub records a member's acknowledgement and its preparation round.
Acknowledge(p) ==
    /\ acked[p] # config[p] /\ away[p] = 0
    /\ acked' = [acked EXCEPT ![p] = config[p]]
    /\ UNCHANGED <<config, stream, away, hubVars, setVars, rows, cool, wireVars, gate, sendVars>>

\* A session ends with whatever was on its wire: the next one has a new
\* connection generation, which the member checks.
Drop(p) ==
    /\ p \in Remote /\ away[p] = 0 /\ faults < MaxFaults
    /\ faults' = faults + 1
    /\ away' = [away EXCEPT ![p] = 1]
    /\ sent' = [sent EXCEPT ![p] = <<>>] /\ replies' = [replies EXCEPT ![p] = <<>>]
    /\ UNCHANGED <<enabled, desired, set, revision, receipts, hubVars, rows, cool, config,
                   acked, stream, gate, sendVars>>

Connect(p) ==
    /\ away[p] > 0
    /\ away' = [away EXCEPT ![p] = 0]
    /\ UNCHANGED <<hubVars, setVars, rows, cool, config, acked, stream, wireVars, gate, sendVars>>

\* The operator's stream reset of a member, carried through on both sides: the
\* hub cancels the old stream's unconfirmed commands, the edge keeps its gates
\* and its receipts, and everything has to be prepared again.
ResetStream(p) ==
    /\ Resets /\ p \in Remote /\ faults < MaxFaults
    /\ faults' = faults + 1
    /\ stream' = [stream EXCEPT ![p] = @ + 1]
    /\ config' = [config EXCEPT ![p] = 0] /\ acked' = [acked EXCEPT ![p] = 0]
    /\ away' = [away EXCEPT ![p] = Grace + 1]
    /\ sent' = [sent EXCEPT ![p] = <<>>] /\ replies' = [replies EXCEPT ![p] = <<>>]
    /\ rows' = [c \in Command |-> IF c.probe = p /\ rows[c] = "pending" THEN "canceled" ELSE rows[c]]
    /\ UNCHANGED <<enabled, desired, set, revision, receipts, hubVars, cool, gate, sendVars>>

----------------------------------------------------------------------------
Init ==
    /\ phase = "preparing" /\ reason = "" /\ barriers = <<>> /\ life = Deadline /\ wait = 0
    /\ enabled \in BOOLEAN /\ desired \in Modes /\ set = 1 /\ revision = 1 /\ faults = 0
    /\ rows = [c \in Command |-> "none"]
    /\ cool = [p \in Probes |-> 0]
    /\ config = [p \in Probes |-> 0] /\ acked = config
    /\ stream = [p \in Probes |-> 0] /\ away = [p \in Probes |-> 0]
    /\ sent = [p \in Probes |-> <<>>] /\ replies = [p \in Probes |-> <<>>]
    /\ receipts = [c \in Command |-> "none"]
    /\ gate = [p \in Probes |-> [b \in Barriers |-> "none"]]
    /\ send = [p \in Probes |-> NoAttempt] /\ aggregate = NoAttempt

ReconcileCutover ==
    \/ PreparingPass \/ DisabledPreparing \/ PreActiveDrain
    \/ QuiescingPass \/ QuiescedPass \/ ApplyingPass
    \/ ActivePass \/ DrainingPass \/ BlockedPass \/ ReleasedPass

Next ==
    \/ ReconcileCutover
    \/ \E c \in Command : Claim(c)
    \/ \E p \in Probes : Execute(p) \/ ExpireResume(p) \/ Complete(p)
    \/ \E p \in Probes : StartRegional(p) \/ ReturnRegional(p)
    \/ StartAggregate \/ ReturnAggregate
    \/ Tick \/ Toggle \/ ChangeOther
    \/ \E m \in Modes \cup {"regional"} : ChangeSet(m)
    \/ \E p \in Probes : ApplyConfig(p) \/ Acknowledge(p) \/ Drop(p) \/ Connect(p) \/ ResetStream(p)

Spec == Init /\ [][Next]_vars

\* The coordinator, the workers and the connectors run for ever, provider calls
\* return, and a member comes back after each of the finitely many faults.
Fairness ==
    /\ WF_vars(ReconcileCutover) /\ WF_vars(Tick)
    /\ WF_vars(\E c \in Command : Claim(c)) /\ WF_vars(\E p \in Probes : Execute(p) \/ Complete(p))
    /\ WF_vars(ReturnAggregate) /\ WF_vars(\E p \in Probes : ReturnRegional(p))
    /\ WF_vars(\E p \in Probes : Connect(p) \/ ApplyConfig(p) \/ Acknowledge(p))

FairSpec == Spec /\ Fairness

----------------------------------------------------------------------------
(* Properties. *)

\* The types of the state, and the limits of its counters and ages.
TypeOK ==
    /\ phase \in {"preparing", "quiescing", "quiesced", "applying", "active", "draining",
                  "released", "blocked"}
    /\ reason \in {"", "deadline", "disabled", "drift", "evidence"} \cup Kinds
    /\ barrier <= MaxBarriers
    /\ rows \in [Command -> Outcomes \cup {"none", "pending", "canceled"}]
    /\ receipts \in [Command -> Outcomes \cup {"none"}]
    /\ gate \in [Probes -> [Barriers -> Live \cup {"none", "released"}]]
    /\ \A p \in Probes : send[p].age < Settle /\ (send[p].io => send[p].row)
    /\ \A p \in Probes : {sent[p][i] : i \in 1 .. Len(sent[p])} \subseteq {c \in Command : c.probe = p}

\* No member's own page is with its provider while the hub's page for the same
\* outage is, in aggregate mode: not when the cutover starts (quiesce counts the
\* attempts after it wrote the gate), not when it ends (resume waits for the
\* hub's attempts), whatever was lost, repeated or late.
NoDoublePaging ==
    aggregate.io /\ mode = "aggregate" => \A p \in DOMAIN send : ~send[p].io

\* The hub pages for a barrier only while every member holds its gate applied.
ActiveIsApplied ==
    phase = "active" => \A p \in DOMAIN gate : gate[p][barrier] = "applied"

\* A gate that is not released belongs to the barrier in progress: a delayed
\* quiesce or apply never holds a member again after its resume, and a new
\* barrier never starts over an old hold.
LiveGateIsCurrent ==
    \A p \in DOMAIN gate : \A b \in DOMAIN gate[p] :
        gate[p][b] \in Live => b = barrier /\ phase \notin {"preparing", "released"}

\* A block is always a refusal before activation, which the deadline drains: no
\* resume is ever refused, so no hold is left for an operator to clear.
BlockedIsRecoverable ==
    phase = "blocked" => reason \in {"quiesce", "apply", "evidence"} /\ ~tuple.activated

\* A cutover never leaves two pagers for the same outage, an active barrier without
\* its gates, an old hold in force or a block nobody can end (ReconcileCutover,
\* commitDeliveryGate, AuthorizeAggregateDelivery).
CutoverIsSafe == NoDoublePaging /\ ActiveIsApplied /\ LiveGateIsCurrent /\ BlockedIsRecoverable

\* A member whose pages are held back gets them again, or the hub pages for it:
\* a barrier that cannot become active, is disabled or drifts is drained.
HoldsEnd ==
    \A p \in Probes : HoldActive(p) /\ phase # "active" ~> phase = "active" \/ ~HoldActive(p)

=============================================================================
