---------------------------- MODULE ProbeReplay ----------------------------
(***************************************************************************)
(* Replay of an edge probe's telemetry to the hub.                         *)
(*                                                                         *)
(* The edge numbers every event in the transaction that records it, keeps  *)
(* it in an outbox, and may evict it under its retention budget after      *)
(* declaring a gap (edge/record.go, edge/retention.go).  A pump sends one  *)
(* batch or gap at a time over a session, resends it on a timeout or when  *)
(* the hub invites a retry, and prunes what the hub acknowledges           *)
(* (probe/edge_replay.go, edge/replay.go).  The hub ingests each frame in  *)
(* one transaction that keeps a receipt per sequence and moves its cursor  *)
(* (repository/probe_replay.go); a current-state snapshot travels beside   *)
(* the history and may be ahead of it (repository/probe_current_state.go). *)
(*                                                                         *)
(* An event is its unique number and whether it is an observation.  The    *)
(* durable side of the edge is one record, so that a data directory        *)
(* restored from a backup is that record put back.                         *)
(***************************************************************************)
EXTENDS Naturals, Sequences, FiniteSets, FiniteSetsExt, SequencesExt

CONSTANTS
  MaxSeq,      \* bound: events one lineage of the edge creates
  MaxIds,      \* bound: events ever created, restored lineages included
  MaxFaults,   \* bound: failures of the connection or of the hub's database
  MaxQueue,    \* bound: frames on the wire in one direction
  MaxAged,     \* retentionSweepRows: rows one sweep expires by age
  BatchMax,    \* MaxBatchEvents: events in a batch
  MaxGaps,     \* maxRetainedGaps: declared gaps kept before they are merged
  RowBytes, GapBytes,  \* storage one outbox row and one gap row take
  MaxBytes,    \* the retention budget
  Reserve,     \* the tenth of it that observations leave free
  Periodic,    \* TRUE: sessions live long enough for a second snapshot
  Restores,    \* TRUE: an operator may restore an older data directory
  Unauthorized, \* events AuthorizeEvent refuses: a verdict about the event
  Ahead        \* observations ahead of the hub's clock when they are ingested,
               \* by no more than MaxFutureClockSkew: accepted all the same

ASSUME ReplayAssumption ==
  /\ {MaxSeq, MaxIds, MaxFaults, MaxQueue, BatchMax, MaxGaps} \subseteq Nat \ {0}
  /\ {MaxAged, RowBytes, GapBytes, MaxBytes, Reserve} \subseteq Nat
  /\ {Periodic, Restores} \subseteq BOOLEAN
  /\ Unauthorized \subseteq 1..MaxIds /\ Ahead \subseteq 1..MaxIds

VARIABLES
  edge,       \* durable: [made, acked, rows, gaps]
  backup,     \* an older copy of edge
  hub,        \* durable: [cursor, receipts, gaps, state, snapSeq, missing]
  edgeUp, hubUp,   \* each end's view of the session
  toHub, toEdge,   \* frames on the wire, in order
  pump,       \* the edge session's replay and state pumps
  ingestFailed,    \* the hub session's memory of a failed write
  ids,        \* events created so far
  faults,
  dropped,    \* history: events evicted before they were acknowledged
  reported    \* history: events an ACK named as refused for a reused sequence

sessionVars == <<edgeUp, hubUp, toHub, toEdge, pump, ingestFailed>>
historyVars == <<ids, faults, dropped, reported>>
vars == <<edge, backup, hub, sessionVars, historyVars>>

NoFrame == [kind |-> "none"]
NoState == [seq |-> 0, event |-> [id |-> 0, obs |-> TRUE]]

Events == [id : 1..MaxIds, obs : BOOLEAN]
Created(e) == Len(e.made)
LastObservation(e) == Max({0} \cup {s \in 1..Created(e) : e.made[s].obs})

Covers(gaps, s) == \E g \in gaps : g.from <= s /\ s <= g.through
Covered(q) == {q.made[s].id : s \in {x \in 1..Created(q) : Covers(q.gaps, x)}}

-----------------------------------------------------------------------------
(* The edge's outbox and its retention *)

telemetryStorageBytes(q) ==
  RowBytes * Cardinality(q.rows) + GapBytes * Cardinality(q.gaps)

(* Replace one row by a gap, merged with the gaps it touches; when the     *)
(* gaps grow too many, the whole span between them is declared lost.       *)
evictTelemetry(q, s) ==
  LET touching == {g \in q.gaps : g.from <= s + 1 /\ g.through + 1 >= s}
      gap  == [from    |-> Min({s} \cup {g.from : g \in touching}),
               through |-> Max({s} \cup {g.through : g \in touching})]
      gaps == (q.gaps \ touching) \cup {gap}
      span == [from    |-> Min({g.from : g \in gaps}),
               through |-> Max({g.through : g \in gaps})]
  IN IF Cardinality(gaps) <= MaxGaps
     THEN [q EXCEPT !.gaps = gaps, !.rows = @ \ {s}]
     ELSE [q EXCEPT !.gaps = {span}, !.rows = @ \ (span.from..span.through)]

(* Repetitive samples go first, then the oldest of the rest. *)
Victim(q) ==
  LET samples == {s \in q.rows : q.made[s].obs}
  IN IF samples # {} THEN Min(samples) ELSE Min(q.rows)

Budget(obs) == IF obs THEN MaxBytes - Reserve ELSE MaxBytes

Fits(q, obs, incoming) == telemetryStorageBytes(q) + incoming <= Budget(obs)

(* The rows whose observation is older than the retention age, in the      *)
(* order of observation.  That is the order of the sequence only while     *)
(* the edge's clock is steady, so any rows may have expired, in any order. *)
Expired(q) == {old \in BoundedSeq(q.rows, MaxAged) : IsInjective(old)}

(* One eviction of retainTelemetry, the n-th: the expired rows, then one   *)
(* victim after the other until the incoming row fits or none is left.     *)
RetainStep(q, n, obs, incoming, old) ==
  IF n <= Len(old) THEN evictTelemetry(q, old[n])
  ELSE IF q.rows = {} \/ Fits(q, obs, incoming) THEN q
  ELSE evictTelemetry(q, Victim(q))

retainTelemetry(q, obs, incoming, old) ==
  LET after[n \in 0..(Len(old) + MaxSeq)] ==
        IF n = 0 THEN q ELSE RetainStep(after[n - 1], n, obs, incoming, old)
  IN after[Len(old) + MaxSeq]

(* Append one event; the row exists from here on, so a later append of the *)
(* same transaction may evict it.                                          *)
appendTelemetry(q, event, old) ==
  LET p == retainTelemetry(q, event.obs, RowBytes, old)
  IN [p EXCEPT !.made = Append(@, event), !.rows = @ \cup {Created(q) + 1}]

QueueFull(q, event, old) ==
  ~ Fits(retainTelemetry(q, event.obs, RowBytes, old), event.obs, RowBytes)

(* CommitEdgeCheck: an observation and, when the incident changes, its         *)
(* transition, numbered one after the other in one transaction.  A full    *)
(* queue rolls the whole of it back.                                       *)
CommitEdgeCheck ==
  \E transition \in BOOLEAN, old \in Expired(edge) :
    LET o == [id |-> ids + 1, obs |-> TRUE]
        t == [id |-> ids + 2, obs |-> FALSE]
        first  == appendTelemetry(edge, o, old)
        second == IF transition THEN appendTelemetry(first, t, <<>>) ELSE first
    IN /\ Created(second) <= MaxSeq /\ second.made[Len(second.made)].id <= MaxIds
       /\ ~ QueueFull(edge, o, old)
       /\ transition => ~ QueueFull(first, t, <<>>)
       /\ edge' = second
       /\ ids' = second.made[Len(second.made)].id
       /\ dropped' = dropped \cup Covered(second)
       /\ UNCHANGED <<backup, hub, sessionVars, faults, reported>>

(* Watchdog transitions and provider outcomes are single critical events.  *)
RecordOutcome ==
  \E old \in Expired(edge) :
    LET t == [id |-> ids + 1, obs |-> FALSE]
    IN /\ Created(edge) < MaxSeq /\ ids < MaxIds
       /\ ~ QueueFull(edge, t, old)
       /\ edge' = appendTelemetry(edge, t, old)
       /\ ids' = ids + 1
       /\ dropped' = dropped \cup Covered(edge')
       /\ UNCHANGED <<backup, hub, sessionVars, faults, reported>>

(* SweepRetention expires rows while the probe is idle and keeps what it   *)
(* evicted even when the budget is still exceeded.                         *)
SweepRetention ==
  \E old \in Expired(edge) \ {<<>>} :
    /\ edge' = retainTelemetry(edge, FALSE, 0, old)
    /\ dropped' = dropped \cup Covered(edge')
    /\ UNCHANGED <<backup, hub, sessionVars, ids, faults, reported>>

-----------------------------------------------------------------------------
(* Sessions *)

FreshPump == [ready |-> FALSE, pending |-> TRUE, snap |-> "due",
              inflight |-> NoFrame, sent |-> FALSE, retry |-> FALSE,
              completed |-> NoFrame]

EdgeClosed == edgeUp' = FALSE /\ toEdge' = <<>> /\ pump' = FreshPump

(* One connector generation: the hub sends the cursor it read.  It refuses *)
(* a source that created less than that cursor, the source refuses a hub   *)
(* whose cursor precedes its own.  A session the edge still held closes.   *)
Connect ==
  /\ ~ hubUp
  /\ hub.cursor <= Created(edge)
  /\ hub.cursor >= edge.acked
  /\ edgeUp' = TRUE /\ hubUp' = TRUE
  /\ toHub' = <<>> /\ toEdge' = <<>>
  /\ pump' = FreshPump
  /\ ingestFailed' = FALSE
  /\ UNCHANGED <<edge, backup, hub, historyVars>>

(* Either end may lose the connection first; frames already on the wire    *)
(* towards the other end may still be handled there.                       *)
EdgeLoses ==
  /\ edgeUp
  /\ \/ ~ hubUp /\ UNCHANGED faults
     \/ hubUp /\ faults < MaxFaults /\ faults' = faults + 1
  /\ EdgeClosed
  /\ UNCHANGED <<edge, backup, hub, hubUp, toHub, ingestFailed, ids, dropped, reported>>

HubLoses ==
  /\ hubUp
  /\ \/ ~ edgeUp /\ UNCHANGED faults
     \/ edgeUp /\ faults < MaxFaults /\ faults' = faults + 1
  /\ hubUp' = FALSE /\ toHub' = <<>>
  /\ UNCHANGED <<edge, backup, hub, edgeUp, toEdge, pump, ingestFailed, ids, dropped, reported>>

(* A health frame of the hub: ready unless its last write failed. *)
HubHealth ==
  /\ edgeUp /\ hubUp
  /\ pump' = [pump EXCEPT !.ready = ~ ingestFailed]
  /\ pump' # pump
  /\ UNCHANGED <<edge, backup, hub, edgeUp, hubUp, toHub, toEdge, ingestFailed, historyVars>>

-----------------------------------------------------------------------------
(* The edge's pumps *)

(* A gap frame starts at the cursor and carries no event. *)
buildReplayGapFrame(q, g) ==
  [kind |-> "gap", first |-> q.acked + 1, last |-> g.through, events |-> <<>>]

(* ReadReplayBatch: a declared gap at the cursor travels alone; otherwise  *)
(* the contiguous rows before the next gap.  {} is a queue with nothing    *)
(* to send.                                                                *)
ReadReplayBatch(q) ==
  LET from == q.acked + 1
      here == {g \in q.gaps : g.from <= from /\ from <= g.through}
      runs == {n \in from..Min({Created(q), q.acked + BatchMax}) :
                 from..n \subseteq q.rows}
  IN IF from > Created(q) THEN {}
     ELSE IF here # {}
     THEN {buildReplayGapFrame(q, g) : g \in here}
     ELSE {[kind |-> "batch", first |-> from, last |-> n,
            events |-> SubSeq(q.made, from, n)] : n \in {Max({q.acked} \cup runs)} \ {q.acked}}

(* A queue whose next sequence is neither stored nor declared lost cannot  *)
(* be read: the pump fails and the session closes.                         *)
MissingSequence(q) == Created(q) > q.acked /\ ReadReplayBatch(q) = {}

PumpRead ==
  /\ edgeUp /\ pump.ready /\ ~ pump.pending /\ pump.inflight = NoFrame
  /\ pump' \in IF MissingSequence(edge) THEN {FreshPump}
               ELSE {[pump EXCEPT !.inflight = frame, !.sent = FALSE, !.retry = FALSE] :
                       frame \in ReadReplayBatch(edge)}
  /\ edgeUp' = ~ MissingSequence(edge)
  /\ toEdge' = IF MissingSequence(edge) THEN <<>> ELSE toEdge
  /\ UNCHANGED <<edge, backup, hub, hubUp, toHub, ingestFailed, historyVars>>

(* Mutant: an invited retry waits for the hub to report ready. *)
CanSendReadyOnly == ~ pump.pending /\ pump.ready

CanSend == ~ pump.pending /\ (pump.ready \/ pump.retry)

(* The first send, a resend after the ACK timeout, or an invited retry.    *)
PumpSend ==
  /\ edgeUp /\ pump.inflight # NoFrame /\ CanSend
  /\ Len(toHub) < MaxQueue
  /\ toHub' = IF hubUp THEN Append(toHub, pump.inflight) ELSE toHub
  /\ pump' = [pump EXCEPT !.sent = TRUE]
  /\ UNCHANGED <<edge, backup, hub, edgeUp, hubUp, toEdge, ingestFailed, historyVars>>

(* CommitReplayACK: the acknowledged range must be accounted for, row by   *)
(* row or by gaps; it is pruned and a gap reaching past it is trimmed.     *)
ACKAccounted(q, last) ==
  /\ last >= q.acked /\ last <= Created(q)
  /\ \A s \in (q.acked + 1)..last : s \in q.rows \/ Covers(q.gaps, s)

TrimGaps(q, last) ==
  {[g EXCEPT !.from = Max({@, last + 1})] : g \in {h \in q.gaps : h.through > last}}

CommitReplayACK(q, last) ==
  [q EXCEPT !.acked = last,
            !.rows = {s \in @ : s > last},
            !.gaps = TrimGaps(q, last)]

Outcome(ack) == [last |-> ack.last, count |-> ack.count, rejected |-> ack.rejected]

(* Mutant: the completed batch is not remembered. *)
ProvenDuplicateNever(ack) == ack.last = 0

(* isProvenDuplicateACK: the same outcome as the batch completed last. *)
ProvenDuplicate(ack) == pump.completed # NoFrame /\ Outcome(ack) = pump.completed

Answers(ack) == pump.inflight # NoFrame /\ ack.last = pump.inflight.last

Commits(ack) ==
  /\ Answers(ack) /\ pump.sent
  /\ ack.count = Len(pump.inflight.events)
  /\ \A r \in ack.rejected : r.seq >= pump.inflight.first /\ r.seq <= pump.inflight.last
  /\ ACKAccounted(edge, ack.last)

Ignores(ack) == ~ Answers(ack) /\ ProvenDuplicate(ack)

(* processEvent on an ACK: commit it, ignore a proven duplicate, or close  *)
(* the session.                                                            *)
PumpACK ==
  /\ edgeUp /\ toEdge # <<>> /\ Head(toEdge).kind = "ack"
  /\ LET ack == Head(toEdge)
         reused == {r.seq : r \in {x \in ack.rejected : x.code = "reused"}}
     IN /\ edge' = IF Commits(ack) THEN CommitReplayACK(edge, ack.last) ELSE edge
        /\ reported' = IF Commits(ack) THEN reported \cup {edge.made[s].id : s \in reused}
                       ELSE reported
        /\ pump' = IF Commits(ack)
                   THEN [pump EXCEPT !.completed = Outcome(ack), !.inflight = NoFrame,
                                     !.sent = FALSE, !.retry = FALSE]
                   ELSE IF Ignores(ack) THEN pump ELSE FreshPump
        /\ edgeUp' = (Commits(ack) \/ Ignores(ack))
        /\ toEdge' = IF edgeUp' THEN Tail(toEdge) ELSE <<>>
  /\ UNCHANGED <<backup, hub, hubUp, toHub, ingestFailed, ids, faults, dropped>>

(* processEvent on a retry: only for a batch that was sent, at a cursor    *)
(* inside it.                                                              *)
PumpRetry ==
  /\ edgeUp /\ toEdge # <<>> /\ Head(toEdge).kind = "retry"
  /\ LET cursor == Head(toEdge).cursor
         valid  == /\ pump.inflight # NoFrame /\ pump.sent
                   /\ cursor + 1 >= pump.inflight.first /\ cursor <= pump.inflight.last
     IN \/ /\ valid
           /\ pump' = [pump EXCEPT !.retry = TRUE]
           /\ toEdge' = Tail(toEdge)
           /\ UNCHANGED edgeUp
        \/ ~ valid /\ EdgeClosed
  /\ UNCHANGED <<edge, backup, hub, hubUp, toHub, ingestFailed, historyVars>>

(* The state pump: one complete snapshot per session before any replay,    *)
(* then one every interval.  A repetition of the snapshot applied last     *)
(* changes nothing and is left out.                                        *)
SendSnapshot ==
  /\ edgeUp /\ pump.ready /\ pump.snap = "due" /\ Len(toHub) < MaxQueue
  /\ LET s == LastObservation(edge)
         state == IF s = 0 THEN NoState ELSE [seq |-> s, event |-> edge.made[s]]
         frame == [kind |-> "state", state |-> state, created |-> Created(edge)]
     IN toHub' = IF hubUp THEN Append(toHub, frame) ELSE toHub
  /\ pump' = [pump EXCEPT !.snap = "sent"]
  /\ UNCHANGED <<edge, backup, hub, edgeUp, hubUp, toEdge, ingestFailed, historyVars>>

SnapshotApplied ==
  /\ edgeUp /\ toEdge # <<>> /\ Head(toEdge).kind = "applied"
  /\ toEdge' = Tail(toEdge)
  /\ pump' = [pump EXCEPT !.snap = "idle", !.pending = FALSE]
  /\ UNCHANGED <<edge, backup, hub, edgeUp, hubUp, toHub, ingestFailed, historyVars>>

SnapshotInterval ==
  /\ Periodic /\ edgeUp /\ pump.snap = "idle" /\ Created(edge) # hub.snapSeq
  /\ pump' = [pump EXCEPT !.snap = "due"]
  /\ UNCHANGED <<edge, backup, hub, edgeUp, hubUp, toHub, toEdge, ingestFailed, historyVars>>

-----------------------------------------------------------------------------
(* The hub *)

EventAt(f, s) == f.events[s - f.first + 1]

(* Mutant: an observation ahead of the clock ends the batch's update. *)
ShownIfNoneAhead(f, accepted) ==
  {s \in accepted : EventAt(f, s).obs /\ \A t \in accepted : EventAt(f, t).id \notin Ahead}

(* The observations that may change the live state: one that is after the  *)
(* hub's now is kept as history only.                                      *)
Shown(f, accepted) ==
  {s \in accepted : EventAt(f, s).obs /\ EventAt(f, s).id \notin Ahead}

(* updateCurrentProbeState for replayed observations: the source sequence  *)
(* is the ordering clock, against the current row and the marker a         *)
(* snapshot without a state leaves.                                        *)
updateReplayState(h, f, accepted) ==
  LET newer == {s \in Shown(f, accepted) : s > h.state.seq /\ s > h.missing}
  IN IF newer = {} THEN h
     ELSE [h EXCEPT !.state = [seq |-> Max(newer), event |-> EventAt(f, Max(newer))],
                    !.missing = 0]

Sequences(f) == IF f.kind = "gap" THEN {} ELSE f.first..f.last

Fresh(h, f) == {s \in Sequences(f) : s > h.cursor}

(* The batch cannot be reconciled: it skips past the cursor, or repeats a  *)
(* committed sequence the hub has neither a receipt nor a gap for.         *)
Unreconciled(h, f) ==
  \/ f.first > h.cursor + 1
  \/ \E s \in Sequences(f) \ Fresh(h, f) :
       s \notin DOMAIN h.receipts /\ ~ Covers(h.gaps, s)

AuthorizeEvent(e) == e.id \notin Unauthorized

(* Committed evidence is never declared lost again. *)
recordReplayGap(h, f) ==
  IF f.kind = "gap" /\ f.last > h.cursor
  THEN h.gaps \cup {[from |-> Max({f.first, h.cursor + 1}), through |-> f.last]}
  ELSE h.gaps

(* IngestReplayBatch: receipts for the new events, the authorizer's        *)
(* verdict in each; a gap for what is declared lost; the cursor moves to   *)
(* the end of the frame, never back.                                       *)
IngestReplayBatch(h, f) ==
  LET fresh == Fresh(h, f)
      refused == {s \in fresh : ~ AuthorizeEvent(EventAt(f, s))}
      receipts == [s \in DOMAIN h.receipts \cup fresh |->
                     IF s \in fresh
                     THEN [event |-> EventAt(f, s), refused |-> s \in refused]
                     ELSE h.receipts[s]]
      settled == [h EXCEPT !.receipts = receipts,
                           !.gaps = recordReplayGap(h, f),
                           !.cursor = Max({@, f.last})]
  IN updateReplayState(settled, f, fresh \ refused)

(* The outcome of every event of the batch.  A committed sequence answers  *)
(* from its receipt: reused when the receipt is another event's.           *)
Rejections(h, f) ==
  {[seq |-> s, code |-> "refused"] :
     s \in {x \in Fresh(h, f) : ~ AuthorizeEvent(EventAt(f, x))}} \cup
  {[seq |-> s, code |->
      IF s \notin DOMAIN h.receipts THEN "history_gap"
      ELSE IF h.receipts[s].event # EventAt(f, s) THEN "reused" ELSE "refused"] :
     s \in {x \in Sequences(f) \ Fresh(h, f) :
              x \in DOMAIN h.receipts =>
                h.receipts[x].event # EventAt(f, x) \/ h.receipts[x].refused}}

Reply(frame) == toEdge' = IF edgeUp THEN Append(toEdge, frame) ELSE toEdge

HubIngest ==
  /\ hubUp /\ toHub # <<>> /\ Head(toHub).kind \in {"batch", "gap"}
  /\ Len(toEdge) < MaxQueue
  /\ LET f == Head(toHub)
         ack == [kind |-> "ack", last |-> f.last, count |-> Len(f.events),
                 rejected |-> Rejections(hub, f)]
     IN /\ hub' = IF Unreconciled(hub, f) THEN hub ELSE IngestReplayBatch(hub, f)
        /\ hubUp' = ~ Unreconciled(hub, f)
        /\ toHub' = IF hubUp' THEN Tail(toHub) ELSE <<>>
        /\ toEdge' = IF hubUp' /\ edgeUp THEN Append(toEdge, ack) ELSE toEdge
        /\ ingestFailed' = Unreconciled(hub, f)
  /\ UNCHANGED <<edge, backup, edgeUp, pump, historyVars>>

(* Mutant: the failed write is acknowledged. *)
RetryReplyACK(h, f) ==
  [kind |-> "ack", last |-> f.last, count |-> Len(f.events), rejected |-> Rejections(h, f)]

RetryReply(h, f) == [kind |-> "retry", cursor |-> Min({h.cursor, f.last})]

(* The write fails, or commits while its answer is lost.  The cursor is    *)
(* read again and a retry invited at it, never an ACK.                     *)
HubIngestFails ==
  /\ hubUp /\ toHub # <<>> /\ Head(toHub).kind \in {"batch", "gap"}
  /\ faults < MaxFaults /\ faults' = faults + 1
  /\ Len(toEdge) < MaxQueue
  /\ LET f == Head(toHub)
     IN /\ ~ Unreconciled(hub, f)
        /\ UNCHANGED hub \/ hub' = IngestReplayBatch(hub, f)
        /\ Reply(RetryReply(hub', f))
  /\ ingestFailed' = TRUE
  /\ toHub' = Tail(toHub)
  /\ UNCHANGED <<edge, backup, edgeUp, hubUp, pump, ids, dropped, reported>>

(* ApplyCurrentSnapshot: never older than the snapshot applied last; the   *)
(* same sequence must be the same observation; a monitor without a state   *)
(* leaves a marker instead of a row.                                       *)
SnapshotConflict(h, f) ==
  \/ f.created < h.snapSeq
  \/ f.state.seq # 0 /\ f.state.seq > h.missing
       /\ f.state.seq = h.state.seq /\ f.state.event # h.state.event

Outdated(h, f) == h.missing >= f.state.seq \/ h.state.seq > f.state.seq

ApplyCurrentSnapshot(h, f) ==
  LET kept == [h EXCEPT !.snapSeq = f.created]
  IN IF f.state.seq = 0
     THEN IF h.state.seq > f.created \/ h.missing > f.created THEN kept
          ELSE [kept EXCEPT !.state = NoState, !.missing = f.created]
     ELSE IF Outdated(h, f) THEN kept
     ELSE [kept EXCEPT !.state = f.state, !.missing = 0]

(* A state that is after the hub's now leaves the row as it is; only the   *)
(* snapshot's receipt is written.                                          *)
SnapshotAhead(h, f) ==
  IF f.created >= h.snapSeq /\ f.state.seq # 0 THEN {[h EXCEPT !.snapSeq = f.created]} ELSE {}

(* How far the edge's clock runs ahead of the hub's when a snapshot        *)
(* arrives is not known, so any state may be ahead.                        *)
HubSnapshot ==
  /\ hubUp /\ toHub # <<>> /\ Head(toHub).kind = "state"
  /\ Len(toEdge) < MaxQueue
  /\ LET f == Head(toHub)
     IN \/ /\ ~ SnapshotConflict(hub, f)
           /\ hub' = ApplyCurrentSnapshot(hub, f)
           /\ Reply([kind |-> "applied"])
           /\ toHub' = Tail(toHub) /\ UNCHANGED hubUp
        \/ /\ hub' \in SnapshotAhead(hub, f)
           /\ Reply([kind |-> "applied"])
           /\ toHub' = Tail(toHub) /\ UNCHANGED hubUp
        \/ /\ SnapshotConflict(hub, f)
           /\ hubUp' = FALSE /\ toHub' = <<>>
           /\ UNCHANGED <<hub, toEdge>>
  /\ UNCHANGED <<edge, backup, edgeUp, pump, ingestFailed, historyVars>>

-----------------------------------------------------------------------------
(* The operator copies the data directory, and may put the copy back.      *)
TakeBackup ==
  /\ Restores /\ backup # edge /\ faults < MaxFaults
  /\ backup' = edge
  /\ UNCHANGED <<edge, hub, sessionVars, historyVars>>

RestoreBackup ==
  /\ Restores /\ backup # edge /\ faults < MaxFaults
  /\ edge' = backup
  /\ faults' = faults + 1
  /\ EdgeClosed
  /\ UNCHANGED <<backup, hub, hubUp, toHub, ingestFailed, ids, dropped, reported>>

Init ==
  /\ edge = [made |-> <<>>, acked |-> 0, rows |-> {}, gaps |-> {}]
  /\ backup = edge
  /\ hub = [cursor |-> 0, receipts |-> [s \in {} |-> NoFrame], gaps |-> {},
            state |-> NoState, snapSeq |-> 0, missing |-> 0]
  /\ edgeUp = FALSE /\ hubUp = FALSE
  /\ toHub = <<>> /\ toEdge = <<>>
  /\ pump = FreshPump
  /\ ingestFailed = FALSE
  /\ ids = 0 /\ faults = 0 /\ dropped = {} /\ reported = {}

EdgeNext ==
  \/ CommitEdgeCheck \/ RecordOutcome \/ SweepRetention
  \/ PumpRead \/ PumpSend \/ PumpACK \/ PumpRetry
  \/ SendSnapshot \/ SnapshotApplied \/ SnapshotInterval

HubNext == HubIngest \/ HubIngestFails \/ HubSnapshot

Next ==
  \/ EdgeNext \/ HubNext
  \/ Connect \/ EdgeLoses \/ HubLoses \/ HubHealth
  \/ TakeBackup \/ RestoreBackup

Spec == Init /\ [][Next]_vars

(* The connector reconnects, health frames are periodic, both ends keep    *)
(* reading, and the pumps' timers always fire again.                       *)
Fairness ==
  /\ WF_vars(Connect) /\ WF_vars(EdgeLoses) /\ WF_vars(HubLoses) /\ WF_vars(HubHealth)
  /\ WF_vars(PumpRead) /\ WF_vars(PumpSend) /\ WF_vars(PumpACK) /\ WF_vars(PumpRetry)
  /\ WF_vars(SendSnapshot) /\ WF_vars(SnapshotApplied)
  /\ WF_vars(HubIngest) /\ WF_vars(HubSnapshot)

LiveSpec == Spec /\ Fairness

-----------------------------------------------------------------------------
(* Properties *)

Gaps == {g \in [from : 1..MaxSeq, through : 1..MaxSeq] : g.from <= g.through}

(* Type invariant of the two stores and the pumps.                         *)
TypeOK ==
  /\ edge.made \in Seq(Events) /\ Len(edge.made) <= MaxSeq
  /\ edge.acked \in 0..Len(edge.made)
  /\ edge.rows \subseteq 1..Len(edge.made) /\ edge.gaps \subseteq Gaps
  /\ hub.cursor \in 0..MaxSeq /\ hub.gaps \subseteq Gaps
  /\ hub.state.seq \in 0..MaxSeq /\ hub.snapSeq \in 0..MaxSeq /\ hub.missing \in 0..MaxSeq
  /\ DOMAIN hub.receipts \subseteq 1..MaxSeq
  /\ pump.inflight # NoFrame => pump.inflight.kind \in {"batch", "gap"}
  /\ {edgeUp, hubUp, ingestFailed} \subseteq BOOLEAN
  /\ ids \in 0..MaxIds /\ faults \in 0..MaxFaults

(* Whatever mixture of eviction, gap merging, span collapse and partial    *)
(* acknowledgement came before, every sequence the edge still owes is      *)
(* either a row or inside exactly one gap, so neither ReadReplayBatch nor  *)
(* CommitReplayACK ever meets a missing sequence and wedges the stream     *)
(* (edge/replay.go "missing telemetry sequence").                          *)
QueueAccounted ==
  \A s \in 1..MaxSeq :
    LET covering == {g \in edge.gaps : g.from <= s /\ s <= g.through}
    IN IF s \in (edge.acked + 1)..Created(edge)
       THEN IF s \in edge.rows THEN covering = {} ELSE Cardinality(covering) = 1
       ELSE s \notin edge.rows /\ covering = {}

(* The hub settles every sequence up to its cursor exactly once: a receipt *)
(* or a declared gap, never both, and nothing beyond the cursor, although  *)
(* frames repeat, overlap after a reconnect and race an ambiguous commit.  *)
HubSettledOnce ==
  \A s \in 1..MaxSeq :
    LET covering == {g \in hub.gaps : g.from <= s /\ s <= g.through}
    IN IF s <= hub.cursor
       THEN IF s \in DOMAIN hub.receipts THEN covering = {} ELSE Cardinality(covering) = 1
       ELSE s \notin DOMAIN hub.receipts /\ covering = {}

(* What the edge pruned is never silently gone: the hub holds a receipt of *)
(* that very event, or declared the sequence lost, or told the edge that   *)
(* the sequence was already another event's (a restored data directory).   *)
(* Only what a restored edge evicted itself, at a sequence the hub already *)
(* settled, is known to the edge alone.                                    *)
NoSilentLoss ==
  \A s \in 1..edge.acked :
    \/ s \in DOMAIN hub.receipts /\ hub.receipts[s].event = edge.made[s]
    \/ Covers(hub.gaps, s)
    \/ edge.made[s].id \in reported
    \/ s \in DOMAIN hub.receipts /\ edge.made[s].id \in dropped

(* Replay is never refused: however frames, ACKs and retries interleave    *)
(* with timeouts, evictions and restored copies, the hub can reconcile     *)
(* every batch and gap on the wire, and an ACK is the answer to the batch  *)
(* in flight or a proven repetition of the last one.  Such a refusal would *)
(* repeat on every reconnect.  State frames and retry invitations are not  *)
(* part of it: a snapshot older than the one applied last (ErrConflict)    *)
(* and a retry that arrives when nothing is in flight (edge_replay.go) do  *)
(* end the session, and the next one begins afresh.                        *)
ReplayNeverRefused ==
  /\ \A i \in DOMAIN toHub : toHub[i].kind # "state" => ~ Unreconciled(hub, toHub[i])
  /\ edgeUp /\ toEdge # <<>> /\ Head(toEdge).kind = "ack" =>
       Commits(Head(toEdge)) \/ Ignores(Head(toEdge))

(* The hub's current state of the monitor is at least as new as every      *)
(* observation it accepted that was not ahead of its clock, though         *)
(* snapshots overtake replay and replay repeats what a snapshot already    *)
(* showed; and the row is that event.                                      *)
StateFollowsHistory ==
  /\ \A s \in DOMAIN hub.receipts :
       LET x == hub.receipts[s]
       IN x.event.obs /\ ~ x.refused /\ x.event.id \notin Ahead =>
            s <= Max({hub.state.seq, hub.missing})
  /\ hub.state.seq \in DOMAIN hub.receipts =>
       hub.receipts[hub.state.seq].event = hub.state.event

(* So it is as long as every event the edge ever numbered is still in its  *)
(* data directory: no restored copy has taken one back                     *)
(* (probe_current_state.go, edge/replay.go).                               *)
SteadyStateFollowsHistory == ids = Created(edge) => StateFollowsHistory

(* What became of each sequence the hub has settled. *)
Fates ==
  [s \in 1..hub.cursor |->
     IF s \notin DOMAIN hub.receipts THEN "lost"
     ELSE IF hub.receipts[s].refused THEN "refused" ELSE "stored"]

(* No event is unaccounted for, at the edge, at the hub or between them    *)
(* (edge/replay.go, edge/retention.go, probe_replay.go).                   *)
EveryEventAccounted == QueueAccounted /\ HubSettledOnce /\ NoSilentLoss
=============================================================================
