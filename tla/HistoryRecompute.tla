-------------------------- MODULE HistoryRecompute --------------------------
(***************************************************************************)
(* The durable queue that turns regional evidence into history             *)
(* (repository/probe_history.go, probe_history_range.go, history_clear.go  *)
(* and services/probe_history_service.go, overall_history.go) for one      *)
(* monitor. Evidence arrives late, out of clock order or as declared loss; *)
(* each commit marks only the buckets of its own minute dirty, and the     *)
(* workers must still bring every rollup a sample reaches up to date.      *)
(*                                                                         *)
(* A worker reads a snapshot and publishes under a locked check of the     *)
(* marker's revision (MariaDB); SQLite's serial transactions are the       *)
(* behaviours in which nothing happens between the two.                    *)
(***************************************************************************)
EXTENDS OverallHealth, FiniteSetsExt, Functions

CONSTANTS Probes,           \* the assigned probes
          Workers,          \* hub processes that run probeHistoryLoop
          TicksPerMinute, MinutesPerHour, HoursPerDay,
          Days,             \* bound: days that are modelled
          MaxEvents,        \* bound: events of a probe's stream
          MaxGapEvents,     \* bound: events a declared gap swallows
          MaxClears,        \* bound: ClearMonitorHistory calls
          ClockMayStepBack  \* a probe's clock may go back between two events

ASSUME HistoryAssumption ==
    /\ IsFiniteSet(Probes) /\ IsFiniteSet(Workers)
    /\ {TicksPerMinute, MinutesPerHour, HoursPerDay, Days} \subseteq Nat \ {0}
    /\ {MaxEvents, MaxGapEvents, MaxClears} \subseteq Nat
    /\ ClockMayStepBack \in BOOLEAN

Width == [m |-> 1, h |-> MinutesPerHour, d |-> MinutesPerHour * HoursPerDay, o |-> 1]
LastMinute == Width.d * Days - 1
Minutes    == 0 .. LastMinute
Ticks      == 0 .. (LastMinute + 1) * TicksPerMinute - 1
Minute(t)  == t \div TicksPerMinute

\* A dirty-bucket key: resolution, probe and first minute. "o" is the overall
\* minute, whose probe is always LocalProbeID.
Local == "local"
Key(res, p, minute) == <<res, IF res = "o" THEN Local ELSE p,
                         (minute \div Width[res]) * Width[res]>>
Keys == {Key(res, p, minute) : res \in DOMAIN Width, p \in Probes, minute \in Minutes}
MinutesOf(k) == k[3] .. k[3] + Width[k[1]] - 1
TicksOf(k)   == k[3] * TicksPerMinute .. (k[3] + Width[k[1]]) * TicksPerMinute - 1

VARIABLES
    now,      \* the hub's clock, in whole minutes
    obs,      \* probe_observations
    streamSeq,  \* committed cursor of each probe's stream
    gaps,     \* probe_telemetry_gaps
    ranges,   \* probe_history_ranges: backward-clock repair of each probe
    dirty,    \* probe_dirty_buckets: revision of each key, 0 when there is no row
    rows,     \* heartbeat_1m/1h/1d and monitor_health_history by key
    worker,   \* what each worker holds
    fence,    \* history_clear_watermarks: the bounds of the last clear
    clears

historyVars == <<now, obs, streamSeq, gaps, ranges, dirty, rows, worker, fence, clears>>

Observations == [probe : Probes, seq : 1 .. MaxEvents, at : Ticks, status : {"UP", "DOWN"}]
NoRange == [cursor |-> -1, through |-> -1]
NoRollup   == {}            \* a row that exists is {its value}
NoWindow    == [pc |-> "idle"]

RollupOf(row) == CHOOSE value \in row : TRUE

\* The statuses of a rollup's ticks, and the samples it counts.
Durations(S, status) == [s \in {"UP", "DOWN", "UNKNOWN"} |-> Cardinality({t \in S : status[t] = s})]

---------------------------------------------------------------------------
(* What evidence means.                                                    *)

\* Within a stream the sequence decides, whatever the probe's clock said.
laterHistoricalEvidence(s, other) == s.seq >= other.seq

observationHiddenByGap(s, at) ==
    \E g \in gaps : g.probe = s.probe /\ at >= g.at /\ s.seq <= g.throughSeq

\* The status of probe p at tick t, from the samples E.
StatusAt(p, E, t) ==
    LET seen == {s \in E : s.probe = p /\ s.at <= t}
    IN  IF seen = {} THEN "UNKNOWN"
        ELSE LET s == CHOOSE s \in seen : \A other \in seen : laterHistoricalEvidence(s, other)
             IN  IF FreshAt(s.at, t) /\ ~observationHiddenByGap(s, t) THEN s.status ELSE "UNKNOWN"

\* readHistoryEvidenceWindow: the samples of the window and of the freshness
\* before it, and each stream's highest sequence older than that.
Evidence(k) ==
    LET from == k[3] * TicksPerMinute
        old(p) == {s \in obs : s.probe = p /\ s.at < from - FreshFor}
    IN  {s \in obs : s.at >= from - FreshFor /\ s.at < from + TicksPerMinute}
          \cup UNION {{s \in old(p) : \A other \in old(p) : s.seq >= other.seq} : p \in Probes}

\* mergeHistoryChildren: the parent starts as all UNKNOWN, and each committed
\* child replaces its share.
MergeChildren(k, child) ==
    LET have     == {c \in DOMAIN child : child[c] # NoRollup}
        known(s) == SumFunctionOnSet([c \in have |-> RollupOf(child[c]).time[s]], have)
    IN  [time   |-> [s \in {"UP", "DOWN", "UNKNOWN"} |->
                        IF s # "UNKNOWN" THEN known(s)
                        ELSE Cardinality(TicksOf(k)) - known("UP") - known("DOWN")],
         checks |-> SumFunctionOnSet([c \in have |-> RollupOf(child[c]).checks], have)]

ChildKeys(k) ==
    LET res == IF k[1] = "h" THEN "m" ELSE "h"
    IN  {Key(res, k[2], m) : m \in MinutesOf(k)}

\* ProjectHistory of one bucket from what the transaction's snapshot holds.
ProjectHistory(k) ==
    IF k[1] \in {"h", "d"} THEN MergeChildren(k, [c \in ChildKeys(k) |-> rows[c]])
    ELSE LET E == Evidence(k)
         IN  IF k[1] = "o"
             THEN [t \in TicksOf(k) |-> EvaluateMonitorHealth(Policy, [p \in Probes |-> StatusAt(p, E, t)])]
             ELSE [time   |-> Durations(TicksOf(k), [t \in TicksOf(k) |-> StatusAt(k[2], E, t)]),
                   checks |-> Cardinality({s \in E : s.probe = k[2] /\ s.at \in TicksOf(k)})]

---------------------------------------------------------------------------
(* Marking work.                                                           *)

\* A fresh random revision: one that no worker holds.
NewRevision(k) ==
    CHOOSE r \in 1 .. Cardinality(Workers) + 1 :
        \A w \in Workers : worker[w].pc = "read" /\ worker[w].key = k => worker[w].rev # r

\* DirtyBucketsForObservation: the four buckets of the minute. Buckets beyond
\* the modelled days never close, and are left out.
DirtyBuckets(p, minute) == IF minute \in Minutes THEN {Key(res, p, minute) : res \in DOMAIN Width} ELSE {}

Marked(d, K) == [k \in Keys |-> IF k \in K THEN NewRevision(k) ELSE d[k]]

\* Mutant of RepairRange: only the new sample's own minute is repaired.
NoRepair(p, seq, at) == NoRange

\* What a sample behind its predecessors' clock invalidates.
RepairRange(p, seq, at) ==
    LET ahead == {s \in obs : s.probe = p /\ s.seq < seq /\ s.at > at}
    IN  IF ahead = {} THEN NoRange
        ELSE [cursor |-> Minute(at), through |-> Max({s.at : s \in ahead})]

\* The upsert of probe_history_ranges.
MergeRange(old, new) ==
    IF new = NoRange THEN old
    ELSE IF old = NoRange THEN new
    ELSE [cursor |-> Min({old.cursor, new.cursor}), through |-> Max({old.through, new.through})]

\* A source clock reads some tick up to the hub's, and unless it steps back
\* none before its last event.
SourceTime(p) ==
    {t \in Ticks :
        /\ t < (now + 1) * TicksPerMinute
        /\ \/ ClockMayStepBack
           \/ /\ \A s \in obs : s.probe = p => s.at <= t
              /\ \A g \in gaps : g.probe = p => g.until <= t}

\* HistoryClearWatermark.Cleared: ingested before the clear, or created before it.
Cleared(p, seq, at) == seq <= fence.seq[p] \/ at <= fence.at

---------------------------------------------------------------------------
(* Sources.                                                                *)

HistoryInit ==
    /\ now = 0
    /\ obs = {} /\ gaps = {}
    /\ streamSeq = [p \in Probes |-> 0]
    /\ ranges = [p \in Probes |-> NoRange]
    /\ dirty = [k \in Keys |-> 0]
    /\ rows = [k \in Keys |-> NoRollup]
    /\ worker = [w \in Workers |-> NoWindow]
    /\ fence = [at |-> -1, seq |-> [p \in Probes |-> 0]]
    /\ clears = 0

\* One event of the stream commits: the sample, its repair range and its four
\* markers in one transaction, or a counted drop behind the fence.
Ingest(p, at, status) ==
    /\ streamSeq[p] < MaxEvents
    /\ at \in SourceTime(p)
    /\ LET seq == streamSeq[p] + 1
       IN  /\ streamSeq' = [streamSeq EXCEPT ![p] = seq]
           /\ IF Cleared(p, seq, at) THEN UNCHANGED <<obs, ranges, dirty>>
              ELSE /\ obs' = obs \cup {[probe |-> p, seq |-> seq, at |-> at, status |-> status]}
                   /\ ranges' = [ranges EXCEPT ![p] = MergeRange(@, RepairRange(p, seq, at))]
                   /\ dirty' = Marked(dirty, DirtyBuckets(p, Minute(at)))
    /\ UNCHANGED <<now, gaps, rows, worker, fence, clears>>

\* recordReplayGap: n events the edge lost, observed from at to until.
DeclareGap(p, n, at, until) ==
    /\ streamSeq[p] + n <= MaxEvents
    /\ {at, until} \subseteq SourceTime(p) /\ at <= until
    /\ gaps' = gaps \cup {[probe |-> p, throughSeq |-> streamSeq[p] + n, at |-> at, until |-> until,
                           pending |-> TRUE, bucket |-> Minute(at)]}
    /\ streamSeq' = [streamSeq EXCEPT ![p] = @ + n]
    /\ UNCHANGED <<now, obs, ranges, dirty, rows, worker, fence, clears>>

\* ClearMonitorHistory at tick at: the fence widens and the evidence goes, its
\* markers included; declared gaps and repair ranges stay.
ClearHistory(at) ==
    /\ clears < MaxClears
    /\ Minute(at) = now
    /\ clears' = clears + 1
    /\ fence' = [at  |-> Max({at, fence.at}),
                 seq |-> [p \in Probes |-> Max({fence.seq[p]} \cup {s.seq : s \in {o \in obs : o.probe = p}})]]
    /\ obs' = {}
    /\ dirty' = [k \in Keys |-> 0]
    /\ rows' = [k \in Keys |-> NoRollup]
    /\ UNCHANGED <<now, streamSeq, gaps, ranges, worker>>

NextMinute ==
    /\ now <= LastMinute
    /\ now' = now + 1
    /\ UNCHANGED <<obs, streamSeq, gaps, ranges, dirty, rows, worker, fence, clears>>

---------------------------------------------------------------------------
(* Workers.                                                                *)

\* The last minute that carries a sample or a loss observed at tick t.
ReachedFrom(t) == Minute(t + FreshFor)

ExpandableRanges == {p \in Probes : ranges[p] # NoRange /\ ranges[p].cursor < now}
ExpandableGaps   == {g \in gaps : g.pending /\ g.bucket < now}

\* expandHistoryRange: mark one minute, move the cursor, and end the range
\* behind the freshness of the last sample it covers.
ExpandRange(p) ==
    /\ p \in ExpandableRanges
    /\ LET r == ranges[p] IN
       /\ dirty' = Marked(dirty, DirtyBuckets(p, r.cursor))
       /\ ranges' = [ranges EXCEPT ![p] =
                        IF r.cursor + 1 > ReachedFrom(r.through) THEN NoRange
                        ELSE [cursor |-> r.cursor + 1, through |-> r.through]]
    /\ UNCHANGED <<now, obs, streamSeq, gaps, rows, worker, fence, clears>>

\* expandHistoryGap, for the one monitor the gap affects.
ExpandGap(g) ==
    /\ g \in ExpandableGaps
    /\ dirty' = Marked(dirty, DirtyBuckets(g.probe, g.bucket))
    /\ gaps' = (gaps \ {g}) \cup
               {IF g.bucket + 1 > ReachedFrom(g.until) THEN [g EXCEPT !.pending = FALSE]
                ELSE [g EXCEPT !.bucket = @ + 1]}
    /\ UNCHANGED <<now, obs, streamSeq, ranges, rows, worker, fence, clears>>

Closed(k) == k[3] + Width[k[1]] <= now

\* nextHistoryBucket: children before parents, overall last, oldest first.
Rank(k) == CASE k[1] = "m" -> 0 [] k[1] = "h" -> 1 [] k[1] = "d" -> 2 [] k[1] = "o" -> 3
Candidates == {k \in Keys : dirty[k] # 0 /\ Closed(k)}
First(K) == {k \in K : \A other \in K : Rank(k) < Rank(other)
                                        \/ (Rank(k) = Rank(other) /\ k[3] <= other[3])}

\* A parent is taken up only when no range was left to expand.
Select(w) ==
    /\ worker[w].pc = "idle"
    /\ \E k \in First(Candidates) :
        /\ k[1] \in {"h", "d"} => ExpandableRanges = {} /\ ExpandableGaps = {}
        /\ worker' = [worker EXCEPT ![w] = [pc |-> "selected", key |-> k]]
    /\ UNCHANGED <<now, obs, streamSeq, gaps, ranges, dirty, rows, fence, clears>>

\* requireCleanHistoryChildren: no marked minute or hour inside the parent.
CleanChildren(k) ==
    /\ k[1] \in {"h", "d"} => \A m \in MinutesOf(k) : dirty[Key("m", k[2], m)] = 0
    /\ k[1] = "d" => \A m \in MinutesOf(k) : dirty[Key("h", k[2], m)] = 0

\* A sample is still fresh when the minute ends.
CarriesOver(k) ==
    \E s \in Evidence(k) : s.probe = k[2] /\ s.at + FreshFor > (k[3] + 1) * TicksPerMinute

\* The coherent read: the row and its revision, the children and the evidence
\* of one snapshot. A row that is gone or has marked children is left alone.
Read(w) ==
    /\ worker[w].pc = "selected"
    /\ LET k == worker[w].key
       IN  worker' = [worker EXCEPT ![w] =
                IF dirty[k] # 0 /\ CleanChildren(k)
                THEN [pc |-> "read", key |-> k, rev |-> dirty[k], value |-> ProjectHistory(k),
                      carry |-> k[1] = "m" /\ CarriesOver(k)]
                ELSE NoWindow]
    /\ UNCHANGED <<now, obs, streamSeq, gaps, ranges, dirty, rows, fence, clears>>

\* The locked check: the marker is still the one that was read.
Current(w) == dirty[worker[w].key] = worker[w].rev

\* Mutant of Publish: the consumed marker is left behind.
KeepsMarker(w) ==
    /\ worker[w].pc = "read"
    /\ worker' = [worker EXCEPT ![w] = NoWindow]
    /\ LET k == worker[w].key
           next == IF worker[w].carry THEN DirtyBuckets(k[2], k[3] + 1) ELSE {}
       IN  IF dirty[k] = worker[w].rev
           THEN /\ rows' = [rows EXCEPT ![k] = {worker[w].value}]
                /\ dirty' = Marked(dirty, next)
           ELSE UNCHANGED <<rows, dirty>>
    /\ UNCHANGED <<now, obs, streamSeq, gaps, ranges, fence, clears>>

\* The publishing half of recomputeHistoryWindow: the rollup, the next minute's
\* markers and the consumed marker commit together, or not at all.
Publish(w) ==
    /\ worker[w].pc = "read"
    /\ worker' = [worker EXCEPT ![w] = NoWindow]
    /\ LET k == worker[w].key
           next == IF worker[w].carry THEN DirtyBuckets(k[2], k[3] + 1) ELSE {}
       IN  IF Current(w)
           THEN /\ rows' = [rows EXCEPT ![k] = {worker[w].value}]
                /\ dirty' = [Marked(dirty, next) EXCEPT ![k] = 0]
           ELSE UNCHANGED <<rows, dirty>>
    /\ UNCHANGED <<now, obs, streamSeq, gaps, ranges, fence, clears>>

\* The process stops, or its batch runs out of time: the transaction rolls back.
AbandonWindow(w) ==
    /\ worker[w].pc # "idle"
    /\ worker' = [worker EXCEPT ![w] = NoWindow]
    /\ UNCHANGED <<now, obs, streamSeq, gaps, ranges, dirty, rows, fence, clears>>

Expand == (\E p \in Probes : ExpandRange(p)) \/ (\E g \in gaps : ExpandGap(g))

HistoryNext ==
    \/ \E p \in Probes, at \in Ticks, status \in {"UP", "DOWN"} : Ingest(p, at, status)
    \/ \E p \in Probes, n \in 1 .. MaxGapEvents, at, until \in Ticks : DeclareGap(p, n, at, until)
    \/ \E at \in Ticks : ClearHistory(at)
    \/ NextMinute
    \/ Expand
    \/ \E w \in Workers : Select(w) \/ Read(w) \/ Publish(w) \/ AbandonWindow(w)

HistorySpec == HistoryInit /\ [][HistoryNext]_historyVars

\* The loops of the workers keep running, and a transaction retried forever is
\* not rolled back forever; nothing makes evidence arrive.
FairHistorySpec ==
    /\ HistorySpec
    /\ WF_historyVars(NextMinute) /\ WF_historyVars(Expand)
    /\ \A w \in Workers : WF_historyVars(Select(w)) /\ SF_historyVars(Read(w)) /\ SF_historyVars(Publish(w))

---------------------------------------------------------------------------
(* Properties.                                                             *)

HistoryTypeOK ==
    /\ now \in 0 .. LastMinute + 1
    /\ obs \subseteq Observations
    /\ streamSeq \in [Probes -> 0 .. MaxEvents]
    /\ \A k \in Keys : dirty[k] \in 0 .. Cardinality(Workers) + 1
    /\ \A w \in Workers : worker[w].pc \in {"idle", "selected", "read"}

\* What the evidence says of a bucket, read without windows, seeds or children.
Truth(k) ==
    LET region(p) == [t \in TicksOf(k) |-> StatusAt(p, obs, t)]
    IN  IF k[1] = "o"
        THEN [t \in TicksOf(k) |-> EvaluateMonitorHealth(Policy, [p \in Probes |-> region(p)[t]])]
        ELSE [time   |-> Durations(TicksOf(k), region(k[2])),
              checks |-> Cardinality({s \in obs : s.probe = k[2] /\ s.at \in TicksOf(k)})]

\* A bucket nobody projected reads as no evidence.
Nothing(k) ==
    IF k[1] = "o" THEN [t \in TicksOf(k) |-> "UNKNOWN"]
    ELSE [time |-> Durations(TicksOf(k), [t \in TicksOf(k) |-> "UNKNOWN"]), checks |-> 0]

Stored(k) == IF rows[k] = NoRollup THEN Nothing(k) ELSE RollupOf(rows[k])

Quiescent == Candidates = {} /\ ExpandableRanges = {} /\ ExpandableGaps = {}

\* expandHistoryGap marks the minutes up to the freshness after the gap's end. A
\* sample from before the loss, made under a clock that was further ahead than
\* that, is hidden by the gap too, and nothing marks the minutes it is fresh in.
BeyondRepair(p, m) ==
    \E g \in gaps, s \in obs :
        /\ g.probe = p /\ s.probe = p /\ s.seq <= g.throughSeq
        /\ ReachedFrom(g.until) < Minute(s.at) /\ Minute(s.at) <= m /\ m <= ReachedFrom(s.at)

Forgettable(k) ==
    \E p \in Probes, m \in MinutesOf(k) : (k[1] # "o" => p = k[2]) /\ BeyondRepair(p, m)

\* When no closed bucket is marked and no range is left to expand, every closed
\* minute, of a region or overall, says exactly what all the evidence says: no
\* late sample, clock step, loss, clear or racing worker was forgotten, except in
\* the minutes beyond a gap's repair.
MinutesAreExact ==
    Quiescent => \A k \in Keys : k[1] \in {"m", "o"} /\ Closed(k) /\ ~Forgettable(k)
                                  => Stored(k) = Truth(k)

\* The same of the hours and days, which are merged from their children.
ParentsAreExact ==
    Quiescent => \A k \in Keys : k[1] \in {"h", "d"} /\ Closed(k) /\ ~Forgettable(k)
                                  => Stored(k) = Truth(k)

\* What M3_HISTORY_ACCEPTANCE.md:53 says of every minute: a gap and a forward-skewed
\* older sequence leave no coverage behind that the evidence does not give.
NoFabricatedCoverage ==
    Quiescent => \A k \in Keys : k[1] \in {"m", "o"} /\ Closed(k) => Stored(k) = Truth(k)

\* No sample the operator cleared, or that was created before the clear, comes
\* back, however late its batch is replayed.
ClearedStaysCleared == \A s \in obs : s.at > fence.at /\ s.seq > fence.seq[s.probe]

\* The backlog drains: once evidence stops arriving, the workers come to rest.
HistorySettles == <>[]Quiescent

\* The stored history is what the operator's clears left of the evidence.
HistoryIsExact == ClearedStaysCleared /\ MinutesAreExact /\ ParentsAreExact
=============================================================================
