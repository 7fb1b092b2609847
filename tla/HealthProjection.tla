-------------------------- MODULE HealthProjection --------------------------
(***************************************************************************)
(* The stored overall snapshot of one monitor: ProjectCurrent of           *)
(* services/monitor_health.go over PutHealthState of                       *)
(* repository/health_projection.go. Every recorded local check projects;   *)
(* a check worker and a push handler, or two workers around a lease        *)
(* change, may do so at once, no step compares what it read with what it   *)
(* replaces, and an error at any of them ends Record with the row as it    *)
(* was. A remote region's state changes by replay and the health policy by *)
(* an edit of the assignments; neither projects anything.                  *)
(***************************************************************************)
EXTENDS OverallHealth

CONSTANTS Projectors,  \* recorders that may run Record for the monitor
          MaxBeats     \* bound: recorded checks, replayed observations and edits

ASSUME ProjectionAssumption == MaxBeats \in Nat

Regions == {"local", "remote"}
Seen    == {"UP", "DOWN", "UNKNOWN"}

VARIABLES
    region,   \* monitor_probe_state: the status of each assigned region
    policy,   \* the monitor's health policy
    row,      \* monitor_health_state: {} or {[health, version]}
    proj,     \* where each projector is in ProjectCurrent
    beats,
    overlap,  \* history: two projections ran at once
    failed,   \* history: no projection was stored since one failed
    moved,    \* history: evidence changed since the last evaluation
    shown     \* history: the snapshots stored under each version

projectionVars == <<region, policy, row, proj, beats, overlap, failed, moved, shown>>

NoProjection == [pc |-> "idle"]
Versions == 1 .. MaxBeats + 1
Snapshot(r) == CHOOSE x \in r : TRUE

\* What evaluate returns and a snapshot holds. The reason follows from the
\* status and the counts.
MonitorHealth ==
    [policy |-> policy,
     status |-> EvaluateMonitorHealth(policy, region),
     counts |-> [s \in Seen |-> Cardinality({p \in Regions : region[p] = s})]]

ProjectionInit ==
    /\ region = [p \in Regions |-> "UNKNOWN"]
    /\ policy = Policy
    /\ row = {}
    /\ proj = [r \in Projectors |-> NoProjection]
    /\ beats = 0
    /\ overlap = FALSE /\ failed = FALSE /\ moved = FALSE
    /\ shown = [v \in Versions |-> {}]

\* persistCheck committed the local region; Record goes on to project.
RecordedCheck(r, s) ==
    /\ proj[r].pc = "idle"
    /\ beats < MaxBeats
    /\ beats' = beats + 1
    /\ region' = [region EXCEPT !["local"] = s]
    /\ proj' = [proj EXCEPT ![r] = [pc |-> "evaluate"]]
    /\ overlap' = (overlap \/ \E q \in Projectors : proj[q].pc # "idle")
    /\ moved' = TRUE
    /\ UNCHANGED <<policy, row, failed, shown>>

\* updateReplayState of a replayed observation, or its freshness running out.
RemoteChange(s) ==
    /\ beats < MaxBeats
    /\ beats' = beats + 1
    /\ region' = [region EXCEPT !["remote"] = s]
    /\ moved' = TRUE
    /\ UNCHANGED <<policy, row, proj, overlap, failed, shown>>

\* The assignment set is replaced with another health policy.
PolicyChange(new) ==
    /\ beats < MaxBeats
    /\ beats' = beats + 1
    /\ policy' = new
    /\ moved' = TRUE
    /\ UNCHANGED <<region, row, proj, overlap, failed, shown>>

\* evaluate: the monitor, the assignments and the regional states.
EvaluateRegions(r) ==
    /\ proj[r].pc = "evaluate"
    /\ proj' = [proj EXCEPT ![r] = [pc |-> "load", health |-> MonitorHealth]]
    /\ moved' = FALSE
    /\ UNCHANGED <<region, policy, row, beats, overlap, failed, shown>>

\* Mutant of NextVersion: only another status is another snapshot.
StatusVersion(prev, health) ==
    IF prev = {} THEN 1
    ELSE IF Snapshot(prev).health.status = health.status
         THEN Snapshot(prev).version ELSE Snapshot(prev).version + 1

\* sameHealthSnapshot keeps the version, and anything else takes the next one.
NextVersion(prev, health) ==
    IF prev = {} THEN 1
    ELSE IF Snapshot(prev).health = health THEN Snapshot(prev).version ELSE Snapshot(prev).version + 1

\* GetHealthState.
LoadSnapshot(r) ==
    /\ proj[r].pc = "load"
    /\ proj' = [proj EXCEPT ![r] = [pc |-> "put", health |-> proj[r].health,
                                    version |-> NextVersion(row, proj[r].health)]]
    /\ UNCHANGED <<region, policy, row, beats, overlap, failed, moved, shown>>

\* PutHealthState first looks whether there is a row.
ProbeRow(r) ==
    /\ proj[r].pc = "put"
    /\ proj' = [proj EXCEPT ![r] = [pc |-> IF row = {} THEN "insert" ELSE "update",
                                    health |-> proj[r].health, version |-> proj[r].version]]
    /\ UNCHANGED <<region, policy, row, beats, overlap, failed, moved, shown>>

\* The unconditional write. A second insert fails on the key.
WriteSnapshot(r) ==
    /\ \/ proj[r].pc = "update"
       \/ proj[r].pc = "insert" /\ row = {}
    /\ row' = {[health |-> proj[r].health, version |-> proj[r].version]}
    /\ shown' = [shown EXCEPT ![proj[r].version] = @ \cup {proj[r].health}]
    /\ failed' = FALSE
    /\ proj' = [proj EXCEPT ![r] = NoProjection]
    /\ UNCHANGED <<region, policy, beats, overlap, moved>>

\* evaluate, GetHealthState or PutHealthState fails, and Record returns its error:
\* the check stays recorded, and nothing projects it again.
ProjectionFails(r) ==
    /\ proj[r].pc # "idle"
    /\ failed' = TRUE
    /\ proj' = [proj EXCEPT ![r] = NoProjection]
    /\ UNCHANGED <<region, policy, row, beats, overlap, moved, shown>>

ProjectionNext ==
    \/ \E r \in Projectors :
        \/ \E s \in {"UP", "DOWN"} : RecordedCheck(r, s)
        \/ EvaluateRegions(r) \/ LoadSnapshot(r) \/ ProbeRow(r)
        \/ WriteSnapshot(r) \/ ProjectionFails(r)
    \/ \E s \in Seen : RemoteChange(s)
    \/ \E new \in {"any_down", "all_down"} : PolicyChange(new)

ProjectionSpec == ProjectionInit /\ [][ProjectionNext]_projectionVars

---------------------------------------------------------------------------

\* The stored snapshot is what the regions add up to whenever nobody projects and
\* nothing changed since the last evaluation, unless two projections overlapped or
\* the last one failed.
StaleHasACause ==
    ~overlap /\ ~failed /\ ~moved /\ row # {} /\ (\A r \in Projectors : proj[r].pc = "idle")
        => Snapshot(row).health = MonitorHealth

\* Without overlapping projections a version names one snapshot, and the next one
\* another: a cache keyed by it is neither stale nor thrown away for a check that
\* changed nothing.
VersionsAreChanges ==
    ~overlap => \A v \in Versions :
        /\ \A a, b \in shown[v] : a = b
        /\ v # 1 /\ shown[v] # {} => shown[v] # shown[v - 1]

\* The stored snapshot is stale only after overlapping or failing projections, and
\* without overlap its version says when any part of it changed (ProjectCurrent).
SnapshotIsSound == StaleHasACause /\ VersionsAreChanges
=============================================================================
