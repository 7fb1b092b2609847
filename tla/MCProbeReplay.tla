--------------------------- MODULE MCProbeReplay ---------------------------
(***************************************************************************)
(* ProbeReplay on a small instance: two-event batches, one declared gap,   *)
(* and a store that is full after two rows and the reserve.  A behaviour   *)
(* keeps to one of two scenarios: in "steady" the edge keeps its data      *)
(* directory; in "restored" an operator may put an older copy back, and    *)
(* sessions live long enough for a second snapshot.                        *)
(***************************************************************************)
EXTENDS ProbeReplay

VARIABLE scenario

all == <<vars, scenario>>
Steady == scenario = "steady"

Allowed ==
  /\ UNCHANGED scenario
  /\ IF Steady THEN /\ backup' = backup
                    /\ Created(edge') >= Created(edge)
                    /\ pump'.snap = "due" /\ edgeUp' => pump.snap = "due" \/ ~ edgeUp
     ELSE Created(edge') <= 2

MCInit == Init /\ scenario \in {"steady", "restored"}
MCNext == Next /\ Allowed

MCFairness ==
  /\ WF_all(Connect /\ Allowed) /\ WF_all(EdgeLoses /\ Allowed)
  /\ WF_all(HubLoses /\ Allowed) /\ WF_all(HubHealth /\ Allowed)
  /\ WF_all(PumpRead /\ Allowed) /\ WF_all(PumpSend /\ Allowed)
  /\ WF_all(PumpACK /\ Allowed) /\ WF_all(PumpRetry /\ Allowed)
  /\ WF_all(SendSnapshot /\ Allowed) /\ WF_all(SnapshotApplied /\ Allowed)
  /\ WF_all(HubIngest /\ Allowed) /\ WF_all(HubSnapshot /\ Allowed)
MCSpec == MCInit /\ [][MCNext]_all /\ MCFairness

(* A restored edge makes no promise about the stream as a whole.           *)
SteadyStream == INSTANCE ReplayedStream WITH
  made <- IF Steady THEN Created(edge) ELSE 0,
  fate <- IF Steady THEN Fates ELSE [s \in {} |-> "lost"],
  released <- IF Steady THEN edge.acked ELSE 0,
  dropped <- IF Steady THEN {s \in 1..Created(edge) : edge.made[s].id \in dropped} ELSE {}

(* An edge that keeps its data directory, its hub and whatever connects    *)
(* them implement the abstract stream: events settle in source order and   *)
(* once, only a dropped event is written off, the edge forgets an event    *)
(* only after the hub settled it, and every event is settled and forgotten *)
(* in the end.                                                             *)
SteadyImplementsStream == SteadyStream!LiveStreamSpec
=============================================================================
