--------------------------- MODULE OverallHealth ---------------------------
(***************************************************************************)
(* What a monitor's regions add up to: EvaluateMonitorHealth of            *)
(* services/regional_health.go. A region that is stale, hidden by a        *)
(* declared loss or never reported is UNKNOWN, and UNKNOWN is never a      *)
(* recovery.                                                               *)
(***************************************************************************)
EXTENDS Integers, FiniteSets

CONSTANTS FreshFor,   \* RegionalFreshnessWindow, in ticks
          Policy      \* "any_down" or "all_down"

ASSUME HealthAssumption ==
    /\ FreshFor \in Nat
    /\ Policy \in {"any_down", "all_down"}

RegionStatuses == {"UP", "DOWN", "PENDING", "MAINTENANCE", "UNKNOWN", "PAUSED"}

\* Evidence expires exactly at its deadline, and a sample of the future is none.
FreshAt(observedAt, at) == observedAt <= at /\ at - observedAt < FreshFor

\* The truth table over the complete assignment set; region[p] is p's status.
EvaluateMonitorHealth(policy, region) ==
    LET Has(s)  == \E p \in DOMAIN region : region[p] = s
        Only(S) == \A p \in DOMAIN region : region[p] \in S
    IN  IF Only({"PAUSED"}) THEN "UNKNOWN"
        ELSE IF Only({"PAUSED", "MAINTENANCE"}) THEN "MAINTENANCE"
        ELSE IF policy = "any_down" /\ Has("DOWN") THEN "DOWN"
        ELSE IF policy = "all_down" /\ Has("UP") THEN "UP"
        ELSE IF Has("UNKNOWN") THEN "UNKNOWN"
        ELSE IF Has("PENDING") THEN "PENDING"
        ELSE IF Has("UP") THEN "UP" ELSE "DOWN"
=============================================================================
