---------------------------- MODULE GroupRollup ----------------------------
(***************************************************************************)
(* How a folder's status follows from the statuses of its children         *)
(* (MonitorGroup.Rollup, core/domain/monitor_group.go).  Children is a     *)
(* function from the children that have a status to that status.           *)
(***************************************************************************)
EXTENDS Integers, FiniteSets

Statuses == {"UP", "DOWN", "PENDING", "MAINTENANCE", "UNKNOWN"}
Conditions == {"worst_of_children", "all_down", "threshold", "ignore"}

(* "No derived status": Rollup's ok is false. *)
NoStatus == "none"

(* A folder's settings.  A threshold is a count or a percentage. *)
Settings == [condition : Conditions, threshold : Int, percent : BOOLEAN]

In(children, s) == Cardinality({c \in DOMAIN children : children[c] = s})

(* tallyStatuses: a child in maintenance is not active. *)
Active(children) == Cardinality(DOMAIN children) - In(children, "MAINTENANCE")

AtLeast1(n) == IF n < 1 THEN 1 ELSE n

Reaches(g, children) ==
  IF g.percent
  THEN In(children, "DOWN") * 100 >= AtLeast1(g.threshold) * Active(children)
  ELSE In(children, "DOWN") >= AtLeast1(g.threshold)

(* Mutant: no floor, the condition alone decides. *)
TripsByCondition(g, children) ==
  \/ g.condition = "all_down" /\ In(children, "DOWN") = Active(children)
  \/ g.condition = "threshold" /\ Reaches(g, children)
  \/ g.condition = "worst_of_children" /\ In(children, "DOWN") > 0

(* All children down trips a folder under any condition: the floor under a *)
(* threshold larger than the folder.                                       *)
trips(g, children) ==
  \/ In(children, "DOWN") = Active(children)
  \/ g.condition = "threshold" /\ Reaches(g, children)
  \/ g.condition = "worst_of_children" /\ In(children, "DOWN") > 0

Rollup(g, children) ==
  IF g.condition = "ignore" \/ DOMAIN children = {} THEN NoStatus
  ELSE IF Active(children) = 0 THEN "MAINTENANCE"
  ELSE IF trips(g, children) THEN "DOWN"
  ELSE IF g.condition = "all_down" /\ In(children, "UP") > 0 THEN "UP"
  ELSE IF In(children, "UNKNOWN") > 0 THEN "UNKNOWN"
  ELSE IF In(children, "UP") > 0 THEN "UP"
  ELSE "PENDING"
-----------------------------------------------------------------------------
(* A child in maintenance is invisible: the folder reads as if that child  *)
(* were not filed there, unless it is the only thing there.                *)
MaintenanceIsInvisible(g, children) ==
  LET out == {c \in DOMAIN children : children[c] = "MAINTENANCE"}
      rest == [c \in DOMAIN children \ out |-> children[c]]
  IN DOMAIN rest # {} => Rollup(g, rest) = Rollup(g, children)

(* A folder never looks healthy on incomplete evidence: with a child       *)
(* UNKNOWN it is UP only when it is an all_down folder with a member up    *)
(* ("incomplete evidence cannot look healthy", monitor_group.go).          *)
UnknownNeverLooksHealthy(g, children) ==
  /\ \E c \in DOMAIN children : children[c] = "UNKNOWN"
  /\ Rollup(g, children) = "UP"
  => g.condition = "all_down" /\ \E c \in DOMAIN children : children[c] = "UP"

(* "If every child is DOWN the group is DOWN under any condition": no      *)
(* threshold, percentage or count, leaves a dead folder looking alive.     *)
DeadFolderIsDown(g, children) ==
  /\ g.condition # "ignore"
  /\ Active(children) > 0
  /\ \A c \in DOMAIN children : children[c] \in {"DOWN", "MAINTENANCE"}
  => Rollup(g, children) = "DOWN"

(* A folder's status says what its children justify (monitor_group.go).    *)
RollupJustified(g, children) ==
  /\ MaintenanceIsInvisible(g, children)
  /\ UnknownNeverLooksHealthy(g, children)
  /\ DeadFolderIsDown(g, children)
=============================================================================
