---------------------------- MODULE FolderStatus ----------------------------
(***************************************************************************)
(* A folder whose children come and change under fixed settings, as        *)
(* MonitorGroup.Rollup finds it on each evaluation.                        *)
(***************************************************************************)
EXTENDS GroupRollup, Sequences

CONSTANTS
  Thresholds,   \* what monitor_groups.threshold may hold
  MaxChildren   \* bound: children of the folder

ASSUME FolderAssumption == Thresholds \subseteq Int /\ MaxChildren \in Nat

VARIABLES
  settings,     \* the folder's condition and threshold
  children      \* the statuses of its children

rollupVars == <<settings, children>>

(* The settings that validate accepts: a threshold is checked only where   *)
(* the condition uses it.                                                  *)
RollupInit ==
  /\ settings \in {g \in [condition : Conditions, threshold : Thresholds, percent : BOOLEAN] :
                     g.condition = "threshold" =>
                       g.threshold >= 1 /\ (g.percent => g.threshold <= 100)}
  /\ children = << >>

AddChild(s) ==
  /\ Len(children) < MaxChildren
  /\ children' = Append(children, s)
  /\ UNCHANGED settings

ChangeChild(c, s) ==
  /\ children' = [children EXCEPT ![c] = s]
  /\ UNCHANGED settings

RollupNext ==
  \E s \in Statuses : AddChild(s) \/ \E c \in DOMAIN children : ChangeChild(c, s)

RollupSpec == RollupInit /\ [][RollupNext]_rollupVars

-----------------------------------------------------------------------------
(* A folder's status says what its children justify (monitor_group.go).    *)
RollupIsSound == RollupJustified(settings, children)
=============================================================================
