--------------------------- MODULE RegionalHealth ---------------------------
(***************************************************************************)
(* How one region confirms a failure: the pure rules EvaluateRetry and     *)
(* EvaluateObservation of services/regional_health.go.                     *)
(***************************************************************************)
EXTENDS Integers, FiniteSets

CONSTANT MaxInt    \* math.MaxInt: DownCount saturates there

ASSUME MaxIntAssumption == MaxInt \in Nat \ {0}

RawStatuses == {"UP", "DOWN"}                              \* what a checker reports
Statuses    == RawStatuses \cup {"PENDING", "MAINTENANCE"} \* what is recorded

\* domain.RetryState; NoState is the nil previous state.
RetryState  == [status : Statuses, downCount : Nat]
NoState     == [status |-> "NONE", downCount |-> 0]
RetryStates == RetryState \cup {NoState}

\* Mutant of NextDownCount: only a confirmed failure is counted on.
ForgetsPending(previous, raw) ==
    IF raw # "DOWN" THEN 0
    ELSE IF previous.status = "DOWN" /\ previous.downCount < MaxInt
         THEN previous.downCount + 1 ELSE 1

\* Consecutive raw failures, this one included.
NextDownCount(previous, raw) ==
    IF raw # "DOWN" THEN 0
    ELSE IF previous.downCount < MaxInt THEN previous.downCount + 1 ELSE previous.downCount

\* A failure inside the retry window is PENDING; Important marks a transition.
EvaluateRetry(previous, raw, maxRetries) ==
    LET count  == NextDownCount(previous, raw)
        status == IF raw = "DOWN" /\ count <= maxRetries THEN "PENDING" ELSE raw
    IN  [status |-> status, downCount |-> count, important |-> previous.status # status]

\* Accepted maintenance replaces the result and so resets the count.
Effective(raw, maintenance) == IF maintenance THEN "MAINTENANCE" ELSE raw

EvaluateObservation(previous, raw, maintenance, maxRetries) ==
    EvaluateRetry(previous, Effective(raw, maintenance), maxRetries)
=============================================================================
