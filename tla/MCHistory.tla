---------------------------------- MODULE MCHistory --------------------------
(***************************************************************************)
(* The history of a monitor and its stored overall snapshot on small       *)
(* instances.  They share no state; a behaviour keeps to one scenario      *)
(* while the other machine rests:                                          *)
(*   steps  one probe whose clock may step back between an UP and a DOWN,  *)
(*          one worker                                                     *)
(*   loss   one probe with an UP and a gap in the first two minutes, in    *)
(*          either order and under any clock, one worker                   *)
(*   clear  two probes of one event, two workers and an operator who       *)
(*          clears the history, in the first two minutes                   *)
(*   stored two recorders of a monitor with a local and a remote region    *)
(***************************************************************************)
EXTENDS HistoryRecompute, HealthProjection

VARIABLE scenario

all == <<historyVars, scenario, projectionVars>>
Only(names) == scenario \in names

Allowed ==
    /\ ~Only({"stored"})
    /\ UNCHANGED <<scenario, projectionVars>>
    /\ Only({"loss"}) \/ gaps' = {}
    /\ Only({"loss"}) =>
         /\ \A s \in obs' : s.status = "UP" /\ Cardinality(obs') = 1
         /\ \A g \in gaps' : g.until <= TicksPerMinute /\ Cardinality(gaps') = 1
    /\ Only({"steps"}) => \A s, other \in obs' : s.status = other.status => s = other
    /\ IF Only({"clear"})
       THEN /\ now' <= 2
            /\ \A p \in Probes : streamSeq'[p] <= 1
            /\ \A s \in obs' : s.at < 2 * TicksPerMinute
       ELSE /\ clears' = 0
            /\ streamSeq'["b"] = 0 /\ worker'["x"] = NoWindow

MCInit == HistoryInit /\ ProjectionInit /\ scenario \in {"steps", "loss", "clear", "stored"}
MCNext ==
    \/ HistoryNext /\ Allowed
    \/ Only({"stored"}) /\ ProjectionNext /\ UNCHANGED <<historyVars, scenario>>
MCSpec ==
    /\ MCInit /\ [][MCNext]_all
    /\ WF_all(NextMinute /\ Allowed) /\ WF_all(Expand /\ Allowed)
    /\ \A w \in Workers : /\ WF_all(Select(w) /\ Allowed)
                          /\ SF_all(Read(w) /\ Allowed) /\ SF_all(Publish(w) /\ Allowed)
=============================================================================
