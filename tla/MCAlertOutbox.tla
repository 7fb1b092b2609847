--------------------------- MODULE MCAlertOutbox ---------------------------
(***************************************************************************)
(* AlertOutbox on small instances.  Everything at once is too much for one *)
(* run, so a behaviour keeps to one of four scenarios, each of which holds *)
(* back some of the environment:                                           *)
(*   lifecycle  retries, revisions, reassignments and gates over two       *)
(*              outages; consumers, which never write lifecycle state, rest *)
(*   races      two consumers and a fault                                  *)
(*   rollout    one consumer while configurations change                   *)
(*   windows    one consumer, a fault, and maintenance and gates that come *)
(*              and go                                                     *)
(***************************************************************************)
EXTENDS AlertOutbox

CONSTANT w1
VARIABLE scenario

all == <<vars, scenario>>
Only(names) == scenario \in names

Busy == {w \in Workers : worker'[w] # Waiting}

Allowed ==
    /\ UNCHANGED scenario
    /\ Only({"lifecycle"}) \/ (status' # "PENDING" /\ Len(incidents') <= 1)
    /\ Only({"lifecycle"}) \/ Len(intents') <= 2
    /\ Only({"lifecycle", "rollout"}) \/ rev' = 1
    /\ Only({"lifecycle", "windows"}) \/ gate' = FALSE
    /\ Only({"windows"}) \/ maint' = FALSE
    /\ Only({"races", "windows"}) \/ faults' = 0
    /\ CASE Only({"lifecycle"}) -> Busy = {}
         [] Only({"races"})     -> TRUE
         [] OTHER               -> Busy \subseteq {w1}

MCInit == Init /\ scenario \in {"lifecycle", "races", "rollout", "windows"}
MCNext == Next /\ Allowed

MCFairness ==
    /\ \A w \in Workers : WF_all(Process(w) /\ Allowed)
    /\ \A k \in 1..MaxIntents : /\ SF_all(Claimed(k) /\ Allowed)
                                /\ WF_all(k \in DOMAIN intents /\ Expire(k) /\ Allowed)
MCSpec == MCInit /\ [][MCNext]_all /\ MCFairness

\* Once its outage is over every message comes to rest, where consumers run:
\* each is claimed, sent or superseded in the end, or given up.
EveryMessageSettles == scenario # "lifecycle" => MessagesSettle
=============================================================================
