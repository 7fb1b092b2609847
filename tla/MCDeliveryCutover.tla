------------------------- MODULE MCDeliveryCutover -------------------------
(***************************************************************************)
(* DeliveryCutover on small instances.  A behaviour keeps to one scenario: *)
(*   paging  one remote member, an outage to page for                      *)
(*   local   a remote and the hub-local member, an outage to page for      *)
(*   cycles  two barriers of one member, whose stream may be reset         *)
(*   calm    one member and no reset, under fairness                       *)
(***************************************************************************)
EXTENDS DeliveryCutover

VARIABLE scenario

all == <<vars, scenario>>
Only(name) == scenario = name /\ UNCHANGED scenario

WithLocal == INSTANCE DeliveryCutover WITH Probes <- {1, 2}, Local <- 2, MaxRevision <- 1
Cycles == INSTANCE DeliveryCutover WITH
    Deadline <- 1, MaxBarriers <- 2, MaxTries <- 1, Outage <- FALSE, Resets <- TRUE
Calm == INSTANCE DeliveryCutover WITH Deadline <- 1, Outage <- FALSE

MCInit ==
    \/ scenario = "paging" /\ Init
    \/ scenario = "local" /\ WithLocal!Init
    \/ scenario = "cycles" /\ Cycles!Init
    \/ scenario = "calm" /\ Calm!Init

MCNext ==
    \/ Only("paging") /\ Next
    \/ Only("local") /\ WithLocal!Next
    \/ Only("cycles") /\ Cycles!Next
    \/ Only("calm") /\ Calm!Next

\* The assumptions of DeliveryCutover's Fairness, in the calm scenario.
MCSpec ==
    /\ MCInit /\ [][MCNext]_all
    /\ WF_all(Only("calm") /\ Calm!ReconcileCutover)
    /\ WF_all(Only("calm") /\ Calm!Tick)
    /\ WF_all(Only("calm") /\ \E c \in Command : Calm!Claim(c))
    /\ WF_all(Only("calm") /\ \E p \in Probes : Calm!Execute(p) \/ Calm!Complete(p))
    /\ WF_all(Only("calm") /\ \E p \in Probes : Calm!Connect(p) \/ Calm!ApplyConfig(p)
                                                \/ Calm!Acknowledge(p))

\* One member whose stream an operator may reset, under fairness.
ResetSpec ==
    Init /\ scenario = "reset" /\ [][Next /\ UNCHANGED scenario]_all /\ Fairness

----------------------------------------------------------------------------
\* A member whose pages are held back gets them again, or the hub pages for it:
\* a barrier that cannot become active, is disabled or drifts is drained.
HoldsAreEnded ==
    \A p \in Probes : HoldActive(p) /\ phase # "active" /\ scenario = "calm"
                        ~> phase = "active" \/ ~HoldActive(p)
=============================================================================
