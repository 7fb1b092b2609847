--------------------------- MODULE MCDirectPaging ---------------------------
(***************************************************************************)
(* The paging done inside the heartbeat path, on small instances.  The     *)
(* parts share no state; a behaviour runs one of them while the others     *)
(* rest:                                                                   *)
(*   owner    the dispatcher; only the worker that owns the monitor        *)
(*            records, and two things may fail                             *)
(*   shared   the dispatcher; a push request records besides it, and one   *)
(*            thing may fail                                               *)
(*   window   the dispatcher; maintenance windows come and go              *)
(*   folders  two nested folders that page, evaluated by two workers       *)
(*   rollup   every folder of a few children under every setting, and each *)
(*            way a child can change or be added                           *)
(*   edit     the tree, edited by one request after the other              *)
(*   resolve  the policy of a monitor below any parents the table may hold *)
(***************************************************************************)
EXTENDS GroupAlert, FolderStatus, MonitorGroups, NotificationDispatcher

CONSTANTS
  w1,                     \* the worker that owns the monitor
  m1, m2, inner, outer    \* the folders that page and what they hold

VARIABLE part

all == <<part, dispatchVars, vars, rollupVars, treeVars>>
Only(names) == part \in names

(* The inner folder pages on any failure and holds a local monitor; the    *)
(* outer one pages when half of a remote monitor and the inner folder are  *)
(* down.                                                                   *)
TwoHomes == [m \in Monitors |-> IF m = m1 THEN inner ELSE outer]
Nested == [f \in Folders |-> IF f = inner THEN outer ELSE NoFolder]
WorstInHalf ==
  [f \in Folders |-> [condition |-> IF f = inner THEN "worst_of_children" ELSE "threshold",
                      threshold |-> 50, percent |-> TRUE]]

-----------------------------------------------------------------------------
Dispatchers == {"owner", "shared", "window"}

RollupRests ==
  /\ settings = [condition |-> "ignore", threshold |-> 0, percent |-> FALSE]
  /\ children = << >>

TreeRests ==
  /\ parent = << >> /\ used = {} /\ home = None /\ runnable = {}
  /\ assigned = [o \in Owners |-> None]
  /\ edit = [e \in Editors |-> NoEdit] /\ walk = NoWalk /\ calm = FALSE /\ deep = FALSE

(* Of two policies one can run. *)
OneRuns == runnable = {CHOOSE p \in Policies : TRUE}

MCInit ==
  /\ Init /\ DispatchInit
  /\ \/ Only(Dispatchers \cup {"folders"}) /\ RollupRests /\ TreeRests
     \/ Only({"rollup"}) /\ RollupInit /\ TreeRests
     \/ Only({"edit"}) /\ RollupRests /\ EditInit
     \/ Only({"resolve"}) /\ RollupRests /\ ChainInit /\ OneRuns

(* What each of the dispatcher's parts is about. *)
Allowed ==
  /\ Only({"owner"}) \/ (elapses' = 0 /\ failures' <= 1 /\ \A i \in DOMAIN alerts' : alerts'[i].lapses = 0)
  /\ IF Only({"window"}) THEN failures' = 0 ELSE ~maint'
  /\ Only({"shared"}) \/ \A r \in Recorders : job'[r].pc # "idle" => r = w1

Dispatches(A) ==
  Only(Dispatchers) /\ A /\ Allowed /\ UNCHANGED <<part, vars, rollupVars, treeVars>>
Evaluates(A) ==
  Only({"folders"}) /\ A /\ UNCHANGED <<part, dispatchVars, rollupVars, treeVars>>

MCNext ==
  \/ Dispatches(DispatchNext)
  \/ Evaluates(Next)
  \/ Only({"rollup"}) /\ RollupNext /\ UNCHANGED <<part, dispatchVars, vars, treeVars>>
  \/ Only({"edit"}) /\ Editing /\ UNCHANGED <<part, dispatchVars, vars, rollupVars>>
  \/ Only({"resolve"}) /\ Resolving /\ UNCHANGED <<part, dispatchVars, vars, rollupVars>>

(* The monitor goes on being checked, and what was begun goes on.  Only    *)
(* one part runs, so that fairness of a disjunction of steps of different  *)
(* parts is fairness of each.                                              *)
MCSpec ==
  /\ MCInit /\ [][MCNext]_all
  /\ WF_all(Dispatches(\E r \in Recorders : RecordHeartbeat(r)))
  /\ \A w \in Workers : WF_all(Evaluates(Evaluate(w)) \/ Dispatches(Step(w)))
  /\ \A m \in Monitors : SF_all(Evaluates(Beat(m)))
=============================================================================
