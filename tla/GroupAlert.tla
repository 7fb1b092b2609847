----------------------------- MODULE GroupAlert -----------------------------
(***************************************************************************)
(* Folder alerts (core/services/group_alert_service.go).  Every recorded   *)
(* heartbeat, and every committed batch of regional evidence, makes the    *)
(* worker that recorded it re-evaluate the monitor's folders: it lists the *)
(* folders with their last_status, reads the children one at a time while  *)
(* other workers go on recording, and moves last_status with a             *)
(* compare-and-set whose winner pages.                                     *)
(***************************************************************************)
EXTENDS GroupRollup, Sequences

CONSTANTS
  Workers,     \* sharded workers and replay sessions that record evidence
  Monitors,
  Remote,      \* monitors whose overall status comes from regional evidence
  Folders,
  Home,        \* the folder of each monitor
  Parent,      \* the folder above a folder, or NoFolder
  NoFolder,
  Folder,      \* each folder's Settings
  Paged,       \* folders with notification channels attached
  Reported,    \* the statuses a monitor can report
  MaxChanges,  \* bound: status changes
  MaxFaults    \* bound: crashes and failed sends

ASSUME GroupAlertAssumption ==
  /\ IsFiniteSet(Workers) /\ Remote \subseteq Monitors /\ Paged \subseteq Folders
  /\ Home \in [Monitors -> Folders]
  /\ Parent \in [Folders -> Folders \cup {NoFolder}] /\ NoFolder \notin Folders
  /\ Folder \in [Folders -> Settings]
  /\ Reported \subseteq Statuses
  /\ MaxChanges \in Nat /\ MaxFaults \in Nat

VARIABLES
  latest,    \* the latest recorded status of each monitor
  last,      \* monitor_groups.last_status
  work,      \* what each worker is evaluating
  pages,     \* per folder, the transitions claimed as worth a page
  sent,      \* per folder, the pages handed to its channels
  changes, faults

vars == <<latest, last, work, pages, sent, changes, faults>>

Idle == [at |-> "idle"]

-----------------------------------------------------------------------------
(* The folders of one evaluation *)

(* ancestorsOf: the chain from a folder to the top, nearest first. *)
ancestorsOf(f) ==
  LET chain[n \in 0..Cardinality(Folders)] ==
        IF n = 0 THEN <<f>>
        ELSE LET c == chain[n - 1] IN
             IF Parent[c[Len(c)]] = NoFolder THEN c
             ELSE Append(c, Parent[c[Len(c)]])
  IN SelectSeq(chain[Cardinality(Folders) - 1], LAMBDA g : g \in Paged)

(* The monitors a folder's rollup reads: its own and its subfolders'. *)
Inside ==
  [f \in Folders |->
    {m \in Monitors : \E n \in 1..Cardinality(Folders) :
       LET up[k \in 1..n] == IF k = 1 THEN Home[m]
                             ELSE IF up[k - 1] = NoFolder THEN NoFolder ELSE Parent[up[k - 1]]
       IN up[n] = f}]

(* resolve: a folder's monitors and its subfolders, those rolled up first. *)
(* A monitor never checked and a folder without a status contribute        *)
(* nothing.                                                                *)
resolve(read) ==
  LET status[f \in Folders] ==
        LET below == {<<m, read[m]>> : m \in {x \in Monitors : Home[x] = f}}
            subs == {<<g, status[g]>> : g \in {x \in Folders : Parent[x] = f}}
            known == {c \in below \cup subs : c[2] # NoStatus}
        IN Rollup(Folder[f], [c \in known |-> c[2]])
  IN status

-----------------------------------------------------------------------------
(* A recorded heartbeat, or a committed batch of evidence, starts one. *)
Record(w, m, s) ==
  /\ work[w] = Idle
  /\ IF s = latest[m] THEN UNCHANGED changes
     ELSE changes < MaxChanges /\ changes' = changes + 1
  /\ latest' = [latest EXCEPT ![m] = s]
  /\ work' = [work EXCEPT ![w] = [at |-> "list", monitor |-> m]]
  /\ UNCHANGED <<last, pages, sent, faults>>

(* ListAll: the folders with their last_status. *)
ListAll(w) ==
  /\ work[w].at = "list"
  /\ LET chain == ancestorsOf(Home[work[w].monitor])
     IN work' = [work EXCEPT ![w] =
          IF chain = << >> THEN Idle
          ELSE [at |-> "load", chain |-> chain, prev |-> last]]
  /\ UNCHANGED <<latest, last, pages, sent, changes, faults>>

Fails == faults < MaxFaults /\ faults' = faults + 1

(* loadMonitors: the overall statuses of the remote monitors, in one read. *)
(* When it fails the folder has no status, and the one above tries again.  *)
loadMonitors(w) ==
  /\ work[w].at = "load"
  /\ \/ /\ work' = [work EXCEPT ![w] =
             [at |-> "read", chain |-> @.chain, prev |-> @.prev, got |-> Remote,
              read |-> [m \in Monitors |-> IF m \in Remote THEN latest[m] ELSE NoStatus]]]
        /\ UNCHANGED faults
     \/ /\ work' = [work EXCEPT ![w] =
             IF Len(@.chain) = 1 THEN Idle
             ELSE [at |-> "load", chain |-> Tail(@.chain), prev |-> @.prev]]
        /\ Fails
  /\ UNCHANGED <<latest, last, pages, sent, changes>>

(* GetLatest, one monitor at a time, each at most once per evaluation.     *)
(* After an error the monitor contributes nothing.                         *)
GetLatest(w, m) ==
  /\ work[w].at = "read"
  /\ m \in Inside[Head(work[w].chain)] \ work[w].got
  /\ \/ /\ work' = [work EXCEPT ![w].read[m] = latest[m], ![w].got = @ \cup {m}]
          /\ UNCHANGED faults
     \/ /\ work' = [work EXCEPT ![w].got = @ \cup {m}]
        /\ Fails
  /\ UNCHANGED <<latest, last, pages, sent, changes>>

(* Mutant: nothing ends an outage. *)
HoldsForever(prev, status) == prev = "DOWN" /\ status # prev

(* A confirmed DOWN stays until the folder is really UP. *)
Holds(prev, status) == prev = "DOWN" /\ status \notin {"DOWN", "UP"}

groupTransitionAlerts(prev, status) ==
  \/ status = "DOWN" /\ prev # "DOWN"
  \/ status = "UP" /\ prev = "DOWN"

(* Mutant: the UPDATE does not compare last_status. *)
ClaimsAlways(f, prev) == last[f] \in Statuses \cup {prev}

(* UPDATE ... WHERE id = ? AND last_status <=> prev. *)
ClaimStatusTransition(f, prev) == last[f] = prev

Onward(w) ==
  IF Len(work[w].chain) = 1 THEN Idle
  ELSE [work[w] EXCEPT !.at = "read", !.chain = Tail(@)]

(* claimAndAlert, up to the page. *)
claimAndAlert(w) ==
  /\ work[w].at = "read" /\ Inside[Head(work[w].chain)] \subseteq work[w].got
  /\ \E status \in {resolve(work[w].read)[Head(work[w].chain)]} :
     LET f == Head(work[w].chain)
         prev == work[w].prev[f]
         won == /\ status \notin {NoStatus, prev} /\ ~Holds(prev, status)
                /\ ClaimStatusTransition(f, prev)
         page == won /\ groupTransitionAlerts(prev, status)
     IN /\ last' = IF won THEN [last EXCEPT ![f] = status] ELSE last
        /\ pages' = IF page THEN [pages EXCEPT ![f] = Append(@, status)] ELSE pages
        /\ work' = [work EXCEPT ![w] = IF page THEN [@ EXCEPT !.at = "send"] ELSE Onward(w)]
  /\ UNCHANGED <<latest, sent, changes, faults>>

(* NotifyGroup: one attempt, an error is logged. *)
NotifyGroup(w) ==
  /\ work[w].at = "send"
  /\ work' = [work EXCEPT ![w] = Onward(w)]
  /\ \/ sent' = [sent EXCEPT ![Head(work[w].chain)] = @ + 1] /\ UNCHANGED faults
     \/ Fails /\ UNCHANGED sent
  /\ UNCHANGED <<latest, last, pages, changes>>

(* The worker stops, or ListAll fails and the evaluation is given up. *)
Abandon(w) ==
  /\ work[w] # Idle
  /\ Fails
  /\ work' = [work EXCEPT ![w] = Idle]
  /\ UNCHANGED <<latest, last, pages, sent, changes>>

-----------------------------------------------------------------------------
Init ==
  /\ latest = [m \in Monitors |-> NoStatus]
  /\ last = [f \in Folders |-> NoStatus]
  /\ work = [w \in Workers |-> Idle]
  /\ pages = [f \in Folders |-> << >>]
  /\ sent = [f \in Folders |-> 0]
  /\ changes = 0
  /\ faults = 0

Evaluate(w) ==
  \/ ListAll(w) \/ loadMonitors(w) \/ claimAndAlert(w) \/ NotifyGroup(w)
  \/ \E m \in Monitors : GetLatest(w, m)

Next ==
  \E w \in Workers :
    \/ \E m \in Monitors, s \in Reported : Record(w, m, s)
    \/ Evaluate(w)
    \/ Abandon(w)

(* Evaluations finish, and every monitor goes on being checked by some     *)
(* worker (the scheduler's interval, the probe's cadence).                 *)
Beat(m) == latest[m] # NoStatus /\ \E w \in Workers : Record(w, m, latest[m])
Fairness ==
  /\ \A w \in Workers : WF_vars(Evaluate(w))
  /\ \A m \in Monitors : SF_vars(Beat(m))

Spec == Init /\ [][Next]_vars
LiveSpec == Spec /\ Fairness

-----------------------------------------------------------------------------
(* Properties *)

TypeOK ==
  /\ latest \in [Monitors -> Statuses \cup {NoStatus}]
  /\ last \in [Folders -> Statuses \cup {NoStatus}]
  /\ \A f \in Folders : pages[f] \in Seq({"UP", "DOWN"}) /\ sent[f] \in Nat

(* One page per outage and one per recovery, whoever evaluates: the claimed *)
(* pages of a folder alternate and start with DOWN, however many workers   *)
(* recompute it at once and whatever stale statuses they read              *)
(* (claimAndAlert's compare-and-set and its hold on a confirmed DOWN).     *)
PagesAlternate ==
  \A f \in Folders : \A i \in 1..Len(pages[f]) :
    pages[f][i] = IF i % 2 = 1 THEN "DOWN" ELSE "UP"

Sending(f) == {w \in Workers : work[w].at = "send" /\ Head(work[w].chain) = f}

(* Between the claim and the page only a crash or a failed send loses a    *)
(* page: every other claimed page was handed over or is about to be.       *)
LossNeedsFault ==
  \A f \in Folders : LET gone == Len(pages[f]) - sent[f] - Cardinality(Sending(f))
                     IN 0 <= gone /\ gone <= faults

(* last_status and the pages agree: a folder is recorded DOWN exactly when *)
(* its latest claimed page is a trip.                                      *)
RecordedDownWasPaged ==
  \A f \in Folders : last[f] = "DOWN" <=> (pages[f] # << >> /\ pages[f][Len(pages[f])] = "DOWN")

Current(f) == resolve(latest)[f]

(* The folders' recorded statuses never stay apart from their children:    *)
(* again and again each equals what they roll up to, if that is UP or DOWN.*)
(* A claim lost to a staler evaluation, or one that recorded a stale       *)
(* rollup, is made good by a later beat.                                   *)
FolderSettles ==
  []<>(\A f \in Paged : Current(f) \in {"UP", "DOWN"} => last[f] = Current(f))

(* The pages of a folder tell its recorded status: they alternate, the     *)
(* latest one is what is recorded, and only a fault keeps one back         *)
(* (claimAndAlert).                                                        *)
PagesTellStatus == PagesAlternate /\ RecordedDownWasPaged /\ LossNeedsFault
=============================================================================
