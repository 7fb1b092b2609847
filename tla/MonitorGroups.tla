--------------------------- MODULE MonitorGroups ---------------------------
(***************************************************************************)
(* Monitor groups (folders): the tree operators edit, and the escalation   *)
(* policy a monitor inherits through it.                                   *)
(*                                                                         *)
(* MonitorGroupService.Update walks the proposed parent's chain with one   *)
(* read per folder and then writes the row; nothing locks the tree in      *)
(* between (monitor_group_service.go).  Delete re-homes the children in    *)
(* one transaction (repo.go).  EscalationService.ResolvePolicy walks the   *)
(* same chain, again with one read per folder, on the alerting path        *)
(* (escalation_service.go).                                                *)
(***************************************************************************)
EXTENDS Naturals, FiniteSets

CONSTANTS
  TreeFolders, \* folder identities
  Editors,    \* concurrent requests that move a folder
  Policies,   \* escalation policies
  None,       \* the NULL parent, folder or policy
  MaxWalk     \* maxGroupWalkDepth

ASSUME TreeAssumption ==
  /\ IsFiniteSet(TreeFolders) /\ MaxWalk \in Nat
  /\ "monitor" \notin TreeFolders /\ None \notin TreeFolders /\ None \notin Policies

VARIABLES
  parent,     \* the stored folders and their parents
  used,       \* identities given out so far
  home,       \* the monitor's own folder
  assigned,   \* the policy of a folder; "monitor" is the monitor's own
  runnable,   \* the policies that are enabled and have steps
  edit,       \* what each editor is about to do
  walk,       \* the resolver's walk for the monitor
  calm,       \* history: requests that change the tree have not overlapped
  deep        \* history: a request was accepted when its walk used up its turns

treeVars == <<parent, used, home, assigned, runnable, edit, walk, calm, deep>>

Owners == TreeFolders \cup {"monitor"}
Stored == DOMAIN parent
NoEdit == [at |-> "idle"]
NoWalk == [at |-> "idle"]
NoneEditing == \A e \in Editors : edit[e] = NoEdit

-----------------------------------------------------------------------------
(* Editing the tree *)

(* A new folder has no descendants, so its parent need only exist.         *)
ParentOfNew(f) == (Stored \ {f}) \cup {None}

Create(f) ==
  /\ f \notin used
  /\ used' = used \cup {f}
  /\ \E p \in ParentOfNew(f) :
       parent' = [g \in Stored \cup {f} |-> IF g = f THEN p ELSE parent[g]]
  /\ calm' = (calm /\ NoneEditing)
  /\ UNCHANGED <<home, assigned, runnable, edit, walk, deep>>

(* Update, entered: no parent needs no check, the folder itself is         *)
(* refused, and the parent must exist.                                     *)
BeginUpdate(e, f, p) ==
  /\ edit[e] = NoEdit
  /\ f \in Stored /\ p \in (Stored \cup {None}) \ {f}
  /\ edit' = [edit EXCEPT ![e] =
       IF p = None THEN [at |-> "write", folder |-> f, to |-> p]
       ELSE [at |-> "walk", folder |-> f, to |-> p, cur |-> p,
             next |-> parent[p], depth |-> 0]]
  /\ calm' = (calm /\ NoneEditing)
  /\ UNCHANGED <<parent, used, home, assigned, runnable, walk, deep>>

Accept(w) == [at |-> "write", folder |-> w.folder, to |-> w.to]

(* The turns are used up with folders left above. *)
Exhausted(w) == w.cur # w.folder /\ w.next \in Stored /\ w.depth + 1 >= MaxWalk

(* Mutant: the walk compares the folder only with the proposed parent. *)
WalkedNoFurther(w) ==
  IF w.cur = w.folder THEN NoEdit ELSE Accept(w)

(* One turn of validateParent's loop: refuse when the walk reached the     *)
(* folder being moved, accept at the top, at a folder that is gone, or     *)
(* after MaxWalk turns; otherwise read the next folder.                    *)
Walked(w) ==
  IF w.cur = w.folder THEN NoEdit
  ELSE IF w.next \notin Stored \/ w.depth + 1 >= MaxWalk THEN Accept(w)
  ELSE [at |-> "walk", folder |-> w.folder, to |-> w.to, cur |-> w.next,
        next |-> parent[w.next], depth |-> w.depth + 1]

WalkParent(e) ==
  /\ edit[e].at = "walk"
  /\ edit' = [edit EXCEPT ![e] = Walked(edit[e])]
  /\ deep' = (deep \/ Exhausted(edit[e]))
  /\ UNCHANGED <<parent, used, home, assigned, runnable, walk, calm>>

(* The UPDATE statement: a folder deleted meanwhile matches no row, a      *)
(* parent deleted meanwhile fails its foreign key.                         *)
WriteParent(e) ==
  /\ edit[e].at = "write"
  /\ LET w == edit[e]
     IN parent' = IF w.folder \in Stored /\ w.to \in Stored \cup {None}
                  THEN [parent EXCEPT ![w.folder] = w.to] ELSE parent
  /\ edit' = [edit EXCEPT ![e] = NoEdit]
  /\ UNCHANGED <<used, home, assigned, runnable, walk, calm, deep>>

Rehomed(f, p) == IF p = f THEN parent[f] ELSE p

(* Delete: one transaction re-homes the monitors and the subfolders to the *)
(* deleted folder's parent; its policy assignment cascades.  ON DELETE SET *)
(* NULL clears a reference that would remain (a folder that had become its *)
(* own ancestor).                                                          *)
Delete(f) ==
  /\ f \in Stored
  /\ LET left == Stored \ {f}
         up(p) == IF Rehomed(f, p) = f THEN None ELSE Rehomed(f, p)
     IN /\ parent' = [g \in left |-> up(parent[g])]
        /\ home' = up(home)
  /\ assigned' = [assigned EXCEPT ![f] = None]
  /\ calm' = (calm /\ NoneEditing)
  /\ UNCHANGED <<used, runnable, edit, walk, deep>>

-----------------------------------------------------------------------------
(* Policies *)

(* The first assignment found ends the walk, runnable or not. *)
Stops(o) == assigned[o] # None

loadRunnablePolicy(p) == IF p \in runnable THEN p ELSE None

Resolved(p) == [at |-> "done", policy |-> loadRunnablePolicy(p)]

(* ResolvePolicy: the monitor's own assignment, then its folder's, then    *)
(* upward; a folder seen before or gone ends the walk with no policy.      *)
StartResolve ==
  /\ walk = NoWalk
  /\ walk' = IF Stops("monitor") THEN Resolved(assigned["monitor"])
             ELSE IF home = None THEN [at |-> "done", policy |-> None]
             ELSE [at |-> "walk", folder |-> home, seen |-> {}]
  /\ UNCHANGED <<parent, used, home, assigned, runnable, edit, calm, deep>>

Visited(f) == f \in walk.seen

StepResolve ==
  /\ walk.at = "walk"
  /\ LET f == walk.folder
     IN walk' = IF Visited(f) THEN [at |-> "done", policy |-> None]
                ELSE IF Stops(f) THEN Resolved(assigned[f])
                ELSE IF f \notin Stored \/ parent[f] = None
                THEN [at |-> "done", policy |-> None]
                ELSE [at |-> "walk", folder |-> parent[f], seen |-> walk.seen \cup {f}]
  /\ UNCHANGED <<parent, used, home, assigned, runnable, edit, calm, deep>>

UseResolved ==
  /\ walk.at = "done"
  /\ walk' = NoWalk
  /\ UNCHANGED <<parent, used, home, assigned, runnable, edit, calm, deep>>

Resolving == StartResolve \/ StepResolve \/ UseResolved

-----------------------------------------------------------------------------
EditInit ==
  /\ \E f \in TreeFolders : parent = [g \in {f} |-> None] /\ home \in {None, f}
  /\ used = Stored
  /\ assigned = [o \in Owners |-> None]
  /\ runnable = Policies
  /\ edit = [e \in Editors |-> NoEdit]
  /\ walk = NoWalk /\ calm = TRUE /\ deep = FALSE

Editing ==
  \/ \E f \in TreeFolders : Create(f) \/ Delete(f)
  \/ \E e \in Editors, f \in TreeFolders, p \in TreeFolders \cup {None} : BeginUpdate(e, f, p)
  \/ \E e \in Editors : WalkParent(e) \/ WriteParent(e)

(* A monitor anywhere below any parents the table may hold, the cycles of  *)
(* overlapping requests included, with any assignment of policies.         *)
ChainInit ==
  /\ parent \in [TreeFolders -> TreeFolders \cup {None}]
  /\ used = TreeFolders
  /\ home \in TreeFolders \cup {None}
  /\ assigned \in [Owners -> Policies \cup {None}]
  /\ runnable \in SUBSET Policies
  /\ edit = [e \in Editors |-> NoEdit]
  /\ walk = NoWalk /\ calm = FALSE /\ deep = FALSE

(* The contract below is about one state of the tree, so no edit falls     *)
(* between the reads of a resolver.                                        *)
TreeNext == (walk = NoWalk /\ Editing) \/ Resolving
TreeSpec == (EditInit \/ ChainInit) /\ [][TreeNext]_treeVars

-----------------------------------------------------------------------------
(* Properties *)

(* Type invariant: a parent and a monitor's folder are stored folders,     *)
(* also after a folder was deleted under a running request.                *)
TreeTypeOK ==
  /\ Stored \subseteq TreeFolders /\ Stored \subseteq used
  /\ \A f \in Stored : parent[f] \in Stored \cup {None}
  /\ home \in Stored \cup {None}
  /\ assigned \in [Owners -> Policies \cup {None}]
  /\ runnable \subseteq Policies
  /\ calm \in BOOLEAN /\ deep \in BOOLEAN

(* No folder is its own ancestor, however far up: every set of folders has *)
(* one whose parent lies outside it.                                       *)
Acyclic == \A S \in SUBSET Stored : S # {} => \E f \in S : parent[f] \notin S

(* The chains of folders above the monitor, n steps long. *)
ChainsUp(n) ==
  {q \in [0..n -> Stored] : q[0] = home /\ \A i \in 0..(n - 1) : q[i + 1] = parent[q[i]]}

(* The chain ends in the nearest folder with an assignment. *)
Nearest(n, q) == assigned[q[n]] # None /\ \A i \in 0..(n - 1) : assigned[q[i]] = None

(* The precedence contract: the monitor's own assignment wins, otherwise   *)
(* the assigned folder the fewest steps above it, and a policy that cannot *)
(* run silences the monitor.                                               *)
ByContract(p) ==
  IF assigned["monitor"] # None THEN p = loadRunnablePolicy(assigned["monitor"])
  ELSE LET heights == 0..Cardinality(TreeFolders) IN
       /\ \A n \in heights : \A q \in ChainsUp(n) :
            Nearest(n, q) => p = loadRunnablePolicy(assigned[q[n]])
       /\ (\A n \in heights : \A q \in ChainsUp(n) : ~ Nearest(n, q)) => p = None

(* ResolvePolicy answers what the precedence contract says, on every tree  *)
(* the table can hold, cycles included: the walk neither falls through a   *)
(* silenced folder nor stops short of an assigned one.                     *)
ResolvesByContract == walk.at = "done" => ByContract(walk.policy)

(* While requests come one after the other no folder becomes its own       *)
(* ancestor, unless validateParent let one through because the folders     *)
(* above the new parent are more than its walk has turns; and the policy   *)
(* found through the tree is the one of the contract (ResolvePolicy).      *)
TreeIsSound == (calm /\ ~deep => Acyclic) /\ ResolvesByContract
=============================================================================
