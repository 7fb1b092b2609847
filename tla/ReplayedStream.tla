--------------------------- MODULE ReplayedStream ---------------------------
(***************************************************************************)
(* What an edge probe and its hub promise together about one telemetry     *)
(* stream, whatever happens to the connection between them.  The source    *)
(* numbers its events.  The hub settles them in source order and once:     *)
(* an event is stored, refused for good, or written off; only an event     *)
(* the source itself dropped is written off.  The source forgets an event  *)
(* only once it is settled.                                                *)
(***************************************************************************)
EXTENDS Naturals

CONSTANT MaxSeq     \* bound: how many events the source creates

VARIABLES
  made,       \* how many events the source has created
  dropped,    \* the events it dropped under retention
  fate,       \* the settled events, in order, and what became of each
  released    \* how many leading events the source no longer owes

streamVars == <<made, dropped, fate, released>>

Fate == {"stored", "refused", "lost"}

settled == CHOOSE n \in 0..MaxSeq : DOMAIN fate = 1..n

StreamTypeOK ==
  /\ made \in 0..MaxSeq
  /\ dropped \subseteq 1..MaxSeq
  /\ \E n \in 0..MaxSeq : fate \in [1..n -> Fate]
  /\ released \in 0..MaxSeq

StreamInit ==
  /\ made = 0 /\ dropped = {} /\ released = 0
  /\ fate = [s \in {} |-> "lost"]

(* One source transaction creates events and may drop older or even its    *)
(* own ones to stay inside its storage budget.                             *)
Produce ==
  \E n \in made..MaxSeq, d \in SUBSET (1..MaxSeq) :
    /\ d \subseteq (released + 1)..n
    /\ made' = n
    /\ dropped' = dropped \cup d
    /\ UNCHANGED <<fate, released>>

(* The hub settles a contiguous run behind what it already settled.        *)
Settle ==
  \E n \in (settled + 1)..made :
    /\ \E f \in [1..n -> Fate] :
         /\ \A s \in 1..settled : f[s] = fate[s]
         /\ \A s \in (settled + 1)..n : f[s] = "lost" => s \in dropped
         /\ fate' = f
    /\ UNCHANGED <<made, dropped, released>>

(* The source forgets a settled prefix.                                    *)
Release ==
  /\ \E n \in (released + 1)..settled : released' = n
  /\ UNCHANGED <<made, dropped, fate>>

StreamNext == Produce \/ Settle \/ Release

StreamSpec == StreamInit /\ [][StreamNext]_streamVars

(* The live promise: what is created is settled, and then forgotten.       *)
LiveStreamSpec ==
  StreamSpec /\ WF_streamVars(Settle) /\ WF_streamVars(Release)
=============================================================================
