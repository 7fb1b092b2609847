----------------------------- MODULE MCWatchdog -----------------------------
(***************************************************************************)
(* Watchdog for one peer on small instances.  A behaviour keeps to one of  *)
(* three scenarios:                                                        *)
(*   faults    the process stops, or a commit's outcome is lost            *)
(*   settings  the operator changes the loss interval or disables the peer *)
(*   silence   after the tick Quiet the peer says nothing, and nothing     *)
(*             fails or changes                                            *)
(***************************************************************************)
EXTENDS Watchdog

CONSTANTS Quiet, LastTick

VARIABLE scenario

all == <<vars, scenario>>
Only(names) == scenario \in names

Silent ==
  /\ UNCHANGED <<faults, cfg>>
  /\ session'.gen = session.gen /\ Len(inbox'.queue) <= Len(inbox.queue)

Allowed ==
  /\ UNCHANGED scenario
  /\ now' <= LastTick[scenario]
  /\ IF Only({"settings"}) THEN faults' = 0 ELSE cfg'.rev <= 1 /\ cfg'.lost = cfg.lost
  /\ Only({"silence"}) /\ now > Quiet => Silent

MCInit == Init /\ scenario \in DOMAIN LastTick
MCNext == Next /\ Allowed
MCSpec ==
  /\ MCInit /\ [][MCNext]_all
  /\ WF_all(Take /\ Allowed) /\ WF_all(Propose /\ Allowed) /\ WF_all(Commit /\ Allowed)
  /\ WF_all(CommitFails /\ Allowed) /\ WF_all(Begin /\ Allowed) /\ WF_all(Start /\ Allowed)
  /\ WF_all(Tick /\ Allowed)

LastTicks == [faults |-> 5, settings |-> 4, silence |-> 5]

-----------------------------------------------------------------------------
\* Run, Age and Checkpoint: once the peer has fallen silent, an owner whose timer
\* runs reports it in the end and the report stands.
Watching == /\ Only({"silence"})
            /\ now = Quiet + 1 /\ cfg.enabled /\ src.timer.on /\ src.timer.armed
            /\ src.timer.timing = Timing(cfg.lost) /\ row.cp = src.persisted
SilenceIsReported == Watching ~> [](row.incident = "firing")
=============================================================================
