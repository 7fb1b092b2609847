--------------------------- MODULE ProbeConnector ---------------------------
(***************************************************************************)
(* Who may speak to one remote probe: the runtime owner and the connection *)
(* session rows (adapters/repository/probe_runtime.go, probe_connector.go, *)
(* probe_session_authority.go), the loops that compete for them            *)
(* (core/services/probe_connector_service.go, probe_connector_runtime.go)  *)
(* and the generation fence on the probe (edge/store.go).                  *)
(*                                                                         *)
(* A loop is one connectLoop goroutine.  A process whose registry read     *)
(* failed cancels its loop without waiting for it and later starts a       *)
(* second one, so two loops of one owner may overlap.  A lease is kept as  *)
(* the time it has left on the database clock: the clock advances for all  *)
(* rows at once and may be set back, which lengthens them.                 *)
(***************************************************************************)
EXTENDS Integers, FiniteSets

CONSTANTS
  Loops,         \* the goroutines
  Owner,         \* Owner[l]: the process a goroutine belongs to
  Lease,         \* sixty seconds, in ticks
  MaxBack,       \* how far the database clock is set back in all
  MaxGen,        \* bound of epochs and generations
  MaxFaults,     \* crashes, cancellations, broken sockets, failed releases, disablings
  Prompt         \* whether running loops renew before time passes their lease

ASSUME ConnectorAssumption ==
  /\ Lease \in Nat \ {0, 1} /\ MaxGen \in Nat \ {0} /\ {MaxBack, MaxFaults} \subseteq Nat
  /\ Prompt \in BOOLEAN /\ DOMAIN Owner = Loops /\ "nobody" \notin {Owner[l] : l \in Loops}

VARIABLES
  runtime,    \* the runtime owner row
  session,    \* the session row
  enabled,    \* the registration is enabled and no stream reset is pending
  loop,       \* the goroutines
  edge,       \* the probe: highest generation accepted, generation it serves
  back, faults

vars == <<runtime, session, enabled, loop, edge, back, faults>>

Expired == -MaxBack
Owners == {Owner[l] : l \in Loops}
Off == [pc |-> "off", epoch |-> 0, gen |-> 0, lost |-> FALSE, canceled |-> FALSE]

TypeOK ==
  /\ runtime \in [owner : Owners \cup {"nobody"}, epoch : 0..MaxGen,
                  left : Expired..(Lease + MaxBack)]
  /\ session \in [owner : Owners \cup {"nobody", "legacy"}, gen : 0..MaxGen,
                  left : Expired..(Lease + MaxBack), connected : BOOLEAN]
  /\ enabled \in BOOLEAN
  /\ loop \in [Loops -> [pc : {"off", "idle", "owned", "dial", "up", "closing", "ending"},
                         epoch : 0..MaxGen, gen : 0..MaxGen, lost : BOOLEAN, canceled : BOOLEAN]]
  /\ edge \in [accepted : 0..MaxGen, serves : 0..MaxGen]

\* The first start after an upgrade may find a live session of a worker that
\* knows no runtime owners.
Init ==
  /\ runtime = [owner |-> "nobody", epoch |-> 0, left |-> Expired]
  /\ \/ /\ session = [owner |-> "nobody", gen |-> 0, left |-> Expired, connected |-> FALSE]
        /\ edge = [accepted |-> 0, serves |-> 0]
     \/ /\ session = [owner |-> "legacy", gen |-> 1, left |-> Lease, connected |-> TRUE]
        /\ edge = [accepted |-> 1, serves |-> 1]
  /\ enabled = TRUE
  /\ loop = [l \in Loops |-> Off]
  /\ back = 0 /\ faults = 0

Min2(a, b) == IF a < b THEN a ELSE b
Max2(a, b) == IF a > b THEN a ELSE b

Fault == faults < MaxFaults /\ faults' = faults + 1

-----------------------------------------------------------------------------
(* Authority, as the rows state it. *)

matchesProbeRuntime(l) ==
  loop[l].epoch > 0 /\ runtime.epoch = loop[l].epoch /\ runtime.owner = Owner[l]

matchesProbeSession(l) ==
  loop[l].gen > 0 /\ session.gen = loop[l].gen /\ session.owner = Owner[l]

HoldsRuntime(l) == loop[l].pc # "off" /\ matchesProbeRuntime(l) /\ runtime.left > 0

HoldsSession(l) == loop[l].pc = "up" /\ matchesProbeSession(l) /\ session.left > 0

\* lockProbeSession: the fence of every replay, state and command write.
lockProbeSession(l) ==
  loop[l].pc = "up" /\ enabled /\ matchesProbeSession(l) /\ session.left > 0

-----------------------------------------------------------------------------
(* The loops of one process (Run). *)

\* A new loop is started when none of the process is on record, which a
\* canceled one no longer is, ended or not.
Start(l) ==
  /\ loop[l].pc = "off"
  /\ \A k \in Loops : Owner[k] = Owner[l] /\ loop[k].pc # "off" => loop[k].canceled
  /\ loop' = [loop EXCEPT ![l] = [Off EXCEPT !.pc = "idle"]]
  /\ UNCHANGED <<runtime, session, enabled, edge, back, faults>>

\* The registry cannot be read, or no longer lists the probe.
Cancel(l) ==
  /\ loop[l].pc # "off" /\ ~loop[l].canceled /\ Fault
  /\ loop' = [loop EXCEPT ![l].canceled = TRUE]
  /\ UNCHANGED <<runtime, session, enabled, edge, back>>

\* A process stops without releasing anything.
Crash(o) ==
  /\ Fault
  /\ \E l \in Loops : Owner[l] = o /\ loop[l].pc # "off"
  /\ loop' = [l \in Loops |-> IF Owner[l] = o THEN Off ELSE loop[l]]
  /\ UNCHANGED <<runtime, session, enabled, edge, back>>

-----------------------------------------------------------------------------
(* The runtime owner. *)

\* invalidateRuntimeConnector, and the row ReleaseConnector leaves.
Invalidated == [session EXCEPT !.owner = "nobody", !.left = Expired, !.connected = FALSE]

\* Mutant: only a released row is taken over.
AcquireReleasedOnly(l) ==
  /\ loop[l].pc = "idle" /\ ~loop[l].canceled
  /\ enabled /\ runtime.owner = "nobody" /\ runtime.epoch < MaxGen
  /\ runtime.epoch = 0 => session.left <= 0
  /\ runtime' = [owner |-> Owner[l], epoch |-> runtime.epoch + 1, left |-> Lease]
  /\ session' = Invalidated
  /\ loop' = [loop EXCEPT ![l].pc = "owned", ![l].epoch = runtime.epoch + 1]
  /\ UNCHANGED <<enabled, edge, back, faults>>

\* AcquireRuntime: a live epoch refuses everybody, its own owner included; a
\* legacy session is left to drain before the first epoch.
AcquireRuntime(l) ==
  /\ loop[l].pc = "idle" /\ ~loop[l].canceled
  /\ enabled /\ runtime.left <= 0 /\ runtime.epoch < MaxGen
  /\ runtime.epoch = 0 => session.left <= 0
  /\ runtime' = [owner |-> Owner[l], epoch |-> runtime.epoch + 1, left |-> Lease]
  /\ session' = Invalidated
  /\ loop' = [loop EXCEPT ![l].pc = "owned", ![l].epoch = runtime.epoch + 1]
  /\ UNCHANGED <<enabled, edge, back, faults>>

CanRenewRuntime(l) == enabled /\ matchesProbeRuntime(l) /\ runtime.left > 0

\* Mutant: the deadline is what the clock says now.
RenewFromNow(l) ==
  /\ loop[l].pc \in {"owned", "dial", "up"} /\ ~loop[l].canceled
  /\ CanRenewRuntime(l)
  /\ runtime' = [runtime EXCEPT !.left = Lease]
  /\ UNCHANGED <<loop, session, enabled, edge, back, faults>>

\* RenewRuntime: a clock set back must not shorten what a session was granted.
\* A refusal ends the loop's ownership and whatever runs under it.
RenewRuntime(l) ==
  /\ loop[l].pc \in {"owned", "dial", "up"} /\ ~loop[l].canceled
  /\ IF CanRenewRuntime(l)
     THEN /\ runtime' = [runtime EXCEPT !.left = Max2(@, Lease)]
          /\ UNCHANGED loop
     ELSE /\ loop' = [loop EXCEPT ![l].pc = IF @ = "owned" THEN "ending" ELSE "closing",
                                  ![l].lost = TRUE]
          /\ UNCHANGED runtime
  /\ UNCHANGED <<session, enabled, edge, back, faults>>

\* Mutant: whatever epoch its process holds is released.
ReleaseByOwner(l) ==
  /\ loop[l].pc = "ending" \/ (loop[l].pc \in {"idle", "owned"} /\ loop[l].canceled)
  /\ IF runtime.owner = Owner[l]
     THEN /\ runtime' = [runtime EXCEPT !.owner = "nobody", !.left = Expired]
          /\ session' = Invalidated
     ELSE UNCHANGED <<runtime, session>>
  /\ loop' = [loop EXCEPT ![l] = IF loop[l].canceled THEN Off ELSE [Off EXCEPT !.pc = "idle"]]
  /\ UNCHANGED <<enabled, edge, back, faults>>

\* ReleaseRuntime by a loop that ends: only its own epoch, with its session.
ReleaseRuntime(l) ==
  /\ loop[l].pc = "ending" \/ (loop[l].pc \in {"idle", "owned"} /\ loop[l].canceled)
  /\ IF matchesProbeRuntime(l)
     THEN /\ runtime' = [runtime EXCEPT !.owner = "nobody", !.left = Expired]
          /\ session' = Invalidated
     ELSE UNCHANGED <<runtime, session>>
  /\ loop' = [loop EXCEPT ![l] = IF loop[l].canceled THEN Off ELSE [Off EXCEPT !.pc = "idle"]]
  /\ UNCHANGED <<enabled, edge, back, faults>>

\* The release could not reach the database.
ReleaseRuntimeFails(l) ==
  /\ loop[l].pc = "ending" /\ Fault
  /\ loop' = [loop EXCEPT ![l] = IF loop[l].canceled THEN Off ELSE [Off EXCEPT !.pc = "idle"]]
  /\ UNCHANGED <<runtime, session, enabled, edge, back>>

-----------------------------------------------------------------------------
(* The session. *)

\* AcquireRuntimeConnector with acquireProbeConnector: the next generation,
\* granted for no longer than the runtime lease.
AcquireRuntimeConnector(l) ==
  /\ loop[l].pc = "owned" /\ ~loop[l].canceled
  /\ enabled /\ matchesProbeRuntime(l) /\ runtime.left > 0
  /\ session.left <= 0 \/ session.owner = Owner[l]
  /\ session.gen < MaxGen
  /\ session' = [owner |-> Owner[l], gen |-> session.gen + 1,
                 left |-> Min2(Lease, runtime.left), connected |-> FALSE]
  /\ loop' = [loop EXCEPT ![l].pc = "dial", ![l].gen = session.gen + 1]
  /\ UNCHANGED <<runtime, enabled, edge, back, faults>>

\* AcceptConnectionGeneration: the probe serves a generation above every other
\* it accepted, and closes the one before it.
AcceptConnectionGeneration(l) ==
  /\ loop[l].pc = "dial"
  /\ IF loop[l].gen > edge.accepted
     THEN /\ edge' = [accepted |-> loop[l].gen, serves |-> loop[l].gen]
          /\ loop' = [loop EXCEPT ![l].pc = "up"]
     ELSE loop' = [loop EXCEPT ![l].pc = "closing"] /\ UNCHANGED edge
  /\ UNCHANGED <<runtime, session, enabled, back, faults>>

\* SetConnectorConnected on an authenticated health frame.
SetConnectorConnected(l) ==
  /\ loop[l].pc = "up" /\ edge.serves = loop[l].gen
  /\ IF matchesProbeSession(l) /\ session.left > 0 /\ enabled
     THEN ~session.connected /\ session' = [session EXCEPT !.connected = TRUE] /\ UNCHANGED loop
     ELSE loop' = [loop EXCEPT ![l].pc = "closing"] /\ UNCHANGED session
  /\ UNCHANGED <<runtime, enabled, edge, back, faults>>

\* connectorLeaseDeadline: the runtime row, once it exists, must be live and of
\* the same owner, and bounds the new deadline.
CanRenewConnector(l) ==
  /\ enabled /\ matchesProbeSession(l) /\ session.left > 0
  /\ runtime.epoch > 0 => runtime.owner = session.owner /\ runtime.left > 0

RenewConnector(l) ==
  /\ loop[l].pc \in {"dial", "up"} /\ ~loop[l].canceled
  /\ IF CanRenewConnector(l)
     THEN session' = [session EXCEPT !.left = Min2(Lease, runtime.left)] /\ UNCHANGED loop
     ELSE loop' = [loop EXCEPT ![l].pc = "closing"] /\ UNCHANGED session
  /\ UNCHANGED <<runtime, enabled, edge, back, faults>>

\* The socket ends: the probe serves another generation, the loop is canceled.
EndSession(l) ==
  /\ loop[l].pc \in {"dial", "up"}
  /\ loop[l].canceled \/ (loop[l].pc = "up" /\ edge.serves # loop[l].gen)
  /\ loop' = [loop EXCEPT ![l].pc = "closing"]
  /\ UNCHANGED <<runtime, session, enabled, edge, back, faults>>

\* The network or the probe fails.
BreakSession(l) ==
  /\ loop[l].pc \in {"dial", "up"} /\ Fault
  /\ loop' = [loop EXCEPT ![l].pc = "closing"]
  /\ edge' = [edge EXCEPT !.serves = IF @ = loop[l].gen THEN 0 ELSE @]
  /\ UNCHANGED <<runtime, session, enabled, back>>

\* ReleaseConnector by connectOnce as it returns: the generation is kept.  The
\* loop then tries again while its ownership lasts.
ReleaseConnector(l) ==
  /\ loop[l].pc = "closing"
  /\ session' = IF matchesProbeSession(l) THEN Invalidated ELSE session
  /\ edge' = [edge EXCEPT !.serves = IF @ = loop[l].gen THEN 0 ELSE @]
  /\ loop' = [loop EXCEPT ![l].pc = IF loop[l].canceled \/ loop[l].lost
                                    THEN "ending" ELSE "owned",
                          ![l].gen = 0]
  /\ UNCHANGED <<runtime, enabled, back, faults>>

ReleaseConnectorFails(l) ==
  /\ loop[l].pc = "closing" /\ Fault
  /\ edge' = [edge EXCEPT !.serves = IF @ = loop[l].gen THEN 0 ELSE @]
  /\ loop' = [loop EXCEPT ![l].pc = IF loop[l].canceled \/ loop[l].lost
                                    THEN "ending" ELSE "owned",
                          ![l].gen = 0]
  /\ UNCHANGED <<runtime, session, enabled, back>>

-----------------------------------------------------------------------------
(* The registration and the clock. *)

\* An operator disables the probe or starts a stream reset; the rows stay.
Disable == enabled /\ Fault /\ enabled' = FALSE
           /\ UNCHANGED <<runtime, session, loop, edge, back>>

Enable == ~enabled /\ enabled' = TRUE
          /\ UNCHANGED <<runtime, session, loop, edge, back, faults>>

Older(left, n) == Max2(Expired, left - n)

Tick ==
  /\ runtime.left > Expired \/ session.left > Expired
  /\ Prompt => \A l \in Loops :
       /\ loop[l].pc \in {"owned", "dial", "up"} /\ HoldsRuntime(l) => runtime.left > 1
       /\ loop[l].pc \in {"dial", "up"} /\ matchesProbeSession(l) => session.left > 1
  /\ runtime' = [runtime EXCEPT !.left = Older(@, 1)]
  /\ session' = [session EXCEPT !.left = Older(@, 1)]
  /\ UNCHANGED <<enabled, loop, edge, back, faults>>

\* The database clock is set back: a deadline in the future moves away, one in
\* the recent past comes to life again; a cleared one stays cleared.
Longer(left) == IF left = Expired THEN Expired ELSE left + 1

SetClockBack ==
  /\ back < MaxBack /\ back' = back + 1
  /\ runtime' = [runtime EXCEPT !.left = Longer(@)]
  /\ session' = [session EXCEPT !.left = Longer(@)]
  /\ UNCHANGED <<enabled, loop, edge, faults>>

Step(l) ==
  \/ Start(l) \/ AcquireRuntime(l) \/ RenewRuntime(l) \/ ReleaseRuntime(l)
  \/ AcquireRuntimeConnector(l) \/ AcceptConnectionGeneration(l)
  \/ SetConnectorConnected(l) \/ RenewConnector(l) \/ EndSession(l) \/ ReleaseConnector(l)

Next ==
  \/ \E l \in Loops : Step(l)
  \/ \E l \in Loops : Cancel(l) \/ ReleaseRuntimeFails(l) \/ BreakSession(l)
                      \/ ReleaseConnectorFails(l)
  \/ \E o \in Owners : Crash(o)
  \/ Disable \/ Enable \/ Tick \/ SetClockBack

Spec == Init /\ [][Next]_vars

\* The processes that run keep running their loops, time passes, a disabled
\* probe is enabled again.
FairSpec ==
  /\ Spec
  /\ \A l \in Loops :
       /\ WF_vars(Start(l)) /\ WF_vars(AcquireRuntime(l)) /\ WF_vars(RenewRuntime(l))
       /\ WF_vars(ReleaseRuntime(l)) /\ WF_vars(AcquireRuntimeConnector(l))
       /\ WF_vars(AcceptConnectionGeneration(l)) /\ WF_vars(SetConnectorConnected(l))
       /\ WF_vars(RenewConnector(l)) /\ WF_vars(EndSession(l)) /\ WF_vars(ReleaseConnector(l))
  /\ WF_vars(Tick) /\ WF_vars(Enable)

-----------------------------------------------------------------------------
(* Properties. *)

\* A session never outlives the ownership it was granted under: while a runtime
\* row exists, a live session belongs to its owner and ends no later, through
\* renewals, releases and a database clock that is set back (RenewRuntime: "must
\* not shorten parent authority below a child deadline already committed").
SessionWithinRuntime ==
  runtime.epoch > 0 /\ session.left > 0 =>
    session.owner = runtime.owner /\ session.left <= runtime.left

\* Nobody takes away what a loop still holds: an ownership or a session that has
\* not expired is lost only by a step of the loop itself.  Not by a late release
\* of an earlier loop of the same process (ReleaseRuntime: "a stale release can
\* never cancel a replacement owner"), nor by another worker.
NotTaken ==
  \A l \in DOMAIN loop : loop'[l] = loop[l] =>
    /\ HoldsRuntime(l) => matchesProbeRuntime(l)'
    /\ HoldsSession(l) => matchesProbeSession(l)'
AuthorityIsNotTaken == [][NotTaken]_vars

\* Only the newest session writes: a loop whose writes the hub would commit holds
\* a generation at least as high as any the probe ever accepted, so that no
\* older session's batches land after the probe moved on.
NewestSessionWrites ==
  \A l \in DOMAIN loop : lockProbeSession(l) => loop[l].gen >= edge.accepted

\* A session that may write is within its owner's ownership and the newest the
\* probe accepted (lockProbeSession, connectorLeaseDeadline).
SessionsAreFenced == SessionWithinRuntime /\ NewestSessionWrites
=============================================================================
