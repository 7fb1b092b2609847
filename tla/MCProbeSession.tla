--------------------------- MODULE MCProbeSession ---------------------------
(***************************************************************************)
(* Who speaks to a remote probe, and with which credential, on small       *)
(* instances.  The two machines share no state; a behaviour keeps to one   *)
(* scenario while the other machine rests:                                 *)
(*   loops     two loops of one process and one of another compete for the *)
(*             probe                                                       *)
(*   prompt    one loop in each of two processes; they renew in time, and  *)
(*             keep running                                                *)
(*   rotation  two rotations after the enrolled credential, while sockets  *)
(*             break and the probe's clock is set                          *)
(*   settling  one rotation; both processes keep running                   *)
(***************************************************************************)
EXTENDS ProbeConnector, CredentialRotation

CONSTANTS l1, l2, l3

VARIABLE scenario

all == <<scenario, vars, rotationVars>>

MCOwner == [l \in {l1, l2, l3} |-> IF l = l3 THEN "w2" ELSE "w1"]

PromptLoops == {l1, l3}
Renewing == INSTANCE ProbeConnector WITH
  Loops <- PromptLoops, Owner <- [l \in PromptLoops |-> MCOwner[l]],
  MaxGen <- 5, MaxFaults <- 2, Prompt <- TRUE
Settling == INSTANCE CredentialRotation WITH MaxVersion <- 2

ASSUME RotationParameters == Parameters /\ Settling!Parameters

Connects(name) == scenario = name /\ UNCHANGED <<scenario, rotationVars>>
Rotates(name) == scenario = name /\ UNCHANGED <<scenario, vars>>

MCInit ==
  \/ scenario = "loops" /\ Init /\ RotationInit
  \/ scenario = "prompt" /\ Renewing!Init /\ RotationInit
  \/ scenario \in {"rotation", "settling"} /\ RotationInit /\ Renewing!Init /\ edge.accepted = 0

MCNext ==
  \/ Connects("loops") /\ Next
  \/ Connects("prompt") /\ Renewing!Next
  \/ Rotates("rotation") /\ RotationNext
  \/ Rotates("settling") /\ Settling!RotationNext

Renews == Connects("prompt")
Settles == Rotates("settling")

\* The fairness of the two specifications, in the scenarios that keep running.
MCSpec ==
  /\ MCInit /\ [][MCNext]_all
  /\ \A l \in PromptLoops :
       /\ WF_all(Renews /\ Renewing!Start(l)) /\ WF_all(Renews /\ Renewing!AcquireRuntime(l))
       /\ WF_all(Renews /\ Renewing!RenewRuntime(l)) /\ WF_all(Renews /\ Renewing!ReleaseRuntime(l))
       /\ WF_all(Renews /\ Renewing!AcquireRuntimeConnector(l))
       /\ WF_all(Renews /\ Renewing!AcceptConnectionGeneration(l))
       /\ WF_all(Renews /\ Renewing!SetConnectorConnected(l))
       /\ WF_all(Renews /\ Renewing!RenewConnector(l)) /\ WF_all(Renews /\ Renewing!EndSession(l))
       /\ WF_all(Renews /\ Renewing!ReleaseConnector(l))
  /\ WF_all(Renews /\ Renewing!Tick) /\ WF_all(Renews /\ Renewing!Enable)
  /\ WF_all(Settles /\ Settling!SelectCredentialConnection)
  /\ WF_all(Settles /\ Settling!AuthenticateRuntime)
  /\ WF_all(Settles /\ Settling!AcceptCredentialConnection)
  /\ WF_all(Settles /\ Settling!ConfirmCredentialConnection)
  /\ \A k \in Settling!Kinds : WF_all(Settles /\ Settling!ClaimCommand(k))
  /\ WF_all(Settles /\ \E m \in Settling!Requests :
                         Settling!ApplyCredentialCommand(m) \/ Settling!DropQuiesced(m))
  /\ SF_all(Settles /\ \E m \in Settling!Results : Settling!RecordCommandResult(m))
  /\ WF_all(Settles /\ Settling!EndSocket)

-----------------------------------------------------------------------------
\* The probe is reached again: after crashes, cancellations, broken sockets and
\* releases that never arrived, some loop holds a connected session that the
\* probe serves, as long as one process can run.
ProbeIsReached ==
  []<>(scenario = "prompt" => \E l \in PromptLoops :
         Renewing!lockProbeSession(l) /\ session.connected /\ edge.serves = loop[l].gen)

\* A rotation does not stay unresolved: once sockets stop breaking it is
\* activated or given up, whatever was lost before and even after the overlap.
RotationSettles ==
  scenario = "settling" /\ hub.state \in {"preparing", "activating"}
    ~> hub.state \in {"active", "failed"}
=============================================================================
