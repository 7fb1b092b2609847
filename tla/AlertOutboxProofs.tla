------------------------- MODULE AlertOutboxProofs -------------------------
(***************************************************************************)
(* Proofs about AlertOutbox, for any channels, consumers and bounds: the   *)
(* lifecycle rows stay sound, an acknowledgement stops the pages not yet   *)
(* handed over, a plain recovery follows a page that was taken, and what   *)
(* a provider takes again is paid for by a fault.                          *)
(***************************************************************************)
EXTENDS AlertOutbox, FiniteSetTheorems, SequenceTheorems, TLAPS

\* The rows of the lifecycle, in their types and side by side.
Rows ==
    /\ gen \in Nat \ {0} /\ rev \in Nat \ {0}
    /\ incidents \in Seq(Incident) /\ alerts \in Seq(Alert) /\ Len(alerts) = Len(incidents)

\* No incident is of a generation to come; of the present one, one is open at most.
IncidentsArePast == \A i \in DOMAIN incidents : incidents[i].gen <= gen
OneOpen == \A i, j \in OpenAlerts : i = j

LifecycleInv ==
    /\ Rows
    /\ AlertMirrorsIncident
    /\ IncidentsArePast
    /\ OneOpen
    /\ AlertTracksStatus

-----------------------------------------------------------------------------

\* Both tables have the same rows.
LEMMA RowDomains ==
    ASSUME Rows
    PROVE  /\ Len(alerts) \in Nat /\ DOMAIN alerts = 1..Len(alerts) /\ DOMAIN incidents = DOMAIN alerts
           /\ \A i \in DOMAIN alerts : incidents[i] \in Incident /\ alerts[i] \in Alert
<1>1. Len(alerts) \in Nat /\ DOMAIN alerts = 1..Len(alerts) /\ DOMAIN incidents = DOMAIN alerts
  BY LenProperties DEF Rows
<1>2. \A i \in DOMAIN alerts : incidents[i] \in Incident /\ alerts[i] \in Alert
  BY <1>1, ElementOfSeq DEF Rows
<1>3. QED BY <1>1, <1>2

\* What a renewed and a recovered incident look like.
LEMMA RenewedIncident ==
    ASSUME LifecycleInv, NEW i \in DOMAIN alerts
    PROVE  /\ Refired(i) \in Incident /\ Refired(i).gen = incidents[i].gen
           /\ Refired(i).status = incidents[i].status
           /\ Refired(i) = incidents[i] \/ Refired(i).version = incidents[i].version + 1
           /\ Recovered(i) \in Incident /\ Recovered(i).gen = incidents[i].gen
           /\ Recovered(i).status = "resolved" /\ Recovered(i).version = incidents[i].version + 1
<1>1. /\ incidents[i] \in Incident /\ alerts[i] \in Alert /\ rev \in Nat \ {0}
      /\ alerts[i].version = incidents[i].version
  BY RowDomains DEF LifecycleInv, Rows, AlertMirrorsIncident
<1>2. alerts[i].version + 1 \in Nat \ {0}
  BY <1>1 DEF Alert
<1>3. PICK r \in Incident : r = [incidents[i] EXCEPT !.rev = rev, !.version = alerts[i].version + 1]
  BY <1>1, <1>2 DEF Incident
<1>4. r.gen = incidents[i].gen /\ r.status = incidents[i].status /\ r.version = incidents[i].version + 1
  BY <1>1, <1>3 DEF Incident
<1>5. \A x \in Incident : /\ [x EXCEPT !.status = "resolved"] \in Incident
                          /\ [x EXCEPT !.status = "resolved"].gen = x.gen
                          /\ [x EXCEPT !.status = "resolved"].version = x.version
                          /\ [x EXCEPT !.status = "resolved"].status = "resolved"
  BY DEF Incident, Lifecycle
<1>6. Recovered(i) = [r EXCEPT !.status = "resolved"]
  BY <1>3 DEF Recovered
<1>7. Refired(i) = incidents[i] \/ Refired(i) = r
  BY <1>3 DEF Refired
<1>8. QED BY <1>1, <1>4, <1>5, <1>6, <1>7

\* One row of both tables changes, of an alert that is not resolved: to a row as
\* open as it was, or to a resolved one.
LEMMA RowStep ==
    ASSUME LifecycleInv, NEW i \in DOMAIN alerts, NEW x \in Incident, NEW a \in Alert,
           incidents' = [incidents EXCEPT ![i] = x], alerts' = [alerts EXCEPT ![i] = a],
           x.status = a.status, x.version = a.version, x.gen = incidents[i].gen,
           alerts[i].status = "resolved" => a.status = "resolved",
           UNCHANGED <<gen, rev>>
    PROVE  /\ Rows' /\ AlertMirrorsIncident' /\ IncidentsArePast' /\ OneOpen'
           /\ OpenAlerts' = IF a.status = "resolved" THEN OpenAlerts \ {i} ELSE OpenAlerts
<1>1. /\ incidents' \in Seq(Incident) /\ alerts' \in Seq(Alert)
      /\ Len(alerts') = Len(alerts) /\ Len(incidents') = Len(incidents)
      /\ \A j \in 1..Len(alerts) : /\ alerts'[j] = IF j = i THEN a ELSE alerts[j]
                                   /\ incidents'[j] = IF j = i THEN x ELSE incidents[j]
  BY RowDomains, ExceptSeq DEF LifecycleInv, Rows
<1>2. Rows'
  BY <1>1 DEF LifecycleInv, Rows
<1>3. DOMAIN alerts' = DOMAIN alerts /\ DOMAIN incidents' = DOMAIN alerts /\ DOMAIN alerts = 1..Len(alerts)
  BY <1>1, <1>2, RowDomains DEF LifecycleInv
<1>4. AlertMirrorsIncident' /\ IncidentsArePast'
  BY <1>1, <1>3 DEF LifecycleInv, AlertMirrorsIncident, IncidentsArePast
<1>5. OpenAlerts' = IF a.status = "resolved" THEN OpenAlerts \ {i} ELSE OpenAlerts
  BY <1>1, <1>3 DEF OpenAlerts
<1>6. OneOpen'
  BY <1>5 DEF LifecycleInv, OneOpen
<1>7. QED BY <1>2, <1>4, <1>5, <1>6

\* The rows stay; a status that asks for no other row.
LEMMA QuietStep ==
    ASSUME LifecycleInv, UNCHANGED <<gen, incidents, alerts>>, rev' \in Nat \ {0},
           status' = "DOWN" => OpenAlerts # {}, status' = "UP" => OpenAlerts = {}
    PROVE  LifecycleInv'
  BY DEF LifecycleInv, Rows, AlertMirrorsIncident, IncidentsArePast, OneOpen, OpenAlerts, AlertTracksStatus

LEMMA LifecycleStep == LifecycleInv /\ [Next]_vars => LifecycleInv'
<1> SUFFICES ASSUME LifecycleInv, [Next]_vars PROVE LifecycleInv'
  OBVIOUS
<1>0. Rows /\ AlertTracksStatus /\ gen \in Nat \ {0} /\ rev \in Nat \ {0}
  BY DEF LifecycleInv, Rows
<1>1. ASSUME NEW s \in Recorded, NEW elapsed \in BOOLEAN, RecordQuietly(s, elapsed) PROVE LifecycleInv'
  <2>1. /\ UNCHANGED <<gen, rev, incidents, alerts>> /\ status' = s
        /\ s = "DOWN" => OpenAlerts # {}
        /\ s = "UP" => status = "UP" \/ OpenAlerts = {}
    BY <1>1 DEF RecordQuietly, configVars
  <2>2. QED BY <1>0, <2>1, QuietStep DEF AlertTracksStatus
<1>2. CASE OpenIncident
  <2>0. Len(alerts) \in Nat /\ Len(incidents) = Len(alerts) /\ DOMAIN alerts = 1..Len(alerts)
        /\ DOMAIN incidents = DOMAIN alerts
    BY <1>0, RowDomains DEF Rows
  <2>f. "firing" \in Lifecycle /\ 1 \in Nat \ {0}
    BY DEF Lifecycle
  <2>1. PICK x \in Incident : x = [status |-> "firing", version |-> 1, rev |-> rev, gen |-> gen]
    BY <1>0, <2>f DEF Incident
  <2>2. PICK a \in Alert : a = [status |-> "firing", version |-> 1]
    BY <2>f DEF Alert
  <2>3. /\ incidents' = Append(incidents, x) /\ alerts' = Append(alerts, a) /\ OpenAlerts = {}
        /\ status' = "DOWN" /\ UNCHANGED <<gen, rev>>
    BY <1>2, <2>1, <2>2 DEF OpenIncident, configVars
  <2>4. /\ incidents' \in Seq(Incident) /\ alerts' \in Seq(Alert)
        /\ Len(incidents') = Len(alerts) + 1 /\ Len(alerts') = Len(alerts) + 1
        /\ alerts'[Len(alerts) + 1] = a /\ incidents'[Len(alerts) + 1] = x
        /\ \A j \in 1..Len(alerts) : alerts'[j] = alerts[j] /\ incidents'[j] = incidents[j]
    BY <1>0, <2>0, <2>3, AppendProperties DEF Rows
  <2>5. Rows'
    BY <1>0, <2>3, <2>4 DEF Rows
  <2>6. /\ DOMAIN alerts' = (1..Len(alerts)) \cup {Len(alerts) + 1} /\ DOMAIN incidents' = DOMAIN alerts'
    BY <2>0, <2>4, <2>5, RowDomains
  <2>7. AlertMirrorsIncident' /\ IncidentsArePast'
    BY <1>0, <2>0, <2>1, <2>2, <2>3, <2>4, <2>6 DEF LifecycleInv, AlertMirrorsIncident, IncidentsArePast
  <2>8. OpenAlerts' = {Len(alerts) + 1}
    BY <2>0, <2>1, <2>2, <2>3, <2>4, <2>6 DEF OpenAlerts
  <2>9. QED BY <2>3, <2>5, <2>7, <2>8 DEF LifecycleInv, OneOpen, AlertTracksStatus
<1>3. ASSUME NEW i \in DOMAIN alerts, NEW elapsed \in BOOLEAN, NEW late \in BOOLEAN,
             RenewIncident(i, elapsed, late)
      PROVE  LifecycleInv'
  <2>1. /\ i \in OpenAlerts /\ alerts[i].status = "firing" /\ status' = "DOWN"
        /\ incidents' = [incidents EXCEPT ![i] = Refired(i)] /\ UNCHANGED <<gen, rev>>
        /\ alerts' = [alerts EXCEPT ![i].version = IF @ < Refired(i).version THEN Refired(i).version ELSE @]
    BY <1>3 DEF RenewIncident, configVars
  <2>2. alerts[i] \in Alert /\ alerts[i].status = incidents[i].status /\ alerts[i].version = incidents[i].version
    BY <1>0, RowDomains DEF LifecycleInv, AlertMirrorsIncident
  <2>3. Refired(i).version \in Nat \ {0} /\ alerts[i].version \in Nat \ {0}
    BY <2>2, RenewedIncident DEF Incident, Alert
  <2>4. (IF alerts[i].version < Refired(i).version THEN Refired(i).version ELSE alerts[i].version) = Refired(i).version
    BY <2>2, <2>3, RenewedIncident
  <2>5. PICK a \in Alert : a = [alerts[i] EXCEPT !.version = Refired(i).version]
    BY <2>2, <2>3 DEF Alert
  <2>6. a.status = alerts[i].status /\ a.version = Refired(i).version
    BY <2>2, <2>5 DEF Alert
  <2>7. alerts' = [alerts EXCEPT ![i] = a]
    BY <2>1, <2>4, <2>5
  <2>8. /\ Rows' /\ AlertMirrorsIncident' /\ IncidentsArePast' /\ OneOpen' /\ OpenAlerts' = OpenAlerts
    <3>1. PICK x \in Incident : x = Refired(i)
      BY RenewedIncident
    <3>2. x.status = a.status /\ x.version = a.version /\ x.gen = incidents[i].gen /\ a.status = "firing"
      BY <2>1, <2>2, <2>6, <3>1, RenewedIncident
    <3>3. incidents' = [incidents EXCEPT ![i] = x]
      BY <2>1, <3>1
    <3>4. alerts[i].status # "resolved" /\ a.status # "resolved" /\ UNCHANGED <<gen, rev>>
      BY <2>1, <3>2
    <3>5. QED BY <2>7, <3>2, <3>3, <3>4, RowStep
  <2>9. QED BY <2>1, <2>8 DEF LifecycleInv, AlertTracksStatus
<1>4. ASSUME NEW i \in DOMAIN alerts, ResolveIncident(i) PROVE LifecycleInv'
  <2>1. PICK a \in Alert : a = [status |-> "resolved", version |-> Recovered(i).version]
    BY RenewedIncident DEF Alert, Incident, Lifecycle
  <2>2. /\ i \in OpenAlerts /\ status' = "UP" /\ UNCHANGED <<gen, rev>>
        /\ incidents' = [incidents EXCEPT ![i] = Recovered(i)] /\ alerts' = [alerts EXCEPT ![i] = a]
    BY <1>4, <2>1 DEF ResolveIncident, configVars
  <2>3. /\ Rows' /\ AlertMirrorsIncident' /\ IncidentsArePast' /\ OneOpen' /\ OpenAlerts' = OpenAlerts \ {i}
    BY <2>1, <2>2, RenewedIncident, RowStep
  <2>4. OpenAlerts' = {}
    BY <2>2, <2>3 DEF LifecycleInv, OneOpen
  <2>5. QED BY <2>2, <2>3, <2>4 DEF LifecycleInv, AlertTracksStatus
<1>5. ASSUME NEW i \in DOMAIN alerts, Acknowledge(i) PROVE LifecycleInv'
  <2>0. incidents[i] \in Incident /\ alerts[i] \in Alert /\ alerts[i].version + 1 \in Nat \ {0}
    BY <1>0, RowDomains DEF Alert
  <2>1. PICK a \in Alert : a = [status |-> "acked", version |-> alerts[i].version + 1]
    BY <2>0 DEF Alert, Lifecycle
  <2>2. PICK y \in Incident : y = [incidents[i] EXCEPT !.status = "acked"]
    BY <2>0 DEF Incident, Lifecycle
  <2>3. PICK x \in Incident : x = [y EXCEPT !.version = alerts[i].version + 1]
    BY <2>0 DEF Incident
  <2>4. x.status = "acked" /\ x.version = a.version /\ x.gen = incidents[i].gen /\ a.status = "acked"
    BY <2>0, <2>1, <2>2, <2>3 DEF Incident
  <2>5. /\ alerts[i].status = "firing" /\ alerts' = [alerts EXCEPT ![i] = a]
        /\ incidents' = [incidents EXCEPT ![i] = x] /\ UNCHANGED <<gen, rev, status>>
    BY <1>5, <2>1, <2>2, <2>3 DEF Acknowledge, configVars
  <2>6. /\ Rows' /\ AlertMirrorsIncident' /\ IncidentsArePast' /\ OneOpen' /\ OpenAlerts' = OpenAlerts
    BY <2>4, <2>5, RowStep
  <2>7. QED BY <1>0, <2>5, <2>6 DEF LifecycleInv, AlertTracksStatus
<1>6. ASSUME NEW changed \in SUBSET Channels, NEW links \in SUBSET Channels, Activate(changed, links)
      PROVE  LifecycleInv'
  BY <1>0, <1>6, QuietStep DEF Activate, lifecycleVars, AlertTracksStatus
\* No incident is of the next generation.
<1>7. CASE Reassign
  <2>1. gen' = gen + 1 /\ rev' = rev + 1 /\ status' = "NONE" /\ UNCHANGED <<incidents, alerts>>
    BY <1>7 DEF Reassign
  <2>2. Rows'
    BY <1>0, <2>1 DEF Rows
  <2>3. \A i \in DOMAIN alerts : incidents[i].gen \in Nat /\ incidents[i].gen <= gen
    BY <1>0, RowDomains DEF LifecycleInv, IncidentsArePast, Incident
  <2>4. IncidentsArePast' /\ OpenAlerts' = {}
    BY <1>0, <2>1, <2>3, RowDomains DEF IncidentsArePast, OpenAlerts
  <2>5. QED BY <2>1, <2>2, <2>4 DEF LifecycleInv, AlertMirrorsIncident, OneOpen, AlertTracksStatus
<1>8. CASE ToggleMaintenance \/ ToggleGate
  BY <1>0, <1>8, QuietStep DEF ToggleMaintenance, ToggleGate, configVars, lifecycleVars, AlertTracksStatus
<1>9. ASSUME NEW w \in Workers, ConsumerStep(w) PROVE LifecycleInv'
  <2>1. UNCHANGED <<configVars, lifecycleVars>>
    BY <1>9 DEF ConsumerStep, Process, ClaimDeliveries, ReconcileBeforeSend, AuthorizeLocalDelivery,
       Send, FinishDelivery, AbandonBatch, OutcomeLost
  <2>2. QED BY <1>0, <2>1, QuietStep DEF configVars, lifecycleVars, AlertTracksStatus
<1>10. ASSUME NEW k \in DOMAIN intents, Expire(k) PROVE LifecycleInv'
  BY <1>0, <1>10, QuietStep DEF Expire, configVars, lifecycleVars, AlertTracksStatus
<1>11. CASE UNCHANGED vars
  BY <1>0, <1>11, QuietStep DEF vars, configVars, lifecycleVars, AlertTracksStatus
<1>12. QED
  BY <1>1, <1>2, <1>3, <1>4, <1>5, <1>6, <1>7, <1>8, <1>9, <1>10, <1>11 DEF Next, RecordStep, OperatorStep

\* The invariant of the lifecycle rows.
THEOREM LifecycleInvariant == Spec => []LifecycleInv
<1>1. Init => LifecycleInv
  BY EmptySeq DEF Init, LifecycleInv, Rows, AlertMirrorsIncident, IncidentsArePast, OneOpen, OpenAlerts,
     AlertTracksStatus
<1>2. QED BY <1>1, LifecycleStep, PTL DEF Spec

\* For every number of outages, revisions and reassignments, in every order of
\* checks, acknowledgements and gates: the alert row and the incident row agree,
\* the store never refuses a heartbeat for its incident, and an alert is open
\* exactly while the monitor is recorded DOWN and not when it is recorded UP
\* (commitLifecycleAndDeliveriesTx, putIncidentWithOwnerTx, AckAlert).
THEOREM LifecycleSound == Spec => []LifecycleIsSound
<1>1. LifecycleInv => LifecycleIsSound
  <2> SUFFICES ASSUME LifecycleInv PROVE LifecycleIsSound
    OBVIOUS
  <2>1. Cardinality(OpenAlerts) <= 1
    <3>1. CASE OpenAlerts = {}
      BY <3>1, FS_EmptySet
    <3>2. CASE OpenAlerts # {}
      <4>1. PICK i : OpenAlerts = {i}
        BY <3>2 DEF LifecycleInv, OneOpen
      <4>2. Cardinality(OpenAlerts) = 1
        BY <4>1, FS_Singleton
      <4>3. QED BY <4>2
    <3>3. QED BY <3>1, <3>2
  <2>2. ASSUME NEW i \in OpenAlerts
        PROVE  Accepts(incidents[i], Refired(i)) /\ Accepts(incidents[i], Recovered(i))
    <3>1. i \in DOMAIN alerts /\ alerts[i].status # "resolved"
      BY DEF OpenAlerts
    <3>2. incidents[i].version \in Nat /\ incidents[i].status # "resolved"
      BY <3>1, RowDomains DEF LifecycleInv, AlertMirrorsIncident, Incident
    <3>3. QED BY <3>1, <3>2, RenewedIncident DEF Accepts
  <2>3. QED BY <2>1, <2>2 DEF LifecycleInv, LifecycleIsSound, HeartbeatNeverBlocked
<1>2. QED BY <1>1, LifecycleInvariant, PTL

\* A resolved incident and its alert never change again, and no row ever goes
\* back in version (putIncidentWithOwnerTx's version fence).
THEOREM ResolvedStaysResolved == Spec => ResolvedIsFinal
<1>1. LifecycleInv /\ [Next]_vars =>
        [\A i \in DOMAIN incidents :
          /\ incidents[i].status = "resolved" => incidents'[i] = incidents[i] /\ alerts'[i] = alerts[i]
          /\ alerts'[i].version >= alerts[i].version]_vars
  <2> SUFFICES ASSUME LifecycleInv, Next, NEW i \in DOMAIN incidents
               PROVE  /\ incidents[i].status = "resolved" =>
                           incidents'[i] = incidents[i] /\ alerts'[i] = alerts[i]
                      /\ alerts'[i].version >= alerts[i].version
    OBVIOUS
  <2>0. /\ i \in DOMAIN alerts /\ i \in 1..Len(alerts) /\ Len(alerts) \in Nat
        /\ incidents \in Seq(Incident) /\ alerts \in Seq(Alert) /\ Len(incidents) = Len(alerts)
        /\ alerts[i].version \in Nat /\ incidents[i].version = alerts[i].version
        /\ incidents[i].status = alerts[i].status
    BY RowDomains DEF LifecycleInv, Rows, AlertMirrorsIncident, Alert
  <2>1. CASE UNCHANGED <<incidents, alerts>>
    BY <2>0, <2>1
  <2>2. ASSUME NEW k \in DOMAIN alerts, NEW x, NEW a, alerts[k].status # "resolved",
               incidents' = [incidents EXCEPT ![k] = x], alerts' = [alerts EXCEPT ![k] = a],
               a.version >= alerts[k].version
        PROVE  /\ incidents[i].status = "resolved" =>
                    incidents'[i] = incidents[i] /\ alerts'[i] = alerts[i]
               /\ alerts'[i].version >= alerts[i].version
    BY <2>0, <2>2
  <2>3. CASE OpenIncident
    <3>1. \E x, a : incidents' = Append(incidents, x) /\ alerts' = Append(alerts, a)
      BY <2>3 DEF OpenIncident
    <3>2. QED BY <2>0, <3>1
  <2>4. ASSUME NEW k \in DOMAIN alerts, NEW elapsed \in BOOLEAN, NEW late \in BOOLEAN,
               RenewIncident(k, elapsed, late)
        PROVE  /\ incidents[i].status = "resolved" =>
                    incidents'[i] = incidents[i] /\ alerts'[i] = alerts[i]
               /\ alerts'[i].version >= alerts[i].version
    <3>0. alerts[k] \in Alert /\ alerts[k].version = incidents[k].version
      BY RowDomains DEF LifecycleInv, AlertMirrorsIncident
    <3>1. Refired(k).version \in Nat /\ alerts[k].version \in Nat
      BY <3>0, RenewedIncident DEF Incident, Alert
    <3>2. PICK v \in Nat : v = (IF alerts[k].version < Refired(k).version THEN Refired(k).version
                                ELSE alerts[k].version)
      BY <3>1
    <3>3. PICK a : a = [alerts[k] EXCEPT !.version = v]
      OBVIOUS
    <3>4. a.version = v /\ v >= alerts[k].version
      BY <3>0, <3>1, <3>2, <3>3 DEF Alert
    <3>5. incidents' = [incidents EXCEPT ![k] = Refired(k)] /\ alerts' = [alerts EXCEPT ![k] = a]
          /\ alerts[k].status # "resolved"
      BY <2>4, <3>2, <3>3 DEF RenewIncident
    <3>6. QED BY <2>2, <3>4, <3>5
  <2>5. ASSUME NEW k \in DOMAIN alerts, ResolveIncident(k)
        PROVE  /\ incidents[i].status = "resolved" =>
                    incidents'[i] = incidents[i] /\ alerts'[i] = alerts[i]
               /\ alerts'[i].version >= alerts[i].version
    <3>0. alerts[k].version \in Nat /\ alerts[k].version = incidents[k].version
      BY RowDomains DEF LifecycleInv, AlertMirrorsIncident, Alert
    <3>1. PICK a : a = [status |-> "resolved", version |-> Recovered(k).version]
      OBVIOUS
    <3>2. a.version >= alerts[k].version
      BY <3>0, <3>1, RenewedIncident
    <3>3. incidents' = [incidents EXCEPT ![k] = Recovered(k)] /\ alerts' = [alerts EXCEPT ![k] = a]
          /\ alerts[k].status # "resolved"
      BY <2>5, <3>1 DEF ResolveIncident, OpenAlerts
    <3>4. QED BY <2>2, <3>2, <3>3
  <2>6. ASSUME NEW k \in DOMAIN alerts, Acknowledge(k)
        PROVE  /\ incidents[i].status = "resolved" =>
                    incidents'[i] = incidents[i] /\ alerts'[i] = alerts[i]
               /\ alerts'[i].version >= alerts[i].version
    <3>0. alerts[k].version \in Nat
      BY RowDomains DEF LifecycleInv, Alert
    <3>1. PICK a : a = [status |-> "acked", version |-> alerts[k].version + 1]
      OBVIOUS
    <3>2. PICK x : x = [incidents[k] EXCEPT !.status = "acked", !.version = alerts[k].version + 1]
      OBVIOUS
    <3>3. incidents' = [incidents EXCEPT ![k] = x] /\ alerts' = [alerts EXCEPT ![k] = a]
          /\ alerts[k].status # "resolved"
      BY <2>6, <3>1, <3>2 DEF Acknowledge
    <3>4. a.version >= alerts[k].version
      BY <3>0, <3>1
    <3>5. QED BY <2>2, <3>3, <3>4
  <2>7. ASSUME NEW w \in Workers, ConsumerStep(w) PROVE UNCHANGED <<incidents, alerts>>
    BY <2>7 DEF ConsumerStep, Process, ClaimDeliveries, ReconcileBeforeSend, AuthorizeLocalDelivery,
       Send, FinishDelivery, AbandonBatch, OutcomeLost, lifecycleVars
  <2>8. ASSUME \/ \E s \in Recorded, elapsed \in BOOLEAN : RecordQuietly(s, elapsed)
               \/ \E changed, links \in SUBSET Channels : Activate(changed, links)
               \/ Reassign \/ ToggleMaintenance \/ ToggleGate
               \/ \E k \in DOMAIN intents : Expire(k)
        PROVE  UNCHANGED <<incidents, alerts>>
    BY <2>8 DEF RecordQuietly, Activate, Reassign, ToggleMaintenance, ToggleGate, Expire, lifecycleVars
  <2>9. QED
    BY <2>1, <2>3, <2>4, <2>5, <2>6, <2>7, <2>8 DEF Next, RecordStep, OperatorStep
<1>2. QED BY <1>1, LifecycleInvariant, PTL DEF Spec, ResolvedIsFinal

-----------------------------------------------------------------------------
(* The messages and their consumers. *)

\* Every intent is about an incident on record, and every consumer about intents
\* on record.
References ==
    /\ \A k \in DOMAIN intents : intents[k].inc \in DOMAIN incidents
    /\ \A w \in Workers : /\ worker[w].todo \subseteq DOMAIN intents
                          /\ worker[w].pc # "idle" => worker[w].cur \in DOMAIN intents

\* What is recorded, or about to be recorded, as sent was taken by the provider.
SentWasTaken == \A k \in DOMAIN intents : intents[k].status = "sent" => intents[k].accepted > 0
FinishedWasTaken ==
    \A w \in Workers : worker[w].pc = "finish" /\ worker[w].result = "ok"
                         => intents[worker[w].cur].accepted > 0

DeliveryInv ==
    /\ linked \subseteq Channels
    /\ intents \in Seq(Intent) /\ worker \in [Workers -> Consumer]
    /\ References
    /\ SentWasTaken
    /\ FinishedWasTaken
    /\ NoOrphanRecovery

\* Some enumeration of a finite set.
LEMMA Enumeration ==
    ASSUME NEW S, IsFiniteSet(S)
    PROVE  Cardinality(S) \in Nat /\ SetToSeq(S) \in [1..Cardinality(S) -> S]
<1>1. Cardinality(S) \in Nat /\ ExistsBijection(1..Cardinality(S), S)
  BY FS_CardinalityType
<1>2. \E f \in [1..Cardinality(S) -> S] : IsInjective(f)
  BY <1>1 DEF ExistsBijection, Bijection, Injection
<1>3. QED BY <1>1, <1>2 DEF SetToSeq

Kinds == {"status_change", "incident_summary"}

\* What a transition queues.
NewMessages(q, i, check, kind) ==
    \A k \in DOMAIN q : /\ q[k].inc = i /\ q[k].ch \in Channels /\ q[k].check = check
                        /\ q[k].kind = kind[q[k].ch] /\ q[k].status = "pending"
LEMMA QueuedMessages ==
    ASSUME linked \subseteq Channels, rev \in Nat \ {0}, NEW i \in Nat \ {0}, NEW ver \in Nat \ {0},
           NEW check \in {"DOWN", "UP"}, NEW kind \in [Channels -> Kinds],
           NEW q, q = Queued(i, ver, check, kind)
    PROVE  q \in Seq(Intent) /\ NewMessages(q, i, check, kind)
<1>1. CASE gate
  BY <1>1, EmptySeq DEF Queued, NewMessages
<1>2. CASE ~gate
  <2> DEFINE chs == SetToSeq(linked)
             c == Cardinality(linked)
             Msg(ch) == [inc |-> i, ver |-> ver, ch |-> ch, rev |-> rev, check |-> check,
                         kind |-> kind[ch], status |-> "pending", holder |-> NoWorker,
                         live |-> FALSE, attempt |-> 0, accepted |-> 0]
  <2>1. c \in Nat /\ chs \in [1..c -> linked]
    BY Enumeration, OutboxAssumption, FS_Subset
  <2>2. q = [k \in 1..c |-> Msg(chs[k])]
    BY <1>2, <2>1 DEF Queued
  <2>3. ASSUME NEW ch \in Channels PROVE Msg(ch) \in Intent
    BY OutboxAssumption DEF Intent, Kinds
  <2>4. \A k \in 1..c : chs[k] \in Channels
    BY <2>1
  <2>5. q \in [1..c -> Intent]
    BY <2>2, <2>3, <2>4
  <2>6. q \in Seq(Intent)
    BY <2>1, <2>5, SeqDef
  <2>7. \A k \in 1..c : /\ q[k].inc = i /\ q[k].ch = chs[k] /\ q[k].check = check
                        /\ q[k].kind = kind[chs[k]] /\ q[k].status = "pending"
    BY <2>2
  <2>8. DOMAIN q = 1..c
    BY <2>2
  <2> HIDE DEF c, chs, Msg
  <2>9. QED BY <2>4, <2>6, <2>7, <2>8 DEF NewMessages
<1>3. QED BY <1>1, <1>2

\* The same message, taken at least as often.
SameMessage(n, m) ==
    m.inc = n.inc /\ m.ch = n.ch /\ m.check = n.check /\ m.kind = n.kind /\ m.accepted >= n.accepted

\* What a step may do to the messages: those on record stay the same messages,
\* and a plain recovery is only added for a page that was taken.
MessagesMove ==
    /\ intents' \in Seq(Intent) /\ Len(intents) <= Len(intents')
    /\ \A k \in 1..Len(intents) : SameMessage(intents[k], intents'[k])
    /\ \A k \in 1..Len(intents') : intents'[k].status = "sent" => intents'[k].accepted > 0
    /\ \A k \in (Len(intents)+1)..Len(intents') :
         /\ intents'[k].inc \in DOMAIN incidents'
         /\ intents'[k].check = "UP" /\ intents'[k].kind = "status_change" =>
              \E d \in DOMAIN intents : /\ intents[d].inc = intents'[k].inc /\ intents[d].ch = intents'[k].ch
                                        /\ intents[d].check = "DOWN" /\ intents[d].accepted > 0
    /\ DOMAIN incidents \subseteq DOMAIN incidents' /\ linked' \subseteq Channels

LEMMA MessagesStep ==
    ASSUME DeliveryInv, MessagesMove, worker' \in [Workers -> Consumer],
           \A w \in Workers :
             /\ worker'[w].todo \subseteq DOMAIN intents'
             /\ worker'[w].pc # "idle" => worker'[w].cur \in DOMAIN intents'
             /\ worker'[w].pc = "finish" /\ worker'[w].result = "ok"
                  => intents'[worker'[w].cur].accepted > 0
    PROVE  DeliveryInv'
<1>1. /\ Len(intents) \in Nat /\ Len(intents') \in Nat
      /\ DOMAIN intents = 1..Len(intents) /\ DOMAIN intents' = 1..Len(intents')
  BY LenProperties DEF DeliveryInv, MessagesMove
<1>2. /\ DOMAIN intents' = (1..Len(intents)) \cup ((Len(intents)+1)..Len(intents'))
  BY <1>1 DEF MessagesMove
<1>3. References'
  BY <1>1, <1>2 DEF DeliveryInv, MessagesMove, References, SameMessage
<1>4. SentWasTaken' /\ FinishedWasTaken'
  BY <1>1 DEF MessagesMove, SentWasTaken, FinishedWasTaken
<1>n. \A d \in DOMAIN intents : intents[d].accepted \in Nat /\ intents'[d].accepted \in Nat
  <2>1. \A d \in DOMAIN intents : intents[d] \in Intent /\ intents'[d] \in Intent
    BY <1>1, <1>2, ElementOfSeq DEF DeliveryInv, MessagesMove
  <2>2. QED BY <2>1 DEF Intent
<1>5. NoOrphanRecovery'
  <2> SUFFICES ASSUME NEW k \in DOMAIN intents', intents'[k].check = "UP", intents'[k].kind = "status_change"
               PROVE  \E d \in DOMAIN intents' :
                        /\ intents'[d].inc = intents'[k].inc /\ intents'[d].ch = intents'[k].ch
                        /\ intents'[d].check = "DOWN" /\ intents'[d].accepted > 0
    BY DEF NoOrphanRecovery
  <2>1. PICK d \in DOMAIN intents : /\ intents[d].inc = intents'[k].inc /\ intents[d].ch = intents'[k].ch
                                    /\ intents[d].check = "DOWN" /\ intents[d].accepted > 0
    <3>1. CASE k \in 1..Len(intents)
      BY <1>1, <3>1, SMTT(30) DEF DeliveryInv, MessagesMove, NoOrphanRecovery, SameMessage
    <3>2. CASE k \in (Len(intents)+1)..Len(intents')
      BY <3>2 DEF MessagesMove
    <3>3. QED BY <1>2, <3>1, <3>2
  <2>2. SameMessage(intents[d], intents'[d]) /\ d \in DOMAIN intents'
    BY <1>1, <1>2 DEF MessagesMove
  <2>3. QED BY <1>n, <2>1, <2>2 DEF SameMessage
<1>6. QED BY <1>3, <1>4, <1>5 DEF DeliveryInv, MessagesMove

\* Messages move and consumers do not.
LEMMA QueueStep ==
    ASSUME DeliveryInv, MessagesMove, UNCHANGED worker
    PROVE  DeliveryInv'
<1>1. /\ Len(intents) \in Nat /\ Len(intents') \in Nat
      /\ DOMAIN intents = 1..Len(intents) /\ DOMAIN intents' = 1..Len(intents')
  BY LenProperties DEF DeliveryInv, MessagesMove
<1>2. DOMAIN intents \subseteq DOMAIN intents'
  BY <1>1 DEF MessagesMove
<1>n. \A d \in DOMAIN intents : intents[d].accepted \in Nat /\ intents'[d].accepted \in Nat
  <2>1. \A d \in DOMAIN intents : intents[d] \in Intent /\ intents'[d] \in Intent
    BY <1>1, <1>2, ElementOfSeq DEF DeliveryInv, MessagesMove
  <2>2. QED BY <2>1 DEF Intent
<1>3. \A w \in Workers :
        /\ worker[w].todo \subseteq DOMAIN intents'
        /\ worker[w].pc # "idle" => worker[w].cur \in DOMAIN intents'
        /\ worker[w].pc = "finish" /\ worker[w].result = "ok" => intents'[worker[w].cur].accepted > 0
  BY <1>1, <1>2, <1>n DEF DeliveryInv, References, FinishedWasTaken, MessagesMove, SameMessage
<1>4. worker' \in [Workers -> Consumer]
  BY DEF DeliveryInv
<1>5. QED BY <1>3, <1>4, MessagesStep

\* Messages that only change status or claim are moved.
LEMMA SameMessages ==
    ASSUME DeliveryInv, intents' \in Seq(Intent), Len(intents') = Len(intents),
           \A k \in 1..Len(intents) : SameMessage(intents[k], intents'[k]),
           \A k \in 1..Len(intents') : intents'[k].status = "sent" => intents'[k].accepted > 0,
           DOMAIN incidents \subseteq DOMAIN incidents', linked' \subseteq Channels
    PROVE  MessagesMove
<1>1. Len(intents) \in Nat
  BY LenProperties DEF DeliveryInv
<1>2. (Len(intents)+1)..Len(intents) = {}
  BY <1>1
<1>3. QED BY <1>1, <1>2 DEF MessagesMove

\* Intents that a transition retires.
LEMMA Retired ==
    ASSUME NEW n \in Intent
    PROVE  /\ Retire(n) \in Intent /\ SameMessage(n, Retire(n)) /\ Retire(n).status = "superseded"
           /\ Retire(n).accepted = n.accepted
<1>0. 0 \in 0..MaxAttempts /\ n.accepted \in Nat
  BY OutboxAssumption DEF Intent
<1>1. PICK a \in Intent : a = [n EXCEPT !.status = "superseded"]
  BY DEF Intent, Settled
<1>2. a.inc = n.inc /\ a.ch = n.ch /\ a.check = n.check /\ a.kind = n.kind /\ a.accepted = n.accepted
      /\ a.status = "superseded"
  BY <1>1 DEF Intent
<1>3. PICK b \in Intent : b = [a EXCEPT !.holder = NoWorker]
  BY DEF Intent
<1>4. b.inc = a.inc /\ b.ch = a.ch /\ b.check = a.check /\ b.kind = a.kind /\ b.accepted = a.accepted
      /\ b.status = a.status
  BY <1>3 DEF Intent
<1>5. PICK c \in Intent : c = [b EXCEPT !.live = FALSE]
  BY DEF Intent
<1>6. c.inc = b.inc /\ c.ch = b.ch /\ c.check = b.check /\ c.kind = b.kind /\ c.accepted = b.accepted
      /\ c.status = b.status
  BY <1>5 DEF Intent
<1>7. PICK d \in Intent : d = [c EXCEPT !.attempt = 0]
  BY <1>0 DEF Intent
<1>8. d.inc = c.inc /\ d.ch = c.ch /\ d.check = c.check /\ d.kind = c.kind /\ d.accepted = c.accepted
      /\ d.status = c.status
  BY <1>7 DEF Intent
<1>9. Retire(n) = d
  BY <1>1, <1>3, <1>5, <1>7 DEF Retire
<1>10. QED BY <1>0, <1>2, <1>4, <1>6, <1>8, <1>9 DEF SameMessage

LEMMA SupersededMessages ==
    ASSUME DeliveryInv, NEW i
    PROVE  /\ Superseded(i) \in Seq(Intent) /\ Len(Superseded(i)) = Len(intents)
           /\ \A k \in 1..Len(intents) :
                /\ SameMessage(intents[k], Superseded(i)[k])
                /\ Superseded(i)[k].status = "sent" => Superseded(i)[k].accepted > 0
<1>1. Len(intents) \in Nat /\ DOMAIN intents = 1..Len(intents)
  BY LenProperties DEF DeliveryInv
<1>2. \A k \in 1..Len(intents) : intents[k] \in Intent /\ intents[k].accepted \in Nat
  <2>1. \A k \in 1..Len(intents) : intents[k] \in Intent
    BY ElementOfSeq DEF DeliveryInv
  <2>2. QED BY <2>1 DEF Intent
<1>3. ASSUME NEW k \in 1..Len(intents)
      PROVE  /\ Superseded(i)[k] \in Intent
             /\ SameMessage(intents[k], Superseded(i)[k])
             /\ Superseded(i)[k].status = "sent" => Superseded(i)[k].accepted > 0
  <2>1. Superseded(i)[k] = Retire(intents[k]) \/ Superseded(i)[k] = intents[k]
    BY <1>1 DEF Superseded
  <2>2. SameMessage(intents[k], intents[k])
    BY <1>2 DEF SameMessage
  <2>3. intents[k].status = "sent" => intents[k].accepted > 0
    BY <1>1 DEF DeliveryInv, SentWasTaken
  <2>4. QED BY <1>2, <2>1, <2>2, <2>3, Retired
<1>4. DOMAIN Superseded(i) = 1..Len(intents)
  BY <1>1 DEF Superseded
<1>5. Superseded(i) \in [1..Len(intents) -> Intent]
  BY <1>3, <1>4 DEF Superseded
<1>6. Superseded(i) \in Seq(Intent)
  BY <1>1, <1>5, SeqDef
<1>7. Len(Superseded(i)) = Len(intents)
  BY <1>1, <1>4, <1>6, LenProperties
<1>8. QED BY <1>3, <1>6, <1>7

\* A transition appends its messages.
LEMMA QueuedStep ==
    ASSUME DeliveryInv, NEW M \in Seq(Intent), Len(M) = Len(intents),
           \A k \in 1..Len(intents) : SameMessage(intents[k], M[k])
                                      /\ (M[k].status = "sent" => M[k].accepted > 0),
           NEW Q \in Seq(Intent), intents' = M \o Q,
           \A k \in DOMAIN Q : /\ Q[k].inc \in DOMAIN incidents' /\ Q[k].status = "pending"
                               /\ Q[k].check = "UP" /\ Q[k].kind = "status_change" =>
                                    \E d \in DOMAIN intents :
                                      /\ intents[d].inc = Q[k].inc /\ intents[d].ch = Q[k].ch
                                      /\ intents[d].check = "DOWN" /\ intents[d].accepted > 0,
           DOMAIN incidents \subseteq DOMAIN incidents', linked' \subseteq Channels, UNCHANGED worker
    PROVE  DeliveryInv'
<1>1. /\ intents' \in Seq(Intent) /\ Len(intents') = Len(intents) + Len(Q)
      /\ \A k \in 1..(Len(intents) + Len(Q)) :
           intents'[k] = IF k <= Len(intents) THEN M[k] ELSE Q[k - Len(intents)]
  <2>0. M \o Q \in Seq(Intent)
    BY ConcatProperties
  <2>3. Len(M \o Q) = Len(M) + Len(Q)
    OBVIOUS
  <2>1. /\ M \o Q \in Seq(Intent) /\ Len(M \o Q) = Len(M) + Len(Q)
        /\ \A k \in 1..(Len(M) + Len(Q)) : (M \o Q)[k] = IF k <= Len(M) THEN M[k] ELSE Q[k - Len(M)]
    BY <2>0, <2>3
  <2>2. QED BY <2>1
<1>2. Len(intents) \in Nat /\ Len(Q) \in Nat /\ DOMAIN Q = 1..Len(Q)
  BY LenProperties DEF DeliveryInv
<1>3. \A k \in 1..Len(intents) : intents'[k] = M[k]
  BY <1>1, <1>2
<1>4. \A k \in (Len(intents)+1)..Len(intents') : k - Len(intents) \in DOMAIN Q /\ intents'[k] = Q[k - Len(intents)]
  BY <1>1, <1>2
<1>5. 1..Len(intents') = (1..Len(intents)) \cup ((Len(intents)+1)..Len(intents'))
  BY <1>1, <1>2
<1>6. MessagesMove
  <2>1. Len(intents) <= Len(intents')
    BY <1>1, <1>2
  <2>2. \A k \in 1..Len(intents') : intents'[k].status = "sent" => intents'[k].accepted > 0
    <3>1. \A k \in (Len(intents)+1)..Len(intents') : intents'[k].status = "pending"
      BY <1>4
    <3>2. QED BY <1>3, <1>5, <3>1
  <2>3. ASSUME NEW k \in (Len(intents)+1)..Len(intents')
        PROVE  /\ intents'[k].inc \in DOMAIN incidents'
               /\ intents'[k].check = "UP" /\ intents'[k].kind = "status_change" =>
                    \E d \in DOMAIN intents :
                      /\ intents[d].inc = intents'[k].inc /\ intents[d].ch = intents'[k].ch
                      /\ intents[d].check = "DOWN" /\ intents[d].accepted > 0
    <3>1. PICK j \in DOMAIN Q : intents'[k] = Q[j]
      BY <1>4
    <3>2. QED BY <3>1
  <2>4. QED BY <1>1, <1>3, <2>1, <2>2, <2>3 DEF MessagesMove
<1>7. QED BY <1>6, QueueStep

\* One intent changes its claim, its status or how often it was taken.
LEMMA OneMessage ==
    ASSUME DeliveryInv, NEW k \in DOMAIN intents, NEW n \in Intent, intents' = [intents EXCEPT ![k] = n],
           SameMessage(intents[k], n), n.status = "sent" => n.accepted > 0, UNCHANGED <<incidents, linked>>
    PROVE  MessagesMove /\ DOMAIN intents' = DOMAIN intents /\ intents'[k] = n
<1>1. Len(intents) \in Nat /\ DOMAIN intents = 1..Len(intents)
  BY LenProperties DEF DeliveryInv
<1>2. /\ intents' \in Seq(Intent) /\ Len(intents') = Len(intents)
      /\ \A j \in 1..Len(intents) : intents'[j] = IF j = k THEN n ELSE intents[j]
  BY <1>1, ExceptSeq DEF DeliveryInv
<1>3. \A j \in 1..Len(intents) : SameMessage(intents[j], intents[j])
  <2>1. \A j \in 1..Len(intents) : intents[j] \in Intent
    BY ElementOfSeq DEF DeliveryInv
  <2>2. QED BY <2>1 DEF Intent, SameMessage
<1>4. \A j \in 1..Len(intents) : SameMessage(intents[j], intents'[j])
  BY <1>2, <1>3
<1>5. \A j \in 1..Len(intents') : intents'[j].status = "sent" => intents'[j].accepted > 0
  BY <1>1, <1>2 DEF DeliveryInv, SentWasTaken
<1>6. DOMAIN intents' = DOMAIN intents
  BY <1>1, <1>2, LenProperties
<1>7. QED BY <1>1, <1>2, <1>4, <1>5, <1>6, SameMessages DEF DeliveryInv

\* A consumer goes on to another delivery, or sets one of its own aside.
LEMMA ConsumerMoves ==
    ASSUME DeliveryInv, UNCHANGED <<intents, incidents, linked>>, NEW w \in Workers, NEW v \in Consumer,
           worker' = [worker EXCEPT ![w] = v], v.todo \subseteq worker[w].todo,
           v.pc # "idle" => v.cur \in DOMAIN intents, v.pc # "finish"
    PROVE  DeliveryInv'
<1>1. worker' \in [Workers -> Consumer] /\ \A u \in Workers : worker'[u] = IF u = w THEN v ELSE worker[u]
  BY DEF DeliveryInv
<1>2. References' /\ FinishedWasTaken'
  BY <1>1 DEF DeliveryInv, References, FinishedWasTaken
<1>3. QED BY <1>1, <1>2 DEF DeliveryInv, SentWasTaken, NoOrphanRecovery

\* Messages move, and so does one consumer.
LEMMA WorkerMoves ==
    ASSUME DeliveryInv, MessagesMove, NEW w \in Workers, NEW v \in Consumer,
           worker' = [worker EXCEPT ![w] = v], v.todo \subseteq DOMAIN intents',
           v.pc # "idle" => v.cur \in DOMAIN intents',
           v.pc = "finish" /\ v.result = "ok" => intents'[v.cur].accepted > 0
    PROVE  DeliveryInv'
<1>1. worker' \in [Workers -> Consumer] /\ \A u \in Workers : worker'[u] = IF u = w THEN v ELSE worker[u]
  BY DEF DeliveryInv
<1>2. /\ Len(intents) \in Nat /\ Len(intents') \in Nat
      /\ DOMAIN intents = 1..Len(intents) /\ DOMAIN intents' = 1..Len(intents')
  BY LenProperties DEF DeliveryInv, MessagesMove
<1>3. DOMAIN intents \subseteq DOMAIN intents'
  BY <1>2 DEF MessagesMove
<1>4. \A d \in DOMAIN intents : intents[d].accepted \in Nat /\ intents'[d].accepted \in Nat
  <2>1. \A d \in DOMAIN intents : intents[d] \in Intent /\ intents'[d] \in Intent
    BY <1>2, <1>3, ElementOfSeq DEF DeliveryInv, MessagesMove
  <2>2. QED BY <2>1 DEF Intent
<1>5. ASSUME NEW u \in Workers
      PROVE  /\ worker'[u].todo \subseteq DOMAIN intents'
             /\ worker'[u].pc # "idle" => worker'[u].cur \in DOMAIN intents'
             /\ worker'[u].pc = "finish" /\ worker'[u].result = "ok"
                  => intents'[worker'[u].cur].accepted > 0
  <2>1. CASE u = w
    BY <1>1, <2>1
  <2>2. CASE u # w
    <3>1. worker'[u] = worker[u]
      BY <1>1, <2>2
    <3>2. worker[u].todo \subseteq DOMAIN intents /\ (worker[u].pc # "idle" => worker[u].cur \in DOMAIN intents)
      BY DEF DeliveryInv, References
    <3>3. ASSUME worker[u].pc = "finish", worker[u].result = "ok" PROVE intents'[worker[u].cur].accepted > 0
      <4>1. worker[u].cur \in DOMAIN intents /\ intents[worker[u].cur].accepted > 0
        BY <3>2, <3>3 DEF DeliveryInv, FinishedWasTaken
      <4>2. SameMessage(intents[worker[u].cur], intents'[worker[u].cur])
        BY <1>2, <4>1 DEF MessagesMove
      <4>3. QED BY <1>4, <4>1, <4>2 DEF SameMessage
    <3>4. QED BY <1>3, <3>1, <3>2, <3>3
  <2>3. QED BY <2>1, <2>2
<1>6. QED BY <1>1, <1>5, MessagesStep

\* What a consumer turns to.
LEMMA NextUpType ==
    ASSUME DeliveryInv, NEW w \in Workers
    PROVE  /\ Waiting \in Consumer /\ Waiting.todo = {} /\ Waiting.pc = "idle"
           /\ NextUp(w) \in Consumer /\ NextUp(w).todo = worker[w].todo /\ NextUp(w).pc = "idle"
<1>1. Waiting \in Consumer /\ Waiting.todo = {} /\ Waiting.pc = "idle"
  BY DEF Waiting, Consumer
<1>2. worker[w] \in Consumer /\ worker[w].todo \in SUBSET Nat
  BY DEF DeliveryInv, Consumer
<1>3. \A v \in Consumer, t \in SUBSET Nat :
        /\ [v EXCEPT !.todo = t] \in Consumer /\ [v EXCEPT !.todo = t].todo = t
        /\ [v EXCEPT !.todo = t].pc = v.pc
  BY DEF Consumer
<1>4. QED BY <1>1, <1>2, <1>3 DEF NextUp

\* The recording transaction and the operator.
LEMMA TransitionStep ==
    ASSUME LifecycleInv, LifecycleInv', DeliveryInv, RecordStep \/ OperatorStep
    PROVE  DeliveryInv'
<1>0. /\ rev \in Nat \ {0} /\ linked \subseteq Channels /\ Len(incidents) \in Nat
      /\ DOMAIN incidents = 1..Len(incidents) /\ DOMAIN alerts = DOMAIN incidents
      /\ DOMAIN incidents' = 1..Len(incidents')
  BY LenProperties, RowDomains DEF LifecycleInv, Rows, DeliveryInv
<1>s. \A k \in 1..Len(intents) :
        SameMessage(intents[k], intents[k]) /\ (intents[k].status = "sent" => intents[k].accepted > 0)
  <2>1. \A k \in 1..Len(intents) : intents[k] \in Intent /\ k \in DOMAIN intents
    BY ElementOfSeq, LenProperties DEF DeliveryInv
  <2>2. \A n \in Intent : SameMessage(n, n)
    BY DEF Intent, SameMessage
  <2>3. QED BY <2>1, <2>2 DEF DeliveryInv, SentWasTaken
<1>c. StatusChange \in [Channels -> Kinds]
  BY DEF StatusChange, Kinds
<1>q. ASSUME UNCHANGED <<intents, incidents, worker>>, linked' \subseteq Channels
      PROVE  DeliveryInv'
  BY <1>q DEF DeliveryInv, References, SentWasTaken, FinishedWasTaken, NoOrphanRecovery
<1>1. ASSUME NEW s \in Recorded, NEW elapsed \in BOOLEAN, RecordQuietly(s, elapsed) PROVE DeliveryInv'
  BY <1>0, <1>1, <1>q DEF RecordQuietly, configVars
<1>2. CASE OpenIncident
  <2>1. PICK i : i \in Nat \ {0} /\ i = Len(incidents) + 1
    BY <1>0
  <2>2. PICK Q : Q = Queued(i, 1, "DOWN", StatusChange)
    OBVIOUS
  <2>3. /\ Q \in Seq(Intent)
        /\ \A k \in DOMAIN Q : Q[k].inc = i /\ Q[k].status = "pending" /\ Q[k].check = "DOWN"
    <3>1. PICK v : v \in Nat \ {0} /\ v = 1
      OBVIOUS
    <3>2. PICK c \in {"DOWN", "UP"} : c = "DOWN"
      OBVIOUS
    <3>3. PICK s : s = StatusChange
      OBVIOUS
    <3>4. Q = Queued(i, v, c, s) /\ s \in [Channels -> Kinds]
      BY <1>c, <2>2, <3>1, <3>2, <3>3
    <3>5. Q \in Seq(Intent) /\ NewMessages(Q, i, c, s)
      BY <1>0, <2>1, <3>1, <3>2, <3>4, QueuedMessages
    <3>6. QED BY <3>2, <3>5 DEF NewMessages
  <2>4. intents' = intents \o Q /\ UNCHANGED <<linked, worker>> /\ Len(incidents') = Len(incidents) + 1
    <3>1. PICK x : incidents' = Append(incidents, x)
      BY <1>2 DEF OpenIncident
    <3>2. incidents \in Seq(Incident)
      BY DEF LifecycleInv, Rows
    <3>3. Len(incidents') = Len(incidents) + 1
      BY <3>1, <3>2
    <3>4. QED BY <1>2, <2>1, <2>2, <3>3 DEF OpenIncident, configVars
  <2>5. i \in DOMAIN incidents' /\ DOMAIN incidents \subseteq DOMAIN incidents'
    BY <1>0, <2>1, <2>4
  <2>6. \A k \in DOMAIN Q : Q[k].inc \in DOMAIN incidents' /\ Q[k].check # "UP"
    BY <2>3, <2>5
  <2>7. QED BY <1>0, <1>s, <2>3, <2>4, <2>5, <2>6, QueuedStep DEF DeliveryInv
<1>3. ASSUME NEW i \in DOMAIN alerts, NEW elapsed \in BOOLEAN, NEW late \in BOOLEAN,
             RenewIncident(i, elapsed, late)
      PROVE  DeliveryInv'
  <2>1. i \in Nat \ {0} /\ Refired(i).version \in Nat \ {0}
    BY <1>0, RenewedIncident DEF Incident
  <2>2. PICK Q : Q = Queued(i, Refired(i).version, "DOWN", StatusChange)
    OBVIOUS
  <2>3. /\ Q \in Seq(Intent)
        /\ \A k \in DOMAIN Q : Q[k].inc = i /\ Q[k].status = "pending" /\ Q[k].check = "DOWN"
    <3>1. PICK v \in Nat \ {0} : v = Refired(i).version
      BY <2>1
    <3>2. PICK c \in {"DOWN", "UP"} : c = "DOWN"
      OBVIOUS
    <3>3. PICK s : s = StatusChange
      OBVIOUS
    <3>4. Q = Queued(i, v, c, s) /\ s \in [Channels -> Kinds]
      BY <1>c, <2>2, <3>1, <3>2, <3>3
    <3>5. Q \in Seq(Intent) /\ NewMessages(Q, i, c, s)
      BY <1>0, <2>1, <3>4, QueuedMessages
    <3>6. QED BY <3>2, <3>5 DEF NewMessages
  <2>4. intents' = intents \o Q /\ UNCHANGED <<linked, worker>> /\ DOMAIN incidents' = DOMAIN incidents
    BY <1>3, <2>2 DEF RenewIncident, configVars
  <2>6. \A k \in DOMAIN Q : Q[k].inc \in DOMAIN incidents' /\ Q[k].check # "UP"
    BY <1>0, <2>3, <2>4
  <2>7. QED BY <1>0, <1>s, <2>3, <2>4, <2>6, QueuedStep DEF DeliveryInv
\* A recovery is a plain one only where the outage was sent.
<1>4. ASSUME NEW i \in DOMAIN alerts, ResolveIncident(i) PROVE DeliveryInv'
  <2>1. i \in Nat \ {0} /\ Recovered(i).version \in Nat \ {0}
    BY <1>0, RenewedIncident DEF Incident
  <2>2. PICK kinds : kinds = [c \in Channels |-> RecoveryKind(i, c)]
    OBVIOUS
  <2>3. kinds \in [Channels -> Kinds]
    BY <2>2 DEF RecoveryKind, Kinds
  <2>4. PICK Q : Q = Queued(i, Recovered(i).version, "UP", kinds)
    OBVIOUS
  <2>5. /\ Q \in Seq(Intent)
        /\ \A k \in DOMAIN Q : /\ Q[k].inc = i /\ Q[k].status = "pending" /\ Q[k].ch \in Channels
                               /\ Q[k].kind = kinds[Q[k].ch]
    <3>1. PICK v \in Nat \ {0} : v = Recovered(i).version
      BY <2>1
    <3>2. PICK c \in {"DOWN", "UP"} : c = "UP"
      OBVIOUS
    <3>3. Q = Queued(i, v, c, kinds)
      BY <2>4, <3>1, <3>2
    <3>4. Q \in Seq(Intent) /\ NewMessages(Q, i, c, kinds)
      BY <1>0, <2>1, <2>3, <3>3, QueuedMessages
    <3>5. QED BY <3>4 DEF NewMessages
  <2>6. ASSUME NEW k \in DOMAIN Q, Q[k].kind = "status_change"
        PROVE  \E d \in DOMAIN intents : /\ intents[d].inc = Q[k].inc /\ intents[d].ch = Q[k].ch
                                         /\ intents[d].check = "DOWN" /\ intents[d].accepted > 0
    <3>1. RecoveryKind(i, Q[k].ch) = "status_change"
      BY <2>2, <2>5, <2>6
    <3>2. PICK d \in DOMAIN intents : /\ intents[d].inc = i /\ intents[d].ch = Q[k].ch
                                      /\ intents[d].check = "DOWN" /\ intents[d].status = "sent"
      BY <3>1 DEF RecoveryKind
    <3>3. QED BY <2>5, <3>2 DEF DeliveryInv, SentWasTaken
  <2>7. PICK M : M = Superseded(i)
    OBVIOUS
  <2>8. intents' = M \o Q /\ UNCHANGED <<linked, worker>> /\ DOMAIN incidents' = DOMAIN incidents
    BY <1>4, <2>2, <2>4, <2>7 DEF ResolveIncident, configVars
  <2>9. /\ M \in Seq(Intent) /\ Len(M) = Len(intents)
        /\ \A k \in 1..Len(intents) : SameMessage(intents[k], M[k]) /\ (M[k].status = "sent" => M[k].accepted > 0)
    BY <2>7, SupersededMessages
  <2>10. \A k \in DOMAIN Q : Q[k].inc \in DOMAIN incidents' /\ Q[k].status = "pending"
    BY <1>0, <2>5, <2>8
  <2>11. QED BY <1>0, <2>5, <2>6, <2>8, <2>9, <2>10, QueuedStep DEF DeliveryInv
<1>5. ASSUME NEW i \in DOMAIN alerts, Acknowledge(i) PROVE DeliveryInv'
  <2>1. intents' = Superseded(i) /\ UNCHANGED <<linked, worker>> /\ DOMAIN incidents' = DOMAIN incidents
    BY <1>5 DEF Acknowledge, configVars
  <2>2. MessagesMove
    BY <1>0, <2>1, SupersededMessages, SameMessages
  <2>3. QED BY <2>1, <2>2, QueueStep
<1>6. ASSUME NEW changed \in SUBSET Channels, NEW links \in SUBSET Channels, Activate(changed, links)
      PROVE  DeliveryInv'
  BY <1>6, <1>q DEF Activate, lifecycleVars
<1>7. CASE Reassign \/ ToggleMaintenance \/ ToggleGate
  BY <1>0, <1>7, <1>q DEF Reassign, ToggleMaintenance, ToggleGate, configVars, lifecycleVars
<1>8. QED
  BY <1>1, <1>2, <1>3, <1>4, <1>5, <1>6, <1>7 DEF RecordStep, OperatorStep

\* The moves of an intent in the hands of a consumer stay within its type: it is
\* claimed, its outcome is recorded, it is taken, its lease runs out.
LEMMA IntentStatus ==
    ASSUME NEW n \in Intent, NEW s \in Settled \cup {"retrying", "leased"}, NEW m, m = [n EXCEPT !.status = s]
    PROVE  m \in Intent /\ SameMessage(n, m) /\ m.status = s /\ m.accepted = n.accepted
BY DEF Intent, SameMessage

LEMMA IntentHolder ==
    ASSUME NEW n \in Intent, NEW h \in Workers \cup {NoWorker}, NEW m, m = [n EXCEPT !.holder = h]
    PROVE  m \in Intent /\ SameMessage(n, m) /\ m.status = n.status /\ m.accepted = n.accepted
BY DEF Intent, SameMessage

LEMMA IntentLive ==
    ASSUME NEW n \in Intent, NEW l \in BOOLEAN, NEW m, m = [n EXCEPT !.live = l]
    PROVE  m \in Intent /\ SameMessage(n, m) /\ m.status = n.status /\ m.accepted = n.accepted
BY DEF Intent, SameMessage

Attempts == 0..MaxAttempts
LEMMA IntentAttempt ==
    ASSUME NEW n \in Intent, NEW a \in Attempts, NEW m, m = [n EXCEPT !.attempt = a]
    PROVE  m \in Intent /\ SameMessage(n, m) /\ m.status = n.status /\ m.accepted = n.accepted
BY DEF Intent, SameMessage, Attempts

LEMMA IntentTaken ==
    ASSUME NEW n \in Intent, NEW x \in Nat, x >= n.accepted, NEW m, m = [n EXCEPT !.accepted = x]
    PROVE  /\ m \in Intent /\ SameMessage(n, m) /\ m.status = n.status /\ m.accepted = x
           /\ m.holder = n.holder /\ m.live = n.live
BY DEF Intent, SameMessage

Claim(n, s, h, l, a) == [n EXCEPT !.status = s, !.holder = h, !.live = l, !.attempt = a]
LEMMA IntentClaimed ==
    ASSUME NEW n \in Intent, NEW s \in Settled \cup {"retrying", "leased"}, NEW h \in Workers \cup {NoWorker},
           NEW l \in BOOLEAN, NEW a \in Attempts,
           NEW m, m = Claim(n, s, h, l, a)
    PROVE  m \in Intent /\ SameMessage(n, m) /\ m.status = s /\ m.accepted = n.accepted
<1>1. PICK x : x = [n EXCEPT !.status = s]
  OBVIOUS
<1>2. x \in Intent /\ SameMessage(n, x) /\ x.accepted = n.accepted /\ x.status = s
  BY <1>1, IntentStatus
<1>3. PICK y : y = [x EXCEPT !.holder = h]
  OBVIOUS
<1>4. y \in Intent /\ SameMessage(x, y) /\ y.accepted = x.accepted /\ y.status = x.status
  BY <1>2, <1>3, IntentHolder
<1>5. PICK z : z = [y EXCEPT !.live = l]
  OBVIOUS
<1>6. z \in Intent /\ SameMessage(y, z) /\ z.accepted = y.accepted /\ z.status = y.status
  BY <1>4, <1>5, IntentLive
<1>7. m = [z EXCEPT !.attempt = a]
  BY <1>1, <1>3, <1>5 DEF Claim
<1>8. m \in Intent /\ SameMessage(z, m) /\ m.accepted = z.accepted /\ m.status = z.status
  BY <1>6, <1>7, IntentAttempt
<1>9. n.accepted \in Nat
  BY DEF Intent
<1>10. QED BY <1>2, <1>4, <1>6, <1>8, <1>9 DEF SameMessage

\* The moves of a consumer stay within its type.
Batches == SUBSET Nat
LEMMA ConsumerTodo ==
    ASSUME NEW v \in Consumer, NEW t \in Batches, NEW x, x = [v EXCEPT !.todo = t]
    PROVE  x \in Consumer /\ x.todo = t /\ x.pc = v.pc
BY DEF Consumer, Batches

LEMMA ConsumerPc ==
    ASSUME NEW v \in Consumer, NEW p \in {"supersede", "grant", "send", "finish"}, NEW x, x = [v EXCEPT !.pc = p]
    PROVE  x \in Consumer /\ x.pc = p /\ x.todo = v.todo /\ x.cur = v.cur
BY DEF Consumer

LEMMA ConsumerCur ==
    ASSUME NEW v \in Consumer, NEW k \in Nat, NEW x, x = [v EXCEPT !.cur = k]
    PROVE  x \in Consumer /\ x.cur = k /\ x.todo = v.todo /\ x.pc = v.pc
BY DEF Consumer

LEMMA ConsumerRev ==
    ASSUME NEW v \in Consumer, NEW r \in Nat, NEW x, x = [v EXCEPT !.rev = r]
    PROVE  x \in Consumer /\ x.cur = v.cur /\ x.todo = v.todo /\ x.pc = v.pc
BY DEF Consumer

LEMMA ConsumerResult ==
    ASSUME NEW v \in Consumer, NEW r \in {"ok", "transient", "permanent"}, NEW x, x = [v EXCEPT !.result = r]
    PROVE  x \in Consumer /\ x.result = r /\ x.cur = v.cur /\ x.todo = v.todo /\ x.pc = v.pc
BY DEF Consumer

\* Consumers and expiring leases.
LEMMA ConsumptionStep ==
    ASSUME DeliveryInv, rev \in Nat,
           (\E w \in Workers : ConsumerStep(w)) \/ (\E k \in DOMAIN intents : Expire(k))
    PROVE  DeliveryInv'
<1>0. /\ Len(intents) \in Nat /\ DOMAIN intents = 1..Len(intents)
      /\ \A k \in DOMAIN intents : intents[k] \in Intent /\ intents[k].accepted \in Nat
                                   /\ intents[k].attempt \in 0..MaxAttempts
      /\ linked \subseteq Channels /\ \A w \in Workers : worker[w] \in Consumer
  <2>1. Len(intents) \in Nat /\ DOMAIN intents = 1..Len(intents) /\ \A k \in DOMAIN intents : intents[k] \in Intent
    BY LenProperties, ElementOfSeq DEF DeliveryInv
  <2>2. QED BY <2>1 DEF DeliveryInv, Intent
<1>1. ASSUME NEW w \in Workers, NEW batch \in SUBSET DOMAIN intents, ClaimDeliveries(w, batch)
      PROVE  DeliveryInv'
  <2>1. ASSUME NEW k \in DOMAIN intents
        PROVE  /\ intents'[k] \in Intent /\ SameMessage(intents[k], intents'[k])
               /\ intents'[k].status = "sent" => intents'[k].accepted > 0
    <3>1. CASE k \in batch
      <4>1. PICK a \in Attempts :
              a = IF intents[k].attempt < MaxAttempts THEN intents[k].attempt + 1 ELSE intents[k].attempt
        BY <1>0, OutboxAssumption DEF Attempts
      <4>2. PICK m : m = [intents[k] EXCEPT !.status = "leased", !.holder = w, !.live = TRUE, !.attempt = a]
        OBVIOUS
      <4>3. intents'[k] = m
        BY <1>1, <3>1, <4>1, <4>2 DEF ClaimDeliveries
      <4>4. m \in Intent /\ SameMessage(intents[k], m) /\ m.status = "leased"
        <5>1. PICK s : s = "leased"
          OBVIOUS
        <5>2. PICK l : l = TRUE
          OBVIOUS
        <5>3. s \in Settled \cup {"retrying", "leased"} /\ w \in Workers \cup {NoWorker} /\ intents[k] \in Intent
          BY <1>0, <5>1
        <5>4. l \in BOOLEAN /\ m = Claim(intents[k], s, w, l, a)
          BY <4>2, <5>1, <5>2 DEF Claim
        <5>5. m \in Intent /\ SameMessage(intents[k], m) /\ m.status = s
          BY <4>1, <5>3, <5>4, IntentClaimed
        <5>6. QED BY <5>1, <5>5
      <4>5. QED BY <4>3, <4>4
    <3>2. CASE k \notin batch
      <4>1. intents'[k] = intents[k]
        BY <1>1, <3>2 DEF ClaimDeliveries
      <4>2. SameMessage(intents[k], intents[k])
        BY <1>0 DEF SameMessage
      <4>3. QED BY <1>0, <4>1, <4>2 DEF DeliveryInv, SentWasTaken
    <3>3. QED BY <3>1, <3>2
  <2>2. DOMAIN intents' = DOMAIN intents
    BY <1>1 DEF ClaimDeliveries
  <2>3. intents' \in [1..Len(intents) -> Intent]
    <3>1. intents' = [k \in DOMAIN intents |-> intents'[k]]
      BY <1>1 DEF ClaimDeliveries
    <3>2. QED BY <1>0, <2>1, <3>1
  <2>4. intents' \in Seq(Intent) /\ Len(intents') = Len(intents)
    <3>1. intents' \in Seq(Intent)
      BY <1>0, <2>3, SeqDef
    <3>2. QED BY <1>0, <2>2, <3>1, LenProperties
  <2>5. UNCHANGED <<incidents, linked>> /\ worker[w] = Waiting
    BY <1>1 DEF ClaimDeliveries, lifecycleVars, configVars
  <2>6. MessagesMove
    BY <1>0, <2>1, <2>4, <2>5, SameMessages
  <2>7. PICK v : v = [worker[w] EXCEPT !.todo = batch]
    OBVIOUS
  <2>v. v \in Consumer /\ v.pc = "idle" /\ v.todo = batch
    <3>1. batch \in Batches /\ worker[w].pc = "idle"
      BY <1>0, <2>5, NextUpType DEF Batches
    <3>2. QED BY <1>0, <2>7, <3>1, ConsumerTodo
  <2>8. worker' = [worker EXCEPT ![w] = v]
    BY <1>1, <2>7 DEF ClaimDeliveries
  <2>9. QED BY <2>2, <2>6, <2>8, <2>v, WorkerMoves
<1>q. ASSUME NEW w \in Workers, NEW v \in Consumer, worker' = [worker EXCEPT ![w] = v],
             v.todo \subseteq worker[w].todo, v.pc # "idle" => v.cur \in DOMAIN intents, v.pc # "finish",
             UNCHANGED <<configVars, lifecycleVars, intents>>
      PROVE  DeliveryInv'
  BY <1>q, ConsumerMoves DEF configVars, lifecycleVars
<1>2. ASSUME NEW w \in Workers, NEW k \in worker[w].todo, ReconcileBeforeSend(w, k) PROVE DeliveryInv'
  <2>1. k \in DOMAIN intents /\ k \in Nat
    BY <1>0 DEF DeliveryInv, References
  <2>2. PICK t \in Batches : t = worker[w].todo \ {k}
    BY <1>0 DEF Consumer, Batches
  <2>3. PICK nx : nx = [NextUp(w) EXCEPT !.todo = t]
    OBVIOUS
  <2>n. nx \in Consumer /\ nx.pc = "idle" /\ nx.todo = t
    <3>1. PICK u \in Consumer : u = NextUp(w) /\ u.pc = "idle"
      BY NextUpType
    <3>2. nx = [u EXCEPT !.todo = t]
      BY <2>3, <3>1
    <3>3. nx \in Consumer /\ nx.todo = t /\ nx.pc = u.pc
      BY <3>2, ConsumerTodo
    <3>4. QED BY <3>1, <3>3
  <2>p. ASSUME NEW p \in {"supersede", "grant"}
        PROVE  \E y \in Consumer : /\ y = [nx EXCEPT !.pc = p, !.cur = k]
                                   /\ y.pc = p /\ y.cur = k /\ y.todo = nx.todo
    <3>1. PICK x : x = [nx EXCEPT !.pc = p]
      OBVIOUS
    <3>2. x \in Consumer /\ x.pc = p /\ x.todo = nx.todo
      <4>1. p \in {"supersede", "grant", "send", "finish"}
        OBVIOUS
      <4>2. QED BY <2>n, <3>1, <4>1, ConsumerPc
    <3>3. PICK y : y = [x EXCEPT !.cur = k]
      OBVIOUS
    <3>4. y \in Consumer /\ y.cur = k /\ y.todo = x.todo /\ y.pc = x.pc
      BY <2>1, <3>2, <3>3, ConsumerCur
    <3>5. y = [nx EXCEPT !.pc = p, !.cur = k]
      BY <3>1, <3>3
    <3>6. QED BY <3>2, <3>4, <3>5
  <2>4. PICK a \in Consumer : a = [nx EXCEPT !.pc = "supersede", !.cur = k] /\ a.pc = "supersede"
                              /\ a.cur = k /\ a.todo = nx.todo
    BY <2>p
  <2>5. PICK b : b = [nx EXCEPT !.pc = "grant", !.cur = k, !.rev = rev]
    OBVIOUS
  <2>b. b \in Consumer /\ b.pc = "grant" /\ b.cur = k /\ b.todo = nx.todo
    <3>1. PICK y \in Consumer : y = [nx EXCEPT !.pc = "grant", !.cur = k] /\ y.pc = "grant"
                                /\ y.cur = k /\ y.todo = nx.todo
      BY <2>p
    <3>2. b = [y EXCEPT !.rev = rev]
      BY <2>5, <3>1
    <3>3. b \in Consumer /\ b.cur = y.cur /\ b.todo = y.todo /\ b.pc = y.pc
      BY <3>2, ConsumerRev
    <3>4. QED BY <3>1, <3>3
  <2>6. PICK v \in {nx, a, b} : worker' = [worker EXCEPT ![w] = v]
    <3>1. nx = [NextUp(w) EXCEPT !.todo = @ \ {k}]
      BY <2>2, <2>3, NextUpType
    <3>2. QED BY <1>2, <2>4, <2>5, <3>1 DEF ReconcileBeforeSend
  <2>7. UNCHANGED <<configVars, lifecycleVars, intents>>
    BY <1>2 DEF ReconcileBeforeSend
  <2>8. QED BY <1>q, <2>1, <2>2, <2>4, <2>6, <2>7, <2>b, <2>n
<1>n. ASSUME NEW w \in Workers
      PROVE  /\ NextUp(w) \in Consumer /\ NextUp(w).todo = worker[w].todo /\ NextUp(w).pc = "idle"
             /\ worker[w].todo \subseteq DOMAIN intents
             /\ worker[w].pc # "idle" => worker[w].cur \in DOMAIN intents
  BY NextUpType DEF DeliveryInv, References
<1>3. ASSUME NEW w \in Workers, AuthorizeLocalDelivery(w) PROVE DeliveryInv'
  <2>1. UNCHANGED <<configVars, lifecycleVars, intents>> /\ worker[w].pc = "grant"
    BY <1>3 DEF AuthorizeLocalDelivery
  <2>2. PICK b : b = [worker[w] EXCEPT !.pc = "send"]
    OBVIOUS
  <2>b. b \in Consumer /\ b.pc = "send" /\ b.cur = worker[w].cur /\ b.todo = worker[w].todo
    <3>1. PICK p \in {"supersede", "grant", "send", "finish"} : p = "send"
      OBVIOUS
    <3>2. b = [worker[w] EXCEPT !.pc = p]
      BY <2>2, <3>1
    <3>3. b \in Consumer /\ b.pc = p /\ b.cur = worker[w].cur /\ b.todo = worker[w].todo
      BY <1>0, <3>2, ConsumerPc
    <3>4. QED BY <3>1, <3>3
  <2>3. CASE Granted(w)
    <3>1. worker' = [worker EXCEPT ![w] = b]
      BY <1>3, <2>2, <2>3 DEF AuthorizeLocalDelivery
    <3>2. QED BY <1>n, <1>q, <2>1, <2>b, <3>1
  <2>4. CASE ~Granted(w)
    <3>1. worker' = [worker EXCEPT ![w] = NextUp(w)]
      BY <1>3, <2>4 DEF AuthorizeLocalDelivery
    <3>2. QED BY <1>n, <1>q, <2>1, <3>1
  <2>5. QED BY <2>3, <2>4
<1>4. ASSUME NEW w \in Workers, NEW result \in {"ok", "transient", "permanent"}, NEW taken \in BOOLEAN,
             Send(w, result, taken)
      PROVE  DeliveryInv'
  <2>1. PICK k \in DOMAIN intents : k = worker[w].cur
    BY <1>4, <1>n DEF Send
  <2>2. PICK x \in Nat : x = (IF taken THEN intents[k].accepted + 1 ELSE intents[k].accepted)
    BY <1>0
  <2>3. x >= intents[k].accepted /\ (result = "ok" => x > 0)
    BY <1>0, <1>4, <2>2 DEF Send
  <2>4. PICK m : m = [intents[k] EXCEPT !.accepted = x]
    OBVIOUS
  <2>5. m \in Intent /\ SameMessage(intents[k], m) /\ m.status = intents[k].status /\ m.accepted = x
    BY <1>0, <2>3, <2>4, IntentTaken
  <2>6. m.status = "sent" => m.accepted > 0
    <3>1. intents[k].status = "sent" => intents[k].accepted > 0
      BY DEF DeliveryInv, SentWasTaken
    <3>2. QED BY <1>0, <2>3, <2>5, <3>1
  <2>7. intents' = [intents EXCEPT ![k] = m] /\ UNCHANGED <<incidents, linked>>
    BY <1>4, <2>1, <2>2, <2>4 DEF Send, lifecycleVars, configVars
  <2>8. MessagesMove /\ DOMAIN intents' = DOMAIN intents /\ intents'[k] = m
    BY <2>5, <2>6, <2>7, OneMessage
  <2>9. PICK v : v = [worker[w] EXCEPT !.pc = "finish", !.result = result]
    OBVIOUS
  <2>v. v \in Consumer /\ v.pc = "finish" /\ v.result = result /\ v.cur = k /\ v.todo = worker[w].todo
    <3>1. PICK p \in {"supersede", "grant", "send", "finish"} : p = "finish"
      OBVIOUS
    <3>2. PICK y : y = [worker[w] EXCEPT !.pc = p]
      OBVIOUS
    <3>3. y \in Consumer /\ y.pc = p /\ y.cur = worker[w].cur /\ y.todo = worker[w].todo
      BY <1>0, <3>2, ConsumerPc
    <3>4. v = [y EXCEPT !.result = result]
      BY <2>9, <3>1, <3>2
    <3>5. v \in Consumer /\ v.result = result /\ v.cur = y.cur /\ v.todo = y.todo /\ v.pc = y.pc
      BY <3>3, <3>4, ConsumerResult
    <3>6. QED BY <2>1, <3>1, <3>3, <3>5
  <2>10. worker' = [worker EXCEPT ![w] = v]
    BY <1>4, <2>9 DEF Send, DeliveryInv
  <2>11. QED BY <1>n, <2>3, <2>5, <2>8, <2>10, <2>v, WorkerMoves
<1>5. ASSUME NEW w \in Workers, FinishDelivery(w) PROVE DeliveryInv'
  <2>1. PICK k \in DOMAIN intents : k = worker[w].cur
    BY <1>5, <1>n DEF FinishDelivery
  <2>2. PICK new : new = IF worker[w].pc = "supersede" THEN "superseded"
                         ELSE Outcome(worker[w].result, intents[k].attempt)
    OBVIOUS
  <2>3. /\ new \in Settled \cup {"retrying"}
        /\ new = "sent" => worker[w].pc # "supersede" /\ worker[w].result = "ok"
    BY <2>2 DEF Outcome, Settled
  <2>4. new = "sent" => intents[k].accepted > 0
    BY <1>5, <2>1, <2>3 DEF FinishDelivery, DeliveryInv, FinishedWasTaken
  <2>5. PICK a \in Attempts : a = IF new = "retrying" THEN intents[k].attempt ELSE 0
    BY <1>0, OutboxAssumption DEF Attempts
  <2>6. PICK m : m = [intents[k] EXCEPT !.status = new, !.holder = NoWorker, !.live = FALSE, !.attempt = a]
    OBVIOUS
  <2>7. m \in Intent /\ SameMessage(intents[k], m) /\ m.status = new /\ m.accepted = intents[k].accepted
    <3>1. PICK h : h = NoWorker
      OBVIOUS
    <3>2. PICK l : l = FALSE
      OBVIOUS
    <3>3. new \in Settled \cup {"retrying", "leased"} /\ h \in Workers \cup {NoWorker} /\ intents[k] \in Intent
      BY <1>0, <2>3, <3>1
    <3>4. l \in BOOLEAN /\ m = Claim(intents[k], new, h, l, a)
      BY <2>6, <3>1, <3>2 DEF Claim
    <3>5. QED BY <2>5, <3>3, <3>4, IntentClaimed
  <2>8. worker' = [worker EXCEPT ![w] = NextUp(w)] /\ UNCHANGED <<configVars, lifecycleVars>>
    BY <1>5 DEF FinishDelivery
  <2>9. CASE Holds(w, k)
    <3>1. intents' = [intents EXCEPT ![k] = m]
      BY <1>5, <2>1, <2>2, <2>5, <2>6, <2>9 DEF FinishDelivery
    <3>2. MessagesMove /\ DOMAIN intents' = DOMAIN intents
      BY <2>4, <2>7, <2>8, <3>1, OneMessage DEF configVars, lifecycleVars
    <3>3. QED BY <1>n, <2>8, <3>2, WorkerMoves
  <2>10. CASE ~Holds(w, k)
    <3>1. UNCHANGED intents
      BY <1>5, <2>1, <2>10 DEF FinishDelivery
    <3>2. QED BY <1>n, <1>q, <2>8, <3>1
  <2>11. QED BY <2>9, <2>10
<1>6. ASSUME NEW w \in Workers, AbandonBatch(w) PROVE DeliveryInv'
  BY <1>6, <1>q, NextUpType DEF AbandonBatch
<1>7. ASSUME NEW w \in Workers, OutcomeLost(w) PROVE DeliveryInv'
  BY <1>7, <1>n, <1>q DEF OutcomeLost
<1>8. ASSUME NEW k \in DOMAIN intents, Expire(k) PROVE DeliveryInv'
  <2>1. PICK m : m = [intents[k] EXCEPT !.live = FALSE]
    OBVIOUS
  <2>2. /\ m \in Intent /\ SameMessage(intents[k], m) /\ m.status = intents[k].status
        /\ m.accepted = intents[k].accepted
    <3>1. PICK l : l = FALSE
      OBVIOUS
    <3>2. l \in BOOLEAN /\ m = [intents[k] EXCEPT !.live = l]
      BY <2>1, <3>1
    <3>3. QED BY <1>0, <3>2, IntentLive
  <2>3. intents' = [intents EXCEPT ![k] = m] /\ UNCHANGED <<incidents, linked, worker>>
    BY <1>8, <2>1 DEF Expire, configVars, lifecycleVars
  <2>4. m.status = "sent" => m.accepted > 0
    BY <2>2 DEF DeliveryInv, SentWasTaken
  <2>5. MessagesMove
    BY <2>2, <2>3, <2>4, OneMessage
  <2>6. QED BY <2>3, <2>5, QueueStep
<1>9. QED
  BY <1>1, <1>2, <1>3, <1>4, <1>5, <1>6, <1>7, <1>8 DEF ConsumerStep, Process

LEMMA DeliveryStep == LifecycleInv /\ LifecycleInv' /\ DeliveryInv /\ [Next]_vars => DeliveryInv'
<1> SUFFICES ASSUME LifecycleInv, LifecycleInv', DeliveryInv, [Next]_vars PROVE DeliveryInv'
  OBVIOUS
<1>1. CASE RecordStep \/ OperatorStep
  BY <1>1, TransitionStep
<1>2. CASE (\E w \in Workers : ConsumerStep(w)) \/ (\E k \in DOMAIN intents : Expire(k))
  <2>1. rev \in Nat
    BY DEF LifecycleInv, Rows
  <2>2. QED BY <1>2, <2>1, ConsumptionStep
<1>3. CASE UNCHANGED vars
  BY <1>3 DEF vars, configVars, lifecycleVars, DeliveryInv, References, SentWasTaken, FinishedWasTaken,
              NoOrphanRecovery
<1>4. QED BY <1>1, <1>2, <1>3 DEF Next

\* Every message is about an incident on record, is in the hands of consumers
\* that know it, and is recorded as sent only if its provider took it.
THEOREM DeliveryInvariant == Spec => []DeliveryInv
<1>1. Init => DeliveryInv
  <2> SUFFICES ASSUME Init PROVE DeliveryInv
    OBVIOUS
  <2>1. Waiting \in Consumer /\ Waiting.todo = {} /\ Waiting.pc = "idle"
    BY DEF Waiting, Consumer
  <2>2. intents \in Seq(Intent) /\ DOMAIN intents = {} /\ worker \in [Workers -> Consumer]
        /\ \A w \in Workers : worker[w] = Waiting
    BY <2>1, EmptySeq DEF Init
  <2>3. QED BY <2>1, <2>2 DEF Init, DeliveryInv, References, SentWasTaken, FinishedWasTaken, NoOrphanRecovery
<1>2. QED BY <1>1, DeliveryStep, LifecycleInvariant, PTL DEF Spec

\* NoOrphanRecovery for any number of channels, consumers, incidents and faults:
\* a plain recovery is only queued for a page that its provider took
\* (recoveryDeliveryKind, AttemptDelivery, FinishDelivery).
THEOREM NoOrphan == Spec => []NoOrphanRecovery
<1>1. DeliveryInv => NoOrphanRecovery
  BY DEF DeliveryInv
<1>2. QED BY <1>1, DeliveryInvariant, PTL

-----------------------------------------------------------------------------
(* Repetitions. *)

\* The consumers that may still hand intent k to its provider.
Senders(k) == {w \in Workers : worker[w].pc = "send" /\ worker[w].cur = k}

\* The claim of k will end in "sent" unless a fault intervenes.
Delivering(w, k) ==
    /\ Holds(w, k) /\ worker[w].cur = k
    /\ worker[w].pc = "send" \/ (worker[w].pc = "finish" /\ worker[w].result = "ok")

\* One more consumer may come to send k.
Reopens(k) == intents[k].status \notin Settled /\ \A w \in Workers : ~Delivering(w, k)

\* How often k was taken, and may still be without another fault.
Exposure(k) == intents[k].accepted + Cardinality(Senders(k)) + (IF Reopens(k) THEN 1 ELSE 0)

\* Every possible repetition, counted as Repetitions counts those that happened.
Exposures == UNION {{k} \X (2..Exposure(k)) : k \in DOMAIN intents}

\* Every possible repetition is paid for by a fault.
RepetitionsPaid == faults \in Nat /\ IsFiniteSet(Exposures) /\ Cardinality(Exposures) <= faults

\* The parts of an exposure are numbers.
LEMMA ExposureType ==
    ASSUME DeliveryInv, NEW k \in DOMAIN intents
    PROVE  /\ intents[k] \in Intent /\ intents[k].accepted \in Nat /\ Cardinality(Senders(k)) \in Nat
           /\ Exposure(k) \in Nat /\ intents[k].accepted <= Exposure(k)
<1>1. intents[k] \in Intent
  BY ElementOfSeq, LenProperties DEF DeliveryInv
<1>2. Cardinality(Senders(k)) \in Nat
  BY OutboxAssumption, FS_Subset, FS_CardinalityType DEF Senders
<1>3. intents[k].accepted \in Nat
  BY <1>1 DEF Intent
<1>4. QED BY <1>1, <1>2, <1>3 DEF Exposure

\* A repetition that happened is one that was possible.
LEMMA RepetitionsCounted ==
    ASSUME DeliveryInv, RepetitionsPaid
    PROVE  DuplicatesNeedFaults
<1>1. Repetitions \subseteq Exposures
  <2> SUFFICES ASSUME NEW k \in DOMAIN intents, NEW n \in 2..intents[k].accepted
               PROVE  n \in 2..Exposure(k)
    BY DEF Repetitions, Exposures
  <2>1. QED BY ExposureType
<1>2. Cardinality(Repetitions) <= Cardinality(Exposures) /\ Cardinality(Repetitions) \in Nat
      /\ Cardinality(Exposures) \in Nat
  BY <1>1, FS_Subset, FS_CardinalityType DEF RepetitionsPaid
<1>3. QED BY <1>2 DEF RepetitionsPaid, DuplicatesNeedFaults

\* No exposure grows.
LEMMA PaidKept ==
    ASSUME RepetitionsPaid, faults' \in Nat, faults' >= faults,
           \A k \in DOMAIN intents' :
             /\ Exposure(k)' \in Nat
             /\ \/ Exposure(k)' <= 1
                \/ k \in DOMAIN intents /\ Exposure(k) \in Nat /\ Exposure(k)' <= Exposure(k)
    PROVE  RepetitionsPaid'
<1>1. Exposures' \subseteq Exposures
  <2> SUFFICES ASSUME NEW k \in DOMAIN intents', NEW n \in 2..Exposure(k)'
               PROVE  k \in DOMAIN intents /\ n \in 2..Exposure(k)
    BY DEF Exposures
  <2>1. QED OBVIOUS
<1>2. IsFiniteSet(Exposures') /\ Cardinality(Exposures') <= Cardinality(Exposures)
      /\ Cardinality(Exposures') \in Nat /\ Cardinality(Exposures) \in Nat
  BY <1>1, FS_Subset, FS_CardinalityType DEF RepetitionsPaid
<1>3. QED BY <1>2 DEF RepetitionsPaid

\* One more element is at most one more.
LEMMA OneMore ==
    ASSUME NEW S, NEW x, IsFiniteSet(S)
    PROVE  /\ IsFiniteSet(S \cup {x}) /\ Cardinality(S \cup {x}) \in Nat /\ Cardinality(S) \in Nat
           /\ Cardinality(S \cup {x}) <= Cardinality(S) + 1
<1>1. PICK n \in Nat : n = Cardinality(S)
  BY FS_CardinalityType
<1>2. PICK T : T = S \cup {x}
  OBVIOUS
<1>3. IsFiniteSet(T) /\ Cardinality(T) = IF x \in S THEN n ELSE n + 1
  BY <1>1, <1>2, FS_AddElement
<1>4. QED BY <1>1, <1>2, <1>3

\* A fault, and one exposure grows by one.
LEMMA PaidByFault ==
    ASSUME RepetitionsPaid, faults' = faults + 1, NEW j,
           \A k \in DOMAIN intents' :
             /\ Exposure(k)' \in Nat
             /\ k \in DOMAIN intents /\ Exposure(k) \in Nat
             /\ Exposure(k)' <= Exposure(k) \/ (k = j /\ Exposure(k)' <= Exposure(k) + 1)
    PROVE  RepetitionsPaid'
<1>1. PICK x : x = <<j, Exposure(j) + 1>>
  OBVIOUS
<1>2. Exposures' \subseteq Exposures \cup {x}
  <2> SUFFICES ASSUME NEW k \in DOMAIN intents', NEW n \in 2..Exposure(k)'
               PROVE  <<k, n>> = x \/ (k \in DOMAIN intents /\ n \in 2..Exposure(k))
    BY DEF Exposures
  <2>1. n \in 2..Exposure(k) \/ (k = j /\ n = Exposure(k) + 1)
    OBVIOUS
  <2>2. QED BY <1>1, <2>1
<1>3. IsFiniteSet(Exposures \cup {x}) /\ Cardinality(Exposures \cup {x}) <= Cardinality(Exposures) + 1
      /\ Cardinality(Exposures) \in Nat
  BY OneMore DEF RepetitionsPaid
<1>4. IsFiniteSet(Exposures') /\ Cardinality(Exposures') <= Cardinality(Exposures \cup {x})
      /\ Cardinality(Exposures') \in Nat /\ Cardinality(Exposures \cup {x}) \in Nat
  BY <1>2, <1>3, FS_Subset, FS_CardinalityType
<1>5. QED BY <1>3, <1>4 DEF RepetitionsPaid

\* The senders of a message when one consumer moves.
LEMMA SendersMove ==
    ASSUME NEW w \in Workers, \A u \in Workers \ {w} : worker'[u] = worker[u], NEW k
    PROVE  /\ Cardinality(Senders(k)) \in Nat /\ Cardinality(Senders(k)') \in Nat
           /\ Cardinality(Senders(k)') <= Cardinality(Senders(k)) + 1
           /\ w \notin Senders(k)' => Cardinality(Senders(k)') <= Cardinality(Senders(k))
           /\ w \notin Senders(k)' /\ w \in Senders(k) => Cardinality(Senders(k)') <= Cardinality(Senders(k)) - 1
<1> DEFINE S == Senders(k)
           T == Senders(k)'
<1>1. IsFiniteSet(S) /\ IsFiniteSet(T) /\ Cardinality(S) \in Nat /\ Cardinality(T) \in Nat
  BY OutboxAssumption, FS_Subset, FS_CardinalityType DEF Senders
<1>2. T \ {w} \subseteq S \ {w}
  BY DEF Senders
<1>3. /\ IsFiniteSet(S \cup {w}) /\ Cardinality(S \cup {w}) <= Cardinality(S) + 1
      /\ Cardinality(S \cup {w}) \in Nat
  BY <1>1, OneMore
<1>4. /\ IsFiniteSet(S \ {w}) /\ Cardinality(S \ {w}) = IF w \in S THEN Cardinality(S) - 1 ELSE Cardinality(S)
  BY <1>1, FS_RemoveElement
<1>5. T \subseteq S \cup {w} /\ (w \notin T => T \subseteq S \ {w})
  BY <1>2
<1>6. Cardinality(T) <= Cardinality(S \cup {w}) /\ (w \notin T => Cardinality(T) <= Cardinality(S \ {w}))
  BY <1>3, <1>4, <1>5, FS_Subset
<1> HIDE DEF S, T
<1>7. /\ Cardinality(S) \in Nat /\ Cardinality(T) \in Nat
      /\ Cardinality(T) <= Cardinality(S) + 1
      /\ w \notin T => Cardinality(T) <= Cardinality(S)
      /\ w \notin T /\ w \in S => Cardinality(T) <= Cardinality(S) - 1
  BY <1>1, <1>3, <1>4, <1>6
<1>8. QED BY <1>7 DEF S, T

\* Whether a message reopens when one consumer moves and its claim stays.
LEMMA ReopensMove ==
    ASSUME NEW w \in Workers, \A u \in Workers \ {w} : worker'[u] = worker[u], NEW k,
           intents'[k].status = intents[k].status, intents'[k].holder = intents[k].holder,
           intents'[k].live = intents[k].live, Delivering(w, k) => Delivering(w, k)', Reopens(k)'
    PROVE  Reopens(k)
BY DEF Reopens, Delivering, Holds

\* What was taken of a message and is being sent.
Load(k) == intents[k].accepted + Cardinality(Senders(k))

\* How an exposure follows its parts.
LEMMA ExposureMove ==
    ASSUME DeliveryInv, DeliveryInv', NEW k \in DOMAIN intents, k \in DOMAIN intents'
    PROVE  /\ Exposure(k) \in Nat /\ Exposure(k)' \in Nat
           /\ Load(k)' <= Load(k) /\ (Reopens(k)' => Reopens(k)) => Exposure(k)' <= Exposure(k)
           /\ Load(k)' <= Load(k) - 1 => Exposure(k)' <= Exposure(k)
           /\ Load(k)' <= Load(k) + 1 /\ Reopens(k) /\ ~Reopens(k)' => Exposure(k)' <= Exposure(k)
           /\ Load(k)' <= Load(k) => Exposure(k)' <= Exposure(k) + 1
<1>1. Exposure(k) \in Nat /\ intents[k].accepted \in Nat /\ Cardinality(Senders(k)) \in Nat
  BY ExposureType
<1>2. Exposure(k)' \in Nat /\ intents'[k].accepted \in Nat /\ Cardinality(Senders(k)') \in Nat
  <2>1. intents'[k] \in Intent
    BY ElementOfSeq, LenProperties DEF DeliveryInv
  <2>2. Cardinality(Senders(k)') \in Nat
    BY OutboxAssumption, FS_Subset, FS_CardinalityType DEF Senders
  <2>3. intents'[k].accepted \in Nat
    BY <2>1 DEF Intent
  <2>4. QED BY <2>2, <2>3 DEF Exposure
<1>3. Load(k) \in Nat /\ Load(k)' \in Nat
  BY <1>1, <1>2 DEF Load
<1>4. /\ Exposure(k) = Load(k) + (IF Reopens(k) THEN 1 ELSE 0)
      /\ Exposure(k)' = Load(k)' + (IF Reopens(k)' THEN 1 ELSE 0)
  BY DEF Exposure, Load
<1>5. QED BY <1>1, <1>2, <1>3, <1>4

\* What a transition queues was never taken.
LEMMA QueuedUntaken ==
    ASSUME linked \subseteq Channels, NEW i, NEW ver, NEW check, NEW kind,
           NEW q, q = Queued(i, ver, check, kind)
    PROVE  \A k \in DOMAIN q : q[k].accepted = 0
<1>1. CASE gate
  BY <1>1 DEF Queued
<1>2. CASE ~gate
  BY <1>2 DEF Queued
<1>3. QED BY <1>1, <1>2

\* A transition retires messages and appends new ones: nothing more can be
\* repeated than before.
LEMMA QueuePaid ==
    ASSUME DeliveryInv, DeliveryInv', RepetitionsPaid, UNCHANGED <<worker, faults>>,
           NEW M \in Seq(Intent), Len(M) = Len(intents),
           \A k \in 1..Len(intents) : /\ M[k].accepted = intents[k].accepted
                                      /\ M[k] = intents[k] \/ M[k].status \in Settled,
           NEW Q \in Seq(Intent), \A k \in DOMAIN Q : Q[k].accepted = 0, intents' = M \o Q
    PROVE  RepetitionsPaid'
<1>1. /\ Len(intents) \in Nat /\ Len(Q) \in Nat /\ DOMAIN Q = 1..Len(Q)
      /\ DOMAIN intents = 1..Len(intents) /\ DOMAIN intents' = 1..Len(intents')
  BY LenProperties DEF DeliveryInv
<1>2. /\ Len(intents') = Len(intents) + Len(Q)
      /\ \A k \in 1..(Len(intents) + Len(Q)) :
           intents'[k] = IF k <= Len(intents) THEN M[k] ELSE Q[k - Len(intents)]
  <2>1. M \o Q \in Seq(Intent)
    BY ConcatProperties
  <2>2. Len(M \o Q) = Len(M) + Len(Q)
    BY ConcatProperties
  <2>3. \A k \in 1..(Len(M) + Len(Q)) : (M \o Q)[k] = IF k <= Len(M) THEN M[k] ELSE Q[k - Len(M)]
    BY <2>1, <2>2
  <2>4. QED BY <2>2, <2>3
<1>3. ASSUME NEW k \in DOMAIN intents
      PROVE  k \in DOMAIN intents' /\ Exposure(k) \in Nat /\ Exposure(k)' \in Nat /\ Exposure(k)' <= Exposure(k)
  <2>1. k \in DOMAIN intents' /\ intents'[k] = M[k]
    BY <1>1, <1>2
  <2>2. Load(k)' = Load(k)
    BY <1>1, <2>1 DEF Load, Senders
  <2>3. Reopens(k)' => Reopens(k)
    BY <1>1, <2>1 DEF Reopens, Delivering, Holds
  <2>4. Load(k) \in Nat
    BY ExposureType DEF Load
  <2>5. QED BY <2>1, <2>2, <2>3, <2>4, ExposureMove
<1>4. ASSUME NEW k \in DOMAIN intents', k \notin DOMAIN intents
      PROVE  Exposure(k)' \in Nat /\ Exposure(k)' <= 1
  <2>1. k - Len(intents) \in DOMAIN Q /\ intents'[k] = Q[k - Len(intents)]
    BY <1>1, <1>2, <1>4
  <2>2. intents'[k].accepted = 0
    BY <2>1
  <2>3. Senders(k)' = {}
    BY <1>4 DEF Senders, DeliveryInv, References
  <2>4. Cardinality(Senders(k)') = 0
    BY <2>3, FS_EmptySet
  <2>5. QED BY <2>2, <2>4 DEF Exposure
<1>5. faults' \in Nat /\ faults' >= faults
  BY DEF RepetitionsPaid
<1>6. QED BY <1>3, <1>4, <1>5, PaidKept

\* Retiring what waits on an incident changes no count.
LEMMA SupersededCounts ==
    ASSUME DeliveryInv, NEW i
    PROVE  /\ Superseded(i) \in Seq(Intent) /\ Len(Superseded(i)) = Len(intents)
           /\ \A k \in 1..Len(intents) : /\ Superseded(i)[k].accepted = intents[k].accepted
                                         /\ Superseded(i)[k] = intents[k] \/ Superseded(i)[k].status \in Settled
<1>1. DOMAIN intents = 1..Len(intents) /\ \A k \in 1..Len(intents) : intents[k] \in Intent
  BY LenProperties, ElementOfSeq DEF DeliveryInv
<1>2. ASSUME NEW k \in 1..Len(intents)
      PROVE  /\ Superseded(i)[k].accepted = intents[k].accepted
             /\ Superseded(i)[k] = intents[k] \/ Superseded(i)[k].status \in Settled
  <2>1. Superseded(i)[k] = Retire(intents[k]) \/ Superseded(i)[k] = intents[k]
    BY <1>1 DEF Superseded
  <2>2. QED BY <1>1, <2>1, Retired DEF Settled
<1>3. QED BY <1>2, SupersededMessages

\* The recording transaction and the operator make nothing repeatable.
LEMMA TransitionPaid ==
    ASSUME LifecycleInv, DeliveryInv, DeliveryInv', RepetitionsPaid, RecordStep \/ OperatorStep
    PROVE  RepetitionsPaid'
<1>0. /\ rev \in Nat \ {0} /\ linked \subseteq Channels /\ Len(incidents) \in Nat
      /\ DOMAIN incidents = 1..Len(incidents) /\ DOMAIN alerts = DOMAIN incidents
      /\ StatusChange \in [Channels -> Kinds] /\ intents \in Seq(Intent)
  BY LenProperties, RowDomains DEF LifecycleInv, Rows, DeliveryInv, StatusChange, Kinds
<1>q. ASSUME NEW i \in Nat \ {0}, NEW ver \in Nat \ {0}, NEW check \in {"DOWN", "UP"},
             NEW kind \in [Channels -> Kinds], NEW M \in Seq(Intent), Len(M) = Len(intents),
             \A k \in 1..Len(intents) : /\ M[k].accepted = intents[k].accepted
                                        /\ M[k] = intents[k] \/ M[k].status \in Settled,
             intents' = M \o Queued(i, ver, check, kind), UNCHANGED <<worker, faults>>
      PROVE  RepetitionsPaid'
  <2>1. PICK q : q = Queued(i, ver, check, kind)
    OBVIOUS
  <2>2. q \in Seq(Intent)
    BY <1>0, <2>1, QueuedMessages
  <2>3. \A k \in DOMAIN q : q[k].accepted = 0
    BY <1>0, <2>1, QueuedUntaken
  <2>4. intents' = M \o q
    BY <1>q, <2>1
  <2>5. QED BY <1>q, <2>2, <2>3, <2>4, QueuePaid
<1>u. ASSUME UNCHANGED <<intents, worker, faults>> PROVE RepetitionsPaid'
  BY <1>u DEF RepetitionsPaid, Exposures, Exposure, Senders, Reopens, Delivering, Holds
<1>d. "DOWN" \in {"DOWN", "UP"} /\ "UP" \in {"DOWN", "UP"} /\ 1 \in Nat \ {0}
  OBVIOUS
<1>1. ASSUME NEW s \in Recorded, NEW elapsed \in BOOLEAN, RecordQuietly(s, elapsed) PROVE RepetitionsPaid'
  BY <1>1, <1>u DEF RecordQuietly
<1>2. CASE OpenIncident
  <2>1. PICK i : i \in Nat \ {0} /\ i = Len(incidents) + 1
    BY <1>0
  <2>2. PICK v : v \in Nat \ {0} /\ v = 1
    OBVIOUS
  <2>3. intents' = intents \o Queued(i, v, "DOWN", StatusChange) /\ UNCHANGED <<worker, faults>>
    BY <1>2, <2>1, <2>2 DEF OpenIncident
  <2>4. QED BY <1>0, <1>d, <1>q, <2>1, <2>2, <2>3
<1>3. ASSUME NEW i \in DOMAIN alerts, NEW elapsed \in BOOLEAN, NEW late \in BOOLEAN,
             RenewIncident(i, elapsed, late)
      PROVE  RepetitionsPaid'
  <2>1. i \in Nat \ {0} /\ Refired(i).version \in Nat \ {0}
    BY <1>0, RenewedIncident DEF Incident
  <2>2. intents' = intents \o Queued(i, Refired(i).version, "DOWN", StatusChange) /\ UNCHANGED <<worker, faults>>
    BY <1>3 DEF RenewIncident
  <2>3. QED BY <1>0, <1>d, <1>q, <2>1, <2>2
<1>4. ASSUME NEW i \in DOMAIN alerts, ResolveIncident(i) PROVE RepetitionsPaid'
  <2>1. i \in Nat \ {0} /\ Recovered(i).version \in Nat \ {0}
    BY <1>0, RenewedIncident DEF Incident
  <2>2. PICK kinds : kinds = [c \in Channels |-> RecoveryKind(i, c)]
    OBVIOUS
  <2>3. kinds \in [Channels -> Kinds]
    BY <2>2 DEF RecoveryKind, Kinds
  <2>4. PICK M : M = Superseded(i)
    OBVIOUS
  <2>5. intents' = M \o Queued(i, Recovered(i).version, "UP", kinds) /\ UNCHANGED <<worker, faults>>
    BY <1>4, <2>2, <2>4 DEF ResolveIncident
  <2>6. /\ M \in Seq(Intent) /\ Len(M) = Len(intents)
        /\ \A k \in 1..Len(intents) : /\ M[k].accepted = intents[k].accepted
                                      /\ M[k] = intents[k] \/ M[k].status \in Settled
    BY <2>4, SupersededCounts
  <2>7. QED BY <1>d, <1>q, <2>1, <2>3, <2>5, <2>6
<1>5. ASSUME NEW i \in DOMAIN alerts, Acknowledge(i) PROVE RepetitionsPaid'
  <2>1. PICK M : M = Superseded(i)
    OBVIOUS
  <2>2. /\ M \in Seq(Intent) /\ Len(M) = Len(intents)
        /\ \A k \in 1..Len(intents) : /\ M[k].accepted = intents[k].accepted
                                      /\ M[k] = intents[k] \/ M[k].status \in Settled
    BY <2>1, SupersededCounts
  <2>3. PICK Q : Q = << >>
    OBVIOUS
  <2>4. Q \in Seq(Intent) /\ DOMAIN Q = {}
    BY <2>3, EmptySeq
  <2>5. M \o << >> = M
    BY <2>2, ConcatEmptySeq
  <2>6. intents' = M \o Q /\ UNCHANGED <<worker, faults>>
    BY <1>5, <2>1, <2>3, <2>5 DEF Acknowledge
  <2>7. QED BY <2>2, <2>4, <2>6, QueuePaid
<1>6. CASE (\E changed, links \in SUBSET Channels : Activate(changed, links))
           \/ Reassign \/ ToggleMaintenance \/ ToggleGate
  BY <1>6, <1>u DEF Activate, Reassign, ToggleMaintenance, ToggleGate
<1>7. QED BY <1>1, <1>2, <1>3, <1>4, <1>5, <1>6 DEF RecordStep, OperatorStep

\* A consumer that was not delivering goes on to something else.
LEMMA QuietPaid ==
    ASSUME DeliveryInv, DeliveryInv', RepetitionsPaid, UNCHANGED <<intents, faults>>,
           NEW w \in Workers, \A u \in Workers \ {w} : worker'[u] = worker[u],
           worker'[w].pc # "send", \A k \in DOMAIN intents : ~Delivering(w, k)
    PROVE  RepetitionsPaid'
<1>1. ASSUME NEW k \in DOMAIN intents
      PROVE  Exposure(k) \in Nat /\ Exposure(k)' \in Nat /\ Exposure(k)' <= Exposure(k)
  <2>1. intents[k].accepted \in Nat
    BY ExposureType
  <2>2. w \notin Senders(k)'
    BY DEF Senders
  <2>3. Load(k)' <= Load(k)
    BY <2>1, <2>2, SendersMove DEF Load
  <2>4. Reopens(k)' => Reopens(k)
    BY ReopensMove
  <2>5. QED BY <2>3, <2>4, ExposureMove
<1>2. faults' \in Nat /\ faults' >= faults
  BY DEF RepetitionsPaid
<1>3. QED BY <1>1, <1>2, PaidKept

\* A consumer gives up its delivery: the message may be sent once more, and the
\* fault pays for it.
LEMMA GivenUpPaid ==
    ASSUME DeliveryInv, DeliveryInv', RepetitionsPaid, UNCHANGED intents, faults' = faults + 1,
           NEW w \in Workers, \A u \in Workers \ {w} : worker'[u] = worker[u], worker'[w].pc # "send"
    PROVE  RepetitionsPaid'
<1>1. ASSUME NEW k \in DOMAIN intents
      PROVE  /\ Exposure(k) \in Nat /\ Exposure(k)' \in Nat
             /\ Exposure(k)' <= Exposure(k) \/ (k = worker[w].cur /\ Exposure(k)' <= Exposure(k) + 1)
  <2>1. intents[k].accepted \in Nat
    BY ExposureType
  <2>2. w \notin Senders(k)'
    BY DEF Senders
  <2>3. Load(k)' <= Load(k)
    BY <2>1, <2>2, SendersMove DEF Load
  <2>4. CASE k = worker[w].cur
    BY <2>3, <2>4, ExposureMove
  <2>5. CASE k # worker[w].cur
    <3>1. ~Delivering(w, k)
      BY <2>5 DEF Delivering
    <3>2. Reopens(k)' => Reopens(k)
      BY <3>1, ReopensMove
    <3>3. QED BY <2>3, <3>2, ExposureMove
  <2>6. QED BY <2>4, <2>5
<1>2. QED BY <1>1, PaidByFault

\* A claim keeps what was taken.
LEMMA ClaimKeeps ==
    ASSUME NEW n \in Intent, NEW s, NEW h, NEW l, NEW a
    PROVE  /\ Claim(n, s, h, l, a).accepted = n.accepted /\ Claim(n, s, h, l, a).status = s
BY DEF Claim, Intent

\* Claims, sends, outcomes and leases make nothing repeatable that a fault has
\* not paid for.
LEMMA ConsumptionPaid ==
    ASSUME DeliveryInv, DeliveryInv', RepetitionsPaid,
           (\E w \in Workers : ConsumerStep(w)) \/ (\E k \in DOMAIN intents : Expire(k))
    PROVE  RepetitionsPaid'
<1>0. /\ \A k \in DOMAIN intents : intents[k] \in Intent /\ intents[k].accepted \in Nat
      /\ \A w \in Workers : worker[w] \in Consumer
      /\ faults \in Nat /\ worker \in [Workers -> Consumer]
  BY ExposureType DEF DeliveryInv, RepetitionsPaid
<1>w. ASSUME NEW w \in Workers, NEW v, worker' = [worker EXCEPT ![w] = v]
      PROVE  worker'[w] = v /\ \A u \in Workers \ {w} : worker'[u] = worker[u]
  BY <1>0, <1>w
<1>n. \A w \in Workers : NextUp(w).pc = "idle" /\ Waiting.pc = "idle"
  BY NextUpType
<1>h. ASSUME NEW w \in Workers, NEW k, Holds(w, k) PROVE \A u \in Workers : Holds(u, k) => u = w
  BY <1>h DEF Holds
\* Due work may be sent once more as it stands.
<1>1. ASSUME NEW w \in Workers, NEW batch \in SUBSET DOMAIN intents, ClaimDeliveries(w, batch)
      PROVE  RepetitionsPaid'
  <2>1. PICK v : v = [worker[w] EXCEPT !.todo = batch]
    OBVIOUS
  <2>2. worker' = [worker EXCEPT ![w] = v] /\ worker[w] = Waiting /\ faults' = faults
    BY <1>1, <2>1 DEF ClaimDeliveries
  <2>3. worker[w].pc = "idle" /\ v.pc = "idle"
    BY <1>0, <1>n, <2>1, <2>2 DEF Consumer
  <2>4. worker'[w].pc = "idle" /\ \A u \in Workers \ {w} : worker'[u] = worker[u]
    BY <1>w, <2>2, <2>3
  <2>5. ASSUME NEW k \in DOMAIN intents
        PROVE  k \in DOMAIN intents' /\ Exposure(k) \in Nat /\ Exposure(k)' \in Nat /\ Exposure(k)' <= Exposure(k)
    <3>1. k \in DOMAIN intents'
      BY <1>1 DEF ClaimDeliveries
    <3>2. w \notin Senders(k)'
      BY <2>4 DEF Senders
    <3>3. CASE k \in batch
      <4>1. PICK s, l, a : intents'[k] = Claim(intents[k], s, w, l, a)
        BY <1>1, <3>3 DEF ClaimDeliveries, Claim
      <4>2. intents'[k].accepted = intents[k].accepted
        BY <1>0, <4>1, ClaimKeeps
      <4>3. Load(k)' <= Load(k)
        BY <1>0, <2>4, <3>2, <4>2, SendersMove DEF Load
      <4>4. Due(k)
        BY <1>1, <3>3 DEF ClaimDeliveries
      <4>5. Reopens(k)
        BY <4>4 DEF Due, Reopens, Delivering, Holds, Settled
      <4>6. QED BY <3>1, <4>3, <4>5, ExposureMove
    <3>4. CASE k \notin batch
      <4>1. intents'[k] = intents[k]
        BY <1>1, <3>4 DEF ClaimDeliveries
      <4>2. Load(k)' <= Load(k)
        BY <1>0, <2>4, <3>2, <4>1, SendersMove DEF Load
      <4>3. ~Delivering(w, k)
        BY <2>3 DEF Delivering
      <4>4. Reopens(k)' => Reopens(k)
        BY <2>4, <4>1, <4>3, ReopensMove
      <4>5. QED BY <3>1, <4>2, <4>4, ExposureMove
    <3>5. QED BY <3>3, <3>4
  <2>6. DOMAIN intents' = DOMAIN intents
    BY <1>1 DEF ClaimDeliveries
  <2>7. QED BY <1>0, <2>2, <2>5, <2>6, PaidKept
<1>2. ASSUME NEW w \in Workers, NEW k \in worker[w].todo, ReconcileBeforeSend(w, k) PROVE RepetitionsPaid'
  <2>1. PICK nx : nx = [NextUp(w) EXCEPT !.todo = @ \ {k}]
    OBVIOUS
  <2>2. NextUp(w) \in Consumer
    BY NextUpType
  <2>3. PICK v \in {nx, [nx EXCEPT !.pc = "supersede", !.cur = k], [nx EXCEPT !.pc = "grant", !.cur = k, !.rev = rev]} :
          worker' = [worker EXCEPT ![w] = v]
    BY <1>2, <2>1 DEF ReconcileBeforeSend
  <2>4. v.pc # "send"
    BY <1>n, <2>1, <2>2, <2>3 DEF Consumer
  <2>5. worker[w].pc = "idle" /\ UNCHANGED <<intents, faults>>
    BY <1>2 DEF ReconcileBeforeSend
  <2>6. \A j \in DOMAIN intents : ~Delivering(w, j)
    BY <2>5 DEF Delivering
  <2>7. worker'[w].pc # "send" /\ \A u \in Workers \ {w} : worker'[u] = worker[u]
    BY <1>w, <2>3, <2>4
  <2>8. QED BY <2>5, <2>6, <2>7, QuietPaid
\* The grant turns the send that may come into one that is under way.
<1>3. ASSUME NEW w \in Workers, AuthorizeLocalDelivery(w) PROVE RepetitionsPaid'
  <2>1. UNCHANGED <<intents, faults>> /\ worker[w].pc = "grant"
    BY <1>3 DEF AuthorizeLocalDelivery
  <2>2. \A j \in DOMAIN intents : ~Delivering(w, j)
    BY <2>1 DEF Delivering
  <2>3. CASE ~Granted(w)
    <3>1. worker' = [worker EXCEPT ![w] = NextUp(w)]
      BY <1>3, <2>3 DEF AuthorizeLocalDelivery
    <3>2. worker'[w].pc # "send" /\ \A u \in Workers \ {w} : worker'[u] = worker[u]
      BY <1>n, <1>w, <3>1
    <3>3. QED BY <2>1, <2>2, <3>2, QuietPaid
  <2>4. CASE Granted(w)
    <3>1. PICK v : v = [worker[w] EXCEPT !.pc = "send"]
      OBVIOUS
    <3>2. worker' = [worker EXCEPT ![w] = v]
      BY <1>3, <2>4, <3>1 DEF AuthorizeLocalDelivery
    <3>3. v.pc = "send" /\ v.cur = worker[w].cur
      BY <1>0, <3>1 DEF Consumer
    <3>4. /\ worker'[w].pc = "send" /\ worker'[w].cur = worker[w].cur
          /\ \A u \in Workers \ {w} : worker'[u] = worker[u]
      BY <1>w, <3>2, <3>3
    <3>5. Holds(w, worker[w].cur)
      BY <2>4 DEF Granted
    <3>6. ASSUME NEW k \in DOMAIN intents
          PROVE  Exposure(k) \in Nat /\ Exposure(k)' \in Nat /\ Exposure(k)' <= Exposure(k)
      <4>1. CASE k = worker[w].cur
        <5>1. Load(k)' <= Load(k) + 1
          BY <1>0, <2>1, <3>4, SendersMove DEF Load
        <5>2. ~Reopens(k)'
          BY <2>1, <3>4, <3>5, <4>1 DEF Reopens, Delivering, Holds
        <5>3. Reopens(k)
          BY <1>h, <2>2, <3>5, <4>1 DEF Reopens, Delivering, Holds, Settled
        <5>4. QED BY <2>1, <5>1, <5>2, <5>3, ExposureMove
      <4>2. CASE k # worker[w].cur
        <5>1. w \notin Senders(k)'
          BY <3>4, <4>2 DEF Senders
        <5>2. Load(k)' <= Load(k)
          BY <1>0, <2>1, <3>4, <5>1, SendersMove DEF Load
        <5>3. Reopens(k)' => Reopens(k)
          BY <2>1, <2>2, <3>4, ReopensMove
        <5>4. QED BY <2>1, <5>2, <5>3, ExposureMove
      <4>3. QED BY <4>1, <4>2
    <3>7. QED BY <1>0, <2>1, <3>6, PaidKept
  <2>5. QED BY <2>3, <2>4
\* What is sent is taken, or may be sent again, or is taken unseen at the price
\* of a fault.
<1>4. ASSUME NEW w \in Workers, NEW result \in {"ok", "transient", "permanent"}, NEW taken \in BOOLEAN,
             Send(w, result, taken)
      PROVE  RepetitionsPaid'
  <2>1. PICK c \in DOMAIN intents : c = worker[w].cur
    BY <1>4 DEF Send, DeliveryInv, References
  <2>2. PICK v : v = [worker[w] EXCEPT !.pc = "finish", !.result = result]
    OBVIOUS
  <2>3. worker' = [worker EXCEPT ![w] = v]
    BY <1>0, <1>4, <2>2 DEF Send
  <2>4. v.pc = "finish" /\ v.cur = c /\ v.result = result
    BY <1>0, <2>1, <2>2 DEF Consumer
  <2>5. /\ worker'[w].pc = "finish" /\ worker'[w].cur = c /\ worker'[w].result = result
        /\ \A u \in Workers \ {w} : worker'[u] = worker[u]
    BY <1>w, <2>3, <2>4
  <2>6. worker[w].pc = "send"
    BY <1>4 DEF Send
  <2>7. PICK x \in Nat : x = (IF taken THEN intents[c].accepted + 1 ELSE intents[c].accepted)
    BY <1>0
  <2>8. PICK m : m = [intents[c] EXCEPT !.accepted = x]
    OBVIOUS
  <2>9. /\ m.status = intents[c].status /\ m.accepted = x
        /\ m.holder = intents[c].holder /\ m.live = intents[c].live
    BY <1>0, <2>7, <2>8, IntentTaken
  <2>10. intents' = [intents EXCEPT ![c] = m]
    BY <1>4, <2>1, <2>7, <2>8 DEF Send
  <2>11. /\ DOMAIN intents' = DOMAIN intents /\ intents'[c] = m
         /\ \A k \in DOMAIN intents : k # c => intents'[k] = intents[k]
    BY <2>10
  <2>12. ASSUME NEW k \in DOMAIN intents, k # c
         PROVE  Exposure(k) \in Nat /\ Exposure(k)' \in Nat /\ Exposure(k)' <= Exposure(k)
    <3>1. w \notin Senders(k)' /\ ~Delivering(w, k)
      BY <2>1, <2>5, <2>12 DEF Senders, Delivering
    <3>2. Load(k)' <= Load(k)
      BY <1>0, <2>5, <2>11, <2>12, <3>1, SendersMove DEF Load
    <3>3. Reopens(k)' => Reopens(k)
      BY <2>5, <2>11, <2>12, <3>1, ReopensMove
    <3>4. QED BY <2>11, <3>2, <3>3, ExposureMove
  <2>13. w \in Senders(c) /\ w \notin Senders(c)'
    BY <2>1, <2>5, <2>6 DEF Senders
  <2>14. /\ Cardinality(Senders(c)) \in Nat /\ Cardinality(Senders(c)') \in Nat
         /\ Cardinality(Senders(c)') <= Cardinality(Senders(c)) - 1
    BY <2>5, <2>13, SendersMove
  <2>15. Load(c)' <= Load(c) /\ (~taken => Load(c)' <= Load(c) - 1)
    BY <1>0, <2>7, <2>9, <2>11, <2>14 DEF Load
  <2>16. c \in DOMAIN intents' /\ Exposure(c) \in Nat /\ Exposure(c)' \in Nat
    BY <2>11, ExposureMove
  <2>17. CASE result = "ok"
    <3>1. Delivering(w, c) => Delivering(w, c)'
      BY <2>1, <2>5, <2>9, <2>11, <2>17 DEF Delivering, Holds
    <3>2. Reopens(c)' => Reopens(c)
      BY <2>5, <2>9, <2>11, <3>1, ReopensMove
    <3>3. Exposure(c)' <= Exposure(c)
      BY <2>15, <2>16, <3>2, ExposureMove
    <3>4. faults' = faults
      BY <1>4, <2>17 DEF Send
    <3>5. QED BY <1>0, <2>11, <2>12, <2>16, <3>3, <3>4, PaidKept
  <2>18. CASE ~taken
    <3>1. Exposure(c)' <= Exposure(c)
      BY <2>15, <2>16, <2>18, ExposureMove
    <3>2. faults' = faults
      BY <1>4, <2>18 DEF Send
    <3>3. QED BY <1>0, <2>11, <2>12, <2>16, <3>1, <3>2, PaidKept
  <2>19. CASE taken /\ result = "transient"
    <3>1. Exposure(c)' <= Exposure(c) + 1
      BY <2>15, <2>16, ExposureMove
    <3>2. faults' = faults + 1
      BY <1>4, <2>19 DEF Send
    <3>3. QED BY <2>11, <2>12, <2>16, <3>1, <3>2, PaidByFault
  <2>20. QED BY <1>4, <2>17, <2>18, <2>19 DEF Send
\* A recorded outcome settles the message, or it failed and may be sent again.
<1>5. ASSUME NEW w \in Workers, FinishDelivery(w) PROVE RepetitionsPaid'
  <2>1. PICK c \in DOMAIN intents : c = worker[w].cur
    BY <1>5 DEF FinishDelivery, DeliveryInv, References
  <2>2. worker' = [worker EXCEPT ![w] = NextUp(w)] /\ faults' = faults /\ worker[w].pc \in {"supersede", "finish"}
    BY <1>5 DEF FinishDelivery
  <2>3. worker'[w].pc = "idle" /\ \A u \in Workers \ {w} : worker'[u] = worker[u]
    BY <1>n, <1>w, <2>2
  <2>4. CASE ~Holds(w, c)
    <3>1. UNCHANGED intents
      BY <1>5, <2>1, <2>4 DEF FinishDelivery
    <3>2. \A k \in DOMAIN intents : ~Delivering(w, k)
      BY <2>1, <2>4 DEF Delivering
    <3>3. QED BY <2>2, <2>3, <3>1, <3>2, QuietPaid
  <2>5. CASE Holds(w, c)
    <3>1. PICK new : new = IF worker[w].pc = "supersede" THEN "superseded"
                           ELSE Outcome(worker[w].result, intents[c].attempt)
      OBVIOUS
    <3>2. new \in Settled \/ (worker[w].pc # "supersede" /\ worker[w].result = "transient")
      BY <3>1 DEF Outcome, Settled
    <3>3. PICK h, l, a : intents' = [intents EXCEPT ![c] = Claim(intents[c], new, h, l, a)]
      <4>1. PICK h, l, a : h = NoWorker /\ l = FALSE /\ a = IF new = "retrying" THEN intents[c].attempt ELSE 0
        OBVIOUS
      <4>2. intents' = [intents EXCEPT ![c] = Claim(intents[c], new, h, l, a)]
        BY <1>5, <2>1, <2>5, <3>1, <4>1 DEF FinishDelivery, Claim
      <4>3. QED BY <4>2
    <3>4. PICK m : m = Claim(intents[c], new, h, l, a)
      OBVIOUS
    <3>5. m.accepted = intents[c].accepted /\ m.status = new
      BY <1>0, <3>4, ClaimKeeps
    <3>6. /\ DOMAIN intents' = DOMAIN intents /\ intents'[c] = m
          /\ \A k \in DOMAIN intents : k # c => intents'[k] = intents[k]
      BY <3>3, <3>4
    <3>7. ASSUME NEW k \in DOMAIN intents
          PROVE  Exposure(k) \in Nat /\ Exposure(k)' \in Nat /\ Exposure(k)' <= Exposure(k)
      <4>1. intents'[k].accepted = intents[k].accepted
        BY <3>5, <3>6
      <4>2. w \notin Senders(k)'
        BY <2>3 DEF Senders
      <4>3. Load(k)' <= Load(k)
        BY <1>0, <2>3, <4>1, <4>2, SendersMove DEF Load
      <4>4. Reopens(k)' => Reopens(k)
        <5>1. CASE k # c
          <6>1. ~Delivering(w, k)
            BY <2>1, <5>1 DEF Delivering
          <6>2. QED BY <2>3, <3>6, <5>1, <6>1, ReopensMove
        <5>2. CASE k = c /\ new \in Settled
          BY <3>5, <3>6, <5>2 DEF Reopens
        <5>3. CASE k = c /\ worker[w].pc # "supersede" /\ worker[w].result = "transient"
          <6>1. ~Delivering(w, c)
            BY <2>2, <5>3 DEF Delivering
          <6>2. \A u \in Workers : ~Delivering(u, c)
            BY <1>h, <2>5, <6>1 DEF Delivering
          <6>3. QED BY <2>5, <5>3, <6>2 DEF Reopens, Holds, Settled
        <5>4. QED BY <3>2, <5>1, <5>2, <5>3
      <4>5. QED BY <3>6, <4>3, <4>4, ExposureMove
    <3>8. QED BY <1>0, <2>2, <3>6, <3>7, PaidKept
  <2>6. QED BY <2>4, <2>5
<1>6. ASSUME NEW w \in Workers, AbandonBatch(w) PROVE RepetitionsPaid'
  <2>1. worker' = [worker EXCEPT ![w] = Waiting] /\ UNCHANGED intents /\ faults' = faults + 1
    BY <1>6 DEF AbandonBatch
  <2>2. worker'[w].pc # "send" /\ \A u \in Workers \ {w} : worker'[u] = worker[u]
    BY <1>n, <1>w, <2>1
  <2>3. QED BY <2>1, <2>2, GivenUpPaid
<1>7. ASSUME NEW w \in Workers, OutcomeLost(w) PROVE RepetitionsPaid'
  <2>1. worker' = [worker EXCEPT ![w] = NextUp(w)] /\ UNCHANGED intents /\ faults' = faults + 1
    BY <1>7 DEF OutcomeLost
  <2>2. worker'[w].pc # "send" /\ \A u \in Workers \ {w} : worker'[u] = worker[u]
    BY <1>n, <1>w, <2>1
  <2>3. QED BY <2>1, <2>2, GivenUpPaid
\* A lease that runs out under a consumer at work is a stall.
<1>8. ASSUME NEW c \in DOMAIN intents, Expire(c) PROVE RepetitionsPaid'
  <2>1. PICK m : m = [intents[c] EXCEPT !.live = FALSE]
    OBVIOUS
  <2>2. m.accepted = intents[c].accepted
    BY <1>0, <2>1 DEF Intent
  <2>3. intents' = [intents EXCEPT ![c] = m] /\ UNCHANGED worker
    BY <1>8, <2>1 DEF Expire
  <2>4. /\ DOMAIN intents' = DOMAIN intents /\ intents'[c] = m
        /\ \A k \in DOMAIN intents : k # c => intents'[k] = intents[k]
    BY <2>3
  <2>5. ASSUME NEW k \in DOMAIN intents
        PROVE  /\ Exposure(k) \in Nat /\ Exposure(k)' \in Nat
               /\ Exposure(k)' <= Exposure(k) + 1
               /\ (Reopens(k)' => Reopens(k)) => Exposure(k)' <= Exposure(k)
    <3>1. intents'[k].accepted = intents[k].accepted
      BY <2>2, <2>4
    <3>2. Load(k)' = Load(k) /\ Load(k) \in Nat
      <4>1. Senders(k)' = Senders(k)
        BY <2>3 DEF Senders
      <4>2. Cardinality(Senders(k)) \in Nat
        BY ExposureType
      <4>3. QED BY <1>0, <3>1, <4>1, <4>2 DEF Load
    <3>3. QED BY <2>4, <3>2, ExposureMove
  <2>6. ASSUME NEW k \in DOMAIN intents, k # c PROVE Exposure(k)' <= Exposure(k)
    <3>1. Reopens(k)' => Reopens(k)
      BY <2>3, <2>4, <2>6 DEF Reopens, Delivering, Holds
    <3>2. QED BY <2>5, <3>1
  <2>7. CASE \E w \in Workers : intents[c].holder = w /\ AtWork(w, c)
    <3>1. faults' = faults + 1
      BY <1>8, <2>7 DEF Expire
    <3>2. QED BY <2>4, <2>5, <2>6, <3>1, PaidByFault
  <2>8. CASE ~\E w \in Workers : intents[c].holder = w /\ AtWork(w, c)
    <3>1. faults' = faults
      BY <1>8, <2>8 DEF Expire
    <3>2. intents[c].status = "leased"
      BY <1>8 DEF Expire
    <3>3. Reopens(c)
      BY <2>8, <3>2 DEF Reopens, Delivering, Holds, AtWork, Settled
    <3>4. Exposure(c)' <= Exposure(c)
      BY <2>5, <3>3
    <3>5. QED BY <1>0, <2>4, <2>5, <2>6, <3>1, <3>4, PaidKept
  <2>9. QED BY <2>7, <2>8
<1>9. QED
  BY <1>1, <1>2, <1>3, <1>4, <1>5, <1>6, <1>7, <1>8 DEF ConsumerStep, Process

\* Every further time a message may be taken is charged to a fault, whatever
\* crashes, stalls, lost answers and claims interleave.
THEOREM RepetitionsInvariant == Spec => []RepetitionsPaid
<1>1. Init => RepetitionsPaid
  <2> SUFFICES ASSUME Init PROVE RepetitionsPaid
    OBVIOUS
  <2>1. DOMAIN intents = {} /\ faults = 0
    BY DEF Init
  <2>2. Exposures = {}
    BY <2>1 DEF Exposures
  <2>3. QED BY <2>1, <2>2, FS_EmptySet DEF RepetitionsPaid
<1>2. LifecycleInv /\ DeliveryInv /\ DeliveryInv' /\ RepetitionsPaid /\ [Next]_vars => RepetitionsPaid'
  <2> SUFFICES ASSUME LifecycleInv, DeliveryInv, DeliveryInv', RepetitionsPaid, [Next]_vars
               PROVE  RepetitionsPaid'
    OBVIOUS
  <2>1. CASE RecordStep \/ OperatorStep
    BY <2>1, TransitionPaid
  <2>2. CASE (\E w \in Workers : ConsumerStep(w)) \/ (\E k \in DOMAIN intents : Expire(k))
    BY <2>2, ConsumptionPaid
  <2>3. CASE UNCHANGED vars
    BY <2>3 DEF vars, RepetitionsPaid, Exposures, Exposure, Senders, Reopens, Delivering, Holds
  <2>4. QED BY <2>1, <2>2, <2>3 DEF Next
<1>3. QED BY <1>1, <1>2, LifecycleInvariant, DeliveryInvariant, PTL DEF Spec

\* MessagesAreExplained for any number of channels, consumers, incidents and
\* faults: a provider takes a message again only for a crash, a stall or a lost
\* answer, and a plain recovery only follows a page that its provider took
\* (AttemptDelivery, FinishDelivery, recoveryDeliveryKind).
THEOREM Explained == Spec => []MessagesAreExplained
<1>1. DeliveryInv /\ RepetitionsPaid => MessagesAreExplained
  BY RepetitionsCounted DEF DeliveryInv, MessagesAreExplained
<1>2. QED BY <1>1, DeliveryInvariant, RepetitionsInvariant, PTL

\* AckStopsPaging: the last transaction before the provider is called looks at
\* the incident, and the incident agrees with the alert that was acknowledged
\* (grantLocalAttemptTx).
THEOREM AckStops == Spec => AckStopsPaging
<1>1. ASSUME LifecycleInv, DeliveryInv, [Next]_vars, NEW w \in Workers,
             worker[w].pc = "grant", worker'[w].pc = "send", intents[worker[w].cur].check = "DOWN"
      PROVE  alerts[intents[worker[w].cur].inc].status = "firing"
  <2>0. worker \in [Workers -> Consumer] /\ worker[w].cur \in DOMAIN intents
    BY <1>1 DEF DeliveryInv, References
  <2>n. \A u \in Workers : NextUp(u).pc = "idle" /\ Waiting.pc = "idle"
    BY <1>1, NextUpType
  <2>1. worker' # worker
    BY <1>1
  <2>2. PICK u \in Workers : ConsumerStep(u)
    BY <1>1, <2>1 DEF Next, vars, RecordStep, OperatorStep, RecordQuietly, OpenIncident, RenewIncident,
         ResolveIncident, Acknowledge, Activate, Reassign, ToggleMaintenance, ToggleGate, Expire
  <2>3. u = w
    BY <1>1, <2>0, <2>2 DEF ConsumerStep, Process, ClaimDeliveries, ReconcileBeforeSend,
         AuthorizeLocalDelivery, Send, FinishDelivery, AbandonBatch, OutcomeLost
  <2>4. AuthorizeLocalDelivery(w)
    <3>1. ~\E batch \in SUBSET DOMAIN intents : ClaimDeliveries(w, batch)
      BY <1>1, <2>n DEF ClaimDeliveries
    <3>2. ~AbandonBatch(w) /\ ~OutcomeLost(w) /\ ~FinishDelivery(w)
      BY <1>1, <2>0, <2>n DEF AbandonBatch, OutcomeLost, FinishDelivery
    <3>3. \A k \in worker[w].todo : ~ReconcileBeforeSend(w, k)
      BY <1>1 DEF ReconcileBeforeSend
    <3>4. \A result, taken : ~Send(w, result, taken)
      BY <1>1 DEF Send
    <3>5. QED BY <2>2, <2>3, <3>1, <3>2, <3>3, <3>4 DEF ConsumerStep, Process
  <2>5. Granted(w)
    BY <1>1, <2>0, <2>4, <2>n DEF AuthorizeLocalDelivery
  <2>6. incidents[intents[worker[w].cur].inc].status = "firing"
    BY <1>1, <2>5 DEF Granted
  <2>7. intents[worker[w].cur].inc \in DOMAIN alerts
    <3>1. intents[worker[w].cur].inc \in DOMAIN incidents
      BY <1>1, <2>0 DEF DeliveryInv, References
    <3>2. QED BY <1>1, <3>1, RowDomains DEF LifecycleInv
  <2>8. QED BY <1>1, <2>6, <2>7 DEF LifecycleInv, AlertMirrorsIncident
<1>2. LifecycleInv /\ DeliveryInv /\ [Next]_vars =>
        [\A w \in Workers : worker[w].pc = "grant" /\ worker'[w].pc = "send" =>
           LET n == intents[worker[w].cur]
           IN  n.check = "DOWN" => alerts[n.inc].status = "firing"]_vars
  BY <1>1
<1>3. QED BY <1>2, LifecycleInvariant, DeliveryInvariant, PTL DEF Spec, AckStopsPaging
=============================================================================
