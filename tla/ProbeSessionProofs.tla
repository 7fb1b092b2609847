------------------------- MODULE ProbeSessionProofs -------------------------
(***************************************************************************)
(* The theorems about a probe's sessions: who speaks to it                 *)
(* (ProbeConnector, for any number of processes and loops, any lease and   *)
(* any amount by which the database clock is set back) and with which      *)
(* credential (CredentialRotation).  The two machines share no state and   *)
(* are proved about one after the other.                                   *)
(***************************************************************************)
EXTENDS ProbeConnector, CredentialRotation, TLAPS

\* The lease is the only thing that lengthens what a row has left, and the clock
\* being set back.
TypeInv ==
  /\ TypeOK
  /\ back \in 0..MaxBack /\ faults \in Nat
  /\ runtime.left <= Lease + back /\ session.left <= Lease + back

\* Epochs and generations only grow, and each is given to one loop.
EpochsAreUnique ==
  \A k, l \in Loops :
    /\ loop[l].epoch <= runtime.epoch
    /\ k # l /\ loop[l].epoch > 0 => loop[k].epoch # loop[l].epoch
GenerationsAreUnique ==
  \A k, l \in Loops :
    /\ loop[l].gen <= session.gen
    /\ k # l /\ loop[l].gen > 0 => loop[k].gen # loop[l].gen
AcceptedIsPast == edge.accepted <= session.gen

\* A session that may come to life again, on a clock set back, is its owner's:
\* it ends no later than the ownership, and was granted under it.
SessionUnderRuntime ==
  runtime.epoch > 0 /\ session.left > Expired =>
    session.owner = runtime.owner /\ session.left <= runtime.left
GrantedUnderEpoch ==
  \A l \in Loops :
    loop[l].gen > 0 /\ loop[l].gen = session.gen /\ session.left > Expired =>
      loop[l].epoch = runtime.epoch

ConnectorInv ==
  /\ TypeInv
  /\ EpochsAreUnique
  /\ GenerationsAreUnique
  /\ AcceptedIsPast
  /\ SessionUnderRuntime
  /\ GrantedUnderEpoch

-----------------------------------------------------------------------------

Pcs == {"off", "idle", "owned", "dial", "up", "closing", "ending"}
LoopRecord == [pc : Pcs, epoch : 0..MaxGen, gen : 0..MaxGen, lost : BOOLEAN, canceled : BOOLEAN]
SessionRow == [owner : Owners \cup {"nobody", "legacy"}, gen : 0..MaxGen,
               left : Expired..(Lease + MaxBack), connected : BOOLEAN]

\* The constants are numbers.
LEMMA Constants ==
  /\ Lease \in Nat /\ Lease > 1 /\ MaxGen \in Nat /\ MaxGen > 0
  /\ MaxBack \in Nat /\ MaxFaults \in Nat /\ Expired \in Int /\ Expired <= 0 /\ Expired = -MaxBack
  BY ConnectorAssumption DEF Expired

\* The moves of a loop stay within its type.
LEMMA LoopMoves ==
  /\ Off \in LoopRecord
  /\ [Off EXCEPT !.pc = "idle"] \in LoopRecord
  /\ \A r \in LoopRecord :
       /\ [r EXCEPT !.canceled = TRUE] \in LoopRecord
       /\ [r EXCEPT !.lost = TRUE] \in LoopRecord
       /\ \A x \in Pcs : [r EXCEPT !.pc = x] \in LoopRecord
       /\ \A n \in 0..MaxGen : [r EXCEPT !.gen = n] \in LoopRecord
       /\ \A n \in 0..MaxGen : [r EXCEPT !.epoch = n] \in LoopRecord
<1> USE Constants
<1>1. Off \in LoopRecord
  BY DEF Off, LoopRecord, Pcs
<1>2. \A r \in LoopRecord : [r EXCEPT !.canceled = TRUE] \in LoopRecord
  BY DEF LoopRecord
<1>3. \A r \in LoopRecord : [r EXCEPT !.lost = TRUE] \in LoopRecord
  BY DEF LoopRecord
<1>4. \A r \in LoopRecord : \A x \in Pcs : [r EXCEPT !.pc = x] \in LoopRecord
  BY DEF LoopRecord
<1>5. \A r \in LoopRecord : \A n \in 0..MaxGen : [r EXCEPT !.gen = n] \in LoopRecord
  BY DEF LoopRecord
<1>6. \A r \in LoopRecord : \A n \in 0..MaxGen : [r EXCEPT !.epoch = n] \in LoopRecord
  BY DEF LoopRecord
<1>7. [Off EXCEPT !.pc = "idle"] \in LoopRecord
  BY <1>1, <1>4 DEF Pcs
<1>8. QED BY <1>1, <1>2, <1>3, <1>4, <1>5, <1>6, <1>7

\* The moves of the session row stay within its type.
LEMMA SessionMoves ==
  ASSUME session \in SessionRow
  PROVE  /\ Invalidated \in SessionRow
         /\ [session EXCEPT !.connected = TRUE] \in SessionRow
         /\ \A n \in Expired..(Lease + MaxBack) : [session EXCEPT !.left = n] \in SessionRow
<1> USE Constants
<1>1. \A s \in SessionRow : [s EXCEPT !.owner = "nobody"] \in SessionRow
  BY DEF SessionRow
<1>2. \A s \in SessionRow : \A n \in Expired..(Lease + MaxBack) : [s EXCEPT !.left = n] \in SessionRow
  BY DEF SessionRow
<1>3. \A s \in SessionRow : /\ [s EXCEPT !.connected = FALSE] \in SessionRow
                            /\ [s EXCEPT !.connected = TRUE] \in SessionRow
  BY DEF SessionRow
<1>4. Invalidated \in SessionRow
  <2>1. Expired \in Expired..(Lease + MaxBack)
    OBVIOUS
  <2>2. [session EXCEPT !.owner = "nobody", !.left = Expired] \in SessionRow
    BY <1>1, <1>2, <2>1
  <2>3. QED BY <1>3, <2>2 DEF Invalidated
<1>5. QED BY <1>2, <1>3, <1>4

RuntimeRow == [owner : Owners \cup {"nobody"}, epoch : 0..MaxGen, left : Expired..(Lease + MaxBack)]
EdgeRecord == [accepted : 0..MaxGen, serves : 0..MaxGen]

\* The types, part by part.
LEMMA TypeParts ==
  TypeOK <=> /\ runtime \in RuntimeRow /\ session \in SessionRow /\ enabled \in BOOLEAN
             /\ loop \in [Loops -> LoopRecord] /\ edge \in EdgeRecord
  BY DEF TypeOK, RuntimeRow, SessionRow, LoopRecord, Pcs, EdgeRecord

\* Every step keeps the rows, the loops and the probe in their types.
LEMMA TypeStep == TypeInv /\ [Next]_vars => TypeInv'
<1> SUFFICES ASSUME TypeInv, [Next]_vars PROVE TypeInv'
  OBVIOUS
<1> USE Constants
<1>0. /\ runtime \in RuntimeRow /\ session \in SessionRow /\ enabled \in BOOLEAN
      /\ loop \in [Loops -> LoopRecord] /\ edge \in EdgeRecord
      /\ back \in 0..MaxBack /\ faults \in Nat
      /\ runtime.left <= Lease + back /\ session.left <= Lease + back
  BY TypeParts DEF TypeInv
<1> DEFINE Left == Expired..(Lease + MaxBack)
<1>t. ASSUME runtime' \in RuntimeRow, session' \in SessionRow, enabled' \in BOOLEAN,
             loop' \in [Loops -> LoopRecord], edge' \in EdgeRecord,
             back' \in 0..MaxBack, faults' \in Nat,
             runtime'.left <= Lease + back', session'.left <= Lease + back'
      PROVE  TypeInv'
  BY <1>t DEF TypeInv, TypeOK, RuntimeRow, SessionRow, LoopRecord, Pcs, EdgeRecord
<1>o. \A l \in Loops : Owner[l] \in Owners
  BY DEF Owners
<1>f. Fault => faults' \in Nat
  BY <1>0 DEF Fault
<1>i. Invalidated.left = Expired
  BY <1>0 DEF Invalidated, SessionRow
<1>1. ASSUME NEW l \in Loops, NEW r \in LoopRecord, loop' = [loop EXCEPT ![l] = r],
             UNCHANGED <<runtime, session, enabled, edge, back>>, faults' \in Nat
      PROVE  TypeInv'
  <2>1. loop' \in [Loops -> LoopRecord]
    BY <1>0, <1>1
  <2>2. QED BY <1>0, <1>1, <1>t, <2>1
<1>2. ASSUME NEW l \in Loops, Start(l) PROVE TypeInv'
  BY <1>0, <1>1, <1>2, LoopMoves DEF Start
<1>3. ASSUME NEW l \in Loops, Cancel(l) PROVE TypeInv'
  BY <1>0, <1>1, <1>3, <1>f, LoopMoves DEF Cancel
<1>4. ASSUME NEW o \in Owners, Crash(o) PROVE TypeInv'
  <2>1. loop' \in [Loops -> LoopRecord]
    BY <1>0, <1>4, LoopMoves DEF Crash
  <2>2. QED BY <1>0, <1>4, <1>f, <1>t, <2>1 DEF Crash
<1>5. ASSUME NEW l \in Loops, AcquireRuntime(l) PROVE TypeInv'
  <2>1. runtime' \in RuntimeRow /\ runtime'.left = Lease
    BY <1>0, <1>o, <1>5 DEF AcquireRuntime, RuntimeRow
  <2>2. session' \in SessionRow /\ session'.left = Expired
    BY <1>0, <1>5, <1>i, SessionMoves DEF AcquireRuntime
  <2>3. runtime.epoch + 1 \in 0..MaxGen /\ loop[l] \in LoopRecord /\ "owned" \in Pcs
    BY <1>0, <1>5 DEF AcquireRuntime, RuntimeRow, Pcs
  <2>4. loop' \in [Loops -> LoopRecord]
    BY <1>0, <1>5, <2>3, LoopMoves DEF AcquireRuntime
  <2>5. QED BY <1>0, <1>5, <1>t, <2>1, <2>2, <2>4 DEF AcquireRuntime
<1>6. ASSUME NEW l \in Loops, RenewRuntime(l) PROVE TypeInv'
  <2>1. CASE CanRenewRuntime(l)
    <3>1. runtime' \in RuntimeRow /\ runtime'.left <= Lease + back
      BY <1>0, <1>6, <2>1 DEF RenewRuntime, RuntimeRow, Max2
    <3>2. QED BY <1>0, <1>6, <1>t, <2>1, <3>1 DEF RenewRuntime
  <2>2. CASE ~CanRenewRuntime(l)
    <3> DEFINE p == IF loop[l].pc = "owned" THEN "ending" ELSE "closing"
               r == [loop[l] EXCEPT !.pc = p, !.lost = TRUE]
    <3>1. p \in Pcs /\ loop[l] \in LoopRecord
      BY <1>0 DEF Pcs
    <3>2. r \in LoopRecord
      BY <3>1, LoopMoves
    <3>3. loop' = [loop EXCEPT ![l] = r]
      BY <1>6, <2>2 DEF RenewRuntime
    <3> HIDE DEF r
    <3>4. QED BY <1>0, <1>1, <1>6, <2>2, <3>2, <3>3 DEF RenewRuntime
  <2>3. QED BY <2>1, <2>2
<1>7. ASSUME NEW l \in Loops, ReleaseRuntime(l) PROVE TypeInv'
  <2>1. loop' \in [Loops -> LoopRecord]
    BY <1>0, <1>7, LoopMoves DEF ReleaseRuntime
  <2>2. runtime' \in RuntimeRow /\ runtime'.left <= Lease + back
    <3>1. PICK a \in RuntimeRow : a = [runtime EXCEPT !.owner = "nobody"]
      BY <1>0 DEF RuntimeRow
    <3>2. runtime' = runtime \/ runtime' = [a EXCEPT !.left = Expired]
      BY <1>7, <3>1 DEF ReleaseRuntime
    <3>3. \A r \in RuntimeRow : [r EXCEPT !.left = Expired] \in RuntimeRow
                                /\ [r EXCEPT !.left = Expired].left = Expired
      BY DEF RuntimeRow
    <3>4. CASE runtime' = runtime
      BY <1>0, <3>4
    <3>5. CASE runtime' = [a EXCEPT !.left = Expired]
      <4>1. runtime' \in RuntimeRow /\ runtime'.left = Expired
        BY <3>3, <3>5
      <4>2. QED BY <1>0, <4>1
    <3>6. QED BY <3>2, <3>4, <3>5
  <2>3. session' \in SessionRow /\ session'.left <= Lease + back
    BY <1>0, <1>7, <1>i, SessionMoves DEF ReleaseRuntime
  <2>4. QED BY <1>0, <1>7, <1>t, <2>1, <2>2, <2>3 DEF ReleaseRuntime
<1>8. ASSUME NEW l \in Loops, ReleaseRuntimeFails(l) PROVE TypeInv'
  <2>1. loop' \in [Loops -> LoopRecord]
    BY <1>0, <1>8, LoopMoves DEF ReleaseRuntimeFails
  <2>2. QED BY <1>0, <1>8, <1>f, <1>t, <2>1 DEF ReleaseRuntimeFails
<1>9. ASSUME NEW l \in Loops, AcquireRuntimeConnector(l) PROVE TypeInv'
  <2>1. session' \in SessionRow /\ session'.left <= Lease + back
    BY <1>0, <1>9, <1>o DEF AcquireRuntimeConnector, RuntimeRow, SessionRow, Min2
  <2>2. session.gen + 1 \in 0..MaxGen /\ loop[l] \in LoopRecord /\ "dial" \in Pcs
    BY <1>0, <1>9 DEF AcquireRuntimeConnector, SessionRow, Pcs
  <2>3. loop' \in [Loops -> LoopRecord]
    BY <1>0, <1>9, <2>2, LoopMoves DEF AcquireRuntimeConnector
  <2>4. QED BY <1>0, <1>9, <1>t, <2>1, <2>3 DEF AcquireRuntimeConnector
<1>c. ASSUME NEW l \in Loops, NEW x \in Pcs, loop' = [loop EXCEPT ![l].pc = x]
      PROVE  loop' \in [Loops -> LoopRecord]
  <2>1. [loop[l] EXCEPT !.pc = x] \in LoopRecord
    BY <1>0, LoopMoves
  <2>2. QED BY <1>0, <1>c, <2>1
<1>10. ASSUME NEW l \in Loops, AcceptConnectionGeneration(l) PROVE TypeInv'
  <2>1. loop' \in [Loops -> LoopRecord]
    <3>1. \/ UNCHANGED loop
          \/ \E x \in {"up", "closing"} : loop' = [loop EXCEPT ![l].pc = x]
      BY <1>10 DEF AcceptConnectionGeneration
    <3>2. QED BY <1>0, <1>c, <3>1 DEF Pcs
  <2>2. edge' \in EdgeRecord
    BY <1>0, <1>10 DEF AcceptConnectionGeneration, EdgeRecord, LoopRecord
  <2>3. QED BY <1>0, <1>10, <1>t, <2>1, <2>2 DEF AcceptConnectionGeneration
<1>11. ASSUME NEW l \in Loops, SetConnectorConnected(l) PROVE TypeInv'
  <2>1. loop' \in [Loops -> LoopRecord]
    <3>1. \/ UNCHANGED loop
          \/ \E x \in {"up", "closing"} : loop' = [loop EXCEPT ![l].pc = x]
      BY <1>11 DEF SetConnectorConnected
    <3>2. QED BY <1>0, <1>c, <3>1 DEF Pcs
  <2>2. session' \in SessionRow /\ session'.left = session.left
    BY <1>0, <1>11, SessionMoves DEF SetConnectorConnected, SessionRow
  <2>3. QED BY <1>0, <1>11, <1>t, <2>1, <2>2 DEF SetConnectorConnected
<1>12. ASSUME NEW l \in Loops, RenewConnector(l) PROVE TypeInv'
  <2>1. loop' \in [Loops -> LoopRecord]
    <3>1. \/ UNCHANGED loop
          \/ \E x \in {"up", "closing"} : loop' = [loop EXCEPT ![l].pc = x]
      BY <1>12 DEF RenewConnector
    <3>2. QED BY <1>0, <1>c, <3>1 DEF Pcs
  <2>2. session' \in SessionRow /\ session'.left <= Lease + back
    BY <1>0, <1>12 DEF RenewConnector, SessionRow, RuntimeRow, Min2
  <2>3. QED BY <1>0, <1>12, <1>t, <2>1, <2>2 DEF RenewConnector
<1>13. ASSUME NEW l \in Loops, EndSession(l) PROVE TypeInv'
  BY <1>0, <1>1, <1>13, LoopMoves DEF EndSession, Pcs
<1>14. ASSUME NEW l \in Loops, loop' \in [Loops -> LoopRecord], faults' \in Nat,
              edge' = [edge EXCEPT !.serves = IF @ = loop[l].gen THEN 0 ELSE @],
              UNCHANGED <<runtime, enabled, back>>,
              session' \in SessionRow, session'.left <= Lease + back
       PROVE  TypeInv'
  <2>1. edge' \in EdgeRecord
    BY <1>0, <1>14 DEF EdgeRecord
  <2>2. QED BY <1>0, <1>14, <1>t, <2>1
<1>15. ASSUME NEW l \in Loops, BreakSession(l) PROVE TypeInv'
  <2>1. loop' \in [Loops -> LoopRecord]
    BY <1>0, <1>15, LoopMoves DEF BreakSession, Pcs
  <2>2. QED BY <1>0, <1>14, <1>15, <1>f, <2>1 DEF BreakSession
<1>16. ASSUME NEW l \in Loops,
              loop' = [loop EXCEPT ![l].pc = IF loop[l].canceled \/ loop[l].lost
                                             THEN "ending" ELSE "owned",
                                   ![l].gen = 0]
       PROVE  loop' \in [Loops -> LoopRecord]
  <2>1. 0 \in 0..MaxGen /\ loop[l] \in LoopRecord /\ {"ending", "owned"} \subseteq Pcs
    BY <1>0 DEF Pcs
  <2>2. QED BY <1>0, <1>16, <2>1, LoopMoves
<1>17. ASSUME NEW l \in Loops, ReleaseConnector(l) PROVE TypeInv'
  <2>1. session' \in SessionRow /\ session'.left <= Lease + back
    BY <1>0, <1>17, <1>i, SessionMoves DEF ReleaseConnector
  <2>2. QED BY <1>0, <1>14, <1>16, <1>17, <2>1 DEF ReleaseConnector
<1>18. ASSUME NEW l \in Loops, ReleaseConnectorFails(l) PROVE TypeInv'
  BY <1>0, <1>14, <1>16, <1>18, <1>f DEF ReleaseConnectorFails
<1>19. ASSUME Disable \/ Enable PROVE TypeInv'
  <2>1. enabled' \in BOOLEAN
    BY <1>19, Zenon DEF Disable, Enable
  <2>2. QED BY <1>0, <1>19, <1>f, <1>t, <2>1 DEF Disable, Enable
<1>20. ASSUME Tick PROVE TypeInv'
  <2>1. /\ runtime' \in RuntimeRow /\ runtime'.left <= Lease + back
        /\ session' \in SessionRow /\ session'.left <= Lease + back
    BY <1>0, <1>20 DEF Tick, Older, Max2, RuntimeRow, SessionRow
  <2>2. QED BY <1>0, <1>20, <1>t, <2>1 DEF Tick
<1>21. ASSUME SetClockBack PROVE TypeInv'
  <2>1. /\ runtime' \in RuntimeRow /\ runtime'.left <= Lease + back'
        /\ session' \in SessionRow /\ session'.left <= Lease + back' /\ back' \in 0..MaxBack
    BY <1>0, <1>21 DEF SetClockBack, Longer, RuntimeRow, SessionRow
  <2>2. QED BY <1>0, <1>21, <1>t, <2>1 DEF SetClockBack
<1>22. CASE UNCHANGED vars
  BY <1>0, <1>22, <1>t DEF vars
<1>23. QED
  BY <1>2, <1>3, <1>4, <1>5, <1>6, <1>7, <1>8, <1>9, <1>10, <1>11, <1>12, <1>13, <1>15,
     <1>17, <1>18, <1>19, <1>20, <1>21, <1>22 DEF Next, Step

\* The invariant holds at the start, upgraded or not.
LEMMA ConnectorInit == Init => ConnectorInv
<1> SUFFICES ASSUME Init PROVE ConnectorInv
  OBVIOUS
<1> USE Constants
<1>1. loop \in [Loops -> LoopRecord] /\ \A l \in Loops : loop[l].epoch = 0 /\ loop[l].gen = 0
  <2>1. Off.epoch = 0 /\ Off.gen = 0
    BY DEF Off
  <2>2. QED BY <2>1, LoopMoves DEF Init
<1>2. runtime \in RuntimeRow /\ runtime.left = Expired /\ runtime.epoch = 0
  BY DEF Init, RuntimeRow
<1>3. /\ session \in SessionRow /\ session.left <= Lease /\ session.gen >= 0
      /\ edge \in EdgeRecord /\ edge.accepted = session.gen
  <2>1. CASE /\ session = [owner |-> "nobody", gen |-> 0, left |-> Expired, connected |-> FALSE]
             /\ edge = [accepted |-> 0, serves |-> 0]
    BY <2>1 DEF SessionRow, EdgeRecord
  <2>2. CASE /\ session = [owner |-> "legacy", gen |-> 1, left |-> Lease, connected |-> TRUE]
             /\ edge = [accepted |-> 1, serves |-> 1]
    BY <2>2 DEF SessionRow, EdgeRecord
  <2>3. QED BY <2>1, <2>2 DEF Init
<1>4. enabled \in BOOLEAN /\ back = 0 /\ faults = 0
  BY Zenon DEF Init
<1>5. TypeInv
  BY <1>1, <1>2, <1>3, <1>4, TypeParts DEF TypeInv
<1>6. session.gen \in Nat
  BY <1>3 DEF SessionRow
<1>7. QED
  BY <1>1, <1>2, <1>3, <1>5, <1>6 DEF ConnectorInv, EpochsAreUnique, GenerationsAreUnique,
     AcceptedIsPast, SessionUnderRuntime, GrantedUnderEpoch

\* Steps that give out neither an epoch nor a generation: loops keep theirs or
\* forget them, and no cleared session comes back.
Keeps(l) ==
  /\ loop'[l].epoch \in {loop[l].epoch, 0}
  /\ loop'[l].gen \in {loop[l].gen, 0}
  /\ loop'[l].gen # 0 => loop'[l].epoch = loop[l].epoch
LEMMA KeepingStep ==
  ASSUME ConnectorInv, TypeInv', \A l \in Loops : Keeps(l),
         runtime'.epoch = runtime.epoch, session'.gen = session.gen,
         edge'.accepted <= session.gen, SessionUnderRuntime',
         session'.left > Expired => session.left > Expired
  PROVE  ConnectorInv'
<1>0. \A l \in Loops : loop[l].epoch \in Nat /\ loop[l].gen \in Nat
  BY Constants, TypeParts DEF ConnectorInv, TypeInv, LoopRecord
<1>00. runtime.epoch \in Nat /\ session.gen \in Nat
  BY Constants, TypeParts DEF ConnectorInv, TypeInv, RuntimeRow, SessionRow
<1>1. EpochsAreUnique'
  BY <1>0, <1>00 DEF ConnectorInv, EpochsAreUnique, Keeps
<1>2. GenerationsAreUnique'
  BY <1>0, <1>00 DEF ConnectorInv, GenerationsAreUnique, Keeps
<1>3. AcceptedIsPast'
  BY DEF AcceptedIsPast
<1>4. GrantedUnderEpoch'
  BY <1>0, <1>00 DEF ConnectorInv, GrantedUnderEpoch, Keeps
<1>5. QED BY <1>1, <1>2, <1>3, <1>4 DEF ConnectorInv

\* What is left of an ownership bounds what is left of its session as the clock
\* advances or is set back.
LEMMA LeftTogether ==
  ASSUME NEW a \in Int, NEW b \in Int, a <= b, Expired <= a
  PROVE  /\ Older(a, 1) <= Older(b, 1) /\ (Older(a, 1) > Expired => a > Expired)
         /\ (a > Expired => Longer(a) <= Longer(b)) /\ (Longer(a) > Expired => a > Expired)
  BY Constants DEF Older, Max2, Longer

\* The invariant is inductive.
LEMMA ConnectorStep == ConnectorInv /\ [Next]_vars => ConnectorInv'
<1> SUFFICES ASSUME ConnectorInv, [Next]_vars PROVE ConnectorInv'
  OBVIOUS
<1>0. TypeInv /\ TypeInv'
  BY TypeStep DEF ConnectorInv
<1> USE Constants
<1>t. /\ runtime \in RuntimeRow /\ session \in SessionRow
      /\ loop \in [Loops -> LoopRecord] /\ edge \in EdgeRecord
  BY <1>0, TypeParts DEF TypeInv
<1>n. /\ runtime.left \in Int /\ session.left \in Int /\ runtime.epoch \in Nat /\ session.gen \in Nat
      /\ edge.accepted \in Nat /\ Expired <= runtime.left /\ Expired <= session.left
      /\ \A l \in Loops : loop[l].epoch \in Nat /\ loop[l].gen \in Nat
  BY <1>t DEF RuntimeRow, SessionRow, LoopRecord, EdgeRecord
<1>s. SessionUnderRuntime /\ edge.accepted <= session.gen
  BY DEF ConnectorInv, AcceptedIsPast
<1>i. Invalidated.left = Expired /\ Invalidated.gen = session.gen
  BY <1>t DEF Invalidated, SessionRow
\* The rows and the probe's fence stay; loops may forget.
<1>1. ASSUME \A l \in Loops : Keeps(l), UNCHANGED <<runtime, session>>, edge'.accepted = edge.accepted
      PROVE  ConnectorInv'
  BY <1>0, <1>1, <1>s, KeepingStep DEF SessionUnderRuntime
<1>off. Off.epoch = 0 /\ Off.gen = 0 /\ [Off EXCEPT !.pc = "idle"].epoch = 0
        /\ [Off EXCEPT !.pc = "idle"].gen = 0
  BY DEF Off
<1>pc. ASSUME NEW l \in Loops, NEW r \in LoopRecord, r.epoch = loop[l].epoch,
              r.gen = loop[l].gen \/ r.gen = 0, loop' = [loop EXCEPT ![l] = r]
       PROVE  \A k \in Loops : Keeps(k)
  BY <1>t, <1>pc DEF Keeps
<1>gone. ASSUME NEW l \in Loops, NEW r \in LoopRecord, r.epoch = 0, r.gen = 0,
                loop' = [loop EXCEPT ![l] = r]
         PROVE  \A k \in Loops : Keeps(k)
  BY <1>t, <1>gone DEF Keeps
<1>same. UNCHANGED loop => \A k \in Loops : Keeps(k)
  BY <1>t DEF Keeps
\* Loop l moves to another place in connectLoop, or is marked.
<1>mv. ASSUME NEW l \in Loops, NEW x \in Pcs, loop' = [loop EXCEPT ![l].pc = x]
       PROVE  \A k \in Loops : Keeps(k)
  <2>1. [loop[l] EXCEPT !.pc = x] \in LoopRecord
    BY <1>t, LoopMoves
  <2>2. \A r \in LoopRecord : [r EXCEPT !.pc = x].epoch = r.epoch /\ [r EXCEPT !.pc = x].gen = r.gen
    BY DEF LoopRecord
  <2>3. QED BY <1>t, <1>mv, <1>pc, <2>1, <2>2
<1>idle. ASSUME NEW l \in Loops,
                loop' = [loop EXCEPT ![l] = IF loop[l].canceled THEN Off
                                            ELSE [Off EXCEPT !.pc = "idle"]]
         PROVE  \A k \in Loops : Keeps(k)
  BY <1>idle, <1>gone, <1>off, LoopMoves
<1>2. ASSUME NEW l \in Loops, Start(l) PROVE ConnectorInv'
  BY <1>1, <1>2, <1>gone, <1>off, LoopMoves DEF Start
<1>3. ASSUME NEW l \in Loops, Cancel(l) PROVE ConnectorInv'
  <2>1. PICK r \in LoopRecord : r = [loop[l] EXCEPT !.canceled = TRUE]
    BY <1>t, LoopMoves
  <2>2. r.epoch = loop[l].epoch /\ r.gen = loop[l].gen
    BY <1>t, <2>1 DEF LoopRecord
  <2>3. loop' = [loop EXCEPT ![l] = r]
    BY <1>3, <2>1 DEF Cancel
  <2>4. QED BY <1>1, <1>3, <1>pc, <2>2, <2>3 DEF Cancel
<1>4. ASSUME NEW o \in Owners, Crash(o) PROVE ConnectorInv'
  <2>1. \A k \in Loops : Keeps(k)
    BY <1>4, <1>t, <1>off DEF Crash, Keeps
  <2>2. QED BY <1>1, <1>4, <2>1 DEF Crash
<1>8. ASSUME NEW l \in Loops, ReleaseRuntimeFails(l) PROVE ConnectorInv'
  BY <1>1, <1>8, <1>idle DEF ReleaseRuntimeFails
<1>10. ASSUME NEW l \in Loops, AcceptConnectionGeneration(l) PROVE ConnectorInv'
  <2>1. \A k \in Loops : Keeps(k)
    BY <1>10, <1>mv DEF AcceptConnectionGeneration, Pcs
  <2>2. edge'.accepted <= session.gen
    BY <1>10, <1>n, <1>s DEF AcceptConnectionGeneration, ConnectorInv, GenerationsAreUnique
  <2>3. SessionUnderRuntime'
    BY <1>10, <1>s DEF AcceptConnectionGeneration, SessionUnderRuntime
  <2>4. QED BY <1>0, <1>10, <2>1, <2>2, <2>3, KeepingStep DEF AcceptConnectionGeneration
<1>13. ASSUME NEW l \in Loops, EndSession(l) PROVE ConnectorInv'
  BY <1>1, <1>13, <1>mv DEF EndSession, Pcs
<1>e. ASSUME NEW l \in Loops, edge' = [edge EXCEPT !.serves = IF @ = loop[l].gen THEN 0 ELSE @]
      PROVE  edge'.accepted = edge.accepted
  BY <1>e, <1>t DEF EdgeRecord
<1>15. ASSUME NEW l \in Loops, BreakSession(l) PROVE ConnectorInv'
  BY <1>1, <1>15, <1>e, <1>mv DEF BreakSession, Pcs
<1>16. ASSUME NEW l \in Loops,
              loop' = [loop EXCEPT ![l].pc = IF loop[l].canceled \/ loop[l].lost
                                             THEN "ending" ELSE "owned",
                                   ![l].gen = 0]
       PROVE  \A k \in Loops : Keeps(k)
  <2>1. PICK x \in Pcs : x = IF loop[l].canceled \/ loop[l].lost THEN "ending" ELSE "owned"
    BY DEF Pcs
  <2>2. PICK q \in LoopRecord : q = [loop[l] EXCEPT !.pc = x]
    BY <1>t, LoopMoves
  <2>0. 0 \in 0..MaxGen
    OBVIOUS
  <2>3. PICK r \in LoopRecord : r = [q EXCEPT !.gen = 0]
    BY <2>0, LoopMoves
  <2>4. r.epoch = loop[l].epoch /\ r.gen = 0
    BY <1>t, <2>2, <2>3 DEF LoopRecord
  <2>5. loop' = [loop EXCEPT ![l] = r]
    BY <1>16, <2>1, <2>2, <2>3
  <2>6. QED BY <1>pc, <2>4, <2>5
<1>18. ASSUME NEW l \in Loops, ReleaseConnectorFails(l) PROVE ConnectorInv'
  BY <1>1, <1>16, <1>18, <1>e DEF ReleaseConnectorFails
<1>19. ASSUME Disable \/ Enable PROVE ConnectorInv'
  BY <1>1, <1>19, <1>same DEF Disable, Enable
<1>22. CASE UNCHANGED vars
  BY <1>1, <1>22, <1>same DEF vars
\* The rows change, under epochs and generations already given out.
<1>6. ASSUME NEW l \in Loops, RenewRuntime(l) PROVE ConnectorInv'
  <2>1. CASE CanRenewRuntime(l)
    <3>1. runtime'.epoch = runtime.epoch /\ runtime'.owner = runtime.owner
          /\ runtime'.left >= runtime.left /\ runtime'.left \in Int
      BY <1>6, <1>n, <1>t, <2>1 DEF RenewRuntime, RuntimeRow, Max2
    <3>2. SessionUnderRuntime'
      BY <1>6, <1>n, <1>s, <3>1 DEF RenewRuntime, SessionUnderRuntime
    <3>3. QED BY <1>0, <1>6, <1>s, <1>same, <2>1, <3>1, <3>2, KeepingStep DEF RenewRuntime
  <2>2. CASE ~CanRenewRuntime(l)
    <3>1. PICK x \in Pcs : x = IF loop[l].pc = "owned" THEN "ending" ELSE "closing"
      BY DEF Pcs
    <3>2. PICK q \in LoopRecord : q = [loop[l] EXCEPT !.pc = x]
      BY <1>t, LoopMoves
    <3>3. PICK r \in LoopRecord : r = [q EXCEPT !.lost = TRUE]
      BY LoopMoves
    <3>4. r.epoch = loop[l].epoch /\ r.gen = loop[l].gen
      <4>1. q.epoch = loop[l].epoch /\ q.gen = loop[l].gen
        BY <1>t, <3>2 DEF LoopRecord
      <4>2. r.epoch = q.epoch /\ r.gen = q.gen
        BY <3>3 DEF LoopRecord
      <4>3. QED BY <4>1, <4>2
    <3>5. loop' = [loop EXCEPT ![l] = r]
      BY <1>6, <2>2, <3>1, <3>2, <3>3 DEF RenewRuntime
    <3>6. QED BY <1>1, <1>6, <1>pc, <2>2, <3>4, <3>5 DEF RenewRuntime
  <2>3. QED BY <2>1, <2>2
<1>7. ASSUME NEW l \in Loops, ReleaseRuntime(l) PROVE ConnectorInv'
  <2>0. \A k \in Loops : Keeps(k)
    BY <1>7, <1>idle DEF ReleaseRuntime
  <2>1. CASE matchesProbeRuntime(l)
    <3>1. runtime'.epoch = runtime.epoch
      BY <1>7, <1>t, <2>1 DEF ReleaseRuntime, RuntimeRow
    <3>2. session'.gen = session.gen /\ session'.left = Expired
      BY <1>7, <1>i, <2>1 DEF ReleaseRuntime
    <3>3. SessionUnderRuntime'
      BY <3>2 DEF SessionUnderRuntime
    <3>4. edge' = edge
      BY <1>7 DEF ReleaseRuntime
    <3>5. QED BY <1>0, <1>s, <2>0, <3>1, <3>2, <3>3, <3>4, KeepingStep
  <2>2. CASE ~matchesProbeRuntime(l)
    BY <1>1, <1>7, <2>0, <2>2 DEF ReleaseRuntime
  <2>3. QED BY <2>1, <2>2
<1>11. ASSUME NEW l \in Loops, SetConnectorConnected(l) PROVE ConnectorInv'
  <2>1. \A k \in Loops : Keeps(k)
    BY <1>11, <1>mv, <1>same DEF SetConnectorConnected, Pcs
  <2>2. session'.owner = session.owner /\ session'.gen = session.gen /\ session'.left = session.left
    BY <1>11, <1>t DEF SetConnectorConnected, SessionRow
  <2>3. runtime' = runtime /\ edge' = edge
    BY <1>11 DEF SetConnectorConnected
  <2>4. SessionUnderRuntime'
    BY <1>s, <2>2, <2>3 DEF SessionUnderRuntime
  <2>5. QED BY <1>0, <1>s, <2>1, <2>2, <2>3, <2>4, KeepingStep
<1>12. ASSUME NEW l \in Loops, RenewConnector(l) PROVE ConnectorInv'
  <2>1. \A k \in Loops : Keeps(k)
    BY <1>12, <1>mv, <1>same DEF RenewConnector, Pcs
  <2>2. CASE CanRenewConnector(l)
    <3>1. session'.owner = session.owner /\ session'.gen = session.gen
          /\ session'.left = Min2(Lease, runtime.left) /\ session.left > Expired
      BY <1>12, <1>t, <1>n, <2>2 DEF RenewConnector, CanRenewConnector, SessionRow
    <3>2. SessionUnderRuntime'
      BY <1>12, <1>n, <2>2, <3>1 DEF RenewConnector, CanRenewConnector, SessionUnderRuntime, Min2
    <3>3. runtime' = runtime /\ edge' = edge
      BY <1>12 DEF RenewConnector
    <3>4. QED BY <1>0, <1>s, <2>1, <3>1, <3>2, <3>3, KeepingStep
  <2>3. CASE ~CanRenewConnector(l)
    BY <1>1, <1>12, <2>1, <2>3 DEF RenewConnector
  <2>4. QED BY <2>2, <2>3
<1>17. ASSUME NEW l \in Loops, ReleaseConnector(l) PROVE ConnectorInv'
  <2>1. \A k \in Loops : Keeps(k)
    BY <1>16, <1>17 DEF ReleaseConnector
  <2>2. edge'.accepted = edge.accepted /\ runtime' = runtime
    BY <1>17, <1>e DEF ReleaseConnector
  <2>3. CASE matchesProbeSession(l)
    <3>1. session'.gen = session.gen /\ session'.left = Expired
      BY <1>17, <1>i, <2>3 DEF ReleaseConnector
    <3>2. SessionUnderRuntime'
      BY <3>1 DEF SessionUnderRuntime
    <3>3. QED BY <1>0, <1>s, <2>1, <2>2, <3>1, <3>2, KeepingStep
  <2>4. CASE ~matchesProbeSession(l)
    BY <1>1, <1>17, <2>1, <2>2, <2>4 DEF ReleaseConnector
  <2>5. QED BY <2>3, <2>4
<1>rows. \A n \in Int : /\ [runtime EXCEPT !.left = n].epoch = runtime.epoch
                        /\ [runtime EXCEPT !.left = n].owner = runtime.owner
                        /\ [runtime EXCEPT !.left = n].left = n
                        /\ [session EXCEPT !.left = n].gen = session.gen
                        /\ [session EXCEPT !.left = n].owner = session.owner
                        /\ [session EXCEPT !.left = n].left = n
  BY <1>t DEF RuntimeRow, SessionRow
<1>20. ASSUME Tick PROVE ConnectorInv'
  <2>1. Older(runtime.left, 1) \in Int /\ Older(session.left, 1) \in Int
    BY <1>n DEF Older, Max2
  <2>2. /\ runtime'.epoch = runtime.epoch /\ runtime'.owner = runtime.owner
        /\ session'.gen = session.gen /\ session'.owner = session.owner
        /\ runtime'.left = Older(runtime.left, 1) /\ session'.left = Older(session.left, 1)
    BY <1>20, <1>rows, <2>1 DEF Tick
  <2>3. session'.left > Expired => session.left > Expired
    BY <1>n, <2>2, LeftTogether
  <2>4. SessionUnderRuntime'
    BY <1>n, <1>s, <2>2, <2>3, LeftTogether DEF SessionUnderRuntime
  <2>5. loop' = loop /\ edge' = edge
    BY <1>20 DEF Tick
  <2>6. QED BY <1>0, <1>s, <1>same, <2>2, <2>3, <2>4, <2>5, KeepingStep
<1>21. ASSUME SetClockBack PROVE ConnectorInv'
  <2>1. Longer(runtime.left) \in Int /\ Longer(session.left) \in Int
    BY <1>n DEF Longer
  <2>2. /\ runtime'.epoch = runtime.epoch /\ runtime'.owner = runtime.owner
        /\ session'.gen = session.gen /\ session'.owner = session.owner
        /\ runtime'.left = Longer(runtime.left) /\ session'.left = Longer(session.left)
    BY <1>21, <1>rows, <2>1 DEF SetClockBack
  <2>3. session'.left > Expired => session.left > Expired
    BY <1>n, <2>2, LeftTogether
  <2>4. SessionUnderRuntime'
    BY <1>n, <1>s, <2>2, <2>3, LeftTogether DEF SessionUnderRuntime
  <2>5. loop' = loop /\ edge' = edge
    BY <1>21 DEF SetClockBack
  <2>6. QED BY <1>0, <1>s, <1>same, <2>2, <2>3, <2>4, <2>5, KeepingStep
\* The next epoch, above every loop's, with no session left.
<1>5. ASSUME NEW l \in Loops, AcquireRuntime(l) PROVE ConnectorInv'
  <2>1. PICK q \in LoopRecord : q = [loop[l] EXCEPT !.pc = "owned"]
    BY <1>t, LoopMoves DEF Pcs
  <2>2. runtime.epoch + 1 \in 0..MaxGen /\ runtime'.epoch = runtime.epoch + 1
    BY <1>5, <1>n DEF AcquireRuntime
  <2>3. PICK r \in LoopRecord : r = [q EXCEPT !.epoch = runtime.epoch + 1]
    BY <2>2, LoopMoves
  <2>4. r.epoch = runtime.epoch + 1 /\ r.gen = loop[l].gen
    BY <1>t, <2>1, <2>3 DEF LoopRecord
  <2>5. loop' = [loop EXCEPT ![l] = r]
    BY <1>5, <2>1, <2>3 DEF AcquireRuntime
  <2>6. session'.gen = session.gen /\ session'.left = Expired /\ edge' = edge
    BY <1>5, <1>i DEF AcquireRuntime
  <2>7. EpochsAreUnique'
    BY <1>n, <1>t, <2>2, <2>4, <2>5 DEF ConnectorInv, EpochsAreUnique
  <2>8. GenerationsAreUnique'
    BY <1>n, <1>t, <2>4, <2>5, <2>6 DEF ConnectorInv, GenerationsAreUnique
  <2>9. AcceptedIsPast' /\ SessionUnderRuntime' /\ GrantedUnderEpoch'
    BY <1>s, <2>6 DEF AcceptedIsPast, SessionUnderRuntime, GrantedUnderEpoch
  <2>10. QED BY <1>0, <2>7, <2>8, <2>9 DEF ConnectorInv
\* The next generation, above every loop's, under the loop's own epoch.
<1>9. ASSUME NEW l \in Loops, AcquireRuntimeConnector(l) PROVE ConnectorInv'
  <2>1. PICK q \in LoopRecord : q = [loop[l] EXCEPT !.pc = "dial"]
    BY <1>t, LoopMoves DEF Pcs
  <2>2. /\ session.gen + 1 \in 0..MaxGen /\ session'.gen = session.gen + 1
        /\ session'.owner = Owner[l] /\ session'.left = Min2(Lease, runtime.left)
    BY <1>9, <1>n DEF AcquireRuntimeConnector
  <2>3. PICK r \in LoopRecord : r = [q EXCEPT !.gen = session.gen + 1]
    BY <2>2, LoopMoves
  <2>4. r.gen = session.gen + 1 /\ r.epoch = loop[l].epoch
    BY <1>t, <2>1, <2>3 DEF LoopRecord
  <2>5. loop' = [loop EXCEPT ![l] = r]
    BY <1>9, <2>1, <2>3 DEF AcquireRuntimeConnector
  <2>6. /\ runtime' = runtime /\ edge' = edge
        /\ loop[l].epoch = runtime.epoch /\ runtime.owner = Owner[l]
    BY <1>9 DEF AcquireRuntimeConnector, matchesProbeRuntime
  <2>7. EpochsAreUnique'
    BY <1>n, <1>t, <2>4, <2>5, <2>6 DEF ConnectorInv, EpochsAreUnique
  <2>8. GenerationsAreUnique'
    BY <1>n, <1>t, <2>2, <2>4, <2>5 DEF ConnectorInv, GenerationsAreUnique
  <2>9. AcceptedIsPast' /\ SessionUnderRuntime'
    BY <1>n, <1>s, <2>2, <2>6 DEF AcceptedIsPast, SessionUnderRuntime, Min2
  <2>10. GrantedUnderEpoch'
    BY <1>n, <1>t, <2>2, <2>4, <2>5, <2>6 DEF ConnectorInv, GenerationsAreUnique, GrantedUnderEpoch
  <2>11. QED BY <1>0, <2>7, <2>8, <2>9, <2>10 DEF ConnectorInv
<1>23. QED
  BY <1>2, <1>3, <1>4, <1>5, <1>6, <1>7, <1>8, <1>9, <1>10, <1>11, <1>12, <1>13, <1>15,
     <1>17, <1>18, <1>19, <1>20, <1>21, <1>22 DEF Next, Step

\* The connector's inductive invariant.
THEOREM ConnectorInvariant == Spec => []ConnectorInv
<1>1. QED BY ConnectorInit, ConnectorStep, PTL DEF Spec

\* Every row, loop and fence stays in its type (the columns of
\* probe_runtime_owners and probe_connector_sessions, connectLoop's states).
THEOREM TypeCorrect == Spec => []TypeOK
<1>1. ConnectorInv => TypeOK
  BY DEF ConnectorInv, TypeInv
<1>2. QED BY <1>1, ConnectorInvariant, PTL

\* For every number of processes and loops: whoever may write to the hub under a
\* session holds the newest generation the probe accepted, and no session
\* outlives the ownership it was granted under (lockProbeSession,
\* connectorLeaseDeadline, AcceptConnectionGeneration).
THEOREM SessionsFenced == Spec => []SessionsAreFenced
<1>1. ConnectorInv => SessionsAreFenced
  <2> SUFFICES ASSUME ConnectorInv PROVE SessionsAreFenced
    OBVIOUS
  <2>1. /\ loop \in [Loops -> LoopRecord] /\ session.left \in Int /\ session.gen \in Nat
        /\ edge.accepted <= session.gen
    BY Constants, TypeParts DEF ConnectorInv, TypeInv, SessionRow, AcceptedIsPast
  <2>2. SessionWithinRuntime
    BY <2>1, Constants DEF ConnectorInv, SessionUnderRuntime, SessionWithinRuntime
  <2>3. NewestSessionWrites
    BY <2>1 DEF NewestSessionWrites, lockProbeSession, matchesProbeSession
  <2>4. QED BY <2>2, <2>3 DEF SessionsAreFenced
<1>2. QED BY <1>1, ConnectorInvariant, PTL

\* Ownership survives a step that leaves the loop alone, unless the row is taken.
LEMMA RowKept ==
  ASSUME NEW l \in Loops, loop'[l] = loop[l]
  PROVE  /\ HoldsRuntime(l) /\ runtime'.epoch = runtime.epoch /\ runtime'.owner = runtime.owner
              => matchesProbeRuntime(l)'
         /\ HoldsSession(l) /\ session'.gen = session.gen /\ session'.owner = session.owner
              => matchesProbeSession(l)'
  BY DEF HoldsRuntime, HoldsSession, matchesProbeRuntime, matchesProbeSession

\* A session that is live is its loop's epoch's.
LEMMA SessionNeedsOwnership ==
  ASSUME ConnectorInv, NEW l \in Loops, HoldsSession(l)
  PROVE  /\ loop[l].gen = session.gen /\ loop[l].gen > 0 /\ session.left > 0
         /\ loop[l].epoch = runtime.epoch
         /\ runtime.epoch > 0 => session.left <= runtime.left /\ runtime.owner = Owner[l]
<1>1. session.left \in Int /\ loop[l].gen \in Nat
  BY Constants, TypeParts DEF ConnectorInv, TypeInv, SessionRow, LoopRecord
<1>2. QED
  BY <1>1, Constants DEF HoldsSession, matchesProbeSession, ConnectorInv, GrantedUnderEpoch,
     SessionUnderRuntime

\* No step takes away what another loop holds.
LEMMA NothingTakenStep == ConnectorInv /\ [Next]_vars => [NotTaken]_vars
<1> SUFFICES ASSUME ConnectorInv, [Next]_vars, NEW l \in Loops, loop'[l] = loop[l]
             PROVE  /\ HoldsRuntime(l) => matchesProbeRuntime(l)'
                    /\ HoldsSession(l) => matchesProbeSession(l)'
  <2>1. ConnectorInv => DOMAIN loop = Loops
    BY TypeParts DEF ConnectorInv, TypeInv
  <2>2. QED BY <2>1 DEF NotTaken
<1> USE Constants
<1>t. /\ runtime \in RuntimeRow /\ session \in SessionRow
      /\ loop \in [Loops -> LoopRecord] /\ edge \in EdgeRecord
  BY TypeParts DEF ConnectorInv, TypeInv
<1>n. /\ runtime.left \in Int /\ session.left \in Int /\ runtime.epoch \in Nat /\ session.gen \in Nat
      /\ loop[l].epoch \in Nat /\ loop[l].gen \in Nat
  BY <1>t DEF RuntimeRow, SessionRow, LoopRecord
<1>1. ASSUME UNCHANGED <<runtime, session>>
      PROVE  /\ HoldsRuntime(l) => matchesProbeRuntime(l)'
             /\ HoldsSession(l) => matchesProbeSession(l)'
  BY <1>1, RowKept
<1>2. ASSUME NEW k \in Loops,
             Start(k) \/ Cancel(k) \/ ReleaseRuntimeFails(k) \/ AcceptConnectionGeneration(k)
             \/ EndSession(k) \/ BreakSession(k) \/ ReleaseConnectorFails(k)
      PROVE  UNCHANGED <<runtime, session>>
  BY <1>2 DEF Start, Cancel, ReleaseRuntimeFails, AcceptConnectionGeneration, EndSession,
     BreakSession, ReleaseConnectorFails
<1>3. ASSUME (\E o \in Owners : Crash(o)) \/ Disable \/ Enable \/ UNCHANGED vars
      PROVE  UNCHANGED <<runtime, session>>
  BY <1>3 DEF Crash, Disable, Enable, vars
<1>rows. \A n \in Int : /\ [runtime EXCEPT !.left = n].epoch = runtime.epoch
                        /\ [runtime EXCEPT !.left = n].owner = runtime.owner
                        /\ [session EXCEPT !.left = n].gen = session.gen
                        /\ [session EXCEPT !.left = n].owner = session.owner
  BY <1>t DEF RuntimeRow, SessionRow
<1>4. ASSUME Tick \/ SetClockBack
      PROVE  /\ runtime'.epoch = runtime.epoch /\ runtime'.owner = runtime.owner
             /\ session'.gen = session.gen /\ session'.owner = session.owner
  <2>1. /\ Older(runtime.left, 1) \in Int /\ Older(session.left, 1) \in Int
        /\ Longer(runtime.left) \in Int /\ Longer(session.left) \in Int
    BY <1>n DEF Older, Max2, Longer
  <2>2. QED BY <1>4, <1>rows, <2>1 DEF Tick, SetClockBack
<1>5. ASSUME NEW k \in Loops, RenewRuntime(k) \/ RenewConnector(k) \/ SetConnectorConnected(k)
      PROVE  /\ runtime'.epoch = runtime.epoch /\ runtime'.owner = runtime.owner
             /\ session'.gen = session.gen /\ session'.owner = session.owner
  <2>1. Max2(runtime.left, Lease) \in Int /\ Min2(Lease, runtime.left) \in Int
    BY <1>n DEF Max2, Min2
  <2>2. CASE RenewRuntime(k)
    BY <1>rows, <2>1, <2>2 DEF RenewRuntime
  <2>3. CASE RenewConnector(k)
    BY <1>rows, <2>1, <2>3 DEF RenewConnector
  <2>4. CASE SetConnectorConnected(k)
    BY <1>t, <2>4 DEF SetConnectorConnected, SessionRow
  <2>5. QED BY <1>5, <2>2, <2>3, <2>4
\* A live epoch, and a live session, refuse the next owner.
<1>6. ASSUME NEW k \in Loops, AcquireRuntime(k)
      PROVE  ~HoldsRuntime(l) /\ ~HoldsSession(l)
  <2>1. runtime.left <= 0 /\ (runtime.epoch = 0 => session.left <= 0)
    BY <1>6 DEF AcquireRuntime
  <2>2. ~HoldsRuntime(l)
    BY <1>n, <2>1 DEF HoldsRuntime
  <2>3. ~HoldsSession(l)
    BY <1>n, <2>1, SessionNeedsOwnership
  <2>4. QED BY <2>2, <2>3
\* A release and a new session name their own epoch, which no other loop has.
<1>7. ASSUME NEW k \in Loops, matchesProbeRuntime(k), k # l
      PROVE  ~matchesProbeRuntime(l) /\ ~HoldsSession(l)
  <2>1. loop[k].epoch > 0 /\ loop[k].epoch = runtime.epoch
    BY <1>7 DEF matchesProbeRuntime
  <2>2. loop[l].epoch # runtime.epoch
    BY <1>7, <2>1 DEF ConnectorInv, EpochsAreUnique
  <2>3. QED BY <2>2, SessionNeedsOwnership DEF matchesProbeRuntime
<1>8. ASSUME NEW k \in Loops, ReleaseRuntime(k)
      PROVE  /\ HoldsRuntime(l) => matchesProbeRuntime(l)'
             /\ HoldsSession(l) => matchesProbeSession(l)'
  <2>1. PICK x \in LoopRecord : loop' = [loop EXCEPT ![k] = x] /\ x.pc \in {"off", "idle"} /\ x.epoch = 0
    BY <1>8, LoopMoves DEF ReleaseRuntime, Off
  <2>2. CASE matchesProbeRuntime(k)
    <3>1. k # l
      BY <1>t, <2>1, <2>2 DEF matchesProbeRuntime
    <3>2. QED BY <1>7, <2>2, <3>1 DEF HoldsRuntime
  <2>3. CASE ~matchesProbeRuntime(k)
    BY <1>1, <1>8, <2>3 DEF ReleaseRuntime
  <2>4. QED BY <2>2, <2>3
<1>9. ASSUME NEW k \in Loops, AcquireRuntimeConnector(k)
      PROVE  /\ HoldsRuntime(l) => matchesProbeRuntime(l)'
             /\ HoldsSession(l) => matchesProbeSession(l)'
  <2>1. matchesProbeRuntime(k) /\ runtime' = runtime /\ loop[k].pc = "owned"
    BY <1>9 DEF AcquireRuntimeConnector
  <2>2. ~HoldsSession(l)
    <3>1. CASE k = l
      BY <2>1, <3>1 DEF HoldsSession
    <3>2. CASE k # l
      BY <1>7, <2>1, <3>2
    <3>3. QED BY <3>1, <3>2
  <2>3. QED BY <2>1, <2>2, RowKept
\* A session's release names its own generation, which no other loop has.
<1>10. ASSUME NEW k \in Loops, ReleaseConnector(k)
       PROVE  /\ HoldsRuntime(l) => matchesProbeRuntime(l)'
              /\ HoldsSession(l) => matchesProbeSession(l)'
  <2>1. runtime' = runtime /\ loop[k].pc = "closing"
    BY <1>10 DEF ReleaseConnector
  <2>2. CASE matchesProbeSession(k) /\ HoldsSession(l)
    <3>1. k # l
      BY <2>1, <2>2 DEF HoldsSession
    <3>2. loop[k].gen = loop[l].gen /\ loop[l].gen > 0
      BY <2>2 DEF HoldsSession, matchesProbeSession
    <3>3. FALSE
      BY <3>1, <3>2 DEF ConnectorInv, GenerationsAreUnique
    <3>4. QED BY <3>3
  <2>3. CASE ~HoldsSession(l)
    BY <2>1, <2>3, RowKept
  <2>4. CASE ~matchesProbeSession(k)
    BY <1>1, <1>10, <2>1, <2>4 DEF ReleaseConnector
  <2>5. QED BY <2>2, <2>3, <2>4
<1>11. QED
  BY <1>1, <1>2, <1>3, <1>4, <1>5, <1>6, <1>8, <1>9, <1>10, RowKept DEF Next, Step

\* For every number of processes and loops, on a clock that may be set back:
\* an ownership or a session that has not expired is lost only by a step of the
\* loop that holds it (AcquireRuntime, ReleaseRuntime, ReleaseConnector).
THEOREM NothingTaken == Spec => AuthorityIsNotTaken
<1>1. QED BY ConnectorInvariant, NothingTakenStep, PTL DEF Spec, AuthorityIsNotTaken

-----------------------------------------------------------------------------
(* CredentialRotation: whatever is lost between hub and probe, and however *)
(* the probe's clock is set, the two never disagree on the credential in   *)
(* force in a way that would lock the hub out.  One command is outstanding *)
(* at a time, so the hub's row tells which receipts the probe may hold;    *)
(* the probe keeps one receipt per command for good, so a repeated command *)
(* cannot change the answer the hub recorded.  The version in force at the *)
(* probe is the hub's candidate exactly when the probe holds the receipt   *)
(* of its activation.                                                      *)

\* What each state of the hub's rotation says of its two commands and of the
\* version it saved (CreateCredentialRotation, completeCredentialRotation).
HubShape ==
  /\ hub.current <= hub.highWater
  /\ hub.state = "none" <=> hub.v = 0
  /\ hub.state # "none" => hub.v = hub.highWater /\ hub.prev < hub.v
  /\ hub.state # "active" => hub.current = hub.prev \/ hub.state = "none"
  /\ hub.state = "active" => hub.current = hub.v
  /\ hub.prepare = "pending" <=> hub.state = "preparing"
  /\ hub.activate = "pending" <=> hub.state = "activating"
  /\ hub.state = "preparing" => hub.activate = "blocked"

\* At most one command or result is on the wire, and it belongs to the command
\* the hub waits for; a result repeats a receipt of the probe.
OneOutstanding ==
  /\ \A m, n \in wire : m = n
  /\ \A m \in wire :
       /\ m.v = hub.v
       /\ m.kind = "prepare" => hub.state = "preparing"
       /\ m.kind = "activate" => hub.state = "activating"
       /\ m.to = "edge" => m.created = hub.created
       /\ m.to = "hub" => [kind |-> m.kind, v |-> m.v, status |-> m.status, at |-> m.at]
                              \in probe.receipts

Activated(r) == r.kind = "activate" /\ r.v = hub.v /\ r.status = "applied"

\* One receipt per command; those of the latest rotation are dated inside it and
\* none precedes its command.
ReceiptsFit ==
  /\ \A r, s \in probe.receipts : r.kind = s.kind /\ r.v = s.v => r = s
  /\ \A r \in probe.receipts :
       /\ r.v <= hub.highWater
       /\ r.v = hub.v /\ r.status = "applied" =>
            r.at >= hub.created - Ahead /\ r.at < hub.created + Overlap
       /\ r.v = hub.v /\ r.kind = "activate" => hub.state # "preparing"

\* The version in force at the probe is the hub's, or the candidate whose
\* activation the probe has answered and the hub has not recorded.
InForce ==
  /\ probe.highest <= hub.highWater
  /\ hub.state \notin {"activating", "active"} => probe.current = hub.current
  /\ hub.state = "activating" => probe.current \in {hub.current, hub.v}
  /\ hub.state = "active" => probe.current = hub.v
  /\ hub.state # "none" => (probe.current = hub.v <=> \E r \in probe.receipts : Activated(r))

\* The probe's rotation row and its credential agree (runtimeCredentials).
RowFits ==
  /\ probe.current <= probe.highest
  /\ probe.row.v = 0 => probe.row.closed
  /\ probe.row.v > 0 =>
       /\ probe.row.prev < probe.row.v /\ probe.row.v <= probe.highest
       /\ probe.row.activatedAt = Never => probe.current = probe.row.prev
       /\ probe.row.activatedAt # Never => probe.current = probe.row.v

\* What was seen to expire is neither in force nor in an open overlap.
RetiredStays ==
  /\ \A x \in retired : x <= probe.highest
  /\ probe.current \notin retired
  /\ ~probe.row.closed => probe.row.v \notin retired /\ probe.row.prev \notin retired

RotationInv ==
  /\ RotationTypeOK /\ HubShape /\ OneOutstanding /\ ReceiptsFit /\ InForce
  /\ RowFits /\ RetiredStays /\ SupersededSessionsEnd

-----------------------------------------------------------------------------
(* Facts about the parameters and the state.                               *)

LEMMA NeverPrecedes ==
  ASSUME Parameters
  PROVE  /\ Never \in Int /\ Never < 0
         /\ MaxVersion \in Nat /\ Overlap \in Nat /\ Ahead \in Nat /\ Skew \in Nat
         /\ MaxTime \in Nat /\ MaxSteps \in Nat /\ MaxDrops \in Nat
         /\ 1 \in Versions /\ Versions \subseteq Nat /\ Versions \subseteq 0..MaxVersion
  BY DEF Parameters, Never, Versions

LEMMA InitInvariant == ASSUME Parameters, RotationInit PROVE RotationInv
<1> USE NeverPrecedes
<1>1. RotationTypeOK
  BY DEF RotationInit, RotationTypeOK, NoRow, Row, Down, States, Versions, Never, Parameters, Message, Receipt
<1>2. HubShape /\ OneOutstanding /\ ReceiptsFit /\ InForce
  BY DEF RotationInit, HubShape, OneOutstanding, ReceiptsFit, InForce
<1>3. RowFits /\ RetiredStays /\ SupersededSessionsEnd
  BY DEF RotationInit, RowFits, RetiredStays, SupersededSessionsEnd, NoRow, Down
<1> QED BY <1>1, <1>2, <1>3 DEF RotationInv

-----------------------------------------------------------------------------
(* The hub's issue of a rotation.                                          *)

LEMMA CreateStep ==
  ASSUME Parameters, RotationInv, NEW v \in Versions, CreateCredentialRotation(v)
  PROVE  RotationInv'
<1> USE NeverPrecedes
<1>0. hub \in [current : Versions, highWater : Versions, state : States,
              v : 0..MaxVersion, prev : 0..MaxVersion, created : 0..MaxTime,
              prepare : {"none", "pending", "confirmed"},
              activate : {"none", "blocked", "pending", "canceled", "confirmed"}]
      /\ hubNow \in 0..MaxTime
  BY DEF RotationInv, RotationTypeOK
<1>1. RotationTypeOK'
  <2>1. /\ v \in 0..MaxVersion /\ hub.current \in 0..MaxVersion /\ "preparing" \in States
    BY <1>0 DEF States
  <2>2. hub' \in [current : Versions, highWater : Versions, state : States,
              v : 0..MaxVersion, prev : 0..MaxVersion, created : 0..MaxTime,
              prepare : {"none", "pending", "confirmed"},
              activate : {"none", "blocked", "pending", "canceled", "confirmed"}]
    BY <1>0, <2>1 DEF CreateCredentialRotation
  <2> QED BY <2>2 DEF RotationInv, RotationTypeOK, CreateCredentialRotation
<1>2. /\ hub'.current = hub.current /\ hub'.highWater = v /\ hub'.state = "preparing"
      /\ hub'.v = v /\ hub'.prev = hub.current /\ hub'.prepare = "pending"
      /\ hub'.activate = "blocked" /\ v > hub.highWater /\ hub.current <= hub.highWater
      /\ v \in Nat /\ hub.highWater \in Nat /\ hub.current \in Nat
      /\ hub.state \notin {"preparing", "activating"}
      /\ UNCHANGED <<probe, sess, wire, retired>>
  BY <1>0 DEF RotationInv, HubShape, CreateCredentialRotation
<1>3. HubShape'
  BY <1>2 DEF HubShape
<1>4. wire = {}
  BY <1>2 DEF RotationInv, RotationTypeOK, OneOutstanding, Message, Kinds
<1>5. OneOutstanding'
  BY <1>2, <1>4 DEF OneOutstanding
<1>6. /\ \A r \in probe.receipts : r.v # v
      /\ probe.current # v /\ probe.current = hub.current
      /\ probe.highest <= v
  <2>1. probe.receipts \subseteq Receipt /\ probe.current \in Nat /\ probe.highest \in Nat
    BY DEF RotationInv, RotationTypeOK
  <2>2. \A r \in probe.receipts : r.v <= hub.highWater /\ r.v \in Nat
    BY <2>1 DEF RotationInv, ReceiptsFit, Receipt, Versions
  <2>3. probe.current = hub.current
    BY <1>2 DEF RotationInv, InForce, HubShape
  <2> QED BY <1>2, <2>1, <2>2, <2>3 DEF RotationInv, InForce
<1>7. ReceiptsFit'
  <2>1. probe.receipts \subseteq Receipt
    BY DEF RotationInv, RotationTypeOK
  <2> QED BY <1>2, <1>6, <2>1 DEF RotationInv, ReceiptsFit, Receipt, Versions
<1>8. InForce'
  BY <1>2, <1>6 DEF InForce, Activated
<1>9. RowFits' /\ RetiredStays' /\ SupersededSessionsEnd'
  BY <1>2 DEF RotationInv, RowFits, RetiredStays, SupersededSessionsEnd
<1> QED BY <1>1, <1>3, <1>5, <1>7, <1>8, <1>9 DEF RotationInv

-----------------------------------------------------------------------------
(* The probe's credentials.                                                *)

\* What expireCredentialOverlaps changes: nothing but the mark.
LEMMA Overdue ==
  ASSUME Parameters, RotationTypeOK, NEW row, row = expireCredentialOverlaps(probe.row)
  PROVE  /\ row \in Row
         /\ row.v = probe.row.v /\ row.prev = probe.row.prev /\ row.exp = probe.row.exp
         /\ row.preparedAt = probe.row.preparedAt /\ row.activatedAt = probe.row.activatedAt
         /\ row.closed = (probe.row.closed \/ row.exp <= edgeNow)
<1>1. probe.row \in Row /\ edgeNow \in Int
  BY DEF RotationTypeOK
<1> QED BY <1>1 DEF expireCredentialOverlaps, Row

\* The credentials the probe accepts: the one in force, and the other one of an
\* open overlap, which carries its deadline.
LEMMA Accepted ==
  ASSUME Parameters, RotationTypeOK, RowFits, NEW row, row = expireCredentialOverlaps(probe.row),
         NEW c \in runtimeCredentials(row)
  PROVE  \/ c.ver = probe.current
         \/ /\ ~row.closed /\ c.ver \in {row.v, row.prev}
            /\ c.until = row.exp /\ c.until # Never
<1>1. /\ row.exp \in Nat /\ row.exp # Never
  BY Overdue, NeverPrecedes DEF Row
<1> QED BY <1>1 DEF runtimeCredentials, Other

\* Observing the row keeps what is known of the probe.
LEMMA ObserveStep ==
  ASSUME Parameters, RotationInv, NEW row, row = expireCredentialOverlaps(probe.row),
         Observe(row)
  PROVE  /\ probe' \in [current : Versions, highest : Versions, row : Row,
                       receipts : SUBSET Receipt]
         /\ retired' \subseteq 0..MaxVersion
         /\ probe'.current = probe.current /\ probe'.highest = probe.highest
         /\ probe'.receipts = probe.receipts
         /\ RowFits' /\ RetiredStays'
<1>0. RotationTypeOK /\ RowFits /\ RetiredStays
  BY DEF RotationInv
<1>1. /\ row \in Row
      /\ row.v = probe.row.v /\ row.prev = probe.row.prev
      /\ row.activatedAt = probe.row.activatedAt
      /\ probe.row.closed => row.closed
  BY <1>0, Overdue
<1>2. probe \in [current : Versions, highest : Versions, row : Row, receipts : SUBSET Receipt]
      /\ retired \subseteq 0..MaxVersion
  BY <1>0 DEF RotationTypeOK
<1>3. /\ probe' \in [current : Versions, highest : Versions, row : Row, receipts : SUBSET Receipt]
      /\ probe'.current = probe.current /\ probe'.highest = probe.highest
      /\ probe'.receipts = probe.receipts /\ probe'.row = row
  BY <1>1, <1>2 DEF Observe
<1>4. /\ row.v \in 0..MaxVersion /\ row.prev \in 0..MaxVersion
      /\ probe.current \in Nat /\ probe.highest \in Nat
  BY <1>1, <1>2 DEF Row, Versions
<1>5. retired' \subseteq 0..MaxVersion
  BY <1>2, <1>4 DEF Observe, RetiredBy, Other
<1>6. RowFits'
  BY <1>0, <1>1, <1>3 DEF RowFits
<1>7. /\ row.v > 0 => Other(row) # probe.current /\ Other(row) <= probe.highest
  BY <1>0, <1>1, <1>4, NeverPrecedes DEF RowFits, Other
<1>8. RetiredStays'
  <2>1. \A x \in retired' : x \in retired \/ (row.closed /\ row.v > 0 /\ x = Other(row))
    BY DEF Observe, RetiredBy
  <2>2. \A x \in retired' : x <= probe.highest
    BY <2>1, <1>0, <1>7 DEF RetiredStays
  <2>3. probe.current \notin retired'
    BY <2>1, <1>0, <1>7 DEF RetiredStays
  <2>4. ~row.closed => row.v \notin retired' /\ row.prev \notin retired'
    BY <2>1, <1>0, <1>1 DEF RetiredStays
  <2> QED BY <2>2, <2>3, <2>4, <1>3 DEF RetiredStays
<1> QED BY <1>3, <1>5, <1>6, <1>8

\* With the hub's row and the probe's receipts as they were, what relates them is
\* as it was.
LEMMA SameAgreement ==
  ASSUME RotationInv, UNCHANGED <<hub, wire>>,
         probe'.current = probe.current, probe'.highest = probe.highest,
         probe'.receipts = probe.receipts
  PROVE  HubShape' /\ OneOutstanding' /\ ReceiptsFit' /\ InForce'
<1>1. HubShape'
  BY DEF RotationInv, HubShape
<1>2. OneOutstanding'
  BY DEF RotationInv, OneOutstanding
<1>3. ReceiptsFit'
  BY DEF RotationInv, ReceiptsFit
<1>4. InForce'
  BY DEF RotationInv, InForce, Activated
<1> QED BY <1>1, <1>2, <1>3, <1>4

LEMMA AuthenticateStep ==
  ASSUME Parameters, RotationInv, AuthenticateRuntime
  PROVE  RotationInv'
<1> USE NeverPrecedes
<1>1. PICK row : row = expireCredentialOverlaps(probe.row) /\ Observe(row)
                 /\ sess' = IF \E c \in runtimeCredentials(row) : c.ver = Head(sess.tries)
                            THEN [sess EXCEPT !.phase = "hello", !.ver = Head(sess.tries)]
                            ELSE IF Len(sess.tries) > 1
                            THEN [sess EXCEPT !.tries = Tail(sess.tries)]
                            ELSE Down
  BY DEF AuthenticateRuntime
<1>2. UNCHANGED <<hub, wire, hubNow, edgeNow, steps, drops>> /\ sess.phase = "dial"
  BY DEF AuthenticateRuntime
<1>3. /\ probe' \in [current : Versions, highest : Versions, row : Row,
                    receipts : SUBSET Receipt]
      /\ retired' \subseteq 0..MaxVersion
      /\ probe'.current = probe.current /\ probe'.highest = probe.highest
      /\ probe'.receipts = probe.receipts
      /\ RowFits' /\ RetiredStays'
  BY <1>1, ObserveStep
<1>4. /\ sess' \in [phase : {"down", "dial", "hello", "up"}, tries : Seq(0..MaxVersion),
                    ver : 0..MaxVersion, until : Int,
                    ready : BOOLEAN, quiesced : BOOLEAN, ending : BOOLEAN]
      /\ sess'.phase # "up"
  <2>1. sess \in [phase : {"down", "dial", "hello", "up"}, tries : Seq(0..MaxVersion),
                  ver : 0..MaxVersion, until : Int,
                  ready : BOOLEAN, quiesced : BOOLEAN, ending : BOOLEAN]
    BY DEF RotationInv, RotationTypeOK
  <2>2. CASE \E c \in runtimeCredentials(row) : c.ver = Head(sess.tries)
    <3>1. PICK c \in runtimeCredentials(row) : c.ver = Head(sess.tries)
      BY <2>2
    <3>2. row \in Row /\ probe.current \in 0..MaxVersion
      <4>1. RotationTypeOK
        BY DEF RotationInv
      <4> QED BY <4>1, <1>1, Overdue DEF RotationTypeOK
    <3>3. c.ver \in 0..MaxVersion
      BY <3>2, <1>1, Accepted DEF RotationInv, Row
    <3> QED BY <1>1, <2>1, <2>2, <3>1, <3>3
  <2>3. CASE ~\E c \in runtimeCredentials(row) : c.ver = Head(sess.tries)
    <3>1. CASE Len(sess.tries) > 1
      <4>1. sess' = [sess EXCEPT !.tries = Tail(sess.tries)]
        BY <1>1, <2>3, <3>1
      <4>2. Tail(sess.tries) \in Seq(0..MaxVersion)
        BY <2>1, <3>1
      <4> QED BY <4>1, <4>2, <2>1, <1>2
    <3>2. CASE ~(Len(sess.tries) > 1)
      <4>1. sess' = Down
        BY <1>1, <2>3, <3>2
      <4> QED BY <4>1 DEF Down
    <3> QED BY <3>1, <3>2
  <2> QED BY <2>2, <2>3
<1>5. RotationTypeOK'
  BY <1>2, <1>3, <1>4 DEF RotationInv, RotationTypeOK
<1>6. SupersededSessionsEnd'
  BY <1>4 DEF SupersededSessionsEnd
<1> QED BY <1>2, <1>3, <1>5, <1>6, SameAgreement DEF RotationInv

LEMMA AcceptStep ==
  ASSUME Parameters, RotationInv, AcceptCredentialConnection
  PROVE  RotationInv' /\ OpensNothingRetired
<1> USE NeverPrecedes
<1> DEFINE Sess == [phase : {"down", "dial", "hello", "up"}, tries : Seq(0..MaxVersion),
                    ver : 0..MaxVersion, until : Int,
                    ready : BOOLEAN, quiesced : BOOLEAN, ending : BOOLEAN]
<1>1. PICK row : /\ row = expireCredentialOverlaps(probe.row) /\ Observe(row)
                 /\ \E admitted \in {{c \in runtimeCredentials(row) : c.ver = sess.ver}} :
                      sess' = IF admitted = {} THEN Down
                              ELSE [sess EXCEPT !.phase = "up", !.tries = <<>>,
                                                !.until = (CHOOSE c \in admitted : TRUE).until]
  BY DEF AcceptCredentialConnection
<1>2. PICK admitted : /\ admitted = {c \in runtimeCredentials(row) : c.ver = sess.ver}
                      /\ sess' = IF admitted = {} THEN Down
                                 ELSE [sess EXCEPT !.phase = "up", !.tries = <<>>,
                                                   !.until = (CHOOSE c \in admitted : TRUE).until]
  BY <1>1
<1>3. UNCHANGED <<hub, wire, hubNow, edgeNow, steps, drops>> /\ sess.phase = "hello"
  BY DEF AcceptCredentialConnection
<1>4. /\ probe' \in [current : Versions, highest : Versions, row : Row,
                    receipts : SUBSET Receipt]
      /\ retired' \subseteq 0..MaxVersion
      /\ probe'.current = probe.current /\ probe'.highest = probe.highest
      /\ probe'.receipts = probe.receipts
      /\ RowFits' /\ RetiredStays'
  BY <1>1, ObserveStep
<1>5. sess \in Sess
  BY DEF RotationInv, RotationTypeOK
<1>6. CASE admitted = {}
  <2>1. sess' = Down
    BY <1>2, <1>6
  <2>2. sess' \in Sess /\ sess'.phase = "down"
    BY <2>1 DEF Down
  <2>3. RotationTypeOK' /\ SupersededSessionsEnd'
    BY <1>3, <1>4, <2>2 DEF RotationInv, RotationTypeOK, SupersededSessionsEnd
  <2> QED BY <1>3, <1>4, <2>2, <2>3, SameAgreement DEF RotationInv, OpensNothingRetired
<1>7. CASE admitted # {}
  <2>1. PICK c : c = (CHOOSE x \in admitted : TRUE) /\ c \in admitted
    BY <1>7
  <2>2. c \in runtimeCredentials(row) /\ c.ver = sess.ver
    BY <2>1, <1>2
  <2>3. RotationTypeOK /\ RowFits /\ RetiredStays
    BY DEF RotationInv
  <2>4. \/ sess.ver = probe.current
        \/ /\ ~row.closed /\ sess.ver \in {row.v, row.prev}
           /\ c.until = row.exp /\ c.until # Never
    BY <2>2, <2>3, <1>1, Accepted
  <2>5. c.until \in Int
    <3>1. row.exp \in Nat
      BY <2>3, <1>1, Overdue DEF Row
    <3> QED BY <2>2, <3>1 DEF runtimeCredentials
  <2>6. sess' = [sess EXCEPT !.phase = "up", !.tries = <<>>, !.until = c.until]
    BY <1>2, <1>7, <2>1
  <2>7. sess' \in Sess /\ sess'.ver = sess.ver /\ sess'.until = c.until
    <3>1. <<>> \in Seq(0..MaxVersion)
      OBVIOUS
    <3> QED BY <1>5, <2>5, <2>6, <3>1
  <2>8. RotationTypeOK' /\ SupersededSessionsEnd'
    BY <1>3, <1>4, <2>4, <2>7 DEF RotationInv, RotationTypeOK, SupersededSessionsEnd
  <2>9. sess.ver \notin retired
    <3>1. /\ row.v = probe.row.v /\ row.prev = probe.row.prev
          /\ probe.row.closed => row.closed
      BY <2>3, <1>1, Overdue
    <3> QED BY <2>3, <2>4, <3>1 DEF RetiredStays
  <2> QED BY <1>3, <1>4, <2>7, <2>8, <2>9, SameAgreement DEF RotationInv, OpensNothingRetired
<1> QED BY <1>6, <1>7

-----------------------------------------------------------------------------
(* Steps that touch neither the hub's row nor the probe.                   *)

LEMMA SessionStep ==
  ASSUME Parameters, RotationInv, UNCHANGED <<hub, probe, retired>>,
         hubNow' \in 0..MaxTime, edgeNow' \in Int, edgeNow' > Never,
         steps' \in 0..MaxSteps, drops' \in 0..MaxDrops,
         sess' \in [phase : {"down", "dial", "hello", "up"}, tries : Seq(0..MaxVersion),
                    ver : 0..MaxVersion, until : Int,
                    ready : BOOLEAN, quiesced : BOOLEAN, ending : BOOLEAN],
         sess'.phase = "up" => /\ sess.phase = "up" /\ sess'.ver = sess.ver
                               /\ sess'.until = sess.until /\ sess'.quiesced = sess.quiesced,
         wire' \subseteq wire
  PROVE  RotationInv'
<1>1. RotationTypeOK'
  BY DEF RotationInv, RotationTypeOK
<1>2. HubShape' /\ OneOutstanding' /\ ReceiptsFit'
  BY DEF RotationInv, HubShape, OneOutstanding, ReceiptsFit
<1>3. InForce' /\ RowFits' /\ RetiredStays'
  BY DEF RotationInv, InForce, Activated, RowFits, RetiredStays
<1>4. SupersededSessionsEnd'
  BY DEF RotationInv, SupersededSessionsEnd
<1> QED BY <1>1, <1>2, <1>3, <1>4 DEF RotationInv

LEMMA SelectStep ==
  ASSUME Parameters, RotationInv, SelectCredentialConnection
  PROVE  RotationInv'
<1> USE NeverPrecedes
<1>1. hub.v \in 0..MaxVersion /\ hub.current \in 0..MaxVersion
  BY DEF RotationInv, RotationTypeOK
<1>2. PICK tries : /\ tries \in Seq(0..MaxVersion)
                   /\ sess' = [phase |-> "dial", tries |-> tries, ver |-> 0, until |-> Never,
                               ready |-> FALSE, quiesced |-> FALSE, ending |-> FALSE]
  <2>1. <<hub.v, hub.current>> \in Seq(0..MaxVersion) /\ <<hub.current>> \in Seq(0..MaxVersion)
    BY <1>1
  <2>2. CASE hub.state = "activating"
    <3>1. sess' = [Down EXCEPT !.phase = "dial", !.tries = <<hub.v, hub.current>>]
      BY <2>2 DEF SelectCredentialConnection
    <3> QED BY <2>1, <3>1 DEF Down
  <2>3. CASE hub.state # "activating"
    <3>1. sess' = [Down EXCEPT !.phase = "dial", !.tries = <<hub.current>>]
      BY <2>3 DEF SelectCredentialConnection
    <3> QED BY <2>1, <3>1 DEF Down
  <2> QED BY <2>2, <2>3
<1>3. /\ sess' \in [phase : {"down", "dial", "hello", "up"}, tries : Seq(0..MaxVersion),
                    ver : 0..MaxVersion, until : Int,
                    ready : BOOLEAN, quiesced : BOOLEAN, ending : BOOLEAN]
      /\ sess'.phase = "dial"
  BY <1>2
<1>4. /\ UNCHANGED <<hub, probe, wire, hubNow, edgeNow, retired, steps, drops>>
      /\ hubNow \in 0..MaxTime /\ edgeNow \in Int /\ edgeNow > Never
      /\ steps \in 0..MaxSteps /\ drops \in 0..MaxDrops
  BY DEF SelectCredentialConnection, RotationInv, RotationTypeOK
<1> QED BY <1>3, <1>4, SessionStep

LEMMA CloseStep ==
  ASSUME Parameters, RotationInv, Close, UNCHANGED <<hub, probe, retired, hubNow, edgeNow, steps>>,
         drops' \in 0..MaxDrops
  PROVE  RotationInv'
<1> USE NeverPrecedes
<1>1. /\ sess' \in [phase : {"down", "dial", "hello", "up"}, tries : Seq(0..MaxVersion),
                    ver : 0..MaxVersion, until : Int,
                    ready : BOOLEAN, quiesced : BOOLEAN, ending : BOOLEAN]
      /\ sess'.phase = "down" /\ wire' = {}
  BY DEF Close, Down
<1>2. /\ hubNow \in 0..MaxTime /\ edgeNow \in Int /\ edgeNow > Never /\ steps \in 0..MaxSteps
  BY DEF RotationInv, RotationTypeOK
<1> QED BY <1>1, <1>2, SessionStep

LEMMA ConfirmStep ==
  ASSUME Parameters, RotationInv, ConfirmCredentialConnection
  PROVE  RotationInv'
<1>1. /\ UNCHANGED <<hub, probe, hubNow, edgeNow, retired, steps, drops>>
      /\ hubNow \in 0..MaxTime /\ edgeNow \in Int /\ edgeNow > Never
      /\ steps \in 0..MaxSteps /\ drops \in 0..MaxDrops
      /\ sess.phase = "up"
  BY DEF ConfirmCredentialConnection, RotationInv, RotationTypeOK
<1>2. CASE Close
  BY <1>1, <1>2, CloseStep
<1>3. CASE sess' = [sess EXCEPT !.ready = TRUE] /\ UNCHANGED wire
  <2>1. sess \in [phase : {"down", "dial", "hello", "up"}, tries : Seq(0..MaxVersion),
                  ver : 0..MaxVersion, until : Int,
                  ready : BOOLEAN, quiesced : BOOLEAN, ending : BOOLEAN]
    BY DEF RotationInv, RotationTypeOK
  <2>2. /\ sess' \in [phase : {"down", "dial", "hello", "up"}, tries : Seq(0..MaxVersion),
                      ver : 0..MaxVersion, until : Int,
                      ready : BOOLEAN, quiesced : BOOLEAN, ending : BOOLEAN]
        /\ sess'.ver = sess.ver /\ sess'.until = sess.until /\ sess'.quiesced = sess.quiesced
    BY <1>3, <2>1
  <2> QED BY <1>1, <1>3, <2>2, SessionStep
<1> QED BY <1>2, <1>3 DEF ConfirmCredentialConnection

LEMMA TimeStep ==
  ASSUME Parameters, RotationInv, RotationTick \/ SetEdgeClock
  PROVE  RotationInv'
<1> USE NeverPrecedes
<1>1. /\ UNCHANGED <<hub, probe, sess, wire, retired, drops>>
      /\ sess \in [phase : {"down", "dial", "hello", "up"}, tries : Seq(0..MaxVersion),
                   ver : 0..MaxVersion, until : Int,
                   ready : BOOLEAN, quiesced : BOOLEAN, ending : BOOLEAN]
      /\ drops \in 0..MaxDrops
  BY DEF RotationTick, SetEdgeClock, RotationInv, RotationTypeOK
<1>2. /\ hubNow \in 0..MaxTime /\ edgeNow \in Int /\ edgeNow > Never /\ steps \in 0..MaxSteps
  BY DEF RotationInv, RotationTypeOK
<1>3. /\ hubNow' \in 0..MaxTime /\ edgeNow' \in Int /\ edgeNow' > Never
      /\ steps' \in 0..MaxSteps
  <2>1. CASE RotationTick
    BY <2>1, <1>2 DEF RotationTick
  <2>2. CASE SetEdgeClock
    BY <2>2, <1>2 DEF SetEdgeClock, Never
  <2> QED BY <2>1, <2>2
<1> QED BY <1>1, <1>3, SessionStep

-----------------------------------------------------------------------------
(* Commands.                                                               *)

LEMMA ClaimStep ==
  ASSUME Parameters, RotationInv, NEW k \in Kinds, ClaimCommand(k)
  PROVE  RotationInv'
<1> USE NeverPrecedes
<1>1. /\ UNCHANGED <<hub, probe, sess, hubNow, edgeNow, retired, steps, drops>>
      /\ wire' = wire \cup {Request(k)} /\ \A m \in wire : m.kind # k
  BY DEF ClaimCommand
<1>2. /\ k = "prepare" => hub.state = "preparing"
      /\ k = "activate" => hub.state = "activating"
  BY DEF ClaimCommand, RotationInv, HubShape, Kinds
<1>3. hub.v \in Versions /\ hub.created \in Nat
  <2>1. hub.v # 0
    BY <1>2 DEF RotationInv, HubShape, Kinds
  <2>2. hub.v \in 0..MaxVersion /\ hub.created \in 0..MaxTime
    BY DEF RotationInv, RotationTypeOK
  <2> QED BY <2>1, <2>2 DEF Versions
<1>4. /\ Request(k) \in Message /\ Request(k).to = "edge" /\ Request(k).kind = k
      /\ Request(k).v = hub.v /\ Request(k).created = hub.created
  BY <1>3 DEF Request, Message
<1>5. wire = {}
  <2>1. \A m \in wire : m.kind \in Kinds
    BY DEF RotationInv, RotationTypeOK, Message
  <2>2. \A m \in wire : /\ m.kind = "prepare" => hub.state = "preparing"
                        /\ m.kind = "activate" => hub.state = "activating"
    BY DEF RotationInv, OneOutstanding
  <2> QED BY <1>1, <1>2, <2>1, <2>2 DEF Kinds
<1>6. RotationTypeOK'
  BY <1>1, <1>4 DEF RotationInv, RotationTypeOK
<1>7. OneOutstanding'
  BY <1>1, <1>2, <1>4, <1>5 DEF OneOutstanding
<1>8. HubShape' /\ ReceiptsFit' /\ InForce'
  BY <1>1 DEF RotationInv, HubShape, ReceiptsFit, InForce, Activated
<1>9. RowFits' /\ RetiredStays' /\ SupersededSessionsEnd'
  BY <1>1 DEF RotationInv, RowFits, RetiredStays, SupersededSessionsEnd
<1> QED BY <1>6, <1>7, <1>8, <1>9 DEF RotationInv

LEMMA DropStep ==
  ASSUME Parameters, RotationInv, NEW m \in wire, DropQuiesced(m)
  PROVE  RotationInv'
<1>1. /\ UNCHANGED <<hub, probe, sess, hubNow, edgeNow, retired, steps, drops>>
      /\ wire' \subseteq wire
      /\ hubNow \in 0..MaxTime /\ edgeNow \in Int /\ edgeNow > Never
      /\ steps \in 0..MaxSteps /\ drops \in 0..MaxDrops
      /\ sess \in [phase : {"down", "dial", "hello", "up"}, tries : Seq(0..MaxVersion),
                   ver : 0..MaxVersion, until : Int,
                   ready : BOOLEAN, quiesced : BOOLEAN, ending : BOOLEAN]
  BY DEF DropQuiesced, RotationInv, RotationTypeOK
<1> QED BY <1>1, SessionStep

\* The three things a command without a receipt can do to the probe.
Refuses(e, row) ==
  /\ e.status \in {"rejected", "expired"} /\ e.at = Never
  /\ e.current = probe.current /\ e.highest = probe.highest /\ e.row = row

Dated(e, m) == e.at = edgeNow /\ edgeNow < m.created + Overlap /\ m.created <= edgeNow + Ahead

Prepares(e, row, m) ==
  /\ m.kind = "prepare" /\ e.status = "applied" /\ Dated(e, m)
  /\ m.v > probe.highest /\ m.v > probe.current
  /\ e.current = probe.current /\ e.highest = m.v
  /\ e.row = [v |-> m.v, prev |-> probe.current, exp |-> m.created + Overlap,
              preparedAt |-> edgeNow, activatedAt |-> Never, closed |-> FALSE]

Activates(e, row, m) ==
  /\ m.kind = "activate" /\ e.status = "applied" /\ Dated(e, m)
  /\ row.v = m.v /\ ~row.closed /\ probe.current = row.prev
  /\ e.current = row.v /\ e.highest = probe.highest
  /\ e.row = [row EXCEPT !.activatedAt = edgeNow]

LEMMA EffectCases ==
  ASSUME Parameters, RotationTypeOK, NEW row, NEW m \in Message, m.to = "edge",
         NEW e, e = Effect(row, m)
  PROVE  Refuses(e, row) \/ Prepares(e, row, m) \/ Activates(e, row, m)
<1> USE NeverPrecedes
<1>1. /\ m.created \in Nat /\ m.v \in Nat /\ m.kind \in Kinds
      /\ edgeNow \in Int /\ probe.current \in Nat /\ probe.highest \in Nat
  BY DEF RotationTypeOK, Message
<1>2. CASE edgeNow >= m.created + Overlap \/ m.created > edgeNow + Ahead
  BY <1>1, <1>2 DEF Effect, Refuses
<1>3. CASE ~(edgeNow >= m.created + Overlap \/ m.created > edgeNow + Ahead)
  <2>1. CASE m.kind = "prepare"
    <3>1. e = prepareCredential(row, m)
      BY <1>3, <2>1 DEF Effect
    <3>2. CASE m.v <= probe.highest \/ m.v <= probe.current \/ ~row.closed
      BY <3>1, <3>2 DEF prepareCredential, Refuses
    <3>3. CASE ~(m.v <= probe.highest \/ m.v <= probe.current \/ ~row.closed)
      BY <1>1, <1>3, <2>1, <3>1, <3>3 DEF prepareCredential, Prepares, Dated
    <3> QED BY <3>2, <3>3
  <2>2. CASE m.kind = "activate"
    <3>1. e = activateCredential(row, m)
      BY <1>3, <2>2 DEF Effect
    <3>2. CASE row.v = m.v /\ ~row.closed /\ edgeNow >= row.preparedAt
               /\ probe.highest = row.v /\ probe.current = row.prev
      BY <1>1, <1>3, <2>2, <3>1, <3>2 DEF activateCredential, Activates, Dated
    <3>3. CASE ~(row.v = m.v /\ ~row.closed /\ edgeNow >= row.preparedAt
                 /\ probe.highest = row.v /\ probe.current = row.prev)
      BY <3>1, <3>3 DEF activateCredential, Refuses
    <3> QED BY <3>2, <3>3
  <2> QED BY <1>1, <2>1, <2>2 DEF Kinds
<1> QED BY <1>2, <1>3

\* The probe's store after a command without a receipt, and what it means for
\* the credential in force and the open overlap.
LEMMA EffectStep ==
  ASSUME Parameters, RotationInv, NEW row, row = expireCredentialOverlaps(probe.row),
         NEW m \in wire, m.to = "edge", NEW e, e = Effect(row, m), NEW rc,
         rc = [kind |-> m.kind, v |-> m.v, status |-> e.status, at |-> e.at],
         \A r \in probe.receipts : ~(r.kind = m.kind /\ r.v = m.v),
         probe' = [current |-> e.current, highest |-> e.highest, row |-> e.row,
                  receipts |-> probe.receipts \cup {rc}],
         retired' = retired \cup RetiredBy(row), UNCHANGED hub
  PROVE  /\ probe' \in [current : Versions, highest : Versions, row : Row,
                       receipts : SUBSET Receipt]
         /\ retired' \subseteq 0..MaxVersion
         /\ ReceiptsFit' /\ InForce' /\ RowFits' /\ RetiredStays'
         /\ probe'.current # probe.current => e.status = "applied"
<1> USE NeverPrecedes
<1>0. RotationTypeOK /\ HubShape /\ OneOutstanding /\ ReceiptsFit /\ InForce /\ RowFits /\ RetiredStays
  BY DEF RotationInv
<1>1. /\ m \in Message /\ m.kind \in Kinds /\ m.v = hub.v /\ m.created = hub.created
      /\ m.kind = "prepare" => hub.state = "preparing"
      /\ m.kind = "activate" => hub.state = "activating"
      /\ m.v \in Versions /\ hub.created \in Nat
  BY <1>0 DEF RotationTypeOK, OneOutstanding, Message
<1>2. Refuses(e, row) \/ Prepares(e, row, m) \/ Activates(e, row, m)
  BY <1>0, <1>1, EffectCases
<1>3. /\ row \in Row
      /\ row.v = probe.row.v /\ row.prev = probe.row.prev
      /\ row.activatedAt = probe.row.activatedAt
      /\ probe.row.closed => row.closed
  BY <1>0, Overdue
<1>4. /\ probe.current \in Versions /\ probe.highest \in Versions
      /\ probe.receipts \subseteq Receipt /\ retired \subseteq 0..MaxVersion
      /\ edgeNow \in Int /\ edgeNow # Never
      /\ hub.v \in Nat /\ hub.highWater \in Nat /\ hub.current \in Nat
  <2>1. /\ probe.current \in Versions /\ probe.highest \in Versions
        /\ probe.receipts \subseteq Receipt /\ retired \subseteq 0..MaxVersion
        /\ edgeNow \in Int /\ edgeNow > Never
    BY <1>0 DEF RotationTypeOK
  <2>2. hub.v \in 0..MaxVersion /\ hub.highWater \in Versions /\ hub.current \in Versions
    BY <1>0 DEF RotationTypeOK
  <2> QED BY <2>1, <2>2
<1>5. /\ row.v \in 0..MaxVersion /\ row.prev \in 0..MaxVersion /\ row.closed \in BOOLEAN
      /\ row.exp \in Nat /\ row.preparedAt \in Int /\ row.activatedAt \in Int
  BY <1>3 DEF Row
<1>6. retired' \subseteq 0..MaxVersion
  BY <1>4, <1>5 DEF RetiredBy, Other
<1>7. /\ probe'.current = e.current /\ probe'.highest = e.highest /\ probe'.row = e.row
      /\ probe'.receipts = probe.receipts \cup {rc}
  OBVIOUS
<1>8. /\ rc.kind = m.kind /\ rc.v = hub.v /\ rc.status = e.status /\ rc.at = e.at
  BY <1>1
\* The observation of the row alone, before the command.
<1>9. /\ row.v > 0 => Other(row) # probe.current /\ Other(row) <= probe.highest
      /\ row.v > 0 => row.prev < row.v /\ row.v <= probe.highest
      /\ row.v = 0 => row.closed
      /\ \A x \in retired' : x \in retired \/ (row.closed /\ row.v > 0 /\ x = Other(row))
  BY <1>0, <1>3, <1>4, <1>5 DEF RowFits, Other, RetiredBy
<1>10. /\ \A x \in retired' : x <= probe.highest
       /\ probe.current \notin retired'
       /\ ~row.closed => row.v \notin retired' /\ row.prev \notin retired'
  BY <1>0, <1>3, <1>9 DEF RetiredStays
<1>11. rc \in Receipt /\ (e.status = "applied" => /\ e.at >= hub.created - Ahead
                                                  /\ e.at < hub.created + Overlap)
  <2>1. e.status \in Statuses /\ e.at \in Int
    BY <1>2, <1>4 DEF Refuses, Prepares, Activates, Dated, Statuses
  <2>2. rc \in Receipt
    BY <1>1, <2>1 DEF Receipt
  <2> QED BY <1>1, <1>2, <1>4, <2>2 DEF Refuses, Prepares, Activates, Dated
<1>12. ReceiptsFit'
  <2>1. \A r, s \in probe'.receipts : r.kind = s.kind /\ r.v = s.v => r = s
    BY <1>0, <1>1, <1>7, <1>8 DEF ReceiptsFit
  <2>2. ASSUME NEW r \in probe'.receipts
        PROVE  /\ r.v <= hub.highWater
               /\ r.v = hub.v /\ r.status = "applied" =>
                    r.at >= hub.created - Ahead /\ r.at < hub.created + Overlap
               /\ r.v = hub.v /\ r.kind = "activate" => hub.state # "preparing"
    <3>1. CASE r \in probe.receipts
      BY <1>0, <3>1 DEF ReceiptsFit
    <3>2. CASE r = rc
      <4>1. hub.v <= hub.highWater
        BY <1>0, <1>1, <1>4 DEF HubShape, Kinds
      <4> QED BY <1>1, <1>8, <1>11, <3>2, <4>1
    <3> QED BY <1>7, <3>1, <3>2
  <2> QED BY <2>1, <2>2 DEF ReceiptsFit
<1>13. CASE Refuses(e, row)
  <2>1. /\ e.current = probe.current /\ e.highest = probe.highest /\ e.row = row
        /\ e.status # "applied"
    BY <1>13 DEF Refuses
  <2>2. probe' \in [current : Versions, highest : Versions, row : Row, receipts : SUBSET Receipt]
    BY <1>3, <1>4, <1>11, <2>1
  <2>3. RowFits'
    BY <1>0, <1>3, <1>7, <2>1 DEF RowFits
  <2>4. RetiredStays'
    BY <1>7, <1>10, <2>1 DEF RetiredStays
  <2>5. InForce'
    <3>1. (\E r \in probe'.receipts : Activated(r)') <=> (\E r \in probe.receipts : Activated(r))
      BY <1>7, <1>8, <2>1 DEF Activated
    <3> QED BY <1>0, <1>7, <2>1, <3>1 DEF InForce
  <2> QED BY <1>6, <1>7, <1>12, <2>1, <2>2, <2>3, <2>4, <2>5
<1>14. CASE Prepares(e, row, m)
  <2>1. /\ e.current = probe.current /\ e.highest = hub.v /\ hub.v > probe.highest
        /\ hub.v > probe.current /\ e.status = "applied" /\ m.kind = "prepare"
        /\ e.row = [v |-> hub.v, prev |-> probe.current, exp |-> hub.created + Overlap,
                    preparedAt |-> edgeNow, activatedAt |-> Never, closed |-> FALSE]
    BY <1>1, <1>14 DEF Prepares
  <2>2. e.row \in Row
    BY <1>1, <1>4, <2>1 DEF Row
  <2>3. probe' \in [current : Versions, highest : Versions, row : Row, receipts : SUBSET Receipt]
    BY <1>1, <1>4, <1>11, <2>1, <2>2
  <2>4. RowFits'
    BY <1>4, <1>7, <2>1 DEF RowFits
  <2>5. \A x \in retired' : x <= probe.highest /\ x \in Nat
    BY <1>6, <1>10
  <2>6. RetiredStays'
    BY <1>4, <1>7, <1>10, <2>1, <2>5 DEF RetiredStays
  <2>7. InForce'
    <3>1. (\E r \in probe'.receipts : Activated(r)') <=> (\E r \in probe.receipts : Activated(r))
      BY <1>7, <1>8, <2>1 DEF Activated
    <3>2. hub.v <= hub.highWater
      BY <1>0, <1>1, <1>4, <2>1 DEF HubShape
    <3> QED BY <1>0, <1>7, <2>1, <3>1, <3>2 DEF InForce
  <2> QED BY <1>6, <1>7, <1>12, <2>1, <2>3, <2>4, <2>6, <2>7
<1>15. CASE Activates(e, row, m)
  <2>1. /\ e.current = row.v /\ e.highest = probe.highest /\ row.v = hub.v /\ ~row.closed
        /\ probe.current = row.prev /\ e.status = "applied" /\ m.kind = "activate"
        /\ e.row = [row EXCEPT !.activatedAt = edgeNow]
    BY <1>1, <1>15 DEF Activates
  <2>2. /\ e.row \in Row /\ e.row.v = row.v /\ e.row.prev = row.prev /\ ~e.row.closed
        /\ e.row.activatedAt = edgeNow
    BY <1>3, <1>4, <2>1 DEF Row
  <2>3. probe' \in [current : Versions, highest : Versions, row : Row, receipts : SUBSET Receipt]
    BY <1>1, <1>4, <1>11, <2>1, <2>2
  <2>4. row.v > 0
    BY <1>1, <2>1 DEF Versions
  <2>5. RowFits'
    BY <1>4, <1>5, <1>7, <1>9, <2>1, <2>2, <2>4 DEF RowFits
  <2>6. RetiredStays'
    BY <1>7, <1>10, <2>1, <2>2 DEF RetiredStays
  <2>7. InForce'
    <3>1. Activated(rc)' /\ rc \in probe'.receipts
      BY <1>7, <1>8, <2>1 DEF Activated
    <3>2. hub.state = "activating"
      BY <1>1, <2>1
    <3> QED BY <1>0, <1>7, <2>1, <3>1, <3>2 DEF InForce
  <2> QED BY <1>6, <1>7, <1>12, <2>1, <2>3, <2>5, <2>6, <2>7
<1> QED BY <1>2, <1>13, <1>14, <1>15

LEMMA ApplyStep ==
  ASSUME Parameters, RotationInv, NEW m \in wire, ApplyCredentialCommand(m)
  PROVE  RotationInv'
<1> USE NeverPrecedes
<1>0. RotationTypeOK /\ HubShape /\ OneOutstanding /\ ReceiptsFit
  BY DEF RotationInv
<1>1. PICK row : row = expireCredentialOverlaps(probe.row) /\
        \E prior \in {{r \in probe.receipts : r.kind = m.kind /\ r.v = m.v}} :
        \E e \in {IF prior # {} THEN CHOOSE r \in prior : TRUE ELSE Effect(row, m)} :
          /\ probe' = IF prior # {} THEN [probe EXCEPT !.row = row]
                     ELSE [current |-> e.current, highest |-> e.highest, row |-> e.row,
                           receipts |-> probe.receipts \cup
                             {[kind |-> m.kind, v |-> m.v, status |-> e.status, at |-> e.at]}]
          /\ retired' = retired \cup RetiredBy(row)
          /\ wire' = (wire \ {m}) \cup {[to |-> "hub", kind |-> m.kind, v |-> m.v,
                                         status |-> e.status, at |-> e.at]}
          /\ sess' = [sess EXCEPT !.quiesced = e.status = "applied"]
  BY DEF ApplyCredentialCommand
<1> DEFINE After(prior, e) ==
          /\ probe' = IF prior # {} THEN [probe EXCEPT !.row = row]
                     ELSE [current |-> e.current, highest |-> e.highest, row |-> e.row,
                           receipts |-> probe.receipts \cup
                             {[kind |-> m.kind, v |-> m.v, status |-> e.status, at |-> e.at]}]
          /\ retired' = retired \cup RetiredBy(row)
          /\ wire' = (wire \ {m}) \cup {[to |-> "hub", kind |-> m.kind, v |-> m.v,
                                         status |-> e.status, at |-> e.at]}
          /\ sess' = [sess EXCEPT !.quiesced = e.status = "applied"]
<1>p. PICK prior \in {{r \in probe.receipts : r.kind = m.kind /\ r.v = m.v}} :
        \E e \in {IF prior # {} THEN CHOOSE r \in prior : TRUE ELSE Effect(row, m)} :
          After(prior, e)
  BY <1>1
<1>e. PICK e \in {IF prior # {} THEN CHOOSE r \in prior : TRUE ELSE Effect(row, m)} :
          After(prior, e)
  BY <1>p
<1>2. /\ prior = {r \in probe.receipts : r.kind = m.kind /\ r.v = m.v}
      /\ e = IF prior # {} THEN CHOOSE r \in prior : TRUE ELSE Effect(row, m)
      /\ After(prior, e)
  BY <1>p, <1>e
<1>3. /\ UNCHANGED <<hub, hubNow, edgeNow, steps, drops>>
      /\ m.to = "edge" /\ sess.phase = "up" /\ ~sess.quiesced
  BY DEF ApplyCredentialCommand
<1>4. PICK rc : rc = [kind |-> m.kind, v |-> m.v, status |-> e.status, at |-> e.at]
  OBVIOUS
<1>5. /\ m \in Message /\ m.kind \in Kinds /\ m.v \in Versions /\ m.v = hub.v
      /\ m.kind = "prepare" => hub.state = "preparing"
      /\ m.kind = "activate" => hub.state = "activating"
  BY <1>0 DEF RotationTypeOK, Message, OneOutstanding
\* The probe's store, either way.
<1>6. /\ probe' \in [current : Versions, highest : Versions, row : Row, receipts : SUBSET Receipt]
      /\ retired' \subseteq 0..MaxVersion
      /\ ReceiptsFit' /\ InForce' /\ RowFits' /\ RetiredStays'
      /\ probe'.current # probe.current => e.status = "applied"
      /\ rc \in probe'.receipts
  <2>1. CASE prior # {}
    <3>1. e \in probe.receipts /\ e.kind = m.kind /\ e.v = m.v
      BY <1>2, <2>1
    <3>2. rc = e
      <4>1. e \in Receipt
        BY <1>0, <3>1 DEF RotationTypeOK
      <4> QED BY <1>4, <3>1, <4>1 DEF Receipt
    <3>3. Observe(row)
      BY <1>2, <2>1 DEF Observe
    <3>4. /\ probe' \in [current : Versions, highest : Versions, row : Row,
                        receipts : SUBSET Receipt]
          /\ retired' \subseteq 0..MaxVersion
          /\ probe'.current = probe.current /\ probe'.highest = probe.highest
          /\ probe'.receipts = probe.receipts
          /\ RowFits' /\ RetiredStays'
      BY <1>1, <3>3, ObserveStep
    <3>5. ReceiptsFit' /\ InForce'
      BY <1>3, <3>4 DEF RotationInv, ReceiptsFit, InForce, Activated
    <3> QED BY <3>1, <3>2, <3>4, <3>5
  <2>2. CASE prior = {}
    <3>1. e = Effect(row, m) /\ \A r \in probe.receipts : ~(r.kind = m.kind /\ r.v = m.v)
      BY <1>2, <2>2
    <3>2. probe' = [current |-> e.current, highest |-> e.highest, row |-> e.row,
                   receipts |-> probe.receipts \cup {rc}]
      BY <1>2, <1>4, <2>2
    <3>3. rc \in probe'.receipts
      BY <3>2
    <3> HIDE DEF Effect
    <3> QED BY <1>1, <1>2, <1>3, <1>4, <3>1, <3>2, <3>3, EffectStep
  <2> QED BY <2>1, <2>2
<1>7. PICK n : n = [to |-> "hub", kind |-> m.kind, v |-> m.v, status |-> e.status, at |-> e.at]
  OBVIOUS
<1>8. wire' = {n}
  <2>1. wire = {m}
    BY <1>0 DEF OneOutstanding
  <2> QED BY <1>2, <1>7, <2>1
<1>9. /\ n \in Message /\ n.to = "hub" /\ n.kind = m.kind /\ n.v = hub.v
      /\ [kind |-> n.kind, v |-> n.v, status |-> n.status, at |-> n.at] = rc
  <2>1. rc \in Receipt /\ rc.status = e.status /\ rc.at = e.at
    BY <1>4, <1>6
  <2>2. e.status \in Statuses /\ e.at \in Int
    BY <2>1 DEF Receipt
  <2> QED BY <1>4, <1>5, <1>7, <2>2 DEF Message
<1>10. OneOutstanding'
  BY <1>3, <1>5, <1>6, <1>8, <1>9 DEF OneOutstanding
<1>11. /\ sess' \in [phase : {"down", "dial", "hello", "up"}, tries : Seq(0..MaxVersion),
                    ver : 0..MaxVersion, until : Int,
                    ready : BOOLEAN, quiesced : BOOLEAN, ending : BOOLEAN]
       /\ sess'.ver = sess.ver /\ sess'.until = sess.until
       /\ sess'.quiesced = (e.status = "applied")
  <2>1. sess \in [phase : {"down", "dial", "hello", "up"}, tries : Seq(0..MaxVersion),
                  ver : 0..MaxVersion, until : Int,
                  ready : BOOLEAN, quiesced : BOOLEAN, ending : BOOLEAN]
    BY <1>0 DEF RotationTypeOK
  <2> QED BY <1>2, <2>1
<1>12. RotationTypeOK'
  BY <1>0, <1>3, <1>6, <1>8, <1>9, <1>11 DEF RotationTypeOK
<1>13. SupersededSessionsEnd'
  BY <1>3, <1>6, <1>11 DEF RotationInv, SupersededSessionsEnd
<1>14. HubShape'
  BY <1>0, <1>3 DEF HubShape
<1> QED BY <1>6, <1>10, <1>12, <1>13, <1>14 DEF RotationInv

\* A result on the wire is one the hub can record (completeCredentialRotation
\* refuses none of them for its date or its state).
LEMMA ResultUsable ==
  ASSUME Parameters, RotationInv, NEW m \in wire, m.to = "hub"
  PROVE  hub[m.kind] = "pending" /\ Usable(m)
<1>0. RotationTypeOK /\ HubShape /\ OneOutstanding /\ ReceiptsFit
  BY DEF RotationInv
<1>1. /\ m.kind \in Kinds /\ m.v = hub.v
      /\ m.kind = "prepare" => hub.state = "preparing"
      /\ m.kind = "activate" => hub.state = "activating"
  BY <1>0 DEF RotationTypeOK, Message, OneOutstanding
<1>2. PICK r \in probe.receipts : r.v = hub.v /\ r.status = m.status /\ r.at = m.at
  BY <1>0, <1>1 DEF OneOutstanding
<1>3. m.status = "applied" => m.at >= hub.created - Ahead /\ m.at < Expires
  BY <1>0, <1>2 DEF ReceiptsFit, Expires
<1>4. CASE m.kind = "prepare"
  <2>1. hub.prepare = "pending" /\ hub.state = "preparing" /\ hub.activate = "blocked"
    BY <1>0, <1>1, <1>4 DEF HubShape
  <2> QED BY <1>1, <1>3, <1>4, <2>1 DEF Usable
<1>5. CASE m.kind = "activate"
  <2>1. /\ hub.activate = "pending" /\ hub.state = "activating" /\ hub.current = hub.prev
        /\ hub.highWater = hub.v
    BY <1>0, <1>1, <1>5 DEF HubShape
  <2> QED BY <1>1, <1>3, <1>5, <2>1 DEF Usable
<1> QED BY <1>1, <1>4, <1>5 DEF Kinds

LEMMA ResultStep ==
  ASSUME Parameters, RotationInv, NEW m \in wire, RecordCommandResult(m)
  PROVE  RotationInv'
<1> USE NeverPrecedes
<1>0. RotationTypeOK /\ HubShape /\ OneOutstanding /\ ReceiptsFit /\ InForce
  BY DEF RotationInv
<1>1. m.to = "hub" /\ UNCHANGED <<probe, hubNow, edgeNow, retired, steps, drops>>
  BY DEF RecordCommandResult
<1>2. /\ m.kind \in Kinds /\ m.v = hub.v /\ m.status \in Statuses
      /\ m.kind = "prepare" => hub.state = "preparing"
      /\ m.kind = "activate" => hub.state = "activating"
      /\ [kind |-> m.kind, v |-> m.v, status |-> m.status, at |-> m.at] \in probe.receipts
  BY <1>0, <1>1 DEF RotationTypeOK, Message, OneOutstanding
<1>3. /\ hub' = completeCredentialRotation(m) /\ wire' = wire \ {m}
      /\ sess' = [sess EXCEPT !.ending = TRUE]
  <2>1. hub.v = m.v /\ hub[m.kind] = "pending" /\ Usable(m)
    BY <1>1, <1>2, ResultUsable
  <2> QED BY <2>1 DEF RecordCommandResult
<1>4. wire' = {}
  BY <1>0, <1>3 DEF OneOutstanding
<1>5. /\ sess' \in [phase : {"down", "dial", "hello", "up"}, tries : Seq(0..MaxVersion),
                    ver : 0..MaxVersion, until : Int,
                    ready : BOOLEAN, quiesced : BOOLEAN, ending : BOOLEAN]
      /\ sess'.phase = sess.phase /\ sess'.ver = sess.ver /\ sess'.until = sess.until
      /\ sess'.quiesced = sess.quiesced
  <2>1. sess \in [phase : {"down", "dial", "hello", "up"}, tries : Seq(0..MaxVersion),
                  ver : 0..MaxVersion, until : Int,
                  ready : BOOLEAN, quiesced : BOOLEAN, ending : BOOLEAN]
    BY <1>0 DEF RotationTypeOK
  <2> QED BY <1>3, <2>1
<1> DEFINE Hub == [current : Versions, highWater : Versions, state : States,
                   v : 0..MaxVersion, prev : 0..MaxVersion, created : 0..MaxTime,
                   prepare : {"none", "pending", "confirmed"},
                   activate : {"none", "blocked", "pending", "canceled", "confirmed"}]
<1>6. hub \in Hub /\ hub.v \in Nat /\ hub.v # 0
  <2>1. hub \in Hub
    BY <1>0 DEF RotationTypeOK
  <2> QED BY <1>0, <1>2, <2>1 DEF HubShape, Kinds
<1>7. hub.v \in Versions
  BY <1>6 DEF Versions
\* What the hub's row becomes, in the four cases.
<1>8. /\ hub' \in Hub /\ hub'.v = hub.v /\ hub'.prev = hub.prev /\ hub'.created = hub.created
      /\ hub'.highWater = hub.highWater
      /\ hub'.prepare # "pending"
      /\ hub'.state = "activating" <=> m.kind = "prepare" /\ m.status = "applied"
      /\ hub'.activate = "pending" <=> m.kind = "prepare" /\ m.status = "applied"
      /\ hub'.state = "active" <=> m.kind = "activate" /\ m.status = "applied"
      /\ hub'.state = "failed" <=> m.status # "applied"
      /\ hub'.current = IF m.kind = "activate" /\ m.status = "applied" THEN hub.v ELSE hub.current
      /\ m.kind = "activate" => hub.prepare # "pending"
  <2>1. CASE m.kind = "prepare" /\ m.status = "applied"
    <3>1. hub' = [hub EXCEPT !.prepare = "confirmed", !.activate = "pending", !.state = "activating"]
      BY <1>3, <2>1 DEF completeCredentialRotation
    <3> QED BY <1>6, <2>1, <3>1 DEF States
  <2>2. CASE m.kind = "prepare" /\ m.status # "applied"
    <3>1. hub' = [hub EXCEPT !.prepare = "confirmed", !.activate = "canceled", !.state = "failed"]
      BY <1>3, <2>2 DEF completeCredentialRotation
    <3> QED BY <1>6, <2>2, <3>1 DEF States
  <2>3. CASE m.kind = "activate" /\ m.status = "applied"
    <3>1. hub' = [hub EXCEPT !.activate = "confirmed", !.state = "active", !.current = hub.v]
      BY <1>3, <2>3 DEF completeCredentialRotation
    <3>2. hub.prepare # "pending"
      BY <1>0, <1>2, <2>3 DEF HubShape
    <3> QED BY <1>6, <1>7, <2>3, <3>1, <3>2 DEF States
  <2>4. CASE m.kind = "activate" /\ m.status # "applied"
    <3>1. hub' = [hub EXCEPT !.activate = "confirmed", !.state = "failed"]
      BY <1>3, <2>4 DEF completeCredentialRotation
    <3>2. hub.prepare # "pending"
      BY <1>0, <1>2, <2>4 DEF HubShape
    <3> QED BY <1>6, <2>4, <3>1, <3>2 DEF States
  <2> QED BY <1>2, <2>1, <2>2, <2>3, <2>4 DEF Kinds
<1>9. RotationTypeOK'
  BY <1>0, <1>1, <1>4, <1>5, <1>8 DEF RotationTypeOK
<1>10. HubShape'
  <2>1. /\ hub.v = hub.highWater /\ hub.prev < hub.v /\ hub.current = hub.prev
        /\ hub.current <= hub.highWater
    BY <1>0, <1>2 DEF HubShape, Kinds
  <2>2. hub'.state \in {"activating", "active", "failed"}
    BY <1>2, <1>8 DEF Kinds
  <2> QED BY <1>2, <1>6, <1>8, <2>1, <2>2 DEF HubShape, Kinds
<1>11. OneOutstanding'
  BY <1>4 DEF OneOutstanding
<1>12. ReceiptsFit'
  <2>1. hub'.state # "preparing"
    BY <1>2, <1>8 DEF Kinds
  <2> QED BY <1>0, <1>1, <1>8, <2>1 DEF ReceiptsFit
<1>13. InForce'
  <2>1. (\E r \in probe'.receipts : Activated(r)') <=> (\E r \in probe.receipts : Activated(r))
    BY <1>1, <1>8 DEF Activated
  <2>2. probe.current = hub.v <=> \E r \in probe.receipts : Activated(r)
    BY <1>0, <1>2 DEF InForce, Kinds
  <2>3. CASE m.kind = "prepare"
    <3>1. probe.current = hub.current /\ hub.state = "preparing"
      BY <1>0, <1>2, <2>3 DEF InForce
    <3> QED BY <1>0, <1>1, <1>2, <1>8, <2>1, <2>2, <2>3, <3>1 DEF InForce
  <2>4. CASE m.kind = "activate" /\ m.status = "applied"
    <3>1. \E r \in probe.receipts : Activated(r)
      BY <1>2, <2>4 DEF Activated
    <3> QED BY <1>0, <1>1, <1>8, <2>1, <2>2, <2>4, <3>1 DEF InForce
  <2>5. CASE m.kind = "activate" /\ m.status # "applied"
    \* The probe holds one receipt of the activation, and it is this refusal.
    <3>1. ~\E r \in probe.receipts : Activated(r)
      BY <1>0, <1>2, <2>5 DEF ReceiptsFit, Activated
    <3>2. probe.current = hub.current
      BY <1>0, <1>2, <2>2, <2>5, <3>1 DEF InForce
    <3> QED BY <1>0, <1>1, <1>8, <2>1, <2>2, <2>5, <3>1, <3>2 DEF InForce
  <2> QED BY <1>2, <2>3, <2>4, <2>5 DEF Kinds
<1>14. RowFits' /\ RetiredStays' /\ SupersededSessionsEnd'
  BY <1>1, <1>5 DEF RotationInv, RowFits, RetiredStays, SupersededSessionsEnd
<1> QED BY <1>9, <1>10, <1>11, <1>12, <1>13, <1>14 DEF RotationInv

LEMMA EndStep ==
  ASSUME Parameters, RotationInv, EndSocket \/ Drop
  PROVE  RotationInv'
<1>1. /\ Close /\ UNCHANGED <<hub, probe, retired, hubNow, edgeNow, steps>>
      /\ drops' \in {drops, drops + 1} /\ (drops' = drops \/ drops < MaxDrops)
  BY DEF EndSocket, Drop
<1>2. drops' \in 0..MaxDrops
  <2>1. drops \in 0..MaxDrops
    BY DEF RotationInv, RotationTypeOK
  <2> QED BY <1>1, <2>1, NeverPrecedes
<1> QED BY <1>1, <1>2, CloseStep

-----------------------------------------------------------------------------
(* The theorems.                                                           *)

LEMMA InvariantKept ==
  ASSUME Parameters, RotationInv, [RotationNext]_rotationVars
  PROVE  RotationInv'
<1>1. CASE UNCHANGED rotationVars
  <2>1. UNCHANGED <<hub, probe, sess, wire, hubNow, edgeNow, retired, steps, drops>>
    BY <1>1 DEF rotationVars
  <2>2. RotationTypeOK' /\ HubShape' /\ OneOutstanding' /\ ReceiptsFit'
    BY <2>1 DEF RotationInv, RotationTypeOK, HubShape, OneOutstanding, ReceiptsFit
  <2>3. InForce' /\ RowFits' /\ RetiredStays' /\ SupersededSessionsEnd'
    BY <2>1 DEF RotationInv, InForce, Activated, RowFits, RetiredStays, SupersededSessionsEnd
  <2> QED BY <2>2, <2>3 DEF RotationInv
<1>2. CASE \E v \in Versions : CreateCredentialRotation(v)
  BY <1>2, CreateStep
<1>3. CASE SelectCredentialConnection \/ AuthenticateRuntime \/ AcceptCredentialConnection
           \/ ConfirmCredentialConnection
  BY <1>3, SelectStep, AuthenticateStep, AcceptStep, ConfirmStep
<1>4. CASE \E k \in Kinds : ClaimCommand(k)
  BY <1>4, ClaimStep
<1>5. CASE \E m \in Requests : ApplyCredentialCommand(m) \/ DropQuiesced(m)
  BY <1>5, ApplyStep, DropStep DEF Requests
<1>6. CASE \E m \in Results : RecordCommandResult(m)
  BY <1>6, ResultStep DEF Results
<1>7. CASE EndSocket \/ Drop \/ RotationTick \/ SetEdgeClock
  BY <1>7, EndStep, TimeStep
<1> QED BY <1>1, <1>2, <1>3, <1>4, <1>5, <1>6, <1>7 DEF RotationNext

\* What the invariant says of the hub's way in, of sessions and of receipts.
LEMMA InvariantIsSafe ==
  ASSUME Parameters, RotationInv
  PROVE  RotationIsSafe
<1>0. RotationTypeOK /\ HubShape /\ OneOutstanding /\ InForce /\ RowFits
  BY DEF RotationInv
<1>1. probe.current \in HubTries
  BY <1>0 DEF InForce, HubShape, RotationTypeOK, States, HubTries
<1>2. \E c \in runtimeCredentials(expireCredentialOverlaps(probe.row)) : c.ver = probe.current
  <2>1. PICK row : row = expireCredentialOverlaps(probe.row)
    OBVIOUS
  <2>2. /\ row.v = probe.row.v /\ row.prev = probe.row.prev
        /\ row.activatedAt = probe.row.activatedAt
        /\ probe.row.closed => row.closed
        /\ row.v \in 0..MaxVersion
    BY <1>0, <2>1, Overdue DEF Row
  <2>3. ~row.closed => probe.current = IF row.activatedAt = Never THEN row.prev ELSE row.v
    BY <1>0, <2>2, NeverPrecedes DEF RowFits
  <2>4. \E c \in runtimeCredentials(row) : c.ver = probe.current
    BY <2>3 DEF runtimeCredentials
  <2> QED BY <2>1, <2>4
<1>3. ReceiptsAreRecorded
  BY ResultUsable DEF ReceiptsAreRecorded, Results
<1> QED BY <1>1, <1>2, <1>3 DEF RotationIsSafe, NeverLockedOut, RotationInv

\* The inductive invariant of the rotation: one outstanding command, one receipt
\* per command, and a probe whose credential, rotation row and retired versions
\* agree with them.
THEOREM RotationInvariant == ASSUME Parameters PROVE RotationSpec => []RotationInv
<1>1. RotationInit => RotationInv
  BY InitInvariant
<1>2. RotationInv /\ [RotationNext]_rotationVars => RotationInv'
  BY InvariantKept
<1> QED BY <1>1, <1>2, PTL DEF RotationSpec

\* Neither side is left behind by a rotation, for any number of rotations, breaks
\* and clock settings: the hub tries the credential the probe accepts, sessions on
\* a superseded credential end, and every receipt can be recorded.
THEOREM RotationSafe == ASSUME Parameters PROVE RotationSpec => []RotationIsSafe
<1>1. RotationInv => RotationIsSafe
  BY InvariantIsSafe
<1> QED BY <1>1, RotationInvariant, PTL

\* A credential the probe has seen expire never opens a session again, whatever
\* its clock is set to afterwards (expireCredentialOverlaps is kept for good).
THEOREM RetiredStaysClosed == ASSUME Parameters PROVE RotationSpec => RetiredOpensNothing
<1>1. ASSUME RotationInv, [RotationNext]_rotationVars PROVE [OpensNothingRetired]_rotationVars
  <2>1. CASE AcceptCredentialConnection
    BY <2>1, <1>1, AcceptStep
  <2>2. CASE sess'.phase # "up" \/ sess.phase = "up"
    BY <2>2 DEF OpensNothingRetired
  <2>3. CASE AuthenticateRuntime
    <3>1. sess.phase = "dial" /\ sess'.phase # "up"
      BY <2>3, <1>1 DEF AuthenticateRuntime, Down, RotationInv, RotationTypeOK
    <3> QED BY <3>1, <2>2
  <2>4. CASE SelectCredentialConnection
    BY <2>4 DEF SelectCredentialConnection, Down, OpensNothingRetired
  <2>5. CASE ConfirmCredentialConnection \/ EndSocket
             \/ (\E m \in Requests : ApplyCredentialCommand(m) \/ DropQuiesced(m))
             \/ (\E m \in Results : RecordCommandResult(m))
             \/ (\E k \in Kinds : ClaimCommand(k))
    <3>1. sess.phase = "up"
      BY <2>5 DEF ConfirmCredentialConnection, EndSocket, ApplyCredentialCommand,
                  DropQuiesced, RecordCommandResult, ClaimCommand
    <3> QED BY <3>1, <2>2
  <2>6. CASE (\E v \in Versions : CreateCredentialRotation(v)) \/ RotationTick \/ SetEdgeClock
             \/ UNCHANGED rotationVars
    BY <2>6 DEF CreateCredentialRotation, RotationTick, SetEdgeClock, rotationVars, OpensNothingRetired
  <2>7. CASE Drop
    BY <2>7 DEF Drop, Close, Down, OpensNothingRetired
  <2> QED BY <1>1, <2>1, <2>3, <2>4, <2>5, <2>6, <2>7 DEF RotationNext
<1>2. RotationInv /\ [RotationNext]_rotationVars => [OpensNothingRetired]_rotationVars
  BY <1>1
<1> QED BY <1>2, RotationInvariant, PTL DEF RotationSpec, RetiredOpensNothing
=============================================================================
