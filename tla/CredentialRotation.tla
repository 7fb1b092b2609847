------------------------- MODULE CredentialRotation -------------------------
(***************************************************************************)
(* The rotation of the credential a hub uses to reach one remote probe     *)
(* (adapters/repository/probe_credential_rotation.go,                      *)
(* probe_credential_transition.go, probe_command.go on the hub;            *)
(* adapters/repository/edge/credential_rotation.go and command.go on the   *)
(* probe; the connector and the runtime session between them).             *)
(*                                                                         *)
(* The hub stores a candidate with two commands, prepare and activate.     *)
(* The probe keeps one credential in force and, while an overlap is open,  *)
(* a second one.  Every socket may break at any step and lose what is on   *)
(* it; both stores survive.  The probe's clock is its own and may be set   *)
(* back.  A credential is its version; a token never repeats.              *)
(***************************************************************************)
EXTENDS Integers, Sequences, FiniteSets

CONSTANTS
  MaxVersion,    \* versions an operator may issue
  Overlap,       \* domain.ProbeCredentialOverlap, in ticks
  Ahead,         \* how far ahead of the probe's clock a command may be dated
  Skew,          \* the largest step the probe's clock is set away from the hub's
  MaxTime,       \* the hub clock's bound
  MaxSteps,      \* how often the probe's clock is set
  MaxDrops       \* how often a socket breaks

\* What the theorems assume of the parameters.
Parameters ==
  /\ MaxVersion \in Nat \ {0}
  /\ {Overlap, Ahead, Skew, MaxTime, MaxSteps, MaxDrops} \subseteq Nat

VARIABLES
  hub,       \* the hub's connection row and its latest rotation with its commands
  probe,      \* the probe's credential in force, its latest rotation row, its receipts
  sess,      \* the connection attempt or socket in progress
  wire,      \* command requests and results on that socket
  hubNow, edgeNow,
  retired,   \* history: versions the probe has observed as no longer valid
  steps, drops

rotationVars == <<hub, probe, sess, wire, hubNow, edgeNow, retired, steps, drops>>

Kinds == {"prepare", "activate"}
Versions == 1..MaxVersion
Never == -(Skew + 1)    \* before every time the probe's clock shows

NoRow == [v |-> 0, prev |-> 0, exp |-> 0, preparedAt |-> 0,
          activatedAt |-> Never, closed |-> TRUE]
Down == [phase |-> "down", tries |-> <<>>, ver |-> 0, until |-> Never,
         ready |-> FALSE, quiesced |-> FALSE, ending |-> FALSE]

States == {"none", "preparing", "activating", "active", "failed"}
Statuses == {"applied", "rejected", "expired"}
Row == [v : 0..MaxVersion, prev : 0..MaxVersion, exp : Nat, preparedAt : Int,
        activatedAt : Int, closed : BOOLEAN]
Receipt == [kind : Kinds, v : Versions, status : Statuses, at : Int]
Message == [to : {"edge"}, kind : Kinds, v : Versions, created : Nat]
             \cup [to : {"hub"}, kind : Kinds, v : Versions, status : Statuses, at : Int]

RotationTypeOK ==
  /\ hub \in [current : Versions, highWater : Versions, state : States,
              v : 0..MaxVersion, prev : 0..MaxVersion, created : 0..MaxTime,
              prepare : {"none", "pending", "confirmed"},
              activate : {"none", "blocked", "pending", "canceled", "confirmed"}]
  /\ probe \in [current : Versions, highest : Versions, row : Row, receipts : SUBSET Receipt]
  /\ sess \in [phase : {"down", "dial", "hello", "up"}, tries : Seq(0..MaxVersion),
               ver : 0..MaxVersion, until : Int,
               ready : BOOLEAN, quiesced : BOOLEAN, ending : BOOLEAN]
  /\ wire \subseteq Message
  /\ hubNow \in 0..MaxTime /\ edgeNow \in Int /\ edgeNow > Never
  /\ retired \subseteq 0..MaxVersion
  /\ steps \in 0..MaxSteps /\ drops \in 0..MaxDrops

RotationInit ==
  /\ hub = [current |-> 1, highWater |-> 1, state |-> "none", v |-> 0, prev |-> 0,
            created |-> 0, prepare |-> "none", activate |-> "none"]
  /\ probe = [current |-> 1, highest |-> 1, row |-> NoRow, receipts |-> {}]
  /\ sess = Down /\ wire = {}
  /\ hubNow = 0 /\ edgeNow = 0
  /\ retired = {} /\ steps = 0 /\ drops = 0

-----------------------------------------------------------------------------
(* The hub issues a rotation. *)

Expires == hub.created + Overlap

\* CreateCredentialRotation: no other rotation unresolved or overlapping, a
\* version above the high-water mark; activation is stored blocked.
CreateCredentialRotation(v) ==
  /\ hub.state \notin {"preparing", "activating"}
  /\ hub.state = "none" \/ Expires <= hubNow
  /\ v > hub.highWater
  /\ hub' = [hub EXCEPT !.highWater = v, !.state = "preparing", !.v = v,
                        !.prev = hub.current, !.created = hubNow,
                        !.prepare = "pending", !.activate = "blocked"]
  /\ UNCHANGED <<probe, sess, wire, hubNow, edgeNow, retired, steps, drops>>

-----------------------------------------------------------------------------
(* The probe's credentials. *)

\* Mutant: expiry is decided by the clock alone and never kept.
expireMutant(row) == [row EXCEPT !.closed = row.v = 0 \/ row.exp <= edgeNow]

\* expireCredentialOverlaps: an overlap seen to have expired is closed for good.
expireCredentialOverlaps(row) ==
  [row EXCEPT !.closed = @ \/ row.exp <= edgeNow]

\* What a rotation row in force adds to the credential in force.
Other(row) == IF row.activatedAt = Never THEN row.v ELSE row.prev

\* runtimeCredentials: the versions the probe accepts, each with the deadline
\* of a session opened with it.  An inconsistent store accepts nobody.
runtimeCredentials(row) ==
  IF row.closed \/ edgeNow < row.preparedAt
  THEN {[ver |-> probe.current, until |-> Never]}
  ELSE IF probe.current # (IF row.activatedAt = Never THEN row.prev ELSE row.v)
  THEN {}
  ELSE {[ver |-> probe.current,
         until |-> IF row.activatedAt = Never THEN row.exp ELSE Never],
        [ver |-> Other(row), until |-> row.exp]}

\* The versions that stop being valid for good when the row is closed.
RetiredBy(row) == IF row.closed /\ row.v > 0 THEN {Other(row)} ELSE {}

Observe(row) ==
  /\ probe' = [probe EXCEPT !.row = row]
  /\ retired' = retired \cup RetiredBy(row)

-----------------------------------------------------------------------------
(* Connecting. *)

\* SelectCredentialConnection with connectOnce: the candidate of a rotation that
\* is being activated is tried first, the saved credential after it.
SelectCredentialConnection ==
  /\ sess.phase = "down"
  /\ sess' = [Down EXCEPT !.phase = "dial",
                          !.tries = IF hub.state = "activating"
                                    THEN <<hub.v, hub.current>> ELSE <<hub.current>>]
  /\ UNCHANGED <<hub, probe, wire, hubNow, edgeNow, retired, steps, drops>>

\* The pinned dial: the probe authenticates the header.  Its 401 before any
\* socket exists is the only error after which the next credential is tried.
AuthenticateRuntime ==
  /\ sess.phase = "dial"
  /\ \E row \in {expireCredentialOverlaps(probe.row)} :
       /\ Observe(row)
       /\ sess' = IF \E c \in runtimeCredentials(row) : c.ver = Head(sess.tries)
                  THEN [sess EXCEPT !.phase = "hello", !.ver = Head(sess.tries)]
                  ELSE IF Len(sess.tries) > 1
                  THEN [sess EXCEPT !.tries = Tail(sess.tries)]
                  ELSE Down
  /\ UNCHANGED <<hub, wire, hubNow, edgeNow, steps, drops>>

\* AcceptCredentialConnection: eligibility is checked again with the generation,
\* and this answer, not the header's, bounds the session.
AcceptCredentialConnection ==
  /\ sess.phase = "hello"
  /\ \E row \in {expireCredentialOverlaps(probe.row)} :
       /\ Observe(row)
       /\ \E admitted \in {{c \in runtimeCredentials(row) : c.ver = sess.ver}} :
            sess' = IF admitted = {} THEN Down
                    ELSE [sess EXCEPT !.phase = "up", !.tries = <<>>,
                                      !.until = (CHOOSE c \in admitted : TRUE).until]
  /\ UNCHANGED <<hub, wire, hubNow, edgeNow, steps, drops>>

Close == sess' = Down /\ wire' = {}

\* An authenticated health frame: ConfirmCredentialConnection accepts the saved
\* credential or the candidate under activation, and ends any other session.
ConfirmCredentialConnection ==
  /\ sess.phase = "up"
  /\ IF sess.ver = hub.current \/ (hub.state = "activating" /\ sess.ver = hub.v)
     THEN ~sess.ready /\ sess' = [sess EXCEPT !.ready = TRUE] /\ UNCHANGED wire
     ELSE Close
  /\ UNCHANGED <<hub, probe, hubNow, edgeNow, retired, steps, drops>>

-----------------------------------------------------------------------------
(* Commands. *)

Request(k) == [to |-> "edge", kind |-> k, v |-> hub.v, created |-> hub.created]

\* ClaimCommand and sendCommands: a pending command is sent, expired or not.
ClaimCommand(k) ==
  /\ sess.phase = "up" /\ sess.ready
  /\ hub[k] = "pending"
  /\ \A m \in wire : m.kind # k
  /\ wire' = wire \cup {Request(k)}
  /\ UNCHANGED <<hub, probe, sess, hubNow, edgeNow, retired, steps, drops>>

\* prepareCredential on a row whose expired overlap was just closed.
prepareCredential(row, m) ==
  IF m.v <= probe.highest \/ m.v <= probe.current \/ ~row.closed
  THEN [status |-> "rejected", at |-> Never, current |-> probe.current,
        highest |-> probe.highest, row |-> row]
  ELSE [status |-> "applied", at |-> edgeNow, current |-> probe.current, highest |-> m.v,
        row |-> [v |-> m.v, prev |-> probe.current, exp |-> m.created + Overlap,
                 preparedAt |-> edgeNow, activatedAt |-> Never, closed |-> FALSE]]

\* activateCredential: only inside the overlap the preparation opened.
activateCredential(row, m) ==
  IF row.v = m.v /\ ~row.closed /\ edgeNow >= row.preparedAt
     /\ probe.highest = row.v /\ probe.current = row.prev
  THEN [status |-> "applied", at |-> edgeNow, current |-> row.v, highest |-> probe.highest,
        row |-> [row EXCEPT !.activatedAt = edgeNow]]
  ELSE [status |-> "rejected", at |-> Never, current |-> probe.current,
        highest |-> probe.highest, row |-> row]

\* applyCommand without a retained receipt.
Effect(row, m) ==
  IF edgeNow >= m.created + Overlap \/ m.created > edgeNow + Ahead
  THEN [status |-> IF edgeNow >= m.created + Overlap THEN "expired" ELSE "rejected",
        at |-> Never, current |-> probe.current, highest |-> probe.highest, row |-> row]
  ELSE IF m.kind = "prepare" THEN prepareCredential(row, m)
  ELSE activateCredential(row, m)

\* Mutant: an expired command is answered as expired before its receipt is
\* looked up.
ExpiredFirstMutant(m) ==
  /\ sess.phase = "up" /\ m \in wire /\ m.to = "edge"
  /\ ~sess.quiesced
  /\ \E row \in {expireCredentialOverlaps(probe.row)} :
     \E prior \in {{r \in probe.receipts : r.kind = m.kind /\ r.v = m.v
                                          /\ edgeNow < m.created + Overlap}} :
     \E e \in {IF prior # {} THEN CHOOSE r \in prior : TRUE ELSE Effect(row, m)} :
       /\ probe' = IF prior # {} THEN [probe EXCEPT !.row = row]
                  ELSE [current |-> e.current, highest |-> e.highest, row |-> e.row,
                        receipts |-> probe.receipts \cup
                          {[kind |-> m.kind, v |-> m.v, status |-> e.status, at |-> e.at]}]
       /\ retired' = retired \cup RetiredBy(row)
       /\ wire' = (wire \ {m}) \cup {[to |-> "hub", kind |-> m.kind, v |-> m.v,
                                      status |-> e.status, at |-> e.at]}
       /\ sess' = [sess EXCEPT !.quiesced = e.status = "applied"]
  /\ UNCHANGED <<hub, hubNow, edgeNow, steps, drops>>

\* applyCommand on the probe: a repeated command answers with its retained
\* receipt, expired or not.  A success quiesces the session.
ApplyCredentialCommand(m) ==
  /\ sess.phase = "up" /\ m \in wire /\ m.to = "edge"
  /\ ~sess.quiesced
  /\ \E row \in {expireCredentialOverlaps(probe.row)} :
     \E prior \in {{r \in probe.receipts : r.kind = m.kind /\ r.v = m.v}} :
     \E e \in {IF prior # {} THEN CHOOSE r \in prior : TRUE ELSE Effect(row, m)} :
       /\ probe' = IF prior # {} THEN [probe EXCEPT !.row = row]
                  ELSE [current |-> e.current, highest |-> e.highest, row |-> e.row,
                        receipts |-> probe.receipts \cup
                          {[kind |-> m.kind, v |-> m.v, status |-> e.status, at |-> e.at]}]
       /\ retired' = retired \cup RetiredBy(row)
       /\ wire' = (wire \ {m}) \cup {[to |-> "hub", kind |-> m.kind, v |-> m.v,
                                      status |-> e.status, at |-> e.at]}
       /\ sess' = [sess EXCEPT !.quiesced = e.status = "applied"]
  /\ UNCHANGED <<hub, hubNow, edgeNow, steps, drops>>

\* A quiesced session takes no further command: the frame is dropped.
DropQuiesced(m) ==
  /\ sess.phase = "up" /\ m \in wire /\ m.to = "edge" /\ sess.quiesced
  /\ wire' = wire \ {m}
  /\ UNCHANGED <<hub, probe, sess, hubNow, edgeNow, retired, steps, drops>>

\* completeCredentialRotation refuses a receipt dated outside the rotation, or
\* for a rotation in another state.
Usable(m) ==
  /\ hub.v = m.v
  /\ m.status = "applied" => m.at >= hub.created - Ahead /\ m.at < Expires
  /\ IF m.kind = "prepare" THEN hub.state = "preparing" /\ hub.activate = "blocked"
     ELSE hub.state = "activating"
          /\ (m.status = "applied" => hub.current = hub.prev /\ hub.highWater = hub.v)

\* Mutant: a rejected preparation leaves the rotation waiting.
completeMutant(m) ==
  IF m.kind = "prepare"
  THEN IF m.status = "applied"
       THEN [hub EXCEPT !.prepare = "confirmed", !.activate = "pending", !.state = "activating"]
       ELSE [hub EXCEPT !.prepare = "confirmed", !.activate = "canceled"]
  ELSE IF m.status = "applied"
       THEN [hub EXCEPT !.activate = "confirmed", !.state = "active", !.current = hub.v]
       ELSE [hub EXCEPT !.activate = "confirmed", !.state = "failed"]

\* completeCredentialRotation: the rows after a usable receipt.
completeCredentialRotation(m) ==
  IF m.kind = "prepare"
  THEN IF m.status = "applied"
       THEN [hub EXCEPT !.prepare = "confirmed", !.activate = "pending", !.state = "activating"]
       ELSE [hub EXCEPT !.prepare = "confirmed", !.activate = "canceled", !.state = "failed"]
  ELSE IF m.status = "applied"
       THEN [hub EXCEPT !.activate = "confirmed", !.state = "active", !.current = hub.v]
       ELSE [hub EXCEPT !.activate = "confirmed", !.state = "failed"]

\* RecordCommandResult: a committed receipt asks for a reconnect, a refused one
\* ends the session; a confirmed command is not changed by a repeated result.
RecordCommandResult(m) ==
  /\ sess.phase = "up" /\ m \in wire /\ m.to = "hub"
  /\ \E ok \in {hub.v = m.v /\ hub[m.kind] = "pending" /\ Usable(m)} :
       /\ hub' = IF ok THEN completeCredentialRotation(m) ELSE hub
       /\ wire' = IF ok THEN wire \ {m} ELSE {}
       /\ sess' = IF ok THEN [sess EXCEPT !.ending = TRUE] ELSE Down
  /\ UNCHANGED <<probe, hubNow, edgeNow, retired, steps, drops>>

\* The hub closes after a committed receipt; the probe closes a quiesced session
\* after its grace and any session at its deadline.
EndSocket ==
  /\ sess.phase = "up"
  /\ sess.ending \/ sess.quiesced \/ (sess.until # Never /\ sess.until <= edgeNow)
  /\ Close
  /\ UNCHANGED <<hub, probe, hubNow, edgeNow, retired, steps, drops>>

-----------------------------------------------------------------------------
(* Faults and time. *)

\* The socket breaks, or one of the two processes restarts.
Drop ==
  /\ sess.phase # "down" /\ drops < MaxDrops
  /\ drops' = drops + 1
  /\ Close
  /\ UNCHANGED <<hub, probe, hubNow, edgeNow, retired, steps>>

RotationTick ==
  /\ hubNow < MaxTime
  /\ hubNow' = hubNow + 1 /\ edgeNow' = edgeNow + 1
  /\ UNCHANGED <<hub, probe, sess, wire, retired, steps, drops>>

\* The probe's clock is set, forward or back.
SetEdgeClock ==
  /\ steps < MaxSteps
  /\ edgeNow' \in (hubNow - Skew)..(hubNow + Skew)
  /\ steps' = steps + 1
  /\ UNCHANGED <<hub, probe, sess, wire, hubNow, retired, drops>>

Requests == {m \in wire : m.to = "edge"}
Results == {m \in wire : m.to = "hub"}

RotationNext ==
  \/ \E v \in Versions : CreateCredentialRotation(v)
  \/ SelectCredentialConnection \/ AuthenticateRuntime \/ AcceptCredentialConnection
  \/ ConfirmCredentialConnection
  \/ \E k \in Kinds : ClaimCommand(k)
  \/ \E m \in Requests : ApplyCredentialCommand(m) \/ DropQuiesced(m)
  \/ \E m \in Results : RecordCommandResult(m)
  \/ EndSocket \/ Drop \/ RotationTick \/ SetEdgeClock

RotationSpec == RotationInit /\ [][RotationNext]_rotationVars

\* Sockets break finitely often; both processes keep running their loops.  A
\* result is recorded if it arrives again and again: the probe's grace of twelve
\* seconds before it closes exceeds the hub's bound of ten for the commit.
FairRotationSpec ==
  /\ RotationSpec
  /\ WF_rotationVars(SelectCredentialConnection) /\ WF_rotationVars(AuthenticateRuntime)
  /\ WF_rotationVars(AcceptCredentialConnection) /\ WF_rotationVars(ConfirmCredentialConnection)
  /\ \A k \in Kinds : WF_rotationVars(ClaimCommand(k))
  /\ WF_rotationVars(\E m \in Requests : ApplyCredentialCommand(m) \/ DropQuiesced(m))
  /\ SF_rotationVars(\E m \in Results : RecordCommandResult(m))
  /\ WF_rotationVars(EndSocket)

-----------------------------------------------------------------------------
(* Properties. *)

\* The credentials the next connection attempt will try.
HubTries == {hub.current} \cup (IF hub.state = "activating" THEN {hub.v} ELSE {})

\* The hub is never locked out: whatever was lost, and wherever either side
\* stopped, the credential the probe accepts for good is one that connectOnce
\* tries, and the probe's store never refuses everybody (the ErrStorage returns
\* of runtimeCredentials).
NeverLockedOut ==
  /\ probe.current \in HubTries
  /\ \E c \in runtimeCredentials(expireCredentialOverlaps(probe.row)) : c.ver = probe.current

\* A step opens no session on a credential the probe has seen retired.
OpensNothingRetired == sess.phase # "up" /\ sess'.phase = "up" => sess'.ver \notin retired

\* An overlap the probe has seen expire stays closed: the credential it retired
\* opens no session later, not even after the probe's clock is set back
\* (ReadRuntimeCredentials: "a later wall-clock rollback cannot revive it").
RetiredOpensNothing == [][OpensNothingRetired]_rotationVars

\* A session on a credential that is no longer in force ends by itself: it
\* carries the overlap's deadline, or the activation it carried quiesced it for
\* the probe to close, although sessions opened before the preparation, or while
\* the probe's clock was behind it, have no deadline.
SupersededSessionsEnd ==
  sess.phase = "up" /\ sess.ver # probe.current => sess.until # Never \/ sess.quiesced

\* The hub can record every receipt the probe sends for a command that is still
\* pending: none is refused for its date or its order, so that no rotation is
\* stuck re-sending a command whose answer the hub will not take.
ReceiptsAreRecorded ==
  \A m \in Results : hub.v = m.v /\ hub[m.kind] = "pending" => Usable(m)

\* Neither side is left behind by a rotation: the hub gets in, superseded
\* sessions end, and receipts are recorded.
RotationIsSafe == NeverLockedOut /\ SupersededSessionsEnd /\ ReceiptsAreRecorded
=============================================================================
