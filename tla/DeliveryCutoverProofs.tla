----------------------- MODULE DeliveryCutoverProofs -----------------------
(***************************************************************************)
(* The theorems of DeliveryCutover, for any members, barriers, tries,      *)
(* faults and provider timings: hub and member never page for the same     *)
(* outage at once, an active barrier has every gate applied, and no gate   *)
(* of a finished barrier holds anything back.                              *)
(*                                                                         *)
(* The argument.  A member's gate of a barrier only moves forward, from    *)
(* quiescing to released, so a command that arrives late cannot bring a    *)
(* hold back: what a recorded answer says of the gate stays true.  Gates   *)
(* are released by resumes alone, and the coordinator asks for a resume    *)
(* only once the hub's own provider attempt is over.                       *)
(***************************************************************************)
EXTENDS DeliveryCutover, FiniteSetTheorems, TLAPS

Phases == {"preparing", "quiescing", "quiesced", "applying", "active", "draining",
           "released", "blocked"}
RowStates == Outcomes \cup {"none", "pending", "canceled"}
Gates == Live \cup {"none", "released"}
Attempt == [row : BOOLEAN, io : BOOLEAN, age : Nat]
Tuples == [mode : {"aggregate", "both"}, set : Nat, configs : [Probes -> Nat],
           streams : [Probes -> Nat], activated : BOOLEAN]

Types ==
    /\ phase \in Phases /\ barriers \in Seq(Tuples) /\ barrier <= MaxBarriers
    /\ desired \in {"aggregate", "both", "regional"} /\ set \in Nat /\ revision \in Nat
    /\ config \in [Probes -> Nat] /\ acked \in [Probes -> Nat] /\ stream \in [Probes -> Nat]
    /\ rows \in [Command -> RowStates] /\ receipts \in [Command -> Outcomes \cup {"none"}]
    /\ sent \in [Probes -> Seq(Command)] /\ replies \in [Probes -> Seq(Command)]
    /\ gate \in [Probes -> [Barriers -> Gates]]
    /\ send \in [Probes -> Attempt] /\ aggregate \in Attempt

Cmd(p, b, k, n) == [probe |-> p, barrier |-> b, kind |-> k, try |-> n]

\* Nothing is known of a barrier before it exists.
RowsArePast == \A c \in Command : rows[c] # "none" => c.barrier <= barrier

\* A command is issued again only after its last try was busy or expired.
TriesInOrder ==
    \A c, d \in Command :
        /\ c.probe = d.probe /\ c.barrier = d.barrier /\ c.kind = d.kind
        /\ c.try < d.try /\ rows[d] # "none"
        => rows[c] \in {"busy", "expired"}

\* What travels was issued, and what comes back was answered.
WireFits ==
    \A p \in Probes :
        /\ \A i \in 1 .. Len(sent[p]) :
             sent[p][i].probe = p /\ p # Local /\ rows[sent[p][i]] # "none"
        /\ \A i \in 1 .. Len(replies[p]) :
             replies[p][i].probe = p /\ p # Local /\ receipts[replies[p][i]] # "none"

\* The hub's row repeats the member's receipt; the hub-local member answers at
\* once, and only its quiesce may find it busy.
AnswersAgree ==
    \A c \in Command :
        /\ c.probe # Local /\ rows[c] \in Outcomes => receipts[c] = rows[c]
        /\ c.probe = Local => /\ rows[c] \in {"none", "done", "busy"}
                              /\ rows[c] = "busy" => c.kind = "quiesce"

Done(c) == IF c.probe = Local THEN rows[c] = "done" ELSE receipts[c] = "done"

After == [quiesce |-> {"quiesced", "applied", "released"}, apply |-> {"applied", "released"},
          resume |-> {"released"}]

\* An executed command has left its mark on the gate for good.
GatesFollow == \A c \in Command : Done(c) => gate[c.probe][c.barrier] \in After[c.kind]

\* A gate is released by a resume alone.
ReleasedByResume ==
    \A p \in Probes, b \in Barriers :
        gate[p][b] = "released" => rows[Cmd(p, b, "resume", 1)] # "none"

NeverRefused == \A c \in Command : c.kind = "resume" => receipts[c] # "refused"

\* Resumes wait for the hub's own attempt and end the barrier; applies follow
\* the quiesce of every member.
CommandsInOrder ==
    \A c \in Command : c.barrier = barrier /\ rows[c] # "none" =>
        /\ c.kind = "resume" => phase \in {"draining", "released", "preparing"} /\ ~aggregate.row
        /\ c.kind = "apply" => phase \notin {"quiescing", "quiesced"}

Past(b) == b < barrier \/ (b = barrier /\ phase \in {"preparing", "released"})

\* A finished barrier is released wherever it was ever asked for anything.
PastIsReleased ==
    \A p \in Probes, b \in Barriers : Past(b) =>
        \/ gate[p][b] = "released"
        \/ gate[p][b] = "none" /\ \A c \in Command : c.probe = p /\ c.barrier = b => rows[c] = "none"

\* Nothing holds for a barrier to come.
NoGateAhead == \A p \in Probes, b \in Barriers : b > barrier => gate[p][b] = "none"

HeldGates ==
    /\ phase \in {"quiesced", "applying"} => \A p \in Probes : gate[p][barrier] \in {"quiesced", "applied"}
    /\ phase = "active" \/ aggregate.row => \A p \in Probes : gate[p][barrier] = "applied"

\* A hold and a page of the member exclude each other.
HoldsExclude ==
    \A p \in Probes, b \in 1 .. barrier :
        barriers[b].mode = "aggregate" /\ gate[p][b] \in {"quiesced", "applied"} => ~send[p].row

PhasesFit ==
    /\ phase # "preparing" => barrier > 0
    /\ aggregate.row => phase \in {"active", "draining"}
    /\ barrier > 0 /\ barriers[barrier].activated => phase \in {"active", "draining", "released", "preparing"}
    /\ phase = "blocked" => reason \in {"quiesce", "apply", "evidence"}
    /\ aggregate.io => aggregate.row
    /\ \A p \in Probes : send[p].io => send[p].row

Commands == RowsArePast /\ TriesInOrder /\ WireFits /\ AnswersAgree /\ NeverRefused
Holds == /\ GatesFollow /\ ReleasedByResume /\ CommandsInOrder /\ PastIsReleased /\ NoGateAhead
         /\ HeldGates /\ HoldsExclude

CutoverInv == Types /\ Commands /\ Holds /\ PhasesFit

----------------------------------------------------------------------------
\* The numbers among the parameters.
LEMMA Parameters ==
    /\ MaxTries \in Nat /\ MaxTries > 0 /\ MaxBarriers \in Nat /\ MaxRevision \in Nat
    /\ Settle \in Nat /\ Modes \subseteq {"aggregate", "both"} /\ 1 \in 1 .. MaxTries
BY CutoverAssumption

\* A barrier's number is a natural, and the present one is among Barriers.
LEMMA BarrierNumber == Types => barrier \in Nat /\ (barrier > 0 => barrier \in Barriers)
BY Parameters DEF Types, barrier, Barriers

\* A command is made of its fields.
LEMMA CommandFields ==
    \A c \in Command : /\ c.probe \in Probes /\ c.barrier \in Barriers /\ c.kind \in Kinds
                       /\ c.try \in 1 .. MaxTries /\ c = Cmd(c.probe, c.barrier, c.kind, c.try)
BY DEF Command, Cmd

\* Every combination of fields is a command.
LEMMA CommandOf ==
    \A p \in Probes, b \in Barriers, k \in Kinds, n \in 1 .. MaxTries : Cmd(p, b, k, n) \in Command
BY DEF Command, Cmd

\* The coordinator starts with no barrier, no command and no attempt.
LEMMA InitInvariant == Init => CutoverInv
<1> SUFFICES ASSUME Init PROVE CutoverInv
  OBVIOUS
<1>e. \A S : <<>> \in Seq(S) /\ Len(<<>>) = 0
  OBVIOUS
<1>0. barrier = 0 /\ barriers \in Seq(Tuples) /\ <<>> \in Seq(Command)
  BY <1>e DEF Init, barrier
<1>1. NoAttempt \in Attempt
  BY DEF NoAttempt, Attempt
<1>2. Types
  <2>0. barrier <= MaxBarriers
    BY <1>0, Parameters
  <2>1. phase \in Phases /\ "none" \in RowStates /\ "none" \in Gates
    BY DEF Init, Phases, RowStates, Gates
  <2>2. rows \in [Command -> RowStates] /\ receipts \in [Command -> Outcomes \cup {"none"}]
    BY <2>1 DEF Init
  <2>3. gate \in [Probes -> [Barriers -> Gates]]
    BY <2>1 DEF Init
  <2>4. /\ desired \in {"aggregate", "both", "regional"} /\ set \in Nat /\ revision \in Nat
        /\ config \in [Probes -> Nat] /\ acked \in [Probes -> Nat] /\ stream \in [Probes -> Nat]
    BY Parameters DEF Init
  <2>5. /\ sent \in [Probes -> Seq(Command)] /\ replies \in [Probes -> Seq(Command)]
        /\ send \in [Probes -> Attempt] /\ aggregate \in Attempt
    BY <1>0, <1>1 DEF Init
  <2> QED BY <1>0, <2>0, <2>1, <2>2, <2>3, <2>4, <2>5 DEF Types
<1>3. Commands
  <2>1. RowsArePast /\ TriesInOrder /\ AnswersAgree /\ NeverRefused
    BY DEF RowsArePast, TriesInOrder, AnswersAgree, NeverRefused, Init, Outcomes
  <2>2. \A p \in Probes : Len(sent[p]) = 0 /\ Len(replies[p]) = 0
    BY <1>e DEF Init
  <2>3. WireFits
    BY <2>2 DEF WireFits
  <2> QED BY <2>1, <2>3 DEF Commands
<1>4. Holds
  <2>1. GatesFollow
    BY DEF GatesFollow, Done, Init
  <2>2. ReleasedByResume
    BY DEF ReleasedByResume, Init
  <2>3. CommandsInOrder
    BY DEF CommandsInOrder, Init
  <2>4. PastIsReleased
    BY DEF PastIsReleased, Init
  <2>5. NoGateAhead /\ HeldGates /\ HoldsExclude
    BY <1>0 DEF NoGateAhead, HeldGates, HoldsExclude, Init, NoAttempt
  <2> QED BY <2>1, <2>2, <2>3, <2>4, <2>5 DEF Holds
<1>5. PhasesFit
  BY <1>0 DEF PhasesFit, Init, NoAttempt
<1> QED BY <1>2, <1>3, <1>4, <1>5 DEF CutoverInv

\* A step that moves neither the barrier, its commands nor the gates, and starts
\* no provider attempt.
LEMMA QuietStep ==
    ASSUME CutoverInv, Types',
           UNCHANGED <<phase, barriers, rows, receipts, gate, sent, replies>>,
           phase = "blocked" => reason' = reason,
           aggregate'.row => aggregate.row, aggregate'.io => aggregate'.row,
           \A p \in Probes : (send'[p].row => send[p].row) /\ (send'[p].io => send'[p].row)
    PROVE  CutoverInv'
<1>0. barrier' = barrier
  BY DEF barrier
<1>1. Commands'
  BY <1>0 DEF CutoverInv, Commands, RowsArePast, TriesInOrder, WireFits, AnswersAgree, NeverRefused
<1>2. GatesFollow' /\ ReleasedByResume'
  BY DEF CutoverInv, Holds, GatesFollow, Done, ReleasedByResume
<1>3. CommandsInOrder' /\ PastIsReleased' /\ NoGateAhead'
  BY <1>0 DEF CutoverInv, Holds, CommandsInOrder, PastIsReleased, Past, NoGateAhead
<1>4. HeldGates' /\ HoldsExclude'
  BY <1>0 DEF CutoverInv, Holds, HeldGates, HoldsExclude
<1>5. PhasesFit'
  BY <1>0 DEF CutoverInv, PhasesFit
<1> QED BY <1>1, <1>2, <1>3, <1>4, <1>5 DEF CutoverInv, Holds

\* An attempt stays well formed as it is granted, ages or ends; only a grant
\* makes a row.
LEMMA AttemptForms ==
    /\ NoAttempt \in Attempt /\ Granted \in Attempt /\ ~NoAttempt.row /\ ~NoAttempt.io
    /\ Granted.row
    /\ \A a \in Attempt : /\ [a EXCEPT !.io = FALSE] \in Attempt
                          /\ [a EXCEPT !.io = FALSE].row = a.row
                          /\ ~[a EXCEPT !.io = FALSE].io
                          /\ Older(a) \in Attempt
                          /\ Older(a).row => a.row
                          /\ (a.io => a.row) => (Older(a).io => Older(a).row)
<1>1. /\ NoAttempt \in Attempt /\ Granted \in Attempt /\ ~NoAttempt.row /\ ~NoAttempt.io
      /\ Granted.row
  BY DEF NoAttempt, Granted, Attempt
<1>2. ASSUME NEW a \in Attempt
      PROVE  /\ [a EXCEPT !.io = FALSE] \in Attempt
             /\ [a EXCEPT !.io = FALSE].row = a.row
             /\ ~[a EXCEPT !.io = FALSE].io
  BY DEF Attempt
<1>3. ASSUME NEW a \in Attempt
      PROVE  /\ Older(a) \in Attempt
             /\ Older(a).row => a.row
             /\ (a.io => a.row) => (Older(a).io => Older(a).row)
  <2>1. CASE a.row /\ a.age < Settle - 1
    <3>1. Older(a) = [a EXCEPT !.age = @ + 1]
      BY <2>1 DEF Older
    <3>2. [a EXCEPT !.age = @ + 1] \in Attempt
      BY DEF Attempt
    <3>3. [a EXCEPT !.age = @ + 1].row = a.row
      BY DEF Attempt
    <3> QED BY <2>1, <3>1, <3>2, <3>3
  <2>2. CASE ~(a.row /\ a.age < Settle - 1)
    <3>1. Older(a) = NoAttempt
      BY <2>2 DEF Older
    <3> QED BY <3>1, <1>1
  <2> QED BY <2>1, <2>2
<1> QED BY <1>1, <1>2, <1>3

\* A call that returned: the row is gone, or stays until its window is over.
LEMMA ReturnedAttempt ==
    ASSUME NEW a \in Attempt, NEW r, r = [a EXCEPT !.io = FALSE] \/ r = NoAttempt
    PROVE  r \in Attempt /\ ~r.io /\ (r.row => a.row)
<1>1. CASE r = [a EXCEPT !.io = FALSE]
  BY <1>1 DEF Attempt
<1>2. CASE r = NoAttempt
  BY <1>2, AttemptForms
<1> QED BY <1>1, <1>2

\* Provider calls that return, and time.
LEMMA AttemptsEnd ==
    ASSUME CutoverInv,
           Tick \/ ReturnAggregate \/ \E p \in Probes : ReturnRegional(p)
    PROVE  CutoverInv'
<1>t. /\ aggregate \in Attempt /\ send \in [Probes -> Attempt]
      /\ aggregate.io => aggregate.row
      /\ \A p \in Probes : send[p] \in Attempt /\ (send[p].io => send[p].row)
  BY DEF CutoverInv, Types, PhasesFit
<1>1. CASE Tick
  <2>1. /\ aggregate' = Older(aggregate) /\ send' = [p \in Probes |-> Older(send[p])]
        /\ UNCHANGED <<phase, reason, barriers, setVars, rows, config, acked, stream, wireVars, gate>>
    BY <1>1 DEF Tick
  <2>2. aggregate' \in Attempt /\ send' \in [Probes -> Attempt]
    BY <2>1, <1>t, AttemptForms
  <2>3. Types'
    BY <2>1, <2>2 DEF CutoverInv, Types, setVars, wireVars, barrier
  <2>4. /\ aggregate'.row => aggregate.row
        /\ aggregate'.io => aggregate'.row
        /\ \A p \in Probes : (send'[p].row => send[p].row) /\ (send'[p].io => send'[p].row)
    BY <2>1, <1>t, AttemptForms
  <2> QED BY <2>1, <2>3, <2>4, QuietStep DEF wireVars
<1>2. CASE ReturnAggregate
  <2>1. /\ aggregate' = [aggregate EXCEPT !.io = FALSE] \/ aggregate' = NoAttempt
        /\ UNCHANGED <<hubVars, setVars, rows, cool, probeVars, wireVars, gate, send>>
    BY <1>2 DEF ReturnAggregate
  <2>2. aggregate' \in Attempt /\ ~aggregate'.io /\ (aggregate'.row => aggregate.row)
    BY <2>1, <1>t, ReturnedAttempt
  <2>3. Types'
    BY <2>1, <2>2 DEF CutoverInv, Types, setVars, wireVars, barrier, hubVars, probeVars
  <2> QED BY <2>1, <2>2, <2>3, <1>t, QuietStep DEF wireVars, hubVars
<1>3. ASSUME NEW p \in Probes, ReturnRegional(p) PROVE CutoverInv'
  <2>1. PICK kept \in BOOLEAN :
          send' = [send EXCEPT ![p] = IF kept THEN [@ EXCEPT !.io = FALSE] ELSE NoAttempt]
    BY <1>3 DEF ReturnRegional
  <2>2. UNCHANGED <<hubVars, setVars, rows, cool, probeVars, wireVars, gate, aggregate>>
    BY <1>3 DEF ReturnRegional
  <2>3. \A q \in Probes : q # p => send'[q] = send[q]
    BY <2>1, <1>t
  <2>4. send'[p] = [send[p] EXCEPT !.io = FALSE] \/ send'[p] = NoAttempt
    BY <2>1, <1>t
  <2>5. send'[p] \in Attempt /\ ~send'[p].io /\ (send'[p].row => send[p].row)
    BY <2>4, <1>t, ReturnedAttempt
  <2>6. DOMAIN send' = Probes /\ send' = [q \in Probes |-> send'[q]]
    BY <2>1, <1>t
  <2>7. send' \in [Probes -> Attempt]
    BY <2>3, <2>5, <2>6, <1>t
  <2>8. Types'
    BY <2>2, <2>7 DEF CutoverInv, Types, setVars, wireVars, barrier, hubVars, probeVars
  <2> QED BY <2>2, <2>3, <2>5, <2>8, <1>t, QuietStep DEF wireVars, hubVars
<1> QED BY <1>1, <1>2, <1>3

\* What operators, configurations and sessions do apart from the gates.
LEMMA OperatorStep ==
    ASSUME CutoverInv,
           \/ Toggle \/ ChangeOther \/ DisabledPreparing
           \/ \E m \in Modes \cup {"regional"} : ChangeSet(m)
           \/ \E p \in Probes : ApplyConfig(p) \/ Acknowledge(p) \/ Connect(p)
    PROVE  CutoverInv'
<1>0. /\ UNCHANGED <<phase, barriers, rows, receipts, gate, sent, replies, send, aggregate>>
      /\ phase = "blocked" => reason' = reason
  BY DEF Toggle, ChangeOther, DisabledPreparing, ChangeSet, ApplyConfig, Acknowledge, Connect,
     hubVars, wireVars, sendVars, setVars, probeVars
<1> DEFINE Typed == /\ desired' \in {"aggregate", "both", "regional"} /\ set' \in Nat /\ revision' \in Nat
                    /\ config' \in [Probes -> Nat] /\ acked' \in [Probes -> Nat] /\ stream' \in [Probes -> Nat]
<1>1. Typed
  <2>0. /\ desired \in {"aggregate", "both", "regional"} /\ set \in Nat /\ revision \in Nat
        /\ config \in [Probes -> Nat] /\ acked \in [Probes -> Nat] /\ stream \in [Probes -> Nat]
    BY DEF CutoverInv, Types
  <2>1. CASE Toggle \/ ChangeOther \/ DisabledPreparing
    BY <2>0, <2>1 DEF Toggle, ChangeOther, DisabledPreparing, setVars, probeVars
  <2>2. ASSUME NEW m \in Modes \cup {"regional"}, ChangeSet(m) PROVE Typed
    BY <2>0, <2>2, Parameters DEF ChangeSet, probeVars
  <2>3. ASSUME NEW p \in Probes, ApplyConfig(p) \/ Acknowledge(p) \/ Connect(p) PROVE Typed
    BY <2>0, <2>3 DEF ApplyConfig, Acknowledge, Connect, setVars
  <2> QED BY <2>1, <2>2, <2>3
<1>2. Types'
  BY <1>0, <1>1 DEF CutoverInv, Types, barrier
<1> QED BY <1>0, <1>2, QuietStep DEF CutoverInv, PhasesFit

\* A member's page starts only while nothing holds it.
LEMMA StartRegionalStep ==
    ASSUME CutoverInv, NEW p \in Probes, StartRegional(p)
    PROVE  CutoverInv'
<1>1. /\ send' = [send EXCEPT ![p] = Granted] /\ ~HoldActive(p)
      /\ UNCHANGED <<hubVars, setVars, rows, cool, probeVars, wireVars, gate, aggregate>>
  BY DEF StartRegional
<1>2. send' \in [Probes -> Attempt] /\ \A q \in Probes : q # p => send'[q] = send[q]
  BY <1>1, AttemptForms DEF CutoverInv, Types
<1>3. Types' /\ barrier' = barrier
  BY <1>1, <1>2 DEF CutoverInv, Types, setVars, wireVars, barrier, hubVars, probeVars
<1>4. Commands'
  BY <1>1, <1>3 DEF CutoverInv, Commands, RowsArePast, TriesInOrder, WireFits, AnswersAgree,
     NeverRefused, wireVars
<1>5. GatesFollow' /\ ReleasedByResume'
  BY <1>1 DEF CutoverInv, Holds, GatesFollow, Done, ReleasedByResume, wireVars
<1>6. CommandsInOrder' /\ PastIsReleased' /\ NoGateAhead' /\ HeldGates'
  BY <1>1, <1>3 DEF CutoverInv, Holds, CommandsInOrder, PastIsReleased, Past, NoGateAhead, HeldGates, hubVars
<1>7. HoldsExclude'
  BY <1>1, <1>2, <1>3 DEF CutoverInv, Holds, HoldsExclude, HoldActive, hubVars
<1>8. PhasesFit'
  <2>1. \A q \in Probes : send'[q].io => send'[q].row
    BY <1>1, <1>2 DEF CutoverInv, PhasesFit, Granted, Types
  <2> QED BY <1>1, <1>3, <2>1 DEF CutoverInv, PhasesFit, hubVars
<1> QED BY <1>3, <1>4, <1>5, <1>6, <1>7, <1>8 DEF CutoverInv, Holds

\* The hub's page starts under an active barrier.
LEMMA StartAggregateStep ==
    ASSUME CutoverInv, StartAggregate
    PROVE  CutoverInv'
<1>1. /\ aggregate' = Granted /\ phase = "active"
      /\ UNCHANGED <<hubVars, setVars, rows, cool, probeVars, wireVars, gate, send>>
  BY DEF StartAggregate
<1>3. Types' /\ barrier' = barrier
  BY <1>1, AttemptForms DEF CutoverInv, Types, setVars, wireVars, barrier, hubVars, probeVars
<1>4. Commands'
  BY <1>1, <1>3 DEF CutoverInv, Commands, RowsArePast, TriesInOrder, WireFits, AnswersAgree,
     NeverRefused, wireVars
<1>5. GatesFollow' /\ ReleasedByResume'
  BY <1>1 DEF CutoverInv, Holds, GatesFollow, Done, ReleasedByResume, wireVars
<1>6. CommandsInOrder' /\ PastIsReleased' /\ NoGateAhead' /\ HeldGates'
  BY <1>1, <1>3 DEF CutoverInv, Holds, CommandsInOrder, PastIsReleased, Past, NoGateAhead, HeldGates, hubVars
<1>7. HoldsExclude'
  BY <1>1, <1>3 DEF CutoverInv, Holds, HoldsExclude, hubVars
<1>8. PhasesFit'
  BY <1>1, <1>3 DEF CutoverInv, PhasesFit, hubVars, Granted
<1> QED BY <1>3, <1>4, <1>5, <1>6, <1>7, <1>8 DEF CutoverInv, Holds

----------------------------------------------------------------------------
(* Commands of the present barrier.                                        *)

\* The tries of a command are numbered without a gap, so their number is the
\* latest of them.
LEMMA IssuedSegment ==
    ASSUME Types, TriesInOrder, barrier \in Barriers, NEW p \in Probes, NEW k \in Kinds,
           NEW n, n = Cardinality(Issued(p, k))
    PROVE  n \in 0 .. MaxTries /\ Issued(p, k) = 1 .. n
<1> DEFINE S == Issued(p, k)
<1>1. S \subseteq 1 .. MaxTries /\ MaxTries \in Nat
  BY Parameters DEF Issued
<1>2. IsFiniteSet(1 .. MaxTries) /\ Cardinality(1 .. MaxTries) = MaxTries
  BY Parameters, FS_Interval
<1>3. IsFiniteSet(S) /\ Cardinality(S) \in Nat /\ Cardinality(S) <= MaxTries
  BY <1>1, <1>2, FS_Subset, FS_CardinalityType
<1>4. ASSUME NEW m \in S, NEW j \in 1 .. m PROVE j \in S
  <2>1. m \in 1 .. MaxTries /\ j \in 1 .. MaxTries
    BY <1>1
  <2>2. Cmd(p, barrier, k, m) \in Command /\ Cmd(p, barrier, k, j) \in Command
    BY <2>1, CommandOf
  <2>3. rows[Cmd(p, barrier, k, m)] # "none"
    BY DEF Issued, Cmd
  <2>4. CASE j = m
    BY <2>4
  <2>5. CASE j < m
    <3>1. rows[Cmd(p, barrier, k, j)] \in {"busy", "expired"}
      <4>1. /\ Cmd(p, barrier, k, j).probe = Cmd(p, barrier, k, m).probe
            /\ Cmd(p, barrier, k, j).barrier = Cmd(p, barrier, k, m).barrier
            /\ Cmd(p, barrier, k, j).kind = Cmd(p, barrier, k, m).kind
            /\ Cmd(p, barrier, k, j).try < Cmd(p, barrier, k, m).try
        BY <2>5 DEF Cmd
      <4> QED BY <2>2, <2>3, <4>1 DEF TriesInOrder
    <3> QED BY <2>1, <3>1 DEF Issued, Cmd
  <2> QED BY <2>1, <2>4, <2>5
<1>5. ASSUME NEW m \in S PROVE m \in 1 .. n
  <2>0. m \in Nat /\ m >= 1
    BY <1>1
  <2>1. 1 .. m \subseteq S
    BY <1>4
  <2>2. IsFiniteSet(1 .. m) /\ Cardinality(1 .. m) = m
    BY <2>0, FS_Interval
  <2>3. Cardinality(1 .. m) <= Cardinality(S)
    BY <1>3, <2>1, FS_Subset
  <2> QED BY <2>0, <2>2, <2>3, <1>3
<1>6. S \subseteq 1 .. n
  BY <1>5
<1>7. IsFiniteSet(1 .. n) /\ Cardinality(1 .. n) = n
  BY <1>3, FS_Interval
<1>8. S = 1 .. n
  BY <1>6, <1>7, FS_Subset
<1> QED BY <1>3, <1>8

\* The state of a command is that of its latest try.
LEMMA StateOf ==
    ASSUME Types, TriesInOrder, barrier \in Barriers, NEW p \in Probes, NEW k \in Kinds
    PROVE  /\ State(p, k) = "none" =>
                Cardinality(Issued(p, k)) = 0 /\ \A n \in 1 .. MaxTries : rows[Cmd(p, barrier, k, n)] = "none"
           /\ State(p, k) # "none" =>
                /\ Cardinality(Issued(p, k)) \in 1 .. MaxTries
                /\ rows[Cmd(p, barrier, k, Cardinality(Issued(p, k)))] = State(p, k)
<1>0. PICK n : n = Cardinality(Issued(p, k))
  OBVIOUS
<1>1. n \in 0 .. MaxTries /\ Issued(p, k) = 1 .. n
  BY <1>0, IssuedSegment
<1>2. CASE n = 0
  <2>1. Issued(p, k) = {}
    BY <1>1, <1>2
  <2>2. \A j \in 1 .. MaxTries : rows[Cmd(p, barrier, k, j)] = "none"
    BY <2>1 DEF Issued, Cmd
  <2> QED BY <1>0, <1>2, <2>1, <2>2 DEF State
<1>3. CASE n # 0
  <2>1. n \in Issued(p, k) /\ n \in 1 .. MaxTries
    BY <1>1, <1>3
  <2>2. rows[Cmd(p, barrier, k, n)] # "none" /\ State(p, k) = rows[Cmd(p, barrier, k, n)]
    BY <2>1, <1>0 DEF Issued, Cmd, State, Current
  <2> QED BY <1>0, <2>1, <2>2
<1> QED BY <1>2, <1>3

\* A command that is done has left its mark on the gate.
LEMMA DoneMeans ==
    ASSUME CutoverInv, barrier \in Barriers, NEW p \in Probes, NEW k \in Kinds, State(p, k) = "done"
    PROVE  gate[p][barrier] \in After[k]
<1>1. PICK n \in 1 .. MaxTries : rows[Cmd(p, barrier, k, n)] = "done"
  BY StateOf DEF CutoverInv, Commands
<1>2. PICK c \in Command : c = Cmd(p, barrier, k, n)
  BY CommandOf
<1>3. c.probe = p /\ c.barrier = barrier /\ c.kind = k /\ rows[c] = "done"
  BY <1>1, <1>2 DEF Cmd
<1>4. Done(c)
  BY <1>3 DEF Done, CutoverInv, Commands, AnswersAgree, Outcomes
<1> QED BY <1>3, <1>4 DEF CutoverInv, Holds, GatesFollow

\* Before a barrier is drained none of its gates is released.
LEMMA NotReleased ==
    ASSUME CutoverInv, barrier \in Barriers, phase \notin {"draining", "released", "preparing"},
           NEW p \in Probes
    PROVE  gate[p][barrier] # "released"
<1>1. PICK c \in Command : c = Cmd(p, barrier, "resume", 1)
  BY CommandOf, Parameters DEF Kinds
<1>2. c.barrier = barrier /\ c.kind = "resume"
  BY <1>1 DEF Cmd
<1> QED BY <1>1, <1>2 DEF CutoverInv, Holds, ReleasedByResume, CommandsInOrder

----------------------------------------------------------------------------
(* The coordinator's moves that issue nothing.                             *)

\* What a change of phase has to respect, when commands, gates and attempts stay.
LEMMA MoveStep ==
    ASSUME CutoverInv, phase' \in Phases,
           UNCHANGED <<setVars, rows, probeVars, wireVars, gate, sendVars>>,
           barriers' \in Seq(Tuples), barrier' = barrier, barrier > 0,
           \A b \in 1 .. barrier : barriers'[b].mode = barriers[b].mode,
           \* commands
           \A c \in Command : c.barrier = barrier /\ rows[c] # "none" =>
             /\ c.kind = "resume" => phase' \in {"draining", "released", "preparing"}
             /\ c.kind = "apply" => phase' \notin {"quiescing", "quiesced"},
           \* gates
           phase' \in {"preparing", "released"} =>
             phase \in {"preparing", "released"} \/ \A p \in Probes : gate[p][barrier] = "released",
           phase' \in {"quiesced", "applying"} => \A p \in Probes : gate[p][barrier] \in {"quiesced", "applied"},
           phase' = "active" => \A p \in Probes : gate[p][barrier] = "applied",
           \* phases
           aggregate.row => phase' \in {"active", "draining"},
           barriers'[barrier].activated => phase' \in {"active", "draining", "released", "preparing"},
           phase' = "blocked" => reason' \in {"quiesce", "apply", "evidence"}
    PROVE  CutoverInv'
<1>1. Types'
  BY DEF CutoverInv, Types, setVars, probeVars, wireVars, sendVars
<1>2. Commands'
  BY DEF CutoverInv, Commands, RowsArePast, TriesInOrder, WireFits, AnswersAgree, NeverRefused, wireVars
<1>3. GatesFollow' /\ ReleasedByResume'
  BY DEF CutoverInv, Holds, GatesFollow, Done, ReleasedByResume, wireVars
<1>4. CommandsInOrder'
  BY DEF CutoverInv, Holds, CommandsInOrder, sendVars
<1>5. NoGateAhead' /\ HeldGates'
  BY DEF CutoverInv, Holds, NoGateAhead, HeldGates, sendVars
<1>6. PastIsReleased'
  BY DEF CutoverInv, Holds, PastIsReleased, Past
<1>7. HoldsExclude'
  BY DEF CutoverInv, Holds, HoldsExclude, sendVars
<1>8. PhasesFit'
  BY DEF CutoverInv, PhasesFit, sendVars
<1> QED BY <1>1, <1>2, <1>3, <1>4, <1>5, <1>6, <1>7, <1>8 DEF CutoverInv, Holds

\* Entering the drain.
LEMMA DrainStep ==
    ASSUME CutoverInv, NEW why, EnterDraining(why), phase # "preparing", phase # "released"
    PROVE  CutoverInv'
<1>1. /\ phase' = "draining" /\ phase' \in Phases
      /\ UNCHANGED <<barriers, setVars, rows, probeVars, wireVars, gate, sendVars>>
  BY DEF EnterDraining, Phases
<1>2. barrier > 0 /\ barrier' = barrier /\ barriers' \in Seq(Tuples)
  BY <1>1 DEF CutoverInv, Types, PhasesFit, barrier
<1> QED BY <1>1, <1>2, MoveStep

\* Every way a barrier is given up leads to the drain.
LEMMA DrainingPasses ==
    ASSUME CutoverInv, PreActiveDrain \/ ActivePass \/ BlockedPass
    PROVE  CutoverInv'
<1>1. phase # "preparing" /\ phase # "released"
  BY DEF PreActiveDrain, ActivePass, BlockedPass
<1>2. PICK why : EnterDraining(why)
  BY DEF PreActiveDrain, ActivePass, BlockedPass
<1> QED BY <1>1, <1>2, DrainStep

\* A finished barrier makes room for the next preparation.
LEMMA ReleasedStep ==
    ASSUME CutoverInv, ReleasedPass
    PROVE  CutoverInv'
<1>1. /\ phase' = "preparing" /\ phase' \in Phases /\ phase = "released"
      /\ UNCHANGED <<barriers, setVars, rows, probeVars, wireVars, gate, sendVars>>
  BY DEF ReleasedPass, Phases
<1>2. barrier > 0 /\ barrier' = barrier /\ barriers' \in Seq(Tuples) /\ ~aggregate.row
  BY <1>1 DEF CutoverInv, Types, PhasesFit, barrier
<1> QED BY <1>1, <1>2, MoveStep

\* Every member has quiesced.
LEMMA QuiescedStep ==
    ASSUME CutoverInv, phase = "quiescing", AllDone("quiesce"), Move("quiesced"), UNCHANGED <<rows, cool, gate>>
    PROVE  CutoverInv'
<1>1. /\ phase' = "quiesced" /\ phase' \in Phases
      /\ UNCHANGED <<reason, barriers, setVars, rows, probeVars, wireVars, gate, sendVars>>
  BY DEF Move, Phases
<1>2. barrier > 0 /\ barrier' = barrier /\ barriers' \in Seq(Tuples) /\ barrier \in Barriers
  BY <1>1, BarrierNumber DEF CutoverInv, Types, PhasesFit, barrier
<1>3. \A p \in Probes : gate[p][barrier] \in {"quiesced", "applied"}
  BY <1>2, DoneMeans, NotReleased DEF AllDone, After, Kinds
<1>4. /\ ~aggregate.row /\ ~barriers[barrier].activated
      /\ \A c \in Command : c.barrier = barrier /\ rows[c] # "none" => c.kind = "quiesce"
  BY <1>2, CommandFields DEF CutoverInv, Holds, PhasesFit, CommandsInOrder, Kinds
<1> QED BY <1>1, <1>2, <1>3, <1>4, MoveStep

\* Every member has applied: the barrier is active, or blocked over a lapsed session.
LEMMA ActivationStep ==
    ASSUME CutoverInv, phase = "applying", AllDone("apply"), UNCHANGED <<setVars, rows, probeVars, wireVars, gate, sendVars>>,
           \/ phase' = "active" /\ barriers' = [barriers EXCEPT ![barrier].activated = TRUE]
           \/ phase' = "blocked" /\ reason' = "evidence" /\ UNCHANGED barriers
    PROVE  CutoverInv'
<1>1. phase' \in Phases
  BY DEF Phases
<1>2. barrier > 0 /\ barrier \in Barriers /\ barriers \in Seq(Tuples) /\ barrier \in DOMAIN barriers
  BY BarrierNumber DEF CutoverInv, Types, PhasesFit, barrier
<1>3. \A p \in Probes : gate[p][barrier] = "applied"
  BY <1>2, DoneMeans, NotReleased DEF AllDone, After, Kinds
<1>4. /\ ~aggregate.row /\ ~barriers[barrier].activated
      /\ \A c \in Command : c.barrier = barrier /\ rows[c] # "none" => c.kind # "resume"
  BY <1>2 DEF CutoverInv, Holds, PhasesFit, CommandsInOrder
<1>5. barriers[barrier] \in Tuples
  BY <1>2
<1>6. [barriers[barrier] EXCEPT !.activated = TRUE] \in Tuples
  BY <1>5 DEF Tuples
<1>7. /\ barriers' \in Seq(Tuples) /\ barrier' = barrier
      /\ \A b \in 1 .. barrier : barriers'[b].mode = barriers[b].mode
  <2>1. CASE UNCHANGED barriers
    BY <2>1, <1>2 DEF barrier
  <2>2. CASE barriers' = [barriers EXCEPT ![barrier].activated = TRUE]
    <3>1. barriers' = [barriers EXCEPT ![barrier] = [barriers[barrier] EXCEPT !.activated = TRUE]]
      BY <2>2
    <3>2. barriers' \in Seq(Tuples) /\ Len(barriers') = Len(barriers)
      BY <3>1, <1>2, <1>6
    <3>3. \A b \in 1 .. barrier : b # barrier => barriers'[b] = barriers[b]
      BY <3>1, <1>2 DEF barrier
    <3>4. barriers'[barrier] = [barriers[barrier] EXCEPT !.activated = TRUE]
      BY <3>1, <1>2
    <3>5. barriers'[barrier].mode = barriers[barrier].mode
      BY <3>4, <1>5 DEF Tuples
    <3> QED BY <3>2, <3>3, <3>5 DEF barrier
  <2> QED BY <2>1, <2>2
<1>8. barriers'[barrier].activated => phase' = "active"
  BY <1>4
<1> QED BY <1>1, <1>2, <1>3, <1>4, <1>7, <1>8, MoveStep

\* Every member has resumed.
LEMMA DrainedStep ==
    ASSUME CutoverInv, phase = "draining", ~aggregate.row, AllDone("resume"), phase' = "released",
           UNCHANGED <<barriers, setVars, rows, probeVars, wireVars, gate, sendVars>>
    PROVE  CutoverInv'
<1>1. phase' \in Phases
  BY DEF Phases
<1>2. barrier > 0 /\ barrier' = barrier /\ barriers' \in Seq(Tuples) /\ barrier \in Barriers
  BY BarrierNumber DEF CutoverInv, Types, PhasesFit, barrier
<1>3. \A p \in Probes : gate[p][barrier] = "released"
  BY <1>2, DoneMeans DEF AllDone, After, Kinds
<1> QED BY <1>1, <1>2, <1>3, MoveStep

----------------------------------------------------------------------------
(* The wire.                                                               *)

\* A step that sends, loses, records or withdraws commands: a pending row may
\* take the member's answer or be cancelled, and nothing else changes.
LEMMA WireStep ==
    ASSUME CutoverInv, Types',
           UNCHANGED <<phase, reason, barriers, receipts, gate, send, aggregate>>,
           \A d \in Command :
             \/ rows'[d] = rows[d]
             \/ /\ rows[d] = "pending" /\ d.probe # Local /\ rows'[d] # "none"
                /\ rows'[d] \in Outcomes => receipts[d] = rows'[d],
           \A q \in Probes :
             /\ \A i \in 1 .. Len(sent'[q]) :
                  sent'[q][i].probe = q /\ q # Local /\ rows[sent'[q][i]] # "none"
             /\ \A i \in 1 .. Len(replies'[q]) :
                  replies'[q][i].probe = q /\ q # Local /\ receipts[replies'[q][i]] # "none"
    PROVE  CutoverInv'
<1>0. barrier' = barrier
  BY DEF barrier
<1>1. \A d \in Command : rows'[d] # "none" <=> rows[d] # "none"
  OBVIOUS
<1>2. RowsArePast' /\ NeverRefused'
  BY <1>0, <1>1 DEF CutoverInv, Commands, RowsArePast, NeverRefused
<1>3. TriesInOrder'
  <2> SUFFICES ASSUME NEW c \in Command, NEW d \in Command,
                      c.probe = d.probe, c.barrier = d.barrier, c.kind = d.kind,
                      c.try < d.try, rows'[d] # "none"
               PROVE  rows'[c] \in {"busy", "expired"}
    BY DEF TriesInOrder
  <2>1. rows[c] \in {"busy", "expired"}
    BY <1>1 DEF CutoverInv, Commands, TriesInOrder
  <2> QED BY <2>1
<1>4. WireFits'
  <2>1. \A q \in Probes : sent'[q] \in Seq(Command)
    BY DEF Types
  <2>2. \A q \in Probes : \A i \in 1 .. Len(sent'[q]) : sent'[q][i] \in Command
    BY <2>1
  <2> QED BY <1>1, <2>2 DEF WireFits
<1>5. AnswersAgree'
  BY DEF CutoverInv, Commands, AnswersAgree
<1>6. GatesFollow'
  BY DEF CutoverInv, Holds, GatesFollow, Done
<1>7. ReleasedByResume'
  <2>1. \A q \in Probes, b \in Barriers : Cmd(q, b, "resume", 1) \in Command
    BY CommandOf, Parameters DEF Kinds
  <2> QED BY <1>1, <2>1 DEF CutoverInv, Holds, ReleasedByResume
<1>8. CommandsInOrder' /\ PastIsReleased' /\ NoGateAhead'
  BY <1>0, <1>1 DEF CutoverInv, Holds, CommandsInOrder, PastIsReleased, Past, NoGateAhead
<1>9. HeldGates' /\ HoldsExclude' /\ PhasesFit'
  BY <1>0 DEF CutoverInv, Holds, HeldGates, HoldsExclude, PhasesFit
<1> QED BY <1>2, <1>3, <1>4, <1>5, <1>6, <1>7, <1>8, <1>9 DEF CutoverInv, Commands, Holds

\* Facts about a queue of commands.
LEMMA QueueForms ==
    ASSUME NEW s \in Seq(Command)
    PROVE  /\ \A c \in Command : /\ Append(s, c) \in Seq(Command)
                                 /\ \A i \in 1 .. Len(Append(s, c)) :
                                      Append(s, c)[i] = c \/ \E j \in 1 .. Len(s) : Append(s, c)[i] = s[j]
           /\ s # <<>> => /\ Head(s) \in Command /\ Tail(s) \in Seq(Command)
                          /\ Len(s) >= 1 /\ Head(s) = s[1] /\ 1 \in 1 .. Len(s)
                          /\ \A i \in 1 .. Len(Tail(s)) : \E j \in 1 .. Len(s) : Tail(s)[i] = s[j]
<1>1. ASSUME NEW c \in Command
      PROVE  /\ Append(s, c) \in Seq(Command)
             /\ \A i \in 1 .. Len(Append(s, c)) :
                  Append(s, c)[i] = c \/ \E j \in 1 .. Len(s) : Append(s, c)[i] = s[j]
  <2>1. Append(s, c) \in Seq(Command) /\ Len(Append(s, c)) = Len(s) + 1
    OBVIOUS
  <2>2. ASSUME NEW i \in 1 .. Len(Append(s, c))
        PROVE  Append(s, c)[i] = c \/ \E j \in 1 .. Len(s) : Append(s, c)[i] = s[j]
    <3>1. CASE i = Len(s) + 1
      BY <3>1
    <3>2. CASE i # Len(s) + 1
      <4>1. i \in 1 .. Len(s)
        BY <2>1, <3>2
      <4>2. Append(s, c)[i] = s[i]
        BY <4>1
      <4> QED BY <4>1, <4>2
    <3> QED BY <3>1, <3>2
  <2> QED BY <2>1, <2>2
<1>2. ASSUME s # <<>>
      PROVE  /\ Head(s) \in Command /\ Tail(s) \in Seq(Command)
             /\ Len(s) >= 1 /\ Head(s) = s[1] /\ 1 \in 1 .. Len(s)
             /\ \A i \in 1 .. Len(Tail(s)) : \E j \in 1 .. Len(s) : Tail(s)[i] = s[j]
  <2>1. Head(s) \in Command /\ Tail(s) \in Seq(Command) /\ Len(s) >= 1 /\ Head(s) = s[1]
    BY <1>2
  <2>2. Len(Tail(s)) = Len(s) - 1
    BY <1>2
  <2>3. ASSUME NEW i \in 1 .. Len(Tail(s)) PROVE \E j \in 1 .. Len(s) : Tail(s)[i] = s[j]
    <3>1. i + 1 \in 1 .. Len(s) /\ Tail(s)[i] = s[i + 1]
      BY <1>2, <2>2
    <3> QED BY <3>1
  <2> QED BY <2>1, <2>3
<1> QED BY <1>1, <1>2

\* ClaimCommand puts a pending row on the wire.
LEMMA ClaimStep ==
    ASSUME CutoverInv, NEW c \in Command, Claim(c)
    PROVE  CutoverInv'
<1>1. /\ rows[c] = "pending" /\ sent' = [sent EXCEPT ![c.probe] = Append(@, c)]
      /\ UNCHANGED <<hubVars, setVars, rows, cool, probeVars, replies, receipts, gate, sendVars>>
  BY DEF Claim
<1>2. c.probe \in Probes /\ c.probe # Local
  BY <1>1, CommandFields DEF CutoverInv, Commands, AnswersAgree
<1>3. sent \in [Probes -> Seq(Command)]
  BY DEF CutoverInv, Types
<1>4. /\ sent' \in [Probes -> Seq(Command)]
      /\ \A q \in Probes : sent'[q] = IF q = c.probe THEN Append(sent[q], c) ELSE sent[q]
  BY <1>1, <1>2, <1>3, QueueForms
<1>5. Types'
  BY <1>1, <1>4 DEF CutoverInv, Types, setVars, hubVars, probeVars, sendVars, barrier
<1>6. \A q \in Probes : \A i \in 1 .. Len(sent'[q]) :
        sent'[q][i].probe = q /\ q # Local /\ rows[sent'[q][i]] # "none"
  <2>1. \A q \in Probes : \A i \in 1 .. Len(sent[q]) :
          sent[q][i].probe = q /\ q # Local /\ rows[sent[q][i]] # "none"
    BY DEF CutoverInv, Commands, WireFits
  <2>2. ASSUME NEW i \in 1 .. Len(sent'[c.probe])
        PROVE  sent'[c.probe][i].probe = c.probe /\ rows[sent'[c.probe][i]] # "none"
    <3>1. sent'[c.probe] = Append(sent[c.probe], c) /\ sent[c.probe] \in Seq(Command)
      BY <1>2, <1>3, <1>4
    <3>2. sent'[c.probe][i] = c \/ \E j \in 1 .. Len(sent[c.probe]) : sent'[c.probe][i] = sent[c.probe][j]
      BY <3>1, QueueForms
    <3> QED BY <3>2, <2>1, <1>1, <1>2
  <2>3. \A q \in Probes : q # c.probe => sent'[q] = sent[q]
    BY <1>4
  <2> QED BY <2>1, <2>2, <2>3, <1>2
<1>7. \A q \in Probes : \A i \in 1 .. Len(replies'[q]) :
        replies'[q][i].probe = q /\ q # Local /\ receipts[replies'[q][i]] # "none"
  BY <1>1 DEF CutoverInv, Commands, WireFits
<1> QED BY <1>1, <1>5, <1>6, <1>7, WireStep DEF hubVars, sendVars

\* A session that ends, and the reset of a stream.
LEMMA SessionLost ==
    ASSUME CutoverInv, NEW p \in Probes, Drop(p) \/ ResetStream(p)
    PROVE  CutoverInv'
<1>0. /\ sent \in [Probes -> Seq(Command)] /\ replies \in [Probes -> Seq(Command)]
      /\ config \in [Probes -> Nat] /\ acked \in [Probes -> Nat] /\ stream \in [Probes -> Nat]
      /\ rows \in [Command -> RowStates]
      /\ <<>> \in Seq(Command) /\ Len(<<>>) = 0
  BY DEF CutoverInv, Types
<1>1. /\ sent' = [sent EXCEPT ![p] = <<>>] /\ replies' = [replies EXCEPT ![p] = <<>>]
      /\ UNCHANGED <<phase, reason, barriers, receipts, gate, send, aggregate, desired, set, revision>>
  BY DEF Drop, ResetStream, hubVars, sendVars
<1>2. /\ sent' \in [Probes -> Seq(Command)] /\ replies' \in [Probes -> Seq(Command)]
      /\ \A q \in Probes : q # p => sent'[q] = sent[q] /\ replies'[q] = replies[q]
      /\ Len(sent'[p]) = 0 /\ Len(replies'[p]) = 0
  BY <1>0, <1>1
<1>3. \A d \in Command : rows'[d] = rows[d] \/ (rows[d] = "pending" /\ rows'[d] = "canceled")
  BY <1>0 DEF Drop, ResetStream
<1>4. /\ config' \in [Probes -> Nat] /\ acked' \in [Probes -> Nat] /\ stream' \in [Probes -> Nat]
      /\ rows' \in [Command -> RowStates]
  <2>1. CASE Drop(p)
    BY <2>1, <1>0 DEF Drop
  <2>2. CASE ResetStream(p)
    <3>1. rows' = [c \in Command |-> IF c.probe = p /\ rows[c] = "pending" THEN "canceled" ELSE rows[c]]
      BY <2>2 DEF ResetStream
    <3>2. \A d \in Command : rows[d] \in RowStates /\ "canceled" \in RowStates
      BY <1>0 DEF RowStates
    <3>3. rows' \in [Command -> RowStates]
      BY <3>1, <3>2
    <3> QED BY <2>2, <3>3, <1>0 DEF ResetStream
  <2> QED BY <2>1, <2>2
<1>5. Types'
  BY <1>1, <1>2, <1>4 DEF CutoverInv, Types, barrier
<1>6. \A d \in Command : rows[d] = "pending" => d.probe # Local
  BY DEF CutoverInv, Commands, AnswersAgree
<1> DEFINE Fits(q) ==
        /\ \A i \in 1 .. Len(sent'[q]) :
             sent'[q][i].probe = q /\ q # Local /\ rows[sent'[q][i]] # "none"
        /\ \A i \in 1 .. Len(replies'[q]) :
             replies'[q][i].probe = q /\ q # Local /\ receipts[replies'[q][i]] # "none"
<1>7. \A q \in Probes : Fits(q)
  <2>1. WireFits
    BY DEF CutoverInv, Commands
  <2>2. ASSUME NEW q \in Probes, q # p PROVE Fits(q)
    <3>1. sent'[q] = sent[q] /\ replies'[q] = replies[q]
      BY <1>2, <2>2
    <3> QED BY <2>1, <3>1 DEF WireFits
  <2>3. \A i : i \notin 1 .. 0
    OBVIOUS
  <2>4. Fits(p)
    BY <1>2, <2>3
  <2> QED BY <2>2, <2>4
<1>8. \A d \in Command :
        \/ rows'[d] = rows[d]
        \/ /\ rows[d] = "pending" /\ d.probe # Local /\ rows'[d] # "none"
           /\ rows'[d] \in Outcomes => receipts[d] = rows'[d]
  BY <1>3, <1>6 DEF Outcomes
<1> QED BY <1>1, <1>5, <1>7, <1>8, WireStep

\* A queue of which some commands are gone and to which one may have been added.
LEMMA WireMoves ==
    ASSUME CutoverInv, NEW p \in Probes, p # Local, NEW c \in Command, c.probe = p,
           \* the commands
           NEW s \in Seq(Command), sent' = [sent EXCEPT ![p] = s],
           \A i \in 1 .. Len(s) : \E j \in 1 .. Len(sent[p]) : s[i] = sent[p][j],
           \* the results
           NEW r \in Seq(Command), replies' = [replies EXCEPT ![p] = r],
           \A i \in 1 .. Len(r) : \/ r[i] = c
                                  \/ \E j \in 1 .. Len(replies[p]) : r[i] = replies[p][j],
           \A d \in Command : receipts[d] # "none" => receipts'[d] # "none",
           c \in {r[i] : i \in 1 .. Len(r)} => receipts'[c] # "none"
    PROVE  /\ sent' \in [Probes -> Seq(Command)] /\ replies' \in [Probes -> Seq(Command)]
           /\ \A q \in Probes :
                /\ \A i \in 1 .. Len(sent'[q]) :
                     sent'[q][i].probe = q /\ q # Local /\ rows[sent'[q][i]] # "none"
                /\ \A i \in 1 .. Len(replies'[q]) :
                     replies'[q][i].probe = q /\ q # Local /\ receipts'[replies'[q][i]] # "none"
<1>0. sent \in [Probes -> Seq(Command)] /\ replies \in [Probes -> Seq(Command)] /\ WireFits
  BY DEF CutoverInv, Types, Commands
<1>1. /\ sent' \in [Probes -> Seq(Command)] /\ replies' \in [Probes -> Seq(Command)]
      /\ sent'[p] = s /\ replies'[p] = r
      /\ \A q \in Probes : q # p => sent'[q] = sent[q] /\ replies'[q] = replies[q]
  BY <1>0
<1>2. \A q \in Probes : \A i \in 1 .. Len(replies[q]) :
        replies[q][i] \in Command /\ replies[q][i].probe = q /\ q # Local /\ receipts'[replies[q][i]] # "none"
  <2> TAKE q \in Probes
  <2> TAKE i \in 1 .. Len(replies[q])
  <2>1. replies[q] \in Seq(Command)
    BY <1>0
  <2>2. replies[q][i] \in Command
    BY <2>1
  <2> QED BY <2>2, <1>0 DEF WireFits
<1>3. ASSUME NEW q \in Probes, q # p
      PROVE  /\ \A i \in 1 .. Len(sent'[q]) :
                  sent'[q][i].probe = q /\ q # Local /\ rows[sent'[q][i]] # "none"
             /\ \A i \in 1 .. Len(replies'[q]) :
                  replies'[q][i].probe = q /\ q # Local /\ receipts'[replies'[q][i]] # "none"
  BY <1>0, <1>1, <1>2, <1>3 DEF WireFits
<1>4. ASSUME NEW i \in 1 .. Len(s) PROVE s[i].probe = p /\ p # Local /\ rows[s[i]] # "none"
  <2>1. PICK j \in 1 .. Len(sent[p]) : s[i] = sent[p][j]
    OBVIOUS
  <2> QED BY <2>1, <1>0 DEF WireFits
<1>5. ASSUME NEW i \in 1 .. Len(r) PROVE r[i].probe = p /\ p # Local /\ receipts'[r[i]] # "none"
  <2>1. CASE r[i] = c
    BY <2>1
  <2>2. CASE r[i] # c
    <3>1. PICK j \in 1 .. Len(replies[p]) : r[i] = replies[p][j]
      BY <2>2
    <3> QED BY <3>1, <1>2
  <2> QED BY <2>1, <2>2
<1> QED BY <1>1, <1>3, <1>4, <1>5

\* CompleteCommand records the receipt of a row that still waits for it.
LEMMA CompleteStep ==
    ASSUME CutoverInv, NEW p \in Probes, Complete(p)
    PROVE  CutoverInv'
<1>0. /\ sent \in [Probes -> Seq(Command)] /\ replies \in [Probes -> Seq(Command)]
      /\ rows \in [Command -> RowStates] /\ receipts \in [Command -> Outcomes \cup {"none"}]
      /\ replies[p] \in Seq(Command) /\ sent[p] \in Seq(Command)
  BY DEF CutoverInv, Types
<1>1. /\ replies[p] # <<>> /\ replies' = [replies EXCEPT ![p] = Tail(@)]
      /\ UNCHANGED <<hubVars, setVars, probeVars, sent, receipts, gate, sendVars>>
  BY DEF Complete
<1>2. PICK c : /\ c = Head(replies[p])
               /\ IF rows[c] = "pending" THEN rows' = [rows EXCEPT ![c] = receipts[c]] ELSE rows' = rows
  BY DEF Complete
<1>3. c \in Command /\ c = replies[p][1] /\ 1 \in 1 .. Len(replies[p])
  BY <1>0, <1>1, <1>2, QueueForms
<1>4. c.probe = p /\ p # Local /\ receipts[c] # "none"
  BY <1>3 DEF CutoverInv, Commands, WireFits
<1>5. receipts[c] \in Outcomes /\ receipts[c] \in RowStates
  BY <1>0, <1>3, <1>4 DEF RowStates
<1>6. rows' \in [Command -> RowStates]
  BY <1>0, <1>2, <1>5
<1>7. \A d \in Command :
        \/ rows'[d] = rows[d]
        \/ /\ rows[d] = "pending" /\ d.probe # Local /\ rows'[d] # "none"
           /\ rows'[d] \in Outcomes => receipts[d] = rows'[d]
  BY <1>0, <1>2, <1>3, <1>4
<1>8. /\ Tail(replies[p]) \in Seq(Command)
      /\ \A i \in 1 .. Len(Tail(replies[p])) : \E j \in 1 .. Len(replies[p]) : Tail(replies[p])[i] = replies[p][j]
  BY <1>0, <1>1, QueueForms
<1>9. sent' = [sent EXCEPT ![p] = sent[p]]
  BY <1>0, <1>1
<1>10. replies' = [replies EXCEPT ![p] = Tail(replies[p])]
  BY <1>0, <1>1
<1>11. receipts' = receipts
  BY <1>1
<1>12. /\ replies' \in [Probes -> Seq(Command)]
       /\ \A q \in Probes :
            /\ \A i \in 1 .. Len(sent'[q]) :
                 sent'[q][i].probe = q /\ q # Local /\ rows[sent'[q][i]] # "none"
            /\ \A i \in 1 .. Len(replies'[q]) :
                 replies'[q][i].probe = q /\ q # Local /\ receipts'[replies'[q][i]] # "none"
  BY <1>0, <1>3, <1>4, <1>8, <1>9, <1>10, <1>11, WireMoves
<1>13. Types'
  BY <1>1, <1>6, <1>12 DEF CutoverInv, Types, setVars, hubVars, probeVars, sendVars, barrier
<1>14. \A q \in Probes :
         /\ \A i \in 1 .. Len(sent'[q]) :
              sent'[q][i].probe = q /\ q # Local /\ rows[sent'[q][i]] # "none"
         /\ \A i \in 1 .. Len(replies'[q]) :
              replies'[q][i].probe = q /\ q # Local /\ receipts[replies'[q][i]] # "none"
  BY <1>11, <1>12
<1>15. UNCHANGED <<phase, reason, barriers, receipts, gate, send, aggregate>>
  BY <1>1 DEF hubVars, sendVars
<1> QED BY <1>7, <1>13, <1>14, <1>15, WireStep

----------------------------------------------------------------------------
(* The member's gate.                                                      *)

\* What a command does to the gate it meets: gates move forward only, and a hold
\* starts only over finished attempts.
Forward(g, h) ==
    /\ g = "released" => h = "released"
    /\ g = "applied" => h \in {"applied", "released"}
    /\ g = "quiesced" => h \in {"quiesced", "applied", "released"}

\* What a quiesce may do to a gate: it never goes back, releases nothing, and a
\* new hold needs a member with no page under way.
LEMMA QuiesceForms ==
    ASSUME CutoverInv, NEW c \in Command, c.kind = "quiesce", NEW g, g = gate[c.probe][c.barrier]
    PROVE  /\ QuiesceOutcome(c)[1] \in Outcomes /\ QuiesceOutcome(c)[2] \in Gates
           /\ Forward(g, QuiesceOutcome(c)[2])
           /\ QuiesceOutcome(c)[2] = "released" => g = "released"
           /\ QuiesceOutcome(c)[1] = "done" => QuiesceOutcome(c)[2] \in After["quiesce"]
           /\ QuiesceOutcome(c)[2] \in {"quiesced", "applied"} => g \in {"quiesced", "applied"} \/ ~send[c.probe].row
<1>0. g \in Gates
  BY CommandFields DEF CutoverInv, Types
<1>1. CASE ~Bound(c) \/ g = "released" \/ (g = "none" /\ LiveElsewhere(c.probe, c.barrier))
  <2>1. QuiesceOutcome(c) = <<"refused", g>>
    BY <1>1 DEF QuiesceOutcome
  <2> QED BY <2>1, <1>0 DEF Outcomes, Forward, Gates, Live
<1>2. CASE Bound(c) /\ g \in {"quiesced", "applied"}
  <2>1. QuiesceOutcome(c) = <<"done", g>>
    BY <1>2 DEF QuiesceOutcome
  <2> QED BY <2>1, <1>2, <1>0 DEF Outcomes, Forward, Gates, Live, After
<1>3. CASE /\ Bound(c) /\ g # "released" /\ ~(g = "none" /\ LiveElsewhere(c.probe, c.barrier))
           /\ g \notin {"quiesced", "applied"}
  <2>1. QuiesceOutcome(c) = IF Unsettled(send[c.probe]) THEN <<"busy", "quiescing">> ELSE <<"done", "quiesced">>
    BY <1>3 DEF QuiesceOutcome
  <2>2. CASE Unsettled(send[c.probe])
    BY <2>1, <2>2, <1>0, <1>3 DEF Outcomes, Forward, Gates, Live
  <2>3. CASE ~Unsettled(send[c.probe])
    BY <2>1, <2>3, <1>0, <1>3 DEF Outcomes, Forward, Gates, Live, After, Unsettled
  <2> QED BY <2>2, <2>3
<1> QED BY <1>1, <1>2, <1>3

\* An apply only turns a quiesced gate into an applied one.
LEMMA ApplyForms ==
    ASSUME CutoverInv, NEW c \in Command, c.kind = "apply", NEW g, g = gate[c.probe][c.barrier]
    PROVE  /\ ApplyOutcome(c)[1] \in Outcomes /\ ApplyOutcome(c)[2] \in Gates
           /\ Forward(g, ApplyOutcome(c)[2])
           /\ ApplyOutcome(c)[2] = "released" => g = "released"
           /\ ApplyOutcome(c)[1] = "done" => ApplyOutcome(c)[2] \in After["apply"]
           /\ ApplyOutcome(c)[2] \in {"quiesced", "applied"} => g \in {"quiesced", "applied"}
<1>0. g \in Gates
  BY CommandFields DEF CutoverInv, Types
<1>1. CASE Bound(c) /\ g \in {"quiesced", "applied"}
  <2>1. ApplyOutcome(c) = <<"done", "applied">>
    BY <1>1 DEF ApplyOutcome
  <2> QED BY <2>1, <1>1 DEF Outcomes, Forward, Gates, Live, After
<1>2. CASE ~(Bound(c) /\ g \in {"quiesced", "applied"})
  <2>1. ApplyOutcome(c) = <<"refused", g>>
    BY <1>2 DEF ApplyOutcome
  <2> QED BY <2>1, <1>0 DEF Outcomes, Forward, Gates, Live
<1> QED BY <1>1, <1>2

\* A gate that is not released belongs to the present barrier.
LEMMA LiveIsCurrent ==
    ASSUME CutoverInv, NEW p \in Probes, NEW b \in Barriers, gate[p][b] \in Live
    PROVE  b = barrier /\ phase \notin {"preparing", "released"}
<1>1. barrier \in Nat /\ b \in Nat
  BY BarrierNumber, Parameters DEF CutoverInv, Barriers
<1>2. gate[p][b] # "none" /\ gate[p][b] # "released"
  BY DEF Live
<1> QED BY <1>1, <1>2 DEF CutoverInv, Holds, PastIsReleased, Past, NoGateAhead

\* No resume is refused: a gate of another barrier that still holds something
\* would be the present one's, and the resume then one of a finished barrier.
LEMMA ResumeForms ==
    ASSUME CutoverInv, NEW c \in Command, c.kind = "resume", rows[c] # "none"
    PROVE  ResumeOutcome(c) = <<"done", "released">>
<1>0. c.probe \in Probes /\ c.barrier \in Barriers
  BY CommandFields
<1>1. SUFFICES ASSUME gate[c.probe][c.barrier] = "none", LiveElsewhere(c.probe, c.barrier)
               PROVE  FALSE
  BY DEF ResumeOutcome
<1>2. PICK b \in Barriers \ {c.barrier} : gate[c.probe][b] \in Live
  BY <1>1 DEF LiveElsewhere
<1>3. b = barrier
  BY <1>0, <1>2, LiveIsCurrent
<1>4. barrier \in Nat /\ c.barrier \in Nat /\ c.barrier <= barrier
  BY <1>0, BarrierNumber, Parameters DEF CutoverInv, Commands, RowsArePast, Barriers
<1>5. Past(c.barrier)
  BY <1>2, <1>3, <1>4 DEF Past
<1> QED BY <1>0, <1>1, <1>5 DEF CutoverInv, Holds, PastIsReleased

\* What any issued command may do to its gate.
LEMMA OutcomeForms ==
    ASSUME CutoverInv, NEW c \in Command, rows[c] # "none", NEW g, g = gate[c.probe][c.barrier]
    PROVE  /\ Outcome(c)[1] \in Outcomes /\ Outcome(c)[2] \in Gates
           /\ Forward(g, Outcome(c)[2])
           /\ Outcome(c)[2] = "released" => g = "released" \/ c.kind = "resume"
           /\ Outcome(c)[1] = "done" => Outcome(c)[2] \in After[c.kind]
           /\ Outcome(c)[2] \in {"quiesced", "applied"} => g \in {"quiesced", "applied"} \/ ~send[c.probe].row
           /\ c.kind = "resume" => Outcome(c)[1] # "refused"
<1>1. CASE c.kind = "quiesce"
  <2>1. Outcome(c) = QuiesceOutcome(c)
    BY <1>1 DEF Outcome
  <2> QED BY <1>1, <2>1, QuiesceForms
<1>2. CASE c.kind = "apply"
  <2>1. Outcome(c) = ApplyOutcome(c)
    BY <1>2 DEF Outcome
  <2> QED BY <1>2, <2>1, ApplyForms
<1>3. CASE c.kind = "resume"
  <2>1. Outcome(c) = <<"done", "released">>
    BY <1>3, ResumeForms DEF Outcome
  <2>2. g \in Gates
    BY CommandFields DEF CutoverInv, Types
  <2> QED BY <1>3, <2>1, <2>2 DEF Outcomes, Gates, Live, Forward, After
<1> QED BY <1>1, <1>2, <1>3, CommandFields DEF Kinds

\* The member answers command c for the first time with outcome o and leaves
\* gate g.
LEMMA AnswerStep ==
    ASSUME CutoverInv, Types', NEW c \in Command, NEW o \in Outcomes, NEW g \in Gates,
           rows[c] # "none", c.probe # Local, receipts[c] = "none",
           receipts' = [receipts EXCEPT ![c] = o],
           gate' = [gate EXCEPT ![c.probe][c.barrier] = g],
           UNCHANGED <<phase, reason, barriers, rows, send, aggregate>>,
           Forward(gate[c.probe][c.barrier], g),
           g = "released" => gate[c.probe][c.barrier] = "released" \/ c.kind = "resume",
           o = "done" => g \in After[c.kind],
           g \in {"quiesced", "applied"} =>
             gate[c.probe][c.barrier] \in {"quiesced", "applied"} \/ ~send[c.probe].row,
           c.kind = "resume" => o # "refused",
           WireFits'
    PROVE  CutoverInv'
<1> DEFINE p == c.probe
           b == c.barrier
           old == gate[p][b]
<1>0. p \in Probes /\ b \in Barriers /\ c.kind \in Kinds /\ c.try \in 1 .. MaxTries
  BY CommandFields
<1>1. /\ barrier' = barrier /\ barrier \in Nat /\ b \in Nat /\ b <= barrier
      /\ old \in Gates
  <2>1. barrier' = barrier
    BY DEF barrier
  <2>2. barrier \in Nat /\ b \in Nat
    BY <1>0, BarrierNumber, Parameters DEF CutoverInv, Barriers
  <2>3. b <= barrier
    BY DEF CutoverInv, Commands, RowsArePast
  <2>4. old \in Gates
    BY <1>0 DEF CutoverInv, Types
  <2> QED BY <2>1, <2>2, <2>3, <2>4
<1>2. \A q \in Probes, x \in Barriers : gate'[q][x] = IF q = p /\ x = b THEN g ELSE gate[q][x]
  BY <1>0 DEF CutoverInv, Types
<1>3. \A d \in Command : receipts'[d] = IF d = c THEN o ELSE receipts[d]
  BY DEF CutoverInv, Types
<1>4. RowsArePast' /\ TriesInOrder'
  BY <1>1 DEF CutoverInv, Commands, RowsArePast, TriesInOrder
<1>5. AnswersAgree' /\ NeverRefused'
  BY <1>3 DEF CutoverInv, Commands, AnswersAgree, NeverRefused, Outcomes
<1>6. GatesFollow'
  <2> SUFFICES ASSUME NEW d \in Command, Done(d)' PROVE gate'[d.probe][d.barrier] \in After[d.kind]
    BY DEF GatesFollow
  <2>0. d.probe \in Probes /\ d.barrier \in Barriers /\ d.kind \in Kinds
    BY CommandFields
  <2>1. CASE d = c
    BY <2>1, <1>0, <1>2, <1>3 DEF Done
  <2>2. CASE d # c
    <3>1. Done(d)
      BY <2>2, <1>3 DEF Done
    <3>2. gate[d.probe][d.barrier] \in After[d.kind]
      BY <3>1 DEF CutoverInv, Holds, GatesFollow
    <3>3. CASE d.probe = p /\ d.barrier = b
      <4>1. gate'[d.probe][d.barrier] = g
        BY <3>3, <1>0, <1>2
      <4>2. old \in After[d.kind]
        BY <3>2, <3>3
      <4> QED BY <4>1, <4>2, <2>0 DEF Forward, After, Kinds
    <3>4. CASE ~(d.probe = p /\ d.barrier = b)
      BY <3>2, <3>4, <2>0, <1>2
    <3> QED BY <3>3, <3>4
  <2> QED BY <2>1, <2>2
<1>7. ReleasedByResume'
  <2> SUFFICES ASSUME NEW q \in Probes, NEW x \in Barriers, gate'[q][x] = "released"
               PROVE  rows[Cmd(q, x, "resume", 1)] # "none"
    BY DEF ReleasedByResume
  <2>1. CASE gate[q][x] = "released"
    BY <2>1 DEF CutoverInv, Holds, ReleasedByResume
  <2>2. CASE gate[q][x] # "released"
    <3>1. q = p /\ x = b /\ c.kind = "resume"
      BY <2>2, <1>2
    <3>2. PICK d \in Command : d = Cmd(p, b, "resume", 1)
      BY <1>0, CommandOf, Parameters DEF Kinds
    <3>3. d.probe = c.probe /\ d.barrier = c.barrier /\ d.kind = c.kind /\ d.try = 1
      BY <3>1, <3>2 DEF Cmd
    <3>4. CASE c.try = 1
      <4>1. c = d
        BY <3>1, <3>2, <3>4, CommandFields
      <4> QED BY <4>1, <3>1, <3>2
    <3>5. CASE c.try # 1
      <4>1. d.try < c.try
        BY <3>3, <3>5, <1>0
      <4>2. rows[d] \in {"busy", "expired"}
        BY <3>3, <4>1 DEF CutoverInv, Commands, TriesInOrder
      <4> QED BY <4>2, <3>1, <3>2
    <3> QED BY <3>4, <3>5
  <2> QED BY <2>1, <2>2
<1>8. CommandsInOrder' /\ NoGateAhead'
  BY <1>0, <1>1, <1>2 DEF CutoverInv, Holds, CommandsInOrder, NoGateAhead
<1>9. PastIsReleased'
  <2> SUFFICES ASSUME NEW q \in Probes, NEW x \in Barriers, Past(x)
               PROVE  \/ gate'[q][x] = "released"
                      \/ gate'[q][x] = "none" /\ \A d \in Command : d.probe = q /\ d.barrier = x => rows[d] = "none"
    BY <1>1 DEF PastIsReleased, Past
  <2>1. \/ gate[q][x] = "released"
        \/ gate[q][x] = "none" /\ \A d \in Command : d.probe = q /\ d.barrier = x => rows[d] = "none"
    BY DEF CutoverInv, Holds, PastIsReleased
  <2>2. CASE q = p /\ x = b
    <3>1. gate[q][x] = "released"
      BY <2>1, <2>2
    <3> QED BY <3>1, <2>2, <1>2 DEF Forward
  <2>3. CASE ~(q = p /\ x = b)
    BY <2>1, <2>3, <1>2
  <2> QED BY <2>2, <2>3
<1>10. HeldGates'
  <2>0. phase # "preparing" => barrier \in Barriers
    BY BarrierNumber DEF CutoverInv, PhasesFit
  <2>1. phase \in {"quiesced", "applying", "active"} \/ aggregate.row => barrier \in Barriers
    BY <2>0 DEF CutoverInv, PhasesFit
  <2>2. b = barrier /\ (phase \in {"quiesced", "applying", "active"} \/ aggregate.row) => c.kind # "resume"
    BY DEF CutoverInv, Holds, CommandsInOrder
  <2>3. HeldGates
    BY DEF CutoverInv, Holds
  <2>4. ASSUME NEW q \in Probes, phase \in {"quiesced", "applying"}
        PROVE  gate'[q][barrier] \in {"quiesced", "applied"}
    BY <2>1, <2>2, <2>3, <2>4, <1>2 DEF HeldGates, Forward
  <2>5. ASSUME NEW q \in Probes, phase = "active" \/ aggregate.row
        PROVE  gate'[q][barrier] = "applied"
    BY <2>1, <2>2, <2>3, <2>5, <1>2 DEF HeldGates, Forward
  <2> QED BY <1>1, <2>4, <2>5 DEF HeldGates
<1>11. HoldsExclude'
  <2>1. \A x \in 1 .. barrier : x \in Barriers
    BY <1>1, Parameters DEF CutoverInv, Types, Barriers
  <2> QED BY <1>1, <1>2, <2>1 DEF CutoverInv, Holds, HoldsExclude
<1>12. PhasesFit'
  BY <1>1 DEF CutoverInv, PhasesFit
<1> QED BY <1>4, <1>5, <1>6, <1>7, <1>8, <1>9, <1>10, <1>11, <1>12 DEF CutoverInv, Commands, Holds

\* The head of a member's queue is a command issued to it; answering moves it to
\* the results.
LEMMA AnswerForms ==
    ASSUME CutoverInv, NEW p \in Probes, sent[p] # <<>>, Answer(p), NEW c, c = Head(sent[p])
    PROVE  /\ c \in Command /\ c.probe = p /\ p # Local /\ rows[c] # "none"
           /\ /\ receipts'[c] # "none"
              /\ \A d \in Command : receipts[d] # "none" => receipts'[d] # "none"
              => /\ sent' \in [Probes -> Seq(Command)] /\ replies' \in [Probes -> Seq(Command)]
                 /\ \A q \in Probes :
                      /\ \A i \in 1 .. Len(sent'[q]) :
                           sent'[q][i].probe = q /\ q # Local /\ rows[sent'[q][i]] # "none"
                      /\ \A i \in 1 .. Len(replies'[q]) :
                           replies'[q][i].probe = q /\ q # Local /\ receipts'[replies'[q][i]] # "none"
<1>0. /\ sent \in [Probes -> Seq(Command)] /\ replies \in [Probes -> Seq(Command)]
      /\ sent[p] \in Seq(Command) /\ replies[p] \in Seq(Command)
  BY DEF CutoverInv, Types
<1>1. c \in Command /\ c = sent[p][1] /\ 1 \in 1 .. Len(sent[p])
  BY <1>0, QueueForms
<1>2. c.probe = p /\ p # Local /\ rows[c] # "none"
  BY <1>1 DEF CutoverInv, Commands, WireFits
<1>3. PICK s : s = Tail(sent[p])
  OBVIOUS
<1>4. PICK r : r = Append(replies[p], c)
  OBVIOUS
<1>5. /\ s \in Seq(Command)
      /\ \A i \in 1 .. Len(s) : \E j \in 1 .. Len(sent[p]) : s[i] = sent[p][j]
  BY <1>0, <1>3, QueueForms
<1>6. /\ r \in Seq(Command)
      /\ \A i \in 1 .. Len(r) : r[i] = c \/ \E j \in 1 .. Len(replies[p]) : r[i] = replies[p][j]
  BY <1>0, <1>1, <1>4, QueueForms
<1>7. sent' = [sent EXCEPT ![p] = s] /\ replies' = [replies EXCEPT ![p] = r]
  BY <1>3, <1>4 DEF Answer
<1> QED BY <1>1, <1>2, <1>5, <1>6, <1>7, WireMoves

\* The member executes a command, or repeats its answer.
LEMMA ExecuteStep ==
    ASSUME CutoverInv, NEW p \in Probes, Execute(p)
    PROVE  CutoverInv'
<1>0. /\ sent[p] # <<>> /\ Answer(p)
      /\ UNCHANGED <<hubVars, setVars, rows, cool, probeVars, sendVars>>
  BY DEF Execute
<1>1. PICK c : /\ c = Head(sent[p])
               /\ IF receipts[c] = "none"
                    THEN /\ receipts' = [receipts EXCEPT ![c] = Outcome(c)[1]]
                         /\ gate' = [gate EXCEPT ![p][c.barrier] = Outcome(c)[2]]
                    ELSE UNCHANGED <<receipts, gate>>
  BY DEF Execute
<1>2. c \in Command /\ c.probe = p /\ p # Local /\ rows[c] # "none"
  BY <1>0, <1>1, AnswerForms
<1>3. /\ receipts \in [Command -> Outcomes \cup {"none"}] /\ gate \in [Probes -> [Barriers -> Gates]]
      /\ c.barrier \in Barriers /\ "none" \notin Outcomes
  BY <1>2, CommandFields DEF CutoverInv, Types, Outcomes
<1>4. CASE receipts[c] = "none"
  <2>1. PICK o : o = Outcome(c)[1]
    OBVIOUS
  <2>2. PICK g : g = Outcome(c)[2]
    OBVIOUS
  <2>3. /\ o \in Outcomes /\ g \in Gates
        /\ Forward(gate[c.probe][c.barrier], g)
        /\ g = "released" => gate[c.probe][c.barrier] = "released" \/ c.kind = "resume"
        /\ o = "done" => g \in After[c.kind]
        /\ g \in {"quiesced", "applied"} =>
             gate[c.probe][c.barrier] \in {"quiesced", "applied"} \/ ~send[c.probe].row
        /\ c.kind = "resume" => o # "refused"
    BY <1>2, <2>1, <2>2, OutcomeForms
  <2>4. /\ receipts' = [receipts EXCEPT ![c] = o]
        /\ gate' = [gate EXCEPT ![c.probe][c.barrier] = g]
    BY <1>1, <1>2, <1>4, <2>1, <2>2
  <2>5. /\ receipts' \in [Command -> Outcomes \cup {"none"}] /\ receipts'[c] # "none"
        /\ \A d \in Command : receipts[d] # "none" => receipts'[d] # "none"
    BY <1>2, <1>3, <2>3, <2>4
  <2>6. gate' \in [Probes -> [Barriers -> Gates]]
    BY <1>2, <1>3, <2>3, <2>4
  <2>7. /\ sent' \in [Probes -> Seq(Command)] /\ replies' \in [Probes -> Seq(Command)]
        /\ \A q \in Probes :
             /\ \A i \in 1 .. Len(sent'[q]) :
                  sent'[q][i].probe = q /\ q # Local /\ rows[sent'[q][i]] # "none"
             /\ \A i \in 1 .. Len(replies'[q]) :
                  replies'[q][i].probe = q /\ q # Local /\ receipts'[replies'[q][i]] # "none"
    BY <1>0, <1>1, <2>5, AnswerForms
  <2>8. Types'
    BY <1>0, <2>5, <2>6, <2>7 DEF CutoverInv, Types, setVars, hubVars, probeVars, sendVars, barrier
  <2>9. WireFits' /\ UNCHANGED <<phase, reason, barriers, rows, send, aggregate>>
    BY <1>0, <2>7 DEF WireFits, hubVars, sendVars
  <2> QED BY <1>2, <1>4, <2>3, <2>4, <2>8, <2>9, AnswerStep
<1>5. CASE receipts[c] # "none"
  <2>1. UNCHANGED <<receipts, gate>>
    BY <1>1, <1>5
  <2>2. /\ sent' \in [Probes -> Seq(Command)] /\ replies' \in [Probes -> Seq(Command)]
        /\ \A q \in Probes :
             /\ \A i \in 1 .. Len(sent'[q]) :
                  sent'[q][i].probe = q /\ q # Local /\ rows[sent'[q][i]] # "none"
             /\ \A i \in 1 .. Len(replies'[q]) :
                  replies'[q][i].probe = q /\ q # Local /\ receipts'[replies'[q][i]] # "none"
    BY <1>0, <1>1, <1>5, <2>1, AnswerForms
  <2>3. Types'
    BY <1>0, <2>1, <2>2 DEF CutoverInv, Types, setVars, hubVars, probeVars, sendVars, barrier
  <2>4. \A q \in Probes :
          /\ \A i \in 1 .. Len(sent'[q]) :
               sent'[q][i].probe = q /\ q # Local /\ rows[sent'[q][i]] # "none"
          /\ \A i \in 1 .. Len(replies'[q]) :
               replies'[q][i].probe = q /\ q # Local /\ receipts[replies'[q][i]] # "none"
    BY <2>1, <2>2
  <2>5. /\ UNCHANGED <<phase, reason, barriers, receipts, gate, send, aggregate>>
        /\ \A d \in Command : rows'[d] = rows[d]
    BY <1>0, <2>1 DEF hubVars, sendVars
  <2> QED BY <2>3, <2>4, <2>5, WireStep
<1> QED BY <1>4, <1>5

\* A resume that waited too long changes no gate.
LEMMA ExpireStep ==
    ASSUME CutoverInv, NEW p \in Probes, ExpireResume(p)
    PROVE  CutoverInv'
<1>0. /\ sent[p] # <<>> /\ Answer(p)
      /\ UNCHANGED <<hubVars, setVars, rows, cool, probeVars, gate, sendVars>>
  BY DEF ExpireResume
<1>1. PICK c : /\ c = Head(sent[p]) /\ c.kind = "resume" /\ receipts[c] = "none"
               /\ receipts' = [receipts EXCEPT ![c] = "expired"]
  BY DEF ExpireResume
<1>2. c \in Command /\ c.probe = p /\ p # Local /\ rows[c] # "none"
  BY <1>0, <1>1, AnswerForms
<1>3. /\ receipts \in [Command -> Outcomes \cup {"none"}] /\ gate \in [Probes -> [Barriers -> Gates]]
      /\ c.barrier \in Barriers /\ "expired" \in Outcomes
  BY <1>2, CommandFields DEF CutoverInv, Types, Outcomes
<1>4. PICK g : g = gate[c.probe][c.barrier]
  OBVIOUS
<1>5. g \in Gates /\ gate' = [gate EXCEPT ![c.probe][c.barrier] = g] /\ Forward(gate[c.probe][c.barrier], g)
  BY <1>0, <1>2, <1>3, <1>4 DEF Forward
<1>6. /\ receipts' \in [Command -> Outcomes \cup {"none"}] /\ receipts'[c] # "none"
      /\ \A d \in Command : receipts[d] # "none" => receipts'[d] # "none"
  BY <1>1, <1>2, <1>3
<1>7. /\ sent' \in [Probes -> Seq(Command)] /\ replies' \in [Probes -> Seq(Command)]
      /\ \A q \in Probes :
           /\ \A i \in 1 .. Len(sent'[q]) :
                sent'[q][i].probe = q /\ q # Local /\ rows[sent'[q][i]] # "none"
           /\ \A i \in 1 .. Len(replies'[q]) :
                replies'[q][i].probe = q /\ q # Local /\ receipts'[replies'[q][i]] # "none"
  BY <1>0, <1>1, <1>6, AnswerForms
<1>8. Types'
  BY <1>0, <1>6, <1>7 DEF CutoverInv, Types, setVars, hubVars, probeVars, sendVars, barrier
<1>9. WireFits' /\ UNCHANGED <<phase, reason, barriers, rows, send, aggregate>>
  BY <1>0, <1>7 DEF WireFits, hubVars, sendVars
<1> QED BY <1>1, <1>2, <1>3, <1>4, <1>5, <1>8, <1>9, AnswerStep

----------------------------------------------------------------------------
(* The coordinator's moves that issue commands.                            *)

SameCommand(c, d) == c.probe = d.probe /\ c.barrier = d.barrier /\ c.kind = d.kind

\* Command d is issued in this step, after tries that were busy or expired.
Fresh(d) ==
    /\ rows[d] = "none"
    /\ rows'[d] = IF d.probe = Local THEN LocalOutcome(d.kind) ELSE "pending"
    /\ \A e \in Command : SameCommand(e, d) /\ e.try < d.try => rows[e] \in {"busy", "expired"}

\* The next try of a command that has to be issued.
LEMMA NextTry ==
    ASSUME CutoverInv, NEW p \in Probes, NEW k \in Kinds, NEW b \in Barriers, NEW n,
           n = IF b = barrier THEN Cardinality(Issued(p, k)) + 1 ELSE 1,
           \/ b = barrier + 1
           \/ /\ b = barrier /\ State(p, k) \in {"none", "busy", "expired"}
              /\ Cardinality(Issued(p, k)) < MaxTries
    PROVE  /\ n \in 1 .. MaxTries /\ rows[Cmd(p, b, k, n)] = "none"
           /\ \A j \in 1 .. MaxTries : j < n => rows[Cmd(p, b, k, j)] \in {"busy", "expired"}
<1>0. barrier \in Nat
  BY BarrierNumber DEF CutoverInv
<1>1. CASE b = barrier + 1
  <2>1. n = 1
    BY <1>0, <1>1
  <2>2. PICK c \in Command : c = Cmd(p, b, k, 1)
    BY CommandOf, Parameters
  <2>3. c.barrier = b
    BY <2>2 DEF Cmd
  <2>4. rows[c] = "none"
    BY <1>0, <1>1, <2>3 DEF CutoverInv, Commands, RowsArePast
  <2> QED BY <2>1, <2>2, <2>4, Parameters
<1>2. CASE b = barrier /\ State(p, k) \in {"none", "busy", "expired"} /\ Cardinality(Issued(p, k)) < MaxTries
  <2>0. Types /\ TriesInOrder /\ barrier \in Barriers
    BY <1>2 DEF CutoverInv, Commands
  <2>1. PICK m : m = Cardinality(Issued(p, k))
    OBVIOUS
  <2>2. m \in 0 .. MaxTries /\ Issued(p, k) = 1 .. m /\ m < MaxTries
    BY <2>0, <2>1, <1>2, IssuedSegment
  <2>3. n = m + 1 /\ n \in 1 .. MaxTries
    BY <2>1, <2>2, <1>2, Parameters
  <2>4. n \notin Issued(p, k)
    BY <2>2, <2>3
  <2>5. rows[Cmd(p, b, k, n)] = "none"
    BY <2>3, <2>4, <1>2 DEF Issued, Cmd
  <2>6. ASSUME NEW j \in 1 .. MaxTries, j < n PROVE rows[Cmd(p, b, k, j)] \in {"busy", "expired"}
    <3>1. j \in 1 .. m /\ m # 0 /\ m \in 1 .. MaxTries
      BY <2>2, <2>3, <2>6
    <3>2. State(p, k) # "none" /\ rows[Cmd(p, barrier, k, m)] = State(p, k)
      BY <2>0, <2>1, <3>1, StateOf
    <3>3. CASE j = m
      BY <3>2, <3>3, <1>2
    <3>4. CASE j # m
      <4>1. PICK c \in Command : c = Cmd(p, b, k, j)
        BY CommandOf
      <4>2. PICK d \in Command : d = Cmd(p, b, k, m)
        BY <3>1, CommandOf
      <4>3. /\ c.probe = d.probe /\ c.barrier = d.barrier /\ c.kind = d.kind /\ c.try < d.try
            /\ rows[d] # "none"
        BY <4>1, <4>2, <3>1, <3>2, <3>4, <1>2 DEF Cmd
      <4> QED BY <2>0, <4>1, <4>3 DEF TriesInOrder
    <3> QED BY <3>3, <3>4
  <2> QED BY <2>3, <2>5, <2>6
<1> QED BY <1>1, <1>2

\* What Issue does to rows and gates.
LEMMA IssueForms ==
    ASSUME CutoverInv, NEW ps \in SUBSET Probes, NEW k \in Kinds, NEW b \in Barriers,
           NEW canceled \in SUBSET {d \in Command : rows[d] = "pending" /\ d.kind # k},
           \A p \in ps :
             \/ b = barrier + 1
             \/ /\ b = barrier /\ State(p, k) \in {"none", "busy", "expired"}
                /\ Cardinality(Issued(p, k)) < MaxTries,
           Issue(ps, k, b, canceled)
    PROVE  /\ rows' \in [Command -> RowStates] /\ gate' \in [Probes -> [Barriers -> Gates]]
           /\ \A d \in Command :
                \/ rows'[d] = rows[d]
                \/ rows[d] = "pending" /\ rows'[d] = "canceled"
                \/ d.probe \in ps /\ d.barrier = b /\ d.kind = k /\ Fresh(d)
           /\ \A p \in ps : rows'[Cmd(p, b, k, 1)] # "none"
           /\ \A q \in Probes, x \in Barriers :
                /\ q = Local /\ Local \in ps /\ x = b => gate'[q][x] = LocalGate(k)
                /\ ~(q = Local /\ Local \in ps /\ x = b) => gate'[q][x] = gate[q][x]
<1> DEFINE try(p) == IF b = barrier THEN Cardinality(Issued(p, k)) + 1 ELSE 1
           fresh == {Cmd(p, b, k, try(p)) : p \in ps}
<1>0. /\ rows \in [Command -> RowStates] /\ gate \in [Probes -> [Barriers -> Gates]]
      /\ \A d \in Command : rows[d] \in RowStates
  BY DEF CutoverInv, Types
<1>1. /\ rows' = [c \in Command |->
                    CASE c \in fresh /\ c.probe \in Remote -> "pending"
                      [] c \in fresh /\ c.probe \notin Remote -> LocalOutcome(k)
                      [] c \in canceled -> "canceled"
                      [] OTHER -> rows[c]]
      /\ gate' = IF Local \in ps THEN [gate EXCEPT ![Local][b] = LocalGate(k)] ELSE gate
  BY DEF Issue, Cmd
<1>2. \A p \in ps : /\ try(p) \in 1 .. MaxTries /\ rows[Cmd(p, b, k, try(p))] = "none"
                    /\ \A j \in 1 .. MaxTries : j < try(p) => rows[Cmd(p, b, k, j)] \in {"busy", "expired"}
  BY NextTry
<1>3. LocalOutcome(k) \in {"busy", "done"} /\ LocalGate(k) \in Gates
  BY DEF LocalOutcome, LocalGate, Gates, Live, Kinds
<1>4. \A d \in fresh : /\ d \in Command /\ d.probe \in ps /\ d.barrier = b /\ d.kind = k /\ rows[d] = "none"
                       /\ d.try = try(d.probe)
  <2> TAKE d \in fresh
  <2>1. PICK p \in ps : d = Cmd(p, b, k, try(p))
    OBVIOUS
  <2>2. d.probe = p /\ d.barrier = b /\ d.kind = k /\ d.try = try(p)
    BY <2>1 DEF Cmd
  <2> HIDE DEF try
  <2> QED BY <2>1, <2>2, <1>2, CommandOf
<1> HIDE DEF try
<1>f. \A c \in Command :
        /\ c \in fresh => rows'[c] = IF c.probe \in Remote THEN "pending" ELSE LocalOutcome(k)
        /\ c \notin fresh => rows'[c] = IF c \in canceled THEN "canceled" ELSE rows[c]
  <2>1. PICK F : F = fresh
    OBVIOUS
  <2> HIDE DEF fresh
  <2>0. F \cap canceled = {}
    BY <2>1, <1>4
  <2>2. PICK r : r = rows'
    OBVIOUS
  <2>3. PICK l : l = LocalOutcome(k)
    OBVIOUS
  <2>4. r = [c \in Command |->
                    CASE c \in F /\ c.probe \in Remote -> "pending"
                      [] c \in F /\ c.probe \notin Remote -> l
                      [] c \in canceled -> "canceled"
                      [] OTHER -> rows[c]]
    BY <1>1, <2>1, <2>2, <2>3
  <2>5. ASSUME NEW c \in Command
        PROVE  /\ c \in F => r[c] = IF c.probe \in Remote THEN "pending" ELSE l
               /\ c \notin F => r[c] = IF c \in canceled THEN "canceled" ELSE rows[c]
    BY <2>0, <2>4
  <2> QED BY <2>1, <2>2, <2>3, <2>5
<1>5. ASSUME NEW d \in Command, d \in fresh
      PROVE  /\ d.probe \in ps /\ d.barrier = b /\ d.kind = k
             /\ rows'[d] \in RowStates /\ Fresh(d)
  <2>1. d.probe \in ps /\ d.barrier = b /\ d.kind = k /\ rows[d] = "none" /\ d.try = try(d.probe)
    BY <1>4, <1>5
  <2>2. d.probe \in Remote <=> d.probe # Local
    BY <2>1 DEF Remote
  <2>3. rows'[d] = IF d.probe = Local THEN LocalOutcome(k) ELSE "pending"
    BY <1>f, <1>5, <2>2
  <2>4. rows'[d] \in RowStates
    BY <2>3, <1>3 DEF RowStates, Outcomes
  <2>5. ASSUME NEW e \in Command, SameCommand(e, d), e.try < d.try
        PROVE  rows[e] \in {"busy", "expired"}
    <3>1. e = Cmd(d.probe, b, k, e.try) /\ e.try \in 1 .. MaxTries
      BY <2>1, <2>5, CommandFields DEF SameCommand
    <3> QED BY <3>1, <2>1, <2>5, <1>2
  <2> QED BY <2>1, <2>3, <2>4, <2>5 DEF Fresh
<1>6. ASSUME NEW d \in Command, d \notin fresh
      PROVE  /\ rows'[d] \in RowStates
             /\ \/ rows'[d] = rows[d]
                \/ rows[d] = "pending" /\ rows'[d] = "canceled"
  <2>1. rows'[d] = IF d \in canceled THEN "canceled" ELSE rows[d]
    BY <1>f, <1>6
  <2> QED BY <2>1, <1>0 DEF RowStates
<1>7. rows' \in [Command -> RowStates]
  BY <1>1, <1>5, <1>6
<1>8. /\ gate' \in [Probes -> [Barriers -> Gates]]
      /\ \A q \in Probes, x \in Barriers :
           /\ q = Local /\ Local \in ps /\ x = b => gate'[q][x] = LocalGate(k)
           /\ ~(q = Local /\ Local \in ps /\ x = b) => gate'[q][x] = gate[q][x]
  <2>1. PICK g : g = LocalGate(k)
    OBVIOUS
  <2>2. g \in Gates
    BY <1>3, <2>1
  <2>3. CASE Local \in ps
    <3>1. Local \in Probes /\ gate' = [gate EXCEPT ![Local][b] = g]
      BY <2>3, <1>1, <2>1
    <3>2. gate' \in [Probes -> [Barriers -> Gates]]
      BY <3>1, <2>2, <1>0
    <3>3. \A q \in Probes, x \in Barriers : gate'[q][x] = IF q = Local /\ x = b THEN g ELSE gate[q][x]
      BY <3>1, <1>0
    <3> QED BY <3>2, <3>3, <2>1, <2>3
  <2>4. CASE Local \notin ps
    BY <2>4, <1>1, <1>0
  <2> QED BY <2>3, <2>4
<1>9. ASSUME NEW p \in ps PROVE rows'[Cmd(p, b, k, 1)] # "none"
  <2>1. PICK c \in Command : c = Cmd(p, b, k, 1)
    BY CommandOf, Parameters
  <2>2. CASE try(p) = 1
    <3>1. c \in fresh
      BY <2>1, <2>2
    <3> QED BY <2>1, <3>1, <1>5, <1>3 DEF Fresh
  <2>3. CASE try(p) # 1
    <3>1. 1 < try(p) /\ 1 \in 1 .. MaxTries
      BY <2>3, <1>2, Parameters
    <3>2. rows[c] \in {"busy", "expired"}
      BY <3>1, <1>2, <2>1
    <3> QED BY <3>2, <1>4, <1>6, <2>1
  <2> QED BY <2>2, <2>3
<1> QED BY <1>5, <1>6, <1>7, <1>8, <1>9

\* What a pass that issues commands has to respect.
LEMMA IssueStep ==
    ASSUME CutoverInv, NEW ps \in SUBSET Probes, NEW k \in Kinds, NEW b \in Barriers,
           NEW canceled \in SUBSET {d \in Command : rows[d] = "pending" /\ d.kind # k},
           \A p \in ps :
             \/ b = barrier + 1
             \/ /\ b = barrier /\ State(p, k) \in {"none", "busy", "expired"}
                /\ Cardinality(Issued(p, k)) < MaxTries,
           Issue(ps, k, b, canceled),
           UNCHANGED <<setVars, probeVars, wireVars, sendVars>>, ~aggregate.row,
           \* the barrier
           barriers' \in Seq(Tuples), barrier' = b,
           b = barrier \/ (b = barrier + 1 /\ phase \in {"preparing", "released"}),
           \A x \in 1 .. barrier : barriers'[x].mode = barriers[x].mode,
           phase' \in Phases \ {"preparing", "active", "released"},
           barriers'[b].activated => phase' = "draining",
           phase' = "blocked" => reason' \in {"quiesce", "apply", "evidence"},
           \* commands
           k = "resume" => phase' = "draining",
           k = "apply" => phase' \notin {"quiescing", "quiesced"},
           \A d \in Command : d.barrier = b /\ rows[d] # "none" =>
             /\ d.kind = "resume" => phase' = "draining"
             /\ d.kind = "apply" => phase' \notin {"quiescing", "quiesced"},
           \* gates
           phase' \in {"quiesced", "applying"} => \A p \in Probes : gate'[p][b] \in {"quiesced", "applied"},
           Local \in ps =>
             /\ \A d \in Command : d.probe = Local /\ d.barrier = b /\ rows[d] = "done" => LocalGate(k) \in After[d.kind]
             /\ barriers'[b].mode = "aggregate" /\ LocalGate(k) \in {"quiesced", "applied"} => ~send[Local].row
    PROVE  CutoverInv'
<1>0. /\ rows' \in [Command -> RowStates] /\ gate' \in [Probes -> [Barriers -> Gates]]
      /\ barrier \in Nat /\ b \in Nat /\ b > 0 /\ b <= MaxBarriers
  BY IssueForms, BarrierNumber, Parameters DEF CutoverInv, Barriers
<1>1. \A d \in Command :
        \/ rows'[d] = rows[d]
        \/ rows[d] = "pending" /\ rows'[d] = "canceled"
        \/ d.probe \in ps /\ d.barrier = b /\ d.kind = k /\ Fresh(d)
  BY IssueForms
<1>2. \A q \in Probes, x \in Barriers :
        /\ q = Local /\ Local \in ps /\ x = b => gate'[q][x] = LocalGate(k)
        /\ ~(q = Local /\ Local \in ps /\ x = b) => gate'[q][x] = gate[q][x]
  BY IssueForms
<1>3. /\ \A p \in ps : rows'[Cmd(p, b, k, 1)] # "none"
      /\ LocalOutcome(k) \in {"busy", "done"}
      /\ LocalOutcome(k) = "busy" => k = "quiesce"
      /\ LocalOutcome(k) = "done" => LocalGate(k) \in After[k]
      /\ LocalGate(k) = "released" => k = "resume"
  <2>1. \A p \in ps : rows'[Cmd(p, b, k, 1)] # "none"
    BY IssueForms
  <2> QED BY <2>1 DEF LocalOutcome, LocalGate, After, Kinds
<1>4. \A d \in Command : rows[d] # "none" => rows'[d] # "none"
  BY <1>1 DEF Fresh
<1>5. UNCHANGED <<sent, replies, receipts, send, aggregate>>
  BY DEF wireVars, sendVars
<1>6. Types'
  BY <1>0 DEF CutoverInv, Types, setVars, probeVars, wireVars, sendVars
<1>7. Commands'
  <2>1. RowsArePast'
    BY <1>0, <1>1, CommandFields DEF CutoverInv, Commands, RowsArePast, Barriers
  <2>2. TriesInOrder'
    <3> SUFFICES ASSUME NEW c \in Command, NEW d \in Command, SameCommand(c, d), c.try < d.try, rows'[d] # "none"
                 PROVE  rows'[c] \in {"busy", "expired"}
      BY DEF TriesInOrder, SameCommand
    <3>1. rows[d] # "none" => rows[c] \in {"busy", "expired"}
      BY DEF CutoverInv, Commands, TriesInOrder, SameCommand
    <3>2. rows[d] = "none" => Fresh(d)
      BY <1>1
    <3>3. rows[c] \in {"busy", "expired"}
      BY <3>1, <3>2 DEF Fresh
    <3> QED BY <3>3, <1>1 DEF Fresh
  <2>3. WireFits'
    <3>1. \A p \in Probes : /\ \A i \in 1 .. Len(sent[p]) : sent[p][i] \in Command
      BY DEF CutoverInv, Types
    <3> QED BY <3>1, <1>4, <1>5 DEF CutoverInv, Commands, WireFits
  <2>4. AnswersAgree'
    <3> SUFFICES ASSUME NEW c \in Command
                 PROVE  /\ c.probe # Local /\ rows'[c] \in Outcomes => receipts[c] = rows'[c]
                        /\ c.probe = Local => /\ rows'[c] \in {"none", "done", "busy"}
                                              /\ rows'[c] = "busy" => c.kind = "quiesce"
      BY <1>5 DEF AnswersAgree
    <3>1. /\ c.probe # Local /\ rows[c] \in Outcomes => receipts[c] = rows[c]
          /\ c.probe = Local => /\ rows[c] \in {"none", "done", "busy"}
                                /\ rows[c] = "busy" => c.kind = "quiesce"
      BY DEF CutoverInv, Commands, AnswersAgree
    <3>2. CASE c.probe = Local
      BY <3>1, <3>2, <1>1, <1>3 DEF Fresh
    <3>3. CASE c.probe # Local
      BY <3>1, <3>3, <1>1 DEF Fresh, Outcomes
    <3> QED BY <3>2, <3>3
  <2>5. NeverRefused'
    BY <1>5 DEF CutoverInv, Commands, NeverRefused
  <2> QED BY <2>1, <2>2, <2>3, <2>4, <2>5 DEF Commands
<1>8. GatesFollow'
  <2> SUFFICES ASSUME NEW c \in Command, Done(c)'
               PROVE  gate'[c.probe][c.barrier] \in After[c.kind]
    BY DEF GatesFollow
  <2>0. c.probe \in Probes /\ c.barrier \in Barriers
    BY CommandFields
  <2>1. CASE Done(c)
    <3>1. gate[c.probe][c.barrier] \in After[c.kind]
      BY <2>1 DEF CutoverInv, Holds, GatesFollow
    <3>2. c.probe = Local => rows[c] = "done"
      BY <2>1 DEF Done
    <3> QED BY <3>1, <3>2, <2>0, <1>2
  <2>2. CASE ~Done(c)
    <3>1. c.probe = Local /\ rows'[c] = "done" /\ rows[c] # "done"
      BY <2>2, <1>5 DEF Done
    <3>2. Local \in ps /\ c.barrier = b /\ c.kind = k /\ rows'[c] = LocalOutcome(k)
      BY <3>1, <1>1 DEF Fresh
    <3> QED BY <3>1, <3>2, <2>0, <1>2, <1>3
  <2> QED BY <2>1, <2>2
<1>9. ReleasedByResume'
  <2> SUFFICES ASSUME NEW p \in Probes, NEW x \in Barriers, gate'[p][x] = "released"
               PROVE  rows'[Cmd(p, x, "resume", 1)] # "none"
    BY DEF ReleasedByResume
  <2>1. CASE p = Local /\ Local \in ps /\ x = b
    BY <2>1, <1>2, <1>3
  <2>2. CASE ~(p = Local /\ Local \in ps /\ x = b)
    <3>1. rows[Cmd(p, x, "resume", 1)] # "none"
      BY <2>2, <1>2 DEF CutoverInv, Holds, ReleasedByResume
    <3>2. Cmd(p, x, "resume", 1) \in Command
      BY CommandOf, Parameters DEF Kinds
    <3> QED BY <3>1, <3>2, <1>4
  <2> QED BY <2>1, <2>2
<1>10. CommandsInOrder'
  <2> SUFFICES ASSUME NEW c \in Command, c.barrier = b, rows'[c] # "none"
               PROVE  /\ c.kind = "resume" => phase' = "draining"
                      /\ c.kind = "apply" => phase' \notin {"quiescing", "quiesced"}
    BY <1>5 DEF CommandsInOrder
  <2>1. CASE rows[c] # "none"
    BY <2>1
  <2>2. CASE rows[c] = "none"
    BY <2>2, <1>1
  <2> QED BY <2>1, <2>2
<1>11. PastIsReleased'
  <2> SUFFICES ASSUME NEW p \in Probes, NEW x \in Barriers, x < b
               PROVE  \/ gate'[p][x] = "released"
                      \/ gate'[p][x] = "none" /\ \A c \in Command : c.probe = p /\ c.barrier = x => rows'[c] = "none"
    BY DEF PastIsReleased, Past
  <2>1. x \in Nat /\ Past(x) /\ x # b
    BY <1>0, Parameters DEF Past, Barriers
  <2>2. gate'[p][x] = gate[p][x]
    BY <2>1, <1>2
  <2>3. \A c \in Command : c.barrier = x /\ rows[c] = "none" => rows'[c] = "none"
    BY <2>1, <1>1
  <2> QED BY <2>1, <2>2, <2>3 DEF CutoverInv, Holds, PastIsReleased
<1>12. NoGateAhead'
  <2> SUFFICES ASSUME NEW p \in Probes, NEW x \in Barriers, x > b PROVE gate'[p][x] = "none"
    BY DEF NoGateAhead
  <2>1. x \in Nat /\ x > barrier /\ x # b
    BY <1>0, Parameters DEF Barriers
  <2> QED BY <2>1, <1>2 DEF CutoverInv, Holds, NoGateAhead
<1>13. HeldGates'
  BY <1>5 DEF HeldGates
<1>14. HoldsExclude'
  <2> SUFFICES ASSUME NEW p \in Probes, NEW x \in 1 .. b, barriers'[x].mode = "aggregate",
                      gate'[p][x] \in {"quiesced", "applied"}
               PROVE  ~send[p].row
    BY <1>5 DEF HoldsExclude
  <2>0. x \in Barriers /\ x \in Nat
    BY <1>0, Parameters DEF Barriers
  <2>1. CASE p = Local /\ Local \in ps /\ x = b
    BY <2>0, <2>1, <1>2
  <2>2. CASE ~(p = Local /\ Local \in ps /\ x = b)
    <3>1. gate[p][x] \in {"quiesced", "applied"}
      BY <2>0, <2>2, <1>2
    <3>2. x \in 1 .. barrier
      BY <2>0, <3>1, <1>0 DEF CutoverInv, Holds, NoGateAhead
    <3> QED BY <3>1, <3>2 DEF CutoverInv, Holds, HoldsExclude
  <2> QED BY <2>1, <2>2
<1>15. PhasesFit'
  BY <1>0, <1>5 DEF CutoverInv, PhasesFit
<1> QED BY <1>6, <1>7, <1>8, <1>9, <1>10, <1>11, <1>12, <1>13, <1>14, <1>15 DEF CutoverInv, Holds

\* The barrier a preparation ends in.
LEMMA NewBarrierForms ==
    ASSUME CutoverInv, desired # "regional", barrier < MaxBarriers, barriers' = Append(barriers, NewBarrier)
    PROVE  /\ barriers' \in Seq(Tuples) /\ barrier' = barrier + 1 /\ barrier + 1 \in Barriers
           /\ \A x \in 1 .. barrier : barriers'[x] = barriers[x]
           /\ ~barriers'[barrier + 1].activated
           /\ \A p \in Probes : gate[p][barrier + 1] = "none"
           /\ \A c \in Command : c.barrier = barrier + 1 => rows[c] = "none"
<1>0. barriers \in Seq(Tuples) /\ barrier \in Nat /\ barrier + 1 \in Barriers
  BY BarrierNumber, Parameters DEF CutoverInv, Types, Barriers
<1>1. NewBarrier \in Tuples /\ ~NewBarrier.activated
  BY DEF NewBarrier, Tuples, CutoverInv, Types
<1>2. PICK t \in Tuples : t = NewBarrier
  BY <1>1
<1>3. barriers' \in Seq(Tuples) /\ Len(barriers') = Len(barriers) + 1
  BY <1>0, <1>2
<1>4. /\ \A x \in 1 .. Len(barriers) : barriers'[x] = barriers[x]
      /\ barriers'[Len(barriers) + 1] = t
  BY <1>0, <1>2
<1>5. \A p \in Probes : gate[p][barrier + 1] = "none"
  BY <1>0 DEF CutoverInv, Holds, NoGateAhead
<1>6. \A c \in Command : c.barrier = barrier + 1 => rows[c] = "none"
  BY <1>0 DEF CutoverInv, Commands, RowsArePast
<1> QED BY <1>0, <1>1, <1>2, <1>3, <1>4, <1>5, <1>6 DEF barrier

\* A preparation that outlived its deadline leaves a barrier nobody was asked for.
LEMMA EmptyBarrierStep ==
    ASSUME CutoverInv, phase = "preparing", desired # "regional", barrier < MaxBarriers,
           barriers' = Append(barriers, NewBarrier), phase' = "released",
           UNCHANGED <<rows, gate, setVars, probeVars, wireVars, sendVars>>
    PROVE  CutoverInv'
<1>0. /\ barriers' \in Seq(Tuples) /\ barrier' = barrier + 1 /\ barrier + 1 \in Barriers
      /\ \A x \in 1 .. barrier : barriers'[x] = barriers[x]
      /\ ~barriers'[barrier + 1].activated
      /\ \A p \in Probes : gate[p][barrier + 1] = "none"
      /\ \A c \in Command : c.barrier = barrier + 1 => rows[c] = "none"
  BY NewBarrierForms
<1>1. barrier \in Nat /\ ~aggregate.row /\ barrier + 1 <= MaxBarriers
  BY BarrierNumber, Parameters DEF CutoverInv, PhasesFit
<1>2. UNCHANGED <<sent, replies, receipts, send, aggregate>>
  BY DEF wireVars, sendVars
<1>3. Types'
  BY <1>0, <1>1 DEF CutoverInv, Types, setVars, probeVars, wireVars, sendVars, Phases
<1>4. Commands'
  <2>1. RowsArePast'
    BY <1>0, <1>1, CommandFields, Parameters DEF CutoverInv, Commands, RowsArePast, Barriers
  <2> QED BY <2>1, <1>2 DEF CutoverInv, Commands, TriesInOrder, WireFits, AnswersAgree, NeverRefused
<1>5. GatesFollow' /\ ReleasedByResume'
  BY <1>2 DEF CutoverInv, Holds, GatesFollow, Done, ReleasedByResume
<1>6. CommandsInOrder' /\ HeldGates'
  BY <1>0, <1>1, <1>2 DEF CommandsInOrder, HeldGates
<1>7. PastIsReleased'
  <2> SUFFICES ASSUME NEW p \in Probes, NEW x \in Barriers, Past(x)'
               PROVE  \/ gate[p][x] = "released"
                      \/ gate[p][x] = "none" /\ \A c \in Command : c.probe = p /\ c.barrier = x => rows[c] = "none"
    BY DEF PastIsReleased
  <2>1. x \in Nat /\ (x = barrier + 1 \/ Past(x))
    BY <1>0, <1>1, Parameters DEF Past, Barriers
  <2> QED BY <2>1, <1>0 DEF CutoverInv, Holds, PastIsReleased
<1>8. NoGateAhead'
  BY <1>0, <1>1, Parameters DEF CutoverInv, Holds, NoGateAhead, Barriers
<1>9. HoldsExclude'
  <2> SUFFICES ASSUME NEW p \in Probes, NEW x \in 1 .. barrier + 1, barriers'[x].mode = "aggregate",
                      gate[p][x] \in {"quiesced", "applied"}
               PROVE  ~send[p].row
    BY <1>0, <1>2 DEF HoldsExclude
  <2>1. x \in 1 .. barrier
    BY <1>0, <1>1
  <2> QED BY <2>1, <1>0 DEF CutoverInv, Holds, HoldsExclude
<1>10. PhasesFit'
  BY <1>0, <1>1, <1>2 DEF CutoverInv, PhasesFit
<1> QED BY <1>3, <1>4, <1>5, <1>6, <1>7, <1>8, <1>9, <1>10 DEF CutoverInv, Holds

\* A quiesce holds the hub-local member only when it has no page under way.
LEMMA LocalHold ==
    ASSUME Local \in Probes, LocalGate("quiesce") \in {"quiesced", "applied"}
    PROVE  ~send[Local].row
BY CutoverAssumption DEF LocalGate, UnsettledAttempts, Unsettled

\* Preparing.
LEMMA PreparingStep ==
    ASSUME CutoverInv, PreparingPass
    PROVE  CutoverInv'
<1>0. /\ phase = "preparing" /\ desired # "regional" /\ barrier < MaxBarriers
      /\ UNCHANGED <<setVars, probeVars, wireVars, sendVars>>
  BY DEF PreparingPass
<1>1. CASE /\ barriers' = Append(barriers, NewBarrier)
           /\ phase' = "quiescing" /\ Issue(Probes, "quiesce", barrier + 1, {})
  <2>1. PICK b \in Barriers : b = barrier + 1
    BY <1>0, <1>1, NewBarrierForms
  <2>2. /\ barriers' \in Seq(Tuples) /\ barrier' = b
        /\ \A x \in 1 .. barrier : barriers'[x].mode = barriers[x].mode
        /\ ~barriers'[b].activated
        /\ \A c \in Command : c.barrier = b => rows[c] = "none"
    BY <1>0, <1>1, <2>1, NewBarrierForms
  <2>3. ~aggregate.row /\ phase' \in Phases \ {"preparing", "active", "released"}
    BY <1>0, <1>1 DEF CutoverInv, PhasesFit, Phases
  <2>4. PICK k \in Kinds : k = "quiesce"
    BY DEF Kinds
  <2>5. PICK ps \in SUBSET Probes : ps = Probes
    OBVIOUS
  <2>6. PICK canceled \in SUBSET {d \in Command : rows[d] = "pending" /\ d.kind # k} : canceled = {}
    OBVIOUS
  <2>7. Issue(ps, k, b, canceled)
    BY <1>1, <2>1, <2>4, <2>5, <2>6
  <2>8. Local \in ps =>
          /\ \A d \in Command : d.probe = Local /\ d.barrier = b /\ rows[d] = "done" => LocalGate(k) \in After[d.kind]
          /\ barriers'[b].mode = "aggregate" /\ LocalGate(k) \in {"quiesced", "applied"} => ~send[Local].row
    BY <2>2, <2>4, <2>5, LocalHold
  <2>9. /\ k # "resume" /\ k # "apply" /\ phase' = "quiescing"
        /\ b = barrier \/ (b = barrier + 1 /\ phase \in {"preparing", "released"})
    BY <1>0, <1>1, <2>1, <2>4
  <2> QED BY <1>0, <2>1, <2>2, <2>3, <2>7, <2>8, <2>9, IssueStep
<1>2. CASE /\ barriers' = Append(barriers, NewBarrier) /\ phase' = "released"
           /\ UNCHANGED <<rows, gate>>
  BY <1>0, <1>2, EmptyBarrierStep
<1>3. CASE UNCHANGED <<phase, barriers, rows, gate>>
  <2>1. Types'
    BY <1>0, <1>3 DEF CutoverInv, Types, setVars, wireVars, barrier, probeVars, sendVars
  <2> QED BY <1>0, <1>3, <2>1, QuietStep DEF wireVars, sendVars, CutoverInv, PhasesFit
<1> QED BY <1>1, <1>2, <1>3 DEF PreparingPass

\* A command that has to be issued again: the hub-local member is asked again for
\* a quiesce alone, and has then done none.
LEMMA RearmableForms ==
    ASSUME CutoverInv, barrier \in Barriers, NEW k \in Kinds, NEW p \in Rearmable(k)
    PROVE  /\ p \in Probes /\ State(p, k) \in {"busy", "expired"} /\ Cardinality(Issued(p, k)) < MaxTries
           /\ p = Local => /\ k = "quiesce"
                           /\ \A n \in 1 .. MaxTries : rows[Cmd(p, barrier, k, n)] # "done"
<1>1. p \in Probes /\ State(p, k) \in {"busy", "expired"} /\ Cardinality(Issued(p, k)) < MaxTries
  BY DEF Rearmable
<1>2. Types /\ TriesInOrder /\ AnswersAgree
  BY DEF CutoverInv, Commands
<1>3. PICK m : m = Cardinality(Issued(p, k))
  OBVIOUS
<1>4. m \in 1 .. MaxTries /\ rows[Cmd(p, barrier, k, m)] \in {"busy", "expired"} /\ Issued(p, k) = 1 .. m
  BY <1>1, <1>2, <1>3, StateOf, IssuedSegment
<1>5. PICK c \in Command : c = Cmd(p, barrier, k, m)
  BY <1>1, <1>4, CommandOf
<1>6. c.probe = p /\ c.barrier = barrier /\ c.kind = k /\ c.try = m /\ rows[c] \in {"busy", "expired"}
  BY <1>4, <1>5 DEF Cmd
<1>7. p = Local => k = "quiesce"
  BY <1>2, <1>6 DEF AnswersAgree
<1>8. ASSUME NEW n \in 1 .. MaxTries, rows[Cmd(p, barrier, k, n)] = "done" PROVE FALSE
  <2>1. n \in Issued(p, k)
    BY <1>8 DEF Issued, Cmd
  <2>2. n <= m /\ n # m
    BY <2>1, <1>4, <1>8
  <2>3. PICK d \in Command : d = Cmd(p, barrier, k, n)
    BY <1>1, CommandOf
  <2>4. d.probe = c.probe /\ d.barrier = c.barrier /\ d.kind = c.kind /\ d.try < c.try /\ rows[d] = "done"
    BY <2>2, <2>3, <1>4, <1>6, <1>8 DEF Cmd
  <2> QED BY <2>4, <1>2, <1>6 DEF TriesInOrder
<1> QED BY <1>1, <1>7, <1>8

\* No resume of the present barrier is refused.
LEMMA NoRefusal ==
    ASSUME CutoverInv, barrier \in Barriers
    PROVE  Refusing("resume") = {}
<1> SUFFICES ASSUME NEW p \in Probes, State(p, "resume") = "refused" PROVE FALSE
  BY DEF Refusing
<1>1. PICK n \in 1 .. MaxTries : rows[Cmd(p, barrier, "resume", n)] = "refused"
  BY StateOf DEF CutoverInv, Commands, Kinds
<1>2. PICK c \in Command : c = Cmd(p, barrier, "resume", n)
  BY CommandOf DEF Kinds
<1>3. c.probe = p /\ c.kind = "resume" /\ rows[c] = "refused"
  BY <1>1, <1>2 DEF Cmd
<1> QED BY <1>3 DEF CutoverInv, Commands, AnswersAgree, NeverRefused, Outcomes

\* Busy and expired commands issued again, or the block over a refusal.
LEMMA MemberCommandStep ==
    ASSUME CutoverInv, NEW k \in Kinds, MemberCommandPass(k), ~aggregate.row,
           \/ k = "quiesce" /\ phase = "quiescing"
           \/ k = "apply" /\ phase = "applying"
           \/ k = "resume" /\ phase = "draining"
    PROVE  CutoverInv'
<1>0. /\ barrier > 0 /\ barrier \in Barriers /\ barriers \in Seq(Tuples)
      /\ k \in {"quiesce", "apply"} => ~barriers[barrier].activated
  BY BarrierNumber DEF CutoverInv, Types, PhasesFit
<1>1. PICK ps \in SUBSET Probes :
        /\ ps = Rearmable(k) \cap {p \in Probes : \A q \in Refusing(k) : p < q}
        /\ Issue(ps, k, barrier, {})
  BY DEF MemberCommandPass, Rearmable
<1>2. /\ UNCHANGED <<barriers, setVars, probeVars, wireVars, sendVars>>
      /\ phase' = IF Refusing(k) # {} THEN "blocked" ELSE phase
      /\ reason' = IF Refusing(k) # {} THEN k ELSE reason
  BY DEF MemberCommandPass
<1>3. PICK b \in Barriers : b = barrier
  BY <1>0
<1>4. PICK canceled \in SUBSET {d \in Command : rows[d] = "pending" /\ d.kind # k} : canceled = {}
  OBVIOUS
<1>5. Issue(ps, k, b, canceled)
  BY <1>1, <1>3, <1>4
<1>6. \A p \in ps :
        \/ b = barrier + 1
        \/ /\ b = barrier /\ State(p, k) \in {"none", "busy", "expired"}
           /\ Cardinality(Issued(p, k)) < MaxTries
  BY <1>0, <1>1, <1>3, RearmableForms
<1>7. /\ barriers' \in Seq(Tuples) /\ barrier' = b
      /\ \A x \in 1 .. barrier : barriers'[x].mode = barriers[x].mode
  BY <1>0, <1>2, <1>3 DEF barrier
<1>8. /\ phase' \in {phase, "blocked"}
      /\ k = "resume" => phase' = "draining"
      /\ phase' = "blocked" => reason' \in {"quiesce", "apply", "evidence"}
      /\ phase' \in Phases \ {"preparing", "active", "released"}
  BY <1>0, <1>2, NoRefusal DEF Kinds, Phases
<1>9. \A d \in Command : d.barrier = b /\ rows[d] # "none" =>
        /\ d.kind = "resume" => phase' = "draining"
        /\ d.kind = "apply" => phase' \notin {"quiescing", "quiesced"}
  BY <1>2, <1>3, <1>8 DEF CutoverInv, Holds, CommandsInOrder
<1>10. Local \in ps => k = "quiesce" /\ \A n \in 1 .. MaxTries : rows[Cmd(Local, barrier, k, n)] # "done"
  BY <1>0, <1>1, RearmableForms
<1>11. phase' \in {"quiesced", "applying"} => \A p \in Probes : gate'[p][b] \in {"quiesced", "applied"}
  <2>1. SUFFICES ASSUME phase' = "applying" PROVE \A p \in Probes : gate'[p][b] \in {"quiesced", "applied"}
    BY <1>8
  <2>2. k = "apply" /\ phase = "applying"
    BY <2>1, <1>8
  <2>3. gate' = gate
    BY <2>2, <1>5, <1>10 DEF Issue
  <2> QED BY <2>2, <2>3, <1>3 DEF CutoverInv, Holds, HeldGates
<1>12. Local \in ps =>
         /\ \A d \in Command : d.probe = Local /\ d.barrier = b /\ rows[d] = "done" => LocalGate(k) \in After[d.kind]
         /\ barriers'[b].mode = "aggregate" /\ LocalGate(k) \in {"quiesced", "applied"} => ~send[Local].row
  <2>1. SUFFICES ASSUME Local \in ps
                 PROVE  /\ \A d \in Command : d.probe = Local /\ d.barrier = b => rows[d] # "done"
                        /\ LocalGate(k) \in {"quiesced", "applied"} => ~send[Local].row
    OBVIOUS
  <2>2. k = "quiesce" /\ phase = "quiescing"
    BY <2>1, <1>10
  <2>3. ASSUME NEW d \in Command, d.probe = Local, d.barrier = b, rows[d] = "done" PROVE FALSE
    <3>1. d.kind = "quiesce"
      BY <2>2, <2>3, <1>3, CommandFields DEF CutoverInv, Holds, CommandsInOrder, Kinds
    <3>2. d = Cmd(Local, barrier, k, d.try) /\ d.try \in 1 .. MaxTries
      BY <3>1, <2>2, <2>3, <1>3, CommandFields
    <3> QED BY <3>2, <2>1, <2>3, <1>10
  <2> QED BY <2>1, <2>2, <2>3, LocalHold
<1>13. barriers'[b].activated => phase' = "draining"
  BY <1>0, <1>2, <1>3, <1>8 DEF Kinds
<1>14. k = "apply" => phase' \notin {"quiescing", "quiesced"}
  BY <1>8
<1>15. /\ b = barrier \/ (b = barrier + 1 /\ phase \in {"preparing", "released"})
       /\ UNCHANGED <<setVars, probeVars, wireVars, sendVars>>
  BY <1>2, <1>3
<1>16. CASE phase' = "draining"
  BY <1>5, <1>6, <1>7, <1>8, <1>12, <1>14, <1>15, <1>16, IssueStep
<1>17. CASE phase' # "draining"
  <2>1. ~barriers'[b].activated /\ k # "resume"
    BY <1>8, <1>13, <1>17
  <2> QED BY <2>1, <1>5, <1>6, <1>7, <1>8, <1>9, <1>11, <1>12, <1>14, <1>15, <1>17, IssueStep
<1> QED BY <1>16, <1>17

\* Every member is asked to apply.
LEMMA ApplyAllStep ==
    ASSUME CutoverInv, QuiescedPass
    PROVE  CutoverInv'
<1>0. /\ phase = "quiesced" /\ phase' = "applying" /\ Issue(Probes, "apply", barrier, {})
      /\ UNCHANGED <<barriers, setVars, probeVars, wireVars, sendVars>>
  BY DEF QuiescedPass, Move
<1>1. /\ barrier > 0 /\ barrier \in Barriers /\ barriers \in Seq(Tuples)
      /\ ~barriers[barrier].activated /\ ~aggregate.row
      /\ \A c \in Command : c.barrier = barrier /\ rows[c] # "none" => c.kind = "quiesce"
  BY <1>0, BarrierNumber, CommandFields DEF CutoverInv, Types, PhasesFit, Holds, CommandsInOrder, Kinds
<1>2. PICK b \in Barriers : b = barrier
  BY <1>1
<1>3. PICK k \in Kinds : k = "apply"
  BY DEF Kinds
<1>4. PICK ps \in SUBSET Probes : ps = Probes
  OBVIOUS
<1>5. PICK canceled \in SUBSET {d \in Command : rows[d] = "pending" /\ d.kind # k} : canceled = {}
  OBVIOUS
<1>6. Issue(ps, k, b, canceled)
  BY <1>0, <1>2, <1>3, <1>4, <1>5
<1>7. ASSUME NEW p \in ps PROVE State(p, k) = "none" /\ Cardinality(Issued(p, k)) < MaxTries
  <2>1. \A n \in 1 .. MaxTries : rows[Cmd(p, barrier, k, n)] = "none"
    <3> TAKE n \in 1 .. MaxTries
    <3>1. PICK c \in Command : c = Cmd(p, barrier, k, n)
      BY <1>1, <1>4, CommandOf
    <3>2. c.barrier = barrier /\ c.kind = "apply"
      BY <3>1, <1>3 DEF Cmd
    <3> QED BY <3>1, <3>2, <1>1
  <2>2. State(p, k) = "none"
    BY <2>1, <1>1, <1>4, StateOf DEF CutoverInv, Commands
  <2> QED BY <2>2, <1>1, <1>4, StateOf, Parameters DEF CutoverInv, Commands
<1>8. /\ barriers' \in Seq(Tuples) /\ barrier' = b
      /\ \A x \in 1 .. barrier : barriers'[x].mode = barriers[x].mode
      /\ phase' \in Phases \ {"preparing", "active", "released"} /\ ~barriers'[b].activated
  BY <1>0, <1>1, <1>2 DEF barrier, Phases
<1>9. LocalGate(k) = "applied"
  BY <1>3 DEF LocalGate
<1>10. \A p \in Probes : gate[p][b] \in {"quiesced", "applied"}
  BY <1>0, <1>2 DEF CutoverInv, Holds, HeldGates
<1>11. \A p \in Probes : gate'[p][b] \in {"quiesced", "applied"}
  <2>1. \A p \in ps :
          \/ b = barrier + 1
          \/ /\ b = barrier /\ State(p, k) \in {"none", "busy", "expired"}
             /\ Cardinality(Issued(p, k)) < MaxTries
    BY <1>2, <1>7
  <2>2. \A q \in Probes, x \in Barriers :
          /\ q = Local /\ Local \in ps /\ x = b => gate'[q][x] = LocalGate(k)
          /\ ~(q = Local /\ Local \in ps /\ x = b) => gate'[q][x] = gate[q][x]
    BY <2>1, <1>6, IssueForms
  <2> QED BY <2>2, <1>9, <1>10
<1>12. Local \in ps =>
         /\ \A d \in Command : d.probe = Local /\ d.barrier = b /\ rows[d] = "done" => LocalGate(k) \in After[d.kind]
         /\ barriers'[b].mode = "aggregate" /\ LocalGate(k) \in {"quiesced", "applied"} => ~send[Local].row
  <2>1. \A d \in Command : d.barrier = b /\ rows[d] = "done" => LocalGate(k) \in After[d.kind]
    BY <1>1, <1>2, <1>9 DEF After
  <2>2. Local \in Probes /\ barriers'[b].mode = "aggregate" => ~send[Local].row
    <3>1. b \in 1 .. barrier
      BY <1>1, <1>2 DEF Barriers
    <3> QED BY <3>1, <1>0, <1>10 DEF CutoverInv, Holds, HoldsExclude
  <2> QED BY <2>1, <2>2
<1>13. \A p \in ps :
         \/ b = barrier + 1
         \/ /\ b = barrier /\ State(p, k) \in {"none", "busy", "expired"}
            /\ Cardinality(Issued(p, k)) < MaxTries
  BY <1>2, <1>7
<1>14. /\ k # "resume" /\ phase' = "applying"
       /\ \A d \in Command : d.barrier = b /\ rows[d] # "none" => d.kind # "resume" /\ d.kind # "apply"
  BY <1>0, <1>1, <1>2, <1>3
<1> QED BY <1>0, <1>1, <1>2, <1>6, <1>8, <1>11, <1>12, <1>13, <1>14, IssueStep

\* Every member not asked yet is asked to resume.
LEMMA ResumeAllStep ==
    ASSUME CutoverInv, phase = "draining", ~aggregate.row, Move("draining"),
           NEW ps, ps = {p \in Probes : State(p, "resume") = "none"},
           Issue(ps, "resume", barrier, Queued(ps))
    PROVE  CutoverInv'
<1>0. phase' = "draining" /\ UNCHANGED <<barriers, setVars, probeVars, wireVars, sendVars>>
  BY DEF Move
<1>1. barrier > 0 /\ barrier \in Barriers /\ barriers \in Seq(Tuples) /\ ps \in SUBSET Probes
  BY BarrierNumber DEF CutoverInv, Types, PhasesFit
<1>2. PICK b \in Barriers : b = barrier
  BY <1>1
<1>3. PICK k \in Kinds : k = "resume"
  BY DEF Kinds
<1>4. PICK canceled \in SUBSET {d \in Command : rows[d] = "pending" /\ d.kind # k} : canceled = Queued(ps)
  BY <1>3 DEF Queued
<1>5. Issue(ps, k, b, canceled)
  BY <1>2, <1>3, <1>4
<1>6. \A p \in ps :
        \/ b = barrier + 1
        \/ /\ b = barrier /\ State(p, k) \in {"none", "busy", "expired"}
           /\ Cardinality(Issued(p, k)) < MaxTries
  <2> TAKE p \in ps
  <2>1. p \in Probes /\ State(p, k) = "none"
    BY <1>3
  <2> QED BY <2>1, <1>1, <1>2, StateOf, Parameters DEF CutoverInv, Commands
<1>7. /\ barriers' \in Seq(Tuples) /\ barrier' = b
      /\ \A x \in 1 .. barrier : barriers'[x].mode = barriers[x].mode
      /\ phase' \in Phases \ {"preparing", "active", "released"}
  BY <1>0, <1>1, <1>2 DEF barrier, Phases
<1>8. Local \in ps =>
        /\ \A d \in Command : d.probe = Local /\ d.barrier = b /\ rows[d] = "done" => LocalGate(k) \in After[d.kind]
        /\ barriers'[b].mode = "aggregate" /\ LocalGate(k) \in {"quiesced", "applied"} => ~send[Local].row
  <2>1. LocalGate(k) = "released"
    BY <1>3 DEF LocalGate
  <2>2. \A d \in Command : LocalGate(k) \in After[d.kind]
    BY <2>1, CommandFields DEF After, Kinds
  <2> QED BY <2>1, <2>2
<1>9. /\ b = barrier \/ (b = barrier + 1 /\ phase \in {"preparing", "released"})
      /\ UNCHANGED <<setVars, probeVars, wireVars, sendVars>>
  BY <1>0, <1>2, <1>3
<1>10. k # "apply"
  BY <1>3
<1> QED BY <1>0, <1>1, <1>5, <1>6, <1>7, <1>8, <1>9, <1>10, IssueStep, ZenonT(30)

\* The passes that move a barrier with its members' commands.
LEMMA PassStep ==
    ASSUME CutoverInv, QuiescingPass \/ ApplyingPass \/ DrainingPass
    PROVE  CutoverInv'
<1>k. "quiesce" \in Kinds /\ "apply" \in Kinds /\ "resume" \in Kinds
  BY DEF Kinds
<1>1. CASE QuiescingPass
  <2>1. phase = "quiescing" /\ ~aggregate.row
    BY <1>1 DEF QuiescingPass, CutoverInv, PhasesFit
  <2>2. CASE MemberCommandPass("quiesce")
    BY <2>1, <2>2, <1>k, MemberCommandStep
  <2>3. CASE AllDone("quiesce") /\ Move("quiesced") /\ UNCHANGED <<rows, cool, gate>>
    BY <2>1, <2>3, QuiescedStep
  <2> QED BY <1>1, <2>2, <2>3 DEF QuiescingPass
<1>2. CASE ApplyingPass
  <2>1. phase = "applying" /\ ~aggregate.row
    BY <1>2 DEF ApplyingPass, CutoverInv, PhasesFit
  <2>2. CASE MemberCommandPass("apply")
    BY <2>1, <2>2, <1>k, MemberCommandStep
  <2>3. CASE ~MemberCommandPass("apply")
    BY <2>1, <2>3, <1>2, ActivationStep DEF ApplyingPass
  <2> QED BY <2>2, <2>3
<1>3. CASE DrainingPass
  <2>1. phase = "draining" /\ ~aggregate.row
    BY <1>3 DEF DrainingPass, Unsettled
  <2>2. PICK ps : ps = {p \in Probes : State(p, "resume") = "none"}
    OBVIOUS
  <2>3. CASE Move("draining") /\ Issue(ps, "resume", barrier, Queued(ps))
    BY <2>1, <2>2, <2>3, ResumeAllStep
  <2>4. CASE MemberCommandPass("resume")
    BY <2>1, <2>4, <1>k, MemberCommandStep
  <2>5. CASE /\ AllDone("resume") /\ phase' = "released"
             /\ UNCHANGED <<barriers, life, setVars, rows, cool, probeVars, wireVars, gate, sendVars>>
    BY <2>1, <2>5, DrainedStep
  <2> QED BY <1>3, <2>2, <2>3, <2>4, <2>5 DEF DrainingPass
<1> QED BY <1>1, <1>2, <1>3

----------------------------------------------------------------------------
(* The theorems.                                                           *)

\* Every step of the coordinator, the members, the providers, the operator and
\* the network keeps the invariant.
LEMMA CutoverStep == CutoverInv /\ [Next]_vars => CutoverInv'
<1> SUFFICES ASSUME CutoverInv, [Next]_vars PROVE CutoverInv'
  OBVIOUS
<1>1. CASE UNCHANGED vars
  <2>1. UNCHANGED <<phase, reason, barriers, rows, receipts, gate, sent, replies, send, aggregate,
                    desired, set, revision, config, acked, stream>>
    BY <1>1 DEF vars, hubVars, setVars, probeVars, wireVars, sendVars
  <2>2. Types'
    BY <2>1 DEF CutoverInv, Types, barrier
  <2> QED BY <2>1, <2>2, QuietStep DEF CutoverInv, PhasesFit
<1>2. CASE ReconcileCutover
  BY <1>2, PreparingStep, OperatorStep, DrainingPasses, PassStep, ApplyAllStep, ReleasedStep DEF ReconcileCutover
<1>3. ASSUME NEW c \in Command, Claim(c) PROVE CutoverInv'
  BY <1>3, ClaimStep
<1>4. ASSUME NEW p \in Probes, Execute(p) \/ ExpireResume(p) \/ Complete(p) PROVE CutoverInv'
  BY <1>4, ExecuteStep, ExpireStep, CompleteStep
<1>5. ASSUME NEW p \in Probes, StartRegional(p) \/ ReturnRegional(p) PROVE CutoverInv'
  BY <1>5, StartRegionalStep, AttemptsEnd
<1>6. CASE StartAggregate \/ ReturnAggregate \/ Tick
  BY <1>6, StartAggregateStep, AttemptsEnd
<1>7. CASE Toggle \/ ChangeOther \/ \E m \in Modes \cup {"regional"} : ChangeSet(m)
  BY <1>7, OperatorStep
<1>8. ASSUME NEW p \in Probes, ApplyConfig(p) \/ Acknowledge(p) \/ Drop(p) \/ Connect(p) \/ ResetStream(p)
      PROVE  CutoverInv'
  BY <1>8, OperatorStep, SessionLost
<1> QED BY <1>1, <1>2, <1>3, <1>4, <1>5, <1>6, <1>7, <1>8 DEF Next

\* The inductive invariant holds in every reachable state of the cutover
\* (ReconcileCutover, commitDeliveryGate, releaseDeliveryGate,
\* AuthorizeAggregateDelivery).
THEOREM CutoverInvariant == Spec => []CutoverInv
<1>1. Init => CutoverInv
  BY InitInvariant
<1>2. CutoverInv /\ [Next]_vars => CutoverInv'
  BY CutoverStep
<1> QED BY <1>1, <1>2, PTL DEF Spec

\* For any members and any faults: hub and member never page for the same
\* outage at once, an active barrier has every gate applied, no gate of a
\* finished barrier holds anything back, and a block can always be drained.
THEOREM CutoverSafe == Spec => []CutoverIsSafe
<1>1. CutoverInv => CutoverIsSafe
  <2> SUFFICES ASSUME CutoverInv PROVE CutoverIsSafe
    OBVIOUS
  <2>1. /\ DOMAIN send = Probes /\ DOMAIN gate = Probes
        /\ \A p \in Probes : DOMAIN gate[p] = Barriers
        /\ barrier \in Nat /\ (barrier > 0 => barrier \in Barriers)
    BY BarrierNumber DEF CutoverInv, Types
  <2>2. NoDoublePaging
    <3> SUFFICES ASSUME aggregate.io, mode = "aggregate", NEW p \in Probes PROVE ~send[p].io
      BY <2>1 DEF NoDoublePaging
    <3>1. aggregate.row /\ (send[p].io => send[p].row)
      BY DEF CutoverInv, PhasesFit
    <3>2. barrier > 0 /\ barriers[barrier].mode = "aggregate" /\ barrier \in 1 .. barrier
      BY <2>1 DEF mode, tuple
    <3>3. gate[p][barrier] = "applied"
      BY <3>1 DEF CutoverInv, Holds, HeldGates
    <3> QED BY <3>1, <3>2, <3>3 DEF CutoverInv, Holds, HoldsExclude
  <2>3. ActiveIsApplied
    BY <2>1 DEF ActiveIsApplied, CutoverInv, Holds, HeldGates
  <2>4. LiveGateIsCurrent
    BY <2>1, LiveIsCurrent DEF LiveGateIsCurrent
  <2>5. BlockedIsRecoverable
    BY <2>1 DEF BlockedIsRecoverable, CutoverInv, PhasesFit, tuple
  <2> QED BY <2>2, <2>3, <2>4, <2>5 DEF CutoverIsSafe
<1> QED BY <1>1, CutoverInvariant, PTL
=============================================================================
