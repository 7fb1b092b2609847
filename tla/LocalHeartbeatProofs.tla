----------------------- MODULE LocalHeartbeatProofs -----------------------
(***************************************************************************)
(* Proofs about what is recorded and what is kept of it, for any number of *)
(* monitors, checks, probes and workers, any retry limit and any bounds:   *)
(* LocalHeartbeat, HealthProjection (the stored overall snapshot) and      *)
(* HistoryRecompute (the queue behind the history).                        *)
(***************************************************************************)
EXTENDS LocalHeartbeat, HealthProjection, HistoryRecompute,
        FiniteSetTheorems, SequenceTheorems, TLAPS

\* The stored row is the last observation.
RowOf(o) == [seq |-> o.seq, gen |-> o.gen, status |-> o.status, downCount |-> o.downCount]
StateMirrorsLog ==
    \A m \in Monitors :
        state[m] = IF log[m] = << >> THEN NoRow ELSE RowOf(log[m][Len(log[m])])

\* Nothing recorded, and no expectation, is ahead of the allocator, the
\* assignment or the configuration.
LogIsPast ==
    \A m \in Monitors : \A i \in DOMAIN log[m] :
        /\ log[m][i].seq <= lastSeq
        /\ log[m][i].gen <= gen[m]
        /\ log[m][i].rev <= applied.rev
ExpectationsArePast == \A c \in Checks : check[c].exp <= lastSeq

\* While the expectation of a check is the stored number, what it evaluates
\* from is the stored state.
PreviousOf(kept, g) == IF kept.gen = g THEN [status |-> kept.status, downCount |-> kept.downCount]
                      ELSE NoState
ReadsAreCurrent ==
    \A c \in Checks :
        check[c].pc = "commit" /\ check[c].exp = state[check[c].mon].seq
            => check[c].prev = PreviousOf(state[check[c].mon], check[c].gen)

RecordingInv ==
    /\ TypeOK
    /\ StateMirrorsLog
    /\ LogIsPast
    /\ ExpectationsArePast
    /\ ReadsAreCurrent
    /\ SerialHistory
    /\ SupersededNeverRecords

-----------------------------------------------------------------------------

\* What an evaluation returns.
LEMMA EvaluationType ==
    ASSUME NEW p \in RetryStates, NEW raw \in RawStatuses, NEW maint \in BOOLEAN,
           NEW r \in Nat
    PROVE  LET e == EvaluateObservation(p, raw, maint, r)
           IN  /\ e.status \in Statuses /\ e.downCount \in Nat /\ e.important \in BOOLEAN
               /\ e = [status |-> e.status, downCount |-> e.downCount, important |-> e.important]
  BY MaxIntAssumption
  DEF EvaluateObservation, EvaluateRetry, NextDownCount, Effective, RetryStates, RetryState,
      NoState, RawStatuses, Statuses

\* A reset goroutine record is one.
LEMMA IdleType == \A k \in CheckRecord : Idle(k) \in CheckRecord
  BY ZenonT(60) DEF CheckRecord, Idle, RawStatuses, RetryStates, NoState

\* Nor do the moves of a goroutine leave its type.
LEMMA MovedType ==
    \A k \in CheckRecord :
        /\ [k EXCEPT !.pc = "generation"] \in CheckRecord
        /\ [k EXCEPT !.pc = "state"] \in CheckRecord
        /\ \A n \in Nat : [k EXCEPT !.pc = "generation", !.tries = @ + 1, !.aborts = n] \in CheckRecord
<1> TAKE k \in CheckRecord
<1>1. [k EXCEPT !.pc = "generation"] \in CheckRecord
  BY DEF CheckRecord
<1>2. [k EXCEPT !.pc = "state"] \in CheckRecord
  BY DEF CheckRecord
<1>3. ASSUME NEW n \in Nat
      PROVE  [k EXCEPT !.pc = "generation", !.tries = @ + 1, !.aborts = n] \in CheckRecord
  <2>1. k.tries + 1 \in Nat
    BY DEF CheckRecord
  <2>2. QED BY <2>1 DEF CheckRecord
<1>4. QED BY <1>1, <1>2, <1>3

\* A step that only moves goroutines, within their type, keeps the types.
LEMMA TypeCheckOnly ==
    ASSUME TypeOK, UNCHANGED <<adminVars, state, lastSeq, log>>, check' \in [Checks -> CheckRecord]
    PROVE  TypeOK'
  BY DEF TypeOK, adminVars

\* Every step keeps the variables in their types.
LEMMA TypeStep == TypeOK /\ [Next]_vars => TypeOK'
<1> SUFFICES ASSUME TypeOK, [Next]_vars PROVE TypeOK'
  OBVIOUS
<1> USE RecordingAssumption
<1>1. ASSUME NEW m \in Monitors, NEW local \in BOOLEAN, ReplaceAssignments(m, local) PROVE TypeOK'
  BY <1>1, SMTT(30) DEF TypeOK, ReplaceAssignments
<1>2. ASSUME Activate PROVE TypeOK'
  BY <1>2 DEF TypeOK, Activate, Definition
<1>3. ASSUME NEW c \in Checks, NEW m \in Monitors, NEW in \in Inputs, Record(c, m, in[1], in[2])
      PROVE  TypeOK'
  <2>0. in \in RawStatuses \X BOOLEAN
    OBVIOUS
  <2>1. in[1] \in RawStatuses /\ in[2] \in BOOLEAN
    BY <2>0
  <2>2. Len(log[m]) \in Nat /\ applied.gen[m] \in Nat /\ applied.rev \in Nat
    BY DEF TypeOK
  <2> DEFINE new == [pc |-> "revision", mon |-> m, gen |-> applied.gen[m], rev |-> applied.rev,
                     raw |-> in[1], maint |-> in[2], tries |-> 0, exp |-> 0, prev |-> NoState,
                     begun |-> Len(log[m]), aborts |-> 0]
  <2>3. new \in CheckRecord
    BY <2>1, <2>2 DEF CheckRecord, RetryStates
  <2>5. check' \in [Checks -> CheckRecord]
    BY <1>3, <2>3 DEF TypeOK, Record
  <2>6. QED BY <1>3, <2>5, TypeCheckOnly DEF Record
<1>4. ASSUME NEW c \in Checks, CheckRevision(c) PROVE TypeOK'
  <2>1. check' \in [Checks -> CheckRecord]
    BY <1>4, IdleType, MovedType DEF TypeOK, CheckRevision
  <2>2. QED BY <1>4, <2>1, TypeCheckOnly DEF CheckRevision
<1>5. ASSUME NEW c \in Checks, ReadGeneration(c) PROVE TypeOK'
  <2>1. check' \in [Checks -> CheckRecord]
    BY <1>5, IdleType, MovedType DEF TypeOK, ReadGeneration
  <2>2. QED BY <1>5, <2>1, TypeCheckOnly DEF ReadGeneration
<1>6. ASSUME NEW c \in Checks, ReadState(c) PROVE TypeOK'
  <2> DEFINE kept == state[check[c].mon]
  <2>1. check[c] \in CheckRecord /\ kept \in Row \cup {NoRow}
    BY DEF TypeOK, CheckRecord
  <2>2. kept.seq \in Nat /\ PreviousOf(kept, check[c].gen) \in RetryStates
    BY <2>1 DEF Row, NoRow, PreviousOf, RetryStates, RetryState, NoState, Statuses
  <2>3. check' \in [Checks -> CheckRecord]
    BY <1>6, <2>1, <2>2 DEF TypeOK, ReadState, CheckRecord, PreviousOf
  <2>4. QED BY <1>6, <2>3, TypeCheckOnly DEF ReadState
<1>7. ASSUME NEW c \in Checks, CommitLocalHeartbeat(c) PROVE TypeOK'
  <2> DEFINE k == check[c]
             e == Evaluated(k)
             o == [seq |-> lastSeq + 1, gen |-> k.gen, rev |-> k.rev, raw |-> k.raw,
                   maint |-> k.maint, status |-> e.status, downCount |-> e.downCount,
                   important |-> e.important]
  <2>1. k \in CheckRecord
    BY DEF TypeOK
  <2>2. e.status \in Statuses /\ e.downCount \in Nat /\ e.important \in BOOLEAN
    BY <2>1, EvaluationType DEF Evaluated, CheckRecord
  <2>8. /\ lastSeq + 1 \in Nat \ {0} /\ k.gen \in Nat /\ k.rev \in Nat
        /\ k.raw \in RawStatuses /\ k.maint \in BOOLEAN
    BY <2>1 DEF TypeOK, CheckRecord
  <2>9. o \in Observation
    BY <2>2, <2>8 DEF Observation
  <2>3. o \in Observation /\ RowOf(o) \in Row
    BY <2>2, <2>8, <2>9 DEF Row, RowOf
  <2>4. /\ state' = [state EXCEPT ![k.mon] = RowOf(o)]
        /\ log' = [log EXCEPT ![k.mon] = Append(@, o)]
    BY <1>7 DEF CommitLocalHeartbeat, RowOf
  <2>5. state' \in [Monitors -> Row \cup {NoRow}] /\ log' \in [Monitors -> Seq(Observation)]
    <3>1. PICK x, y : x = o /\ y = RowOf(o) /\ x \in Observation /\ y \in Row
      BY <2>3
    <3>2. state' = [state EXCEPT ![k.mon] = y] /\ log' = [log EXCEPT ![k.mon] = Append(@, x)]
      BY <2>4, <3>1
    <3>3. state' \in [Monitors -> Row \cup {NoRow}]
      BY <3>1, <3>2 DEF TypeOK
    <3>4. log \in [Monitors -> Seq(Observation)] /\ k.mon \in Monitors
      BY <2>1 DEF TypeOK, CheckRecord
    <3>5. Append(log[k.mon], x) \in Seq(Observation)
      BY <3>1, <3>4
    <3>6. log' \in [Monitors -> Seq(Observation)]
      BY <3>2, <3>4, <3>5
    <3>7. QED BY <3>3, <3>6
  <2>6. check' \in [Checks -> CheckRecord]
    BY <1>7, IdleType DEF TypeOK, CommitLocalHeartbeat
  <2>7. QED BY <1>7, <2>5, <2>6, SMTT(30) DEF TypeOK, CommitLocalHeartbeat, adminVars
<1>8. ASSUME NEW c \in Checks, CommitRefused(c) PROVE TypeOK'
  <2>1. check' \in [Checks -> CheckRecord]
    BY <1>8, IdleType DEF TypeOK, CommitRefused
  <2>2. QED BY <1>8, <2>1, TypeCheckOnly DEF CommitRefused
<1>9. ASSUME NEW c \in Checks, NEW aborted \in BOOLEAN, CommitRetried(c, aborted) PROVE TypeOK'
  <2> DEFINE n == IF aborted THEN check[c].aborts + 1 ELSE check[c].aborts
             new == [check[c] EXCEPT !.pc = "generation", !.tries = @ + 1, !.aborts = n]
  <2>0. check[c] \in CheckRecord /\ n \in Nat
    BY DEF TypeOK, CheckRecord
  <2>3. new \in CheckRecord
    BY <2>0, MovedType
  <2>4. check' = [check EXCEPT ![c] = new]
    BY <1>9 DEF CommitRetried
  <2>1. check' \in [Checks -> CheckRecord]
    BY <2>3, <2>4 DEF TypeOK
  <2>2. QED BY <1>9, <2>1, TypeCheckOnly DEF CommitRetried, RolledBack
<1>10. ASSUME NEW c \in Checks, NEW aborted \in BOOLEAN, GiveUp(c, aborted) PROVE TypeOK'
  <2>1. check' \in [Checks -> CheckRecord]
    BY <1>10, IdleType DEF TypeOK, GiveUp
  <2>2. QED BY <1>10, <2>1, TypeCheckOnly DEF GiveUp, RolledBack
<1>11. ASSUME NEW c \in Checks, Abandon(c) PROVE TypeOK'
  <2>1. check' \in [Checks -> CheckRecord]
    BY <1>11, IdleType DEF TypeOK, Abandon
  <2>2. QED BY <1>11, <2>1, TypeCheckOnly DEF Abandon
<1>12. CASE UNCHANGED vars
  BY <1>12 DEF TypeOK, vars, adminVars
<1>13. QED
  BY <1>1, <1>2, <1>3, <1>4, <1>5, <1>6, <1>7, <1>8, <1>9, <1>10, <1>11, <1>12
     DEF Next, CheckStep

\* The recording invariant holds at the start.
LEMMA RecordingInit == Init => RecordingInv
<1> SUFFICES ASSUME Init PROVE RecordingInv
  OBVIOUS
<1>1. TypeOK
  BY DEF Init, TypeOK, CheckRecord, RawStatuses, RetryStates, NoState
<1>2. QED
  BY <1>1 DEF Init, RecordingInv, StateMirrorsLog, LogIsPast, ExpectationsArePast,
     ReadsAreCurrent, SerialHistory, SupersededNeverRecords

\* Whatever the constants, the variables keep their types.
THEOREM TypeCorrect == Spec => []TypeOK
<1>1. Init => TypeOK
  BY RecordingInit DEF RecordingInv
<1>2. QED BY <1>1, TypeStep, PTL DEF Spec

-----------------------------------------------------------------------------

\* Steps that only move one goroutine: its new record must expect nothing of the
\* future, and evaluate from what it expects.
LEMMA MoveStep ==
    ASSUME RecordingInv, UNCHANGED <<adminVars, state, lastSeq, log>>, TypeOK',
           NEW c \in Checks, NEW v, check' = [check EXCEPT ![c] = v],
           v.exp <= lastSeq,
           v.pc = "commit" => v.prev = PreviousOf(state[v.mon], v.gen)
    PROVE  RecordingInv'
<1>1. ExpectationsArePast'
  BY DEF RecordingInv, TypeOK, ExpectationsArePast
<1>2. ReadsAreCurrent'
  BY DEF RecordingInv, TypeOK, ReadsAreCurrent
<1>3. StateMirrorsLog' /\ LogIsPast'
  BY DEF RecordingInv, StateMirrorsLog, LogIsPast, adminVars
<1>4. SerialHistory' /\ SupersededNeverRecords'
  BY DEF RecordingInv, SerialHistory, Predecessor, SupersededNeverRecords
<1>5. QED BY <1>1, <1>2, <1>3, <1>4 DEF RecordingInv

\* A goroutine that ends keeps no expectation.
LEMMA IdleFields == \A k \in CheckRecord : Idle(k).exp = 0 /\ Idle(k).pc = "idle"
  BY DEF Idle, CheckRecord

\* A commit appends one observation to one history.
LEMMA CommitStep ==
    ASSUME RecordingInv, TypeOK', NEW c \in Checks, CommitLocalHeartbeat(c)
    PROVE  RecordingInv'
<1>a. check[c] \in CheckRecord /\ check[c].mon \in Monitors
  BY DEF RecordingInv, TypeOK, CheckRecord
<1>b. PICK k \in CheckRecord : k = check[c]
  BY <1>a
<1>c. PICK m \in Monitors : m = k.mon
  BY <1>a, <1>b
<1>d. log[m] \in Seq(Observation) /\ lastSeq \in Nat
  BY DEF RecordingInv, TypeOK
<1>e. PICK n \in Nat : n = Len(log[m])
  BY <1>d
<1> DEFINE e == EvaluateObservation(k.prev, k.raw, k.maint, MaxRetries)
<1>f. PICK o : o = [seq |-> lastSeq + 1, gen |-> k.gen, rev |-> k.rev, raw |-> k.raw,
                    maint |-> k.maint, status |-> e.status, downCount |-> e.downCount,
                    important |-> e.important]
  OBVIOUS
<1>1. k \in CheckRecord /\ m \in Monitors /\ log[m] \in Seq(Observation) /\ n \in Nat /\ lastSeq \in Nat
  BY <1>d
<1>2. /\ lastSeq' = lastSeq + 1
      /\ state' = [state EXCEPT ![m] = RowOf(o)]
      /\ log' = [log EXCEPT ![m] = Append(@, o)]
      /\ check' = [check EXCEPT ![c] = Idle(@)]
      /\ UNCHANGED <<gen, applied>>
  BY <1>b, <1>c, <1>f DEF CommitLocalHeartbeat, RowOf, adminVars, Evaluated
<1>g. /\ log'[m] = Append(log[m], o) /\ state'[m] = RowOf(o)
      /\ \A x \in Monitors \ {m} : log'[x] = log[x] /\ state'[x] = state[x]
  BY <1>2 DEF RecordingInv, TypeOK
<1>h. o \in Observation
  <2>1. e.status \in Statuses /\ e.downCount \in Nat /\ e.important \in BOOLEAN
    BY <1>1, EvaluationType, RecordingAssumption DEF CheckRecord
  <2>2. /\ lastSeq + 1 \in Nat \ {0} /\ k.gen \in Nat /\ k.rev \in Nat
        /\ k.raw \in RawStatuses /\ k.maint \in BOOLEAN
    BY <1>1 DEF CheckRecord
  <2>3. QED BY <1>f, <2>1, <2>2 DEF Observation
<1>3. /\ Len(log'[m]) = n + 1 /\ log'[m] # << >> /\ log'[m][n+1] = o
      /\ \A i \in 1..n : log'[m][i] = log[m][i]
      /\ DOMAIN log[m] = 1..n /\ DOMAIN log'[m] = 1..(n+1)
      /\ \A x \in Monitors \ {m} : log'[x] = log[x] /\ state'[x] = state[x]
  BY <1>1, <1>e, <1>g, <1>h
<1>4. StateMirrorsLog'
  BY <1>1, <1>2, <1>3, <1>g DEF RecordingInv, StateMirrorsLog
<1>5. k.gen = gen[m] /\ k.rev = applied.rev /\ state[m].seq = k.exp /\ k.pc = "commit"
  BY <1>b, <1>c DEF CommitLocalHeartbeat, Authorized, StateMatches
<1>6. LogIsPast'
  <2> SUFFICES ASSUME NEW x \in Monitors, NEW i \in DOMAIN log'[x]
               PROVE  /\ log'[x][i].seq <= lastSeq + 1
                      /\ log'[x][i].gen <= gen[x]
                      /\ log'[x][i].rev <= applied.rev
    BY <1>2 DEF LogIsPast
  <2>0. gen[x] \in Nat /\ applied.rev \in Nat
    BY DEF RecordingInv, TypeOK
  <2>1. CASE x # m
    <3>0. log[x] \in Seq(Observation) /\ log'[x] = log[x]
      BY <1>3, <2>1 DEF RecordingInv, TypeOK
    <3>1. i \in DOMAIN log[x] /\ log'[x][i] = log[x][i] /\ log[x][i] \in Observation
      BY <3>0
    <3>2. log[x][i].seq <= lastSeq /\ log[x][i].gen <= gen[x] /\ log[x][i].rev <= applied.rev
      BY <3>1 DEF RecordingInv, LogIsPast
    <3>3. log[x][i].seq \in Nat /\ lastSeq \in Nat
      BY <3>1 DEF Observation, RecordingInv, TypeOK
    <3>4. QED BY <3>1, <3>2, <3>3
  <2>2. CASE x = m /\ i \in 1..n
    <3>1. i \in DOMAIN log[m] /\ log'[x][i] = log[m][i] /\ log[m][i] \in Observation
      BY <1>1, <1>3, <2>2
    <3>2. log[m][i].seq <= lastSeq /\ log[m][i].gen <= gen[m] /\ log[m][i].rev <= applied.rev
      BY <3>1 DEF RecordingInv, LogIsPast
    <3>3. log[m][i].seq \in Nat /\ lastSeq \in Nat
      BY <3>1 DEF Observation, RecordingInv, TypeOK
    <3>4. QED BY <2>2, <3>1, <3>2, <3>3
  <2>3. CASE x = m /\ i = n + 1
    BY <1>1, <1>3, <1>5, <1>f, <2>0, <2>3
  <2>4. QED BY <1>1, <1>3, <2>1, <2>2, <2>3
<1>7. ExpectationsArePast'
  <2> SUFFICES ASSUME NEW d \in Checks PROVE check'[d].exp <= lastSeq + 1
    BY <1>2 DEF ExpectationsArePast
  <2>1. check[d] \in CheckRecord /\ check[d].exp \in Nat
    BY DEF RecordingInv, TypeOK, CheckRecord
  <2>2. check'[d] = IF d = c THEN Idle(k) ELSE check[d]
    BY <1>2, <1>b DEF RecordingInv, TypeOK
  <2>3. QED BY <1>1, <2>1, <2>2, IdleFields DEF RecordingInv, ExpectationsArePast
\* No other check expects the new number.
<1>8. ReadsAreCurrent'
  <2> SUFFICES ASSUME NEW d \in Checks, check'[d].pc = "commit",
                      check'[d].exp = state'[check'[d].mon].seq
               PROVE  check'[d].prev = PreviousOf(state'[check'[d].mon], check'[d].gen)
    BY DEF ReadsAreCurrent
  <2>1. d # c /\ check'[d] = check[d]
    BY <1>1, <1>2, <1>b, IdleFields DEF RecordingInv, TypeOK
  <2>2. check[d].mon \in Monitors /\ check[d].exp \in Nat /\ check[d].exp <= lastSeq
    BY DEF RecordingInv, TypeOK, CheckRecord, ExpectationsArePast
  <2>3. state'[m].seq = lastSeq + 1
    BY <1>f, <1>g DEF RowOf
  <2>4. check[d].mon # m
    BY <1>1, <2>1, <2>2, <2>3
  <2>5. QED BY <1>3, <2>1, <2>2, <2>4 DEF RecordingInv, ReadsAreCurrent
\* What was evaluated from is the observation before.
<1>9. SerialHistory'
  <2>2. [status |-> e.status, downCount |-> e.downCount, important |-> e.important] = e
    BY <1>1, EvaluationType, RecordingAssumption DEF CheckRecord
  <2>3. k.prev = PreviousOf(state[m], k.gen)
    BY <1>5, <1>b, <1>c DEF RecordingInv, ReadsAreCurrent
  <2>4. k.prev = IF n > 0 /\ log[m][n].gen = k.gen
                 THEN [status |-> log[m][n].status, downCount |-> log[m][n].downCount]
                 ELSE NoState
    <3>1. CASE n = 0
      <4>1. log[m] = << >>
        BY <1>1, <1>e, <3>1, EmptySeq
      <4>2. state[m] = NoRow
        BY <1>1, <4>1 DEF RecordingInv, StateMirrorsLog
      <4>3. QED BY <2>3, <3>1, <4>2 DEF PreviousOf, NoRow, NoState
    <3>2. CASE n > 0
      <4>1. log[m] # << >>
        BY <1>1, <1>e, <3>2
      <4>2. state[m] = RowOf(log[m][n])
        BY <1>1, <1>e, <4>1 DEF RecordingInv, StateMirrorsLog
      <4>3. QED BY <2>3, <3>2, <4>2 DEF PreviousOf, RowOf
    <3>3. QED BY <1>1, <3>1, <3>2
  <2> SUFFICES ASSUME NEW x \in Monitors, NEW i \in DOMAIN log'[x]
               PROVE  [status |-> log'[x][i].status, downCount |-> log'[x][i].downCount,
                       important |-> log'[x][i].important]
                        = EvaluateObservation(Predecessor(x, i)', log'[x][i].raw, log'[x][i].maint, MaxRetries)
    BY DEF SerialHistory
  <2>5. CASE x # m
    <3>1. log'[x] = log[x]
      BY <1>3, <2>5
    <3>2. Predecessor(x, i)' = Predecessor(x, i)
      BY <3>1 DEF Predecessor
    <3>3. QED BY <3>1, <3>2 DEF RecordingInv, SerialHistory
  <2>6. CASE x = m /\ i \in 1..n
    <3>1. i \in DOMAIN log[m] /\ log'[m][i] = log[m][i] /\ (i > 1 => log'[m][i-1] = log[m][i-1])
      <4>1. i \in Nat /\ 1 <= i /\ i <= n
        BY <1>1, <2>6
      <4>2. i > 1 => i - 1 \in 1..n
        BY <1>1, <4>1
      <4>3. QED BY <1>1, <1>3, <2>6, <4>2
    <3>2. Predecessor(m, i)' = Predecessor(m, i)
      BY <3>1 DEF Predecessor
    <3>3. QED BY <1>1, <2>6, <3>1, <3>2 DEF RecordingInv, SerialHistory
  <2>7. CASE x = m /\ i = n + 1
    <3>1. log'[m][n+1] = o /\ (n > 0 => log'[m][n] = log[m][n])
      BY <1>1, <1>3
    <3>2. Predecessor(m, n+1)' = k.prev
      <4>1. o.gen = k.gen
        BY <1>f
      <4>2. n + 1 > 1 <=> n > 0
        BY <1>1
      <4>3. n + 1 - 1 = n
        BY <1>1
      <4>4. QED BY <2>4, <3>1, <4>1, <4>2, <4>3 DEF Predecessor
    <3>3. QED BY <1>f, <2>2, <2>7, <3>1, <3>2
  <2>8. QED BY <1>1, <1>3, <2>5, <2>6, <2>7
<1>10. SupersededNeverRecords'
  <2> SUFFICES ASSUME NEW x \in Monitors, NEW i \in DOMAIN log'[x], i > 1
               PROVE  /\ log'[x][i-1].gen <= log'[x][i].gen
                      /\ log'[x][i-1].rev <= log'[x][i].rev
                      /\ log'[x][i-1].seq < log'[x][i].seq
    BY DEF SupersededNeverRecords
  <2>1. CASE x # m
    BY <1>3, <2>1 DEF RecordingInv, SupersededNeverRecords
  <2>2. CASE x = m /\ i \in 1..n
    <3>1. i \in DOMAIN log[m] /\ log'[m][i] = log[m][i] /\ log'[m][i-1] = log[m][i-1]
      BY <1>1, <1>3, <2>2
    <3>2. QED BY <1>1, <2>2, <3>1 DEF RecordingInv, SupersededNeverRecords
  <2>3. CASE x = m /\ i = n + 1
    <3>1. /\ log'[m][i] = o /\ log'[m][i-1] = log[m][n] /\ n \in DOMAIN log[m]
          /\ log[m][n] \in Observation
      BY <1>1, <1>3, <2>3
    <3>2. log[m][n].seq <= lastSeq /\ log[m][n].gen <= gen[m] /\ log[m][n].rev <= applied.rev
      BY <1>1, <3>1 DEF RecordingInv, LogIsPast
    <3>3. QED BY <1>1, <1>5, <1>f, <2>3, <3>1, <3>2 DEF Observation
  <2>4. QED BY <1>1, <1>3, <2>1, <2>2, <2>3
<1>11. QED BY <1>4, <1>6, <1>7, <1>8, <1>9, <1>10 DEF RecordingInv

\* The recording invariant is inductive.
LEMMA RecordingStep == RecordingInv /\ [Next]_vars => RecordingInv'
<1> SUFFICES ASSUME RecordingInv, [Next]_vars PROVE RecordingInv'
  OBVIOUS
<1>0. TypeOK /\ TypeOK'
  BY TypeStep DEF RecordingInv
<1>00. \A c \in Checks : check[c] \in CheckRecord /\ check[c].exp <= lastSeq /\ 0 <= lastSeq
  BY <1>0 DEF RecordingInv, TypeOK, ExpectationsArePast
\* The administrative steps only move the bounds of the history up.
<1>1. ASSUME NEW m \in Monitors, NEW local \in BOOLEAN, ReplaceAssignments(m, local)
      PROVE  RecordingInv'
  <2>1. /\ UNCHANGED <<applied, state, lastSeq, log, check>>
        /\ \A x \in Monitors : gen[x] <= gen'[x] /\ gen[x] \in Nat /\ gen'[x] \in Nat
    <3>1. gen \in [Monitors -> Nat] /\ gen' \in [Monitors -> Nat]
      BY <1>0 DEF TypeOK
    <3>2. /\ UNCHANGED <<applied, state, lastSeq, log, check>>
          /\ \A x \in Monitors : gen[x] <= gen'[x]
      BY <1>1, <3>1 DEF ReplaceAssignments
    <3>3. QED BY <3>1, <3>2
  <2>2. LogIsPast'
    <3> SUFFICES ASSUME NEW x \in Monitors, NEW i \in DOMAIN log[x]
                 PROVE  /\ log[x][i].seq <= lastSeq /\ log[x][i].gen <= gen'[x]
                        /\ log[x][i].rev <= applied.rev
      BY <2>1 DEF LogIsPast
    <3>0. log[x] \in Seq(Observation)
      BY <1>0 DEF TypeOK
    <3>1. log[x][i] \in Observation
      BY <3>0
    <3>2. QED BY <2>1, <3>1 DEF RecordingInv, LogIsPast, Observation
  <2>3. QED
    BY <1>0, <2>1, <2>2 DEF RecordingInv, StateMirrorsLog, ExpectationsArePast, ReadsAreCurrent,
       SerialHistory, Predecessor, SupersededNeverRecords
<1>2. ASSUME Activate PROVE RecordingInv'
  <2>1. /\ UNCHANGED <<gen, state, lastSeq, log, check>>
        /\ applied'.rev = applied.rev + 1 /\ applied.rev \in Nat
    BY <1>0, <1>2 DEF Activate, Definition, TypeOK
  <2>2. LogIsPast'
    <3> SUFFICES ASSUME NEW x \in Monitors, NEW i \in DOMAIN log[x]
                 PROVE  /\ log[x][i].seq <= lastSeq /\ log[x][i].gen <= gen[x]
                        /\ log[x][i].rev <= applied.rev + 1
      BY <2>1 DEF LogIsPast
    <3>0. log[x] \in Seq(Observation)
      BY <1>0 DEF TypeOK
    <3>1. log[x][i] \in Observation
      BY <3>0
    <3>2. QED BY <2>1, <3>1 DEF RecordingInv, LogIsPast, Observation
  <2>3. QED
    BY <1>0, <2>1, <2>2 DEF RecordingInv, StateMirrorsLog, ExpectationsArePast, ReadsAreCurrent,
       SerialHistory, Predecessor, SupersededNeverRecords
<1>3. ASSUME NEW c \in Checks, NEW m \in Monitors, NEW in \in Inputs, Record(c, m, in[1], in[2])
      PROVE  RecordingInv'
  <2> DEFINE v == [pc |-> "revision", mon |-> m, gen |-> applied.gen[m], rev |-> applied.rev,
                   raw |-> in[1], maint |-> in[2], tries |-> 0, exp |-> 0, prev |-> NoState,
                   begun |-> Len(log[m]), aborts |-> 0]
  <2>1. v.exp <= lastSeq /\ v.pc # "commit"
    BY <1>00
  <2>2. check' = [check EXCEPT ![c] = v] /\ UNCHANGED <<adminVars, state, lastSeq, log>>
    BY <1>3 DEF Record
  <2> HIDE DEF v
  <2>3. QED BY <1>0, <2>1, <2>2, MoveStep
<1>4. ASSUME NEW c \in Checks, check' = [check EXCEPT ![c] = Idle(@)],
             UNCHANGED <<adminVars, state, lastSeq, log>>
      PROVE  RecordingInv'
  <2>1. check' = [check EXCEPT ![c] = Idle(check[c])]
    BY <1>4
  <2>2. Idle(check[c]).exp <= lastSeq /\ Idle(check[c]).pc # "commit"
    BY <1>00, IdleFields
  <2>3. QED BY <1>0, <1>4, <2>1, <2>2, MoveStep
<1>5. ASSUME NEW c \in Checks, CheckRevision(c) PROVE RecordingInv'
  <2>1. CASE applied.rev = check[c].rev
    <3> DEFINE v == [check[c] EXCEPT !.pc = "generation"]
    <3>1. v.exp <= lastSeq /\ v.pc # "commit"
      BY <1>00 DEF CheckRecord
    <3>2. check' = [check EXCEPT ![c] = v] /\ UNCHANGED <<adminVars, state, lastSeq, log>>
      BY <1>5, <2>1 DEF CheckRevision
    <3> HIDE DEF v
    <3>3. QED BY <1>0, <3>1, <3>2, MoveStep
  <2>2. CASE applied.rev # check[c].rev
    BY <1>4, <1>5, <2>2 DEF CheckRevision
  <2>3. QED BY <2>1, <2>2
<1>6. ASSUME NEW c \in Checks, ReadGeneration(c) PROVE RecordingInv'
  <2> DEFINE same == assigned[check[c].mon] /\ gen[check[c].mon] = check[c].gen
  <2>1. CASE same
    <3> DEFINE v == [check[c] EXCEPT !.pc = "state"]
    <3>1. v.exp <= lastSeq /\ v.pc # "commit"
      BY <1>00 DEF CheckRecord
    <3>2. check' = [check EXCEPT ![c] = v] /\ UNCHANGED <<adminVars, state, lastSeq, log>>
      BY <1>6, <2>1 DEF ReadGeneration
    <3> HIDE DEF v
    <3>3. QED BY <1>0, <3>1, <3>2, MoveStep
  <2>2. CASE ~same
    BY <1>4, <1>6, <2>2 DEF ReadGeneration
  <2>3. QED BY <2>1, <2>2
<1>7. ASSUME NEW c \in Checks, ReadState(c) PROVE RecordingInv'
  <2> DEFINE kept == state[check[c].mon]
             v == [check[c] EXCEPT !.pc = "commit", !.exp = kept.seq, !.prev = PreviousOf(kept, check[c].gen)]
  <2>1. check[c] \in CheckRecord /\ check[c].mon \in Monitors
    BY <1>00 DEF CheckRecord
  <2>2. kept.seq <= lastSeq
    <3> DEFINE l == log[check[c].mon]
    <3>1. l \in Seq(Observation) /\ kept = IF l = << >> THEN NoRow ELSE RowOf(l[Len(l)])
      BY <1>0, <2>1 DEF RecordingInv, TypeOK, StateMirrorsLog
    <3>2. CASE l = << >>
      BY <1>00, <3>1, <3>2 DEF NoRow
    <3>3. CASE l # << >>
      <4>1. Len(l) \in DOMAIN l
        BY <3>1, <3>3
      <4>2. QED BY <2>1, <3>1, <3>3, <4>1 DEF RecordingInv, LogIsPast, RowOf
    <3>4. QED BY <3>2, <3>3
  <2>3. v.exp = kept.seq /\ v.prev = PreviousOf(kept, v.gen) /\ v.mon = check[c].mon
    BY <2>1 DEF CheckRecord
  <2>4. check' = [check EXCEPT ![c] = v] /\ UNCHANGED <<adminVars, state, lastSeq, log>>
    BY <1>7 DEF ReadState, PreviousOf
  <2> HIDE DEF v
  <2>5. QED BY <1>0, <2>2, <2>3, <2>4, MoveStep
<1>8. ASSUME NEW c \in Checks, NEW aborted \in BOOLEAN, CommitRetried(c, aborted) PROVE RecordingInv'
  <2> DEFINE v == [check[c] EXCEPT !.pc = "generation", !.tries = @ + 1,
                                   !.aborts = IF aborted THEN @ + 1 ELSE @]
  <2>1. v.exp <= lastSeq /\ v.pc # "commit"
    BY <1>00 DEF CheckRecord
  <2>2. check' = [check EXCEPT ![c] = v] /\ UNCHANGED <<adminVars, state, lastSeq, log>>
    BY <1>8 DEF CommitRetried, RolledBack
  <2> HIDE DEF v
  <2>3. QED BY <1>0, <2>1, <2>2, MoveStep
<1>9. CASE UNCHANGED vars
  BY <1>0, <1>9 DEF vars, adminVars, RecordingInv, StateMirrorsLog, LogIsPast, ExpectationsArePast,
     ReadsAreCurrent, SerialHistory, Predecessor, SupersededNeverRecords
<1>10. ASSUME NEW c \in Checks, CommitRefused(c) PROVE RecordingInv'
  BY <1>4, <1>10 DEF CommitRefused
<1>11. ASSUME NEW c \in Checks, NEW aborted \in BOOLEAN, GiveUp(c, aborted) PROVE RecordingInv'
  BY <1>4, <1>11 DEF GiveUp, RolledBack
<1>12. ASSUME NEW c \in Checks, Abandon(c) PROVE RecordingInv'
  BY <1>4, <1>12 DEF Abandon
<1>13. ASSUME NEW c \in Checks, CommitLocalHeartbeat(c) PROVE RecordingInv'
  BY <1>0, <1>13, CommitStep
<1>14. QED
  BY <1>1, <1>2, <1>3, <1>5, <1>6, <1>7, <1>8, <1>9, <1>10, <1>11, <1>12, <1>13
     DEF Next, CheckStep

\* The invariant, for every value of the constants.
THEOREM RecordingInvariant == Spec => []RecordingInv
<1>1. QED BY RecordingInit, RecordingStep, PTL DEF Spec

\* However many checks overlap, the recorded history of every monitor is serial:
\* the compare-and-set on the state's sequence number is all the locking that
\* persistCheck needs.
THEOREM HistoryIsSerial == Spec => []SerialHistory
<1>1. RecordingInv => SerialHistory
  BY DEF RecordingInv
<1>2. QED BY <1>1, RecordingInvariant, PTL

\* Nothing of a replaced assignment or configuration is recorded after its
\* successor, whichever checks were running when it was replaced.
THEOREM SupersededNeverReturns == Spec => []SupersededNeverRecords
<1>1. RecordingInv => SupersededNeverRecords
  BY DEF RecordingInv
<1>2. QED BY <1>1, RecordingInvariant, PTL

-----------------------------------------------------------------------------

\* The history of m, of n observations so far, grows by o.
Appends(m, n, o) ==
    /\ n = Len(log[m]) /\ o.seq = lastSeq + 1 /\ lastSeq' = lastSeq + 1
    /\ log'[m] \in Seq(Observation) /\ Len(log'[m]) = n + 1
    /\ DOMAIN log[m] = 1..n /\ DOMAIN log'[m] = 1..(n+1)
    /\ log'[m][n+1] = o /\ \A i \in 1..n : log'[m][i] = log[m][i]
    /\ \A x \in Monitors \ {m} : log'[x] = log[x] /\ state'[x] = state[x]
\* What a commit adds to the histories.
LEMMA CommitAppends ==
    ASSUME RecordingInv, NEW c \in Checks, CommitLocalHeartbeat(c)
    PROVE  \E m \in Monitors, n \in Nat, o \in Observation : m = check[c].mon /\ Appends(m, n, o)
<1>a. check[c] \in CheckRecord /\ check[c].mon \in Monitors
  BY DEF RecordingInv, TypeOK, CheckRecord
<1>b. PICK m \in Monitors : m = check[c].mon
  BY <1>a
<1>c. log[m] \in Seq(Observation) /\ lastSeq \in Nat
  BY DEF RecordingInv, TypeOK
<1>d. PICK n \in Nat : n = Len(log[m])
  BY <1>c
<1> DEFINE k == check[c]
           e == Evaluated(k)
<1>e. PICK o : o = [seq |-> lastSeq + 1, gen |-> k.gen, rev |-> k.rev, raw |-> k.raw,
                    maint |-> k.maint, status |-> e.status, downCount |-> e.downCount,
                    important |-> e.important]
  OBVIOUS
<1>1. o \in Observation
  <2>1. e.status \in Statuses /\ e.downCount \in Nat /\ e.important \in BOOLEAN
    BY <1>a, EvaluationType, RecordingAssumption DEF CheckRecord, Evaluated
  <2>2. /\ lastSeq + 1 \in Nat \ {0} /\ k.gen \in Nat /\ k.rev \in Nat
        /\ k.raw \in RawStatuses /\ k.maint \in BOOLEAN
    BY <1>a, <1>c DEF CheckRecord
  <2>3. QED BY <1>e, <2>1, <2>2 DEF Observation
<1>2. /\ lastSeq' = lastSeq + 1 /\ check' = [check EXCEPT ![c] = Idle(@)]
      /\ log' = [log EXCEPT ![m] = Append(@, o)]
      /\ state' = [state EXCEPT ![m] = RowOf(o)]
  BY <1>b, <1>e DEF CommitLocalHeartbeat, RowOf
<1>3. log'[m] = Append(log[m], o) /\ \A x \in Monitors \ {m} : log'[x] = log[x] /\ state'[x] = state[x]
  BY <1>2 DEF RecordingInv, TypeOK
<1>4. /\ log'[m] \in Seq(Observation) /\ Len(log'[m]) = n + 1
      /\ DOMAIN log[m] = 1..n /\ DOMAIN log'[m] = 1..(n+1)
      /\ log'[m][n+1] = o /\ \A i \in 1..n : log'[m][i] = log[m][i]
  BY <1>1, <1>3, <1>c, <1>d
<1>5. o.seq = lastSeq + 1
  BY <1>e
<1>6. Appends(m, n, o)
  BY <1>2, <1>3, <1>4, <1>5, <1>d DEF Appends
<1>7. QED BY <1>1, <1>6, <1>b

\* Nothing but a commit touches the histories and their numbers.
LEMMA OnlyCommitsRecord ==
    ASSUME [Next]_vars
    PROVE  UNCHANGED <<log, lastSeq, state>> \/ \E c \in Checks : CommitLocalHeartbeat(c)
  BY ZenonT(30) DEF Next, CheckStep, ReplaceAssignments, Activate, Record, CheckRevision, ReadGeneration,
     ReadState, CommitRefused, CommitRetried, GiveUp, RolledBack, Abandon, vars, adminVars

\* The monitors that recorded number n.
Holders(n) == {m \in Monitors : \E i \in DOMAIN log[m] : log[m][i].seq = n}
NumbersGivenOnce == \A n \in 1..lastSeq : \E m \in Monitors : Holders(n) = {m}

\* A commit gives the next number to its monitor and takes none away.
LEMMA NumbersStep ==
    ASSUME RecordingInv, NumbersGivenOnce, [Next]_vars
    PROVE  NumbersGivenOnce'
<1>1. CASE UNCHANGED <<log, lastSeq, state>>
  BY <1>1 DEF NumbersGivenOnce, Holders
<1>2. ASSUME NEW c \in Checks, CommitLocalHeartbeat(c) PROVE NumbersGivenOnce'
  <2>1. PICK m \in Monitors, n \in Nat, o \in Observation : Appends(m, n, o)
    BY <1>2, CommitAppends
  <2>0. lastSeq \in Nat /\ \A x \in Monitors : \A i \in DOMAIN log[x] : log[x][i].seq <= lastSeq
    BY DEF RecordingInv, TypeOK, LogIsPast
  <2>t. \A x \in Monitors : \A i \in DOMAIN log[x] : log[x][i].seq \in Nat
    <3>1. \A x \in Monitors : log[x] \in Seq(Observation)
      BY DEF RecordingInv, TypeOK
    <3>2. \A x \in Monitors : \A i \in DOMAIN log[x] : log[x][i] \in Observation
      BY <3>1
    <3>3. QED BY <3>2 DEF Observation
  <2>n. PICK next \in Nat : next = lastSeq + 1
    BY <2>0
  <2>p. \A x \in Monitors : \A i \in DOMAIN log[x] : log[x][i].seq # next
    BY <2>0, <2>n, <2>t
  <2>2. ASSUME NEW q \in 1..lastSeq PROVE Holders(q)' = Holders(q)
    <3>1. ASSUME NEW x \in Monitors
          PROVE  (\E i \in DOMAIN log'[x] : log'[x][i].seq = q) <=> (\E i \in DOMAIN log[x] : log[x][i].seq = q)
      <4>1. CASE x # m
        BY <2>1, <4>1 DEF Appends
      <4>2. CASE x = m
        <5>1. o.seq # q
          BY <2>0, <2>1 DEF Appends
        <5>2. 1..(n+1) = (1..n) \cup {n+1}
          OBVIOUS
        <5>3. QED BY <2>1, <4>2, <5>1, <5>2 DEF Appends
      <4>3. QED BY <4>1, <4>2
    <3>2. QED BY <3>1 DEF Holders
  <2>3. Holders(next)' = {m}
    <3>1. n + 1 \in DOMAIN log'[m] /\ log'[m][n+1].seq = next
      BY <2>1, <2>n DEF Appends
    <3>2. \A x \in Monitors \ {m} : \A i \in DOMAIN log'[x] : log'[x][i].seq # next
      BY <2>1, <2>p DEF Appends
    <3>3. QED BY <3>1, <3>2 DEF Holders
  <2>4. 1..next = (1..lastSeq) \cup {next} /\ lastSeq' = next
    BY <2>0, <2>1, <2>n DEF Appends
  <2>5. QED BY <2>2, <2>3, <2>4 DEF NumbersGivenOnce
<1>3. QED BY <1>1, <1>2, OnlyCommitsRecord

\* The failures in a row that end at place i of history l.
Failed(o) == o.raw = "DOWN" /\ ~o.maint
Run(l, i) == {j \in 1..i : \A x \in j..i : Failed(l[x]) /\ l[x].gen = l[i].gen}
Counted(S) == IF Cardinality(S) < MaxInt THEN Cardinality(S) ELSE MaxInt
FailuresCounted ==
    \A m \in Monitors : \A i \in DOMAIN log[m] : log[m][i].downCount = Counted(Run(log[m], i))

\* A run is finite.
LEMMA RunIsFinite ==
    ASSUME NEW l, NEW i \in Nat
    PROVE  IsFiniteSet(Run(l, i)) /\ Cardinality(Run(l, i)) \in Nat /\ i + 1 \notin Run(l, i)
<1>1. IsFiniteSet(1..i)
  BY FS_Interval
<1>2. Run(l, i) \subseteq 1..i
  BY DEF Run
<1>3. IsFiniteSet(Run(l, i))
  BY <1>1, <1>2, FS_Subset
<1>4. QED BY <1>2, <1>3, FS_CardinalityType

\* A failure lengthens the run of its generation, anything else ends it.
LEMMA RunGrows ==
    ASSUME NEW l, NEW n \in Nat
    PROVE  Run(l, n + 1) = IF ~Failed(l[n+1]) THEN {}
                           ELSE IF n > 0 /\ l[n].gen = l[n+1].gen THEN Run(l, n) \cup {n+1}
                           ELSE {n+1}
<1>1. CASE ~Failed(l[n+1])
  <2>1. \A j \in 1..(n+1) : n+1 \in j..(n+1)
    OBVIOUS
  <2>2. QED BY <1>1, <2>1 DEF Run
<1>2. CASE Failed(l[n+1]) /\ n > 0 /\ l[n].gen = l[n+1].gen
  <2>1. \A j \in 1..n : j..(n+1) = (j..n) \cup {n+1}
    OBVIOUS
  <2>2. 1..(n+1) = (1..n) \cup {n+1} /\ (n+1)..(n+1) = {n+1}
    OBVIOUS
  <2>3. ASSUME NEW j \in 1..n
        PROVE  (\A x \in j..(n+1) : Failed(l[x]) /\ l[x].gen = l[n+1].gen)
               <=> (\A x \in j..n : Failed(l[x]) /\ l[x].gen = l[n].gen)
    BY <1>2, <2>1
  <2>4. QED BY <1>2, <2>2, <2>3 DEF Run
<1>3. CASE Failed(l[n+1]) /\ ~(n > 0 /\ l[n].gen = l[n+1].gen)
  <2>1. \A j \in 1..n : n > 0 /\ n \in j..(n+1)
    OBVIOUS
  <2>2. 1..(n+1) = (1..n) \cup {n+1} /\ (n+1)..(n+1) = {n+1}
    OBVIOUS
  <2>3. QED BY <1>3, <2>1, <2>2 DEF Run
<1>4. QED BY <1>1, <1>2, <1>3

\* How a count follows from the one before it.
LEMMA CountGrows ==
    ASSUME NEW S, IsFiniteSet(S), NEW x, x \notin S
    PROVE  /\ Counted({}) = 0 /\ Counted({x}) = 1
           /\ Counted(S \cup {x}) = IF Counted(S) < MaxInt THEN Counted(S) + 1 ELSE Counted(S)
<1>1. Cardinality({}) = 0 /\ Cardinality({x}) = 1
  BY FS_EmptySet, FS_Singleton
<1>2. Cardinality(S) \in Nat /\ Cardinality(S \cup {x}) = Cardinality(S) + 1
  BY FS_CardinalityType, FS_AddElement
<1>3. QED BY <1>1, <1>2, MaxIntAssumption DEF Counted

\* What an evaluation counts.
LEMMA EvaluationCounts ==
    ASSUME NEW p, NEW raw \in RawStatuses, NEW maint \in BOOLEAN
    PROVE  EvaluateObservation(p, raw, maint, MaxRetries).downCount
             = IF raw = "DOWN" /\ ~maint
               THEN (IF p.downCount < MaxInt THEN p.downCount + 1 ELSE p.downCount) ELSE 0
  BY DEF EvaluateObservation, EvaluateRetry, NextDownCount, Effective, RawStatuses

\* A commit counts the run that its observation ends.
LEMMA FailuresStep ==
    ASSUME RecordingInv, RecordingInv', FailuresCounted, [Next]_vars
    PROVE  FailuresCounted'
<1>1. CASE UNCHANGED <<log, lastSeq, state>>
  BY <1>1 DEF FailuresCounted
<1>2. ASSUME NEW c \in Checks, CommitLocalHeartbeat(c) PROVE FailuresCounted'
  <2>1. PICK m \in Monitors, n \in Nat, o \in Observation : Appends(m, n, o)
    BY <1>2, CommitAppends
  <2> DEFINE h == log'[m]
  <2>2. ASSUME NEW i \in 1..n PROVE Run(h, i) = Run(log[m], i)
    <3>1. \A j \in 1..i : \A x \in j..i : x \in 1..n
      OBVIOUS
    <3>2. QED BY <2>1, <3>1 DEF Appends, Run
  <2>3. h[n+1].downCount = Counted(Run(h, n+1))
    <3>1. n + 1 \in DOMAIN h /\ h[n+1] = o /\ (n > 0 => n \in 1..n /\ h[n] = log[m][n])
      BY <2>1 DEF Appends
    <3>2. o.downCount = EvaluateObservation(Predecessor(m, n+1)', o.raw, o.maint, MaxRetries).downCount
      <4>1. SerialHistory'
        BY DEF RecordingInv
      <4>2. [status |-> o.status, downCount |-> o.downCount, important |-> o.important]
              = EvaluateObservation(Predecessor(m, n+1)', o.raw, o.maint, MaxRetries)
        BY <3>1, <4>1 DEF SerialHistory
      <4>3. QED BY <4>2
    <3>3. o.raw \in RawStatuses /\ o.maint \in BOOLEAN
      BY DEF Observation
    <3>4. /\ IsFiniteSet(Run(h, n)) /\ n+1 \notin Run(h, n)
      BY RunIsFinite
    <3>5. n > 0 => log[m][n].downCount = Counted(Run(h, n))
      BY <2>1, <2>2 DEF FailuresCounted, Appends
    <3>6. CASE n > 0 /\ h[n].gen = o.gen
      <4>1. Predecessor(m, n+1)'.downCount = Counted(Run(h, n))
        BY <3>1, <3>5, <3>6 DEF Predecessor
      <4>2. o.downCount = IF Failed(o) THEN (IF Counted(Run(h, n)) < MaxInt THEN Counted(Run(h, n)) + 1
                                             ELSE Counted(Run(h, n))) ELSE 0
        BY <3>2, <3>3, <4>1, EvaluationCounts DEF Failed
      <4>3. Run(h, n+1) = IF Failed(o) THEN Run(h, n) \cup {n+1} ELSE {}
        BY <3>1, <3>6, RunGrows
      <4>4. /\ Counted({}) = 0
            /\ Counted(Run(h, n) \cup {n+1}) = IF Counted(Run(h, n)) < MaxInt THEN Counted(Run(h, n)) + 1
                                               ELSE Counted(Run(h, n))
        BY <3>4, CountGrows
      <4>5. QED BY <3>1, <4>2, <4>3, <4>4
    <3>7. CASE ~(n > 0 /\ h[n].gen = o.gen)
      <4>1. Predecessor(m, n+1)'.downCount = 0
        BY <3>1, <3>7 DEF Predecessor, NoState
      <4>2. o.downCount = IF Failed(o) THEN 1 ELSE 0
        BY <3>2, <3>3, <4>1, EvaluationCounts, MaxIntAssumption DEF Failed
      <4>3. Run(h, n+1) = IF Failed(o) THEN {n+1} ELSE {}
        BY <3>1, <3>7, RunGrows
      <4>4. Counted({}) = 0 /\ Counted({n+1}) = 1
        BY <3>4, CountGrows
      <4>5. QED BY <3>1, <4>2, <4>3, <4>4
    <3>8. QED BY <3>6, <3>7
  <2>4. \A i \in 1..n : h[i].downCount = Counted(Run(h, i))
    BY <2>1, <2>2 DEF FailuresCounted, Appends
  <2>5. 1..(n+1) = (1..n) \cup {n+1}
    OBVIOUS
  <2>6. QED BY <2>1, <2>3, <2>4, <2>5, ZenonT(60) DEF FailuresCounted, Appends
<1>3. QED BY <1>1, <1>2, OnlyCommitsRecord

\* Every attempt of a check that failed was beaten by a commit to its monitor or
\* aborted by the engine; one whose expectation is stale has been beaten again.
Beaten(c) == Len(log[check[c].mon]) - check[c].begun + check[c].aborts
AttemptsAreExplained ==
    \A c \in Checks : check[c].pc # "idle" =>
        /\ Beaten(c) >= check[c].tries
        /\ check[c].pc = "commit" /\ check[c].exp # state[check[c].mon].seq
             => Beaten(c) > check[c].tries

\* A step of the goroutines that records nothing.
LEMMA AttemptsMove ==
    ASSUME RecordingInv, AttemptsAreExplained, UNCHANGED <<log, state>>,
           NEW c \in Checks, NEW v, check' = [check EXCEPT ![c] = v],
           v.pc # "idle" => /\ v.pc # "commit" \/ v.exp = state[v.mon].seq
                            /\ Len(log[v.mon]) - v.begun + v.aborts >= v.tries
    PROVE  AttemptsAreExplained'
<1>1. \A d \in Checks : check'[d] = IF d = c THEN v ELSE check[d]
  BY DEF RecordingInv, TypeOK
<1>2. QED BY <1>1 DEF AttemptsAreExplained, Beaten

LEMMA AttemptsStep ==
    ASSUME RecordingInv, AttemptsAreExplained, [Next]_vars
    PROVE  AttemptsAreExplained'
<1>0. /\ \A d \in Checks : check[d] \in CheckRecord /\ check[d].mon \in Monitors
      /\ \A d \in Checks : {check[d].tries, check[d].begun, check[d].aborts} \subseteq Nat
      /\ \A m \in Monitors : log[m] \in Seq(Observation) /\ Len(log[m]) \in Nat
  BY DEF RecordingInv, TypeOK, CheckRecord
<1>1. ASSUME NEW m \in Monitors, NEW local \in BOOLEAN, ReplaceAssignments(m, local)
      PROVE  AttemptsAreExplained'
  BY <1>1 DEF ReplaceAssignments, AttemptsAreExplained, Beaten
<1>2. ASSUME Activate PROVE AttemptsAreExplained'
  BY <1>2 DEF Activate, AttemptsAreExplained, Beaten
<1>3. ASSUME NEW c \in Checks, NEW m \in Monitors, NEW in \in Inputs, Record(c, m, in[1], in[2])
      PROVE  AttemptsAreExplained'
  <2>1. PICK v : v = [pc |-> "revision", mon |-> m, gen |-> applied.gen[m], rev |-> applied.rev,
                   raw |-> in[1], maint |-> in[2], tries |-> 0, exp |-> 0, prev |-> NoState,
                   begun |-> Len(log[m]), aborts |-> 0]
    OBVIOUS
  <2>2. check' = [check EXCEPT ![c] = v] /\ UNCHANGED <<state, log>>
    BY <1>3, <2>1 DEF Record
  <2>3. v.pc # "commit" /\ Len(log[v.mon]) - v.begun + v.aborts >= v.tries
    BY <1>0, <2>1
  <2>4. QED BY <2>2, <2>3, AttemptsMove
<1>4. ASSUME NEW c \in Checks, check' = [check EXCEPT ![c] = Idle(@)], UNCHANGED <<log, state>>
      PROVE  AttemptsAreExplained'
  <2>1. Idle(check[c]).pc = "idle"
    BY <1>0, IdleFields
  <2>2. check' = [check EXCEPT ![c] = Idle(check[c])]
    BY <1>4
  <2>3. QED BY <1>4, <2>1, <2>2, AttemptsMove
\* The goroutine moves on within an attempt.
<1>5. ASSUME NEW c \in Checks, NEW x \in {"generation", "state"}, check[c].pc # "idle",
             check' = [check EXCEPT ![c] = [@ EXCEPT !.pc = x]], UNCHANGED <<log, state>>
      PROVE  AttemptsAreExplained'
  <2>1. PICK v : v = [check[c] EXCEPT !.pc = x]
    OBVIOUS
  <2>2. v.pc = x /\ v.mon = check[c].mon /\ v.begun = check[c].begun
        /\ v.aborts = check[c].aborts /\ v.tries = check[c].tries
    BY <1>0, <2>1 DEF CheckRecord
  <2>3. Len(log[v.mon]) - v.begun + v.aborts >= v.tries
    BY <1>5, <2>2 DEF AttemptsAreExplained, Beaten
  <2>4. check' = [check EXCEPT ![c] = v] /\ v.pc # "commit"
    BY <1>5, <2>1, <2>2
  <2>5. QED BY <1>5, <2>3, <2>4, AttemptsMove
<1>6. ASSUME NEW c \in Checks, CheckRevision(c) \/ ReadGeneration(c) PROVE AttemptsAreExplained'
  <2>1. /\ check[c].pc # "idle" /\ UNCHANGED <<log, state>>
        /\ \/ check' = [check EXCEPT ![c] = Idle(@)]
           \/ \E x \in {"generation", "state"} : check' = [check EXCEPT ![c] = [@ EXCEPT !.pc = x]]
    BY <1>6 DEF CheckRevision, ReadGeneration
  <2>2. QED BY <1>4, <1>5, <2>1
<1>7. ASSUME NEW c \in Checks, ReadState(c) PROVE AttemptsAreExplained'
  <2> DEFINE kept == state[check[c].mon]
  <2>1. PICK v : v = [check[c] EXCEPT !.pc = "commit", !.exp = kept.seq,
                                      !.prev = PreviousOf(kept, check[c].gen)]
    OBVIOUS
  <2>2. v.exp = kept.seq /\ v.mon = check[c].mon /\ v.begun = check[c].begun
        /\ v.aborts = check[c].aborts /\ v.tries = check[c].tries
    BY <1>0, <2>1 DEF CheckRecord
  <2>3. check[c].pc = "state"
    BY <1>7 DEF ReadState
  <2>4. Len(log[v.mon]) - v.begun + v.aborts >= v.tries
    BY <2>2, <2>3 DEF AttemptsAreExplained, Beaten
  <2>5. check' = [check EXCEPT ![c] = v] /\ UNCHANGED <<log, state>>
    BY <1>7, <2>1 DEF ReadState, PreviousOf
  <2>6. QED BY <2>2, <2>4, <2>5, AttemptsMove
<1>8. ASSUME NEW c \in Checks, NEW aborted \in BOOLEAN, CommitRetried(c, aborted)
      PROVE  AttemptsAreExplained'
  <2>0. PICK a \in Nat : a = IF aborted THEN check[c].aborts + 1 ELSE check[c].aborts
    BY <1>0
  <2>1. PICK v : v = [check[c] EXCEPT !.pc = "generation", !.tries = @ + 1, !.aborts = a]
    OBVIOUS
  <2>2. v.pc = "generation" /\ v.mon = check[c].mon /\ v.begun = check[c].begun
        /\ v.aborts = a /\ v.tries = check[c].tries + 1
    BY <1>0, <2>1 DEF CheckRecord
  <2>3. check[c].pc = "commit" /\ (aborted \/ check[c].exp # state[check[c].mon].seq)
    BY <1>8 DEF CommitRetried, Stale, StateMatches
  <2>4. Len(log[v.mon]) - v.begun + v.aborts >= v.tries
    <3>1. /\ check[c].tries \in Nat /\ check[c].begun \in Nat /\ check[c].aborts \in Nat
          /\ Len(log[check[c].mon]) \in Nat /\ Len(log[v.mon]) = Len(log[check[c].mon])
      BY <1>0, <2>2
    <3>2. Beaten(c) >= check[c].tries
      BY <2>3 DEF AttemptsAreExplained
    <3>3. CASE aborted
      <4>1. v.aborts = check[c].aborts + 1
        BY <2>0, <2>2, <3>3
      <4>2. \A x, b, y, t \in Nat : x - b + y >= t => x - b + (y + 1) >= t + 1
        OBVIOUS
      <4>3. Len(log[check[c].mon]) - check[c].begun + (check[c].aborts + 1) >= check[c].tries + 1
        BY <3>1, <3>2, <4>2 DEF Beaten
      <4>4. QED BY <2>2, <3>1, <4>1, <4>3
    <3>4. CASE ~aborted
      <4>1. Beaten(c) > check[c].tries
        BY <2>3, <3>4 DEF AttemptsAreExplained
      <4>2. v.aborts = check[c].aborts
        BY <2>0, <2>2, <3>4
      <4>3. \A x, b, y, t \in Nat : x - b + y > t => x - b + y >= t + 1
        OBVIOUS
      <4>4. Len(log[check[c].mon]) - check[c].begun + check[c].aborts >= check[c].tries + 1
        BY <3>1, <4>1, <4>3 DEF Beaten
      <4>5. QED BY <2>2, <3>1, <4>2, <4>4
    <3>5. QED BY <3>3, <3>4
  <2>5. check' = [check EXCEPT ![c] = v] /\ UNCHANGED <<log, state>>
    BY <1>8, <2>0, <2>1 DEF CommitRetried, RolledBack
  <2>6. QED BY <2>2, <2>4, <2>5, AttemptsMove
<1>9. ASSUME NEW c \in Checks, CommitRefused(c) \/ Abandon(c) PROVE AttemptsAreExplained'
  BY <1>4, <1>9 DEF CommitRefused, Abandon
<1>10. ASSUME NEW c \in Checks, NEW aborted \in BOOLEAN, GiveUp(c, aborted) PROVE AttemptsAreExplained'
  BY <1>4, <1>10 DEF GiveUp, RolledBack
\* A commit beats every other check of its monitor, and ends its own.
<1>11. ASSUME NEW c \in Checks, CommitLocalHeartbeat(c) PROVE AttemptsAreExplained'
  <2>1. PICK m \in Monitors, n \in Nat, o \in Observation : m = check[c].mon /\ Appends(m, n, o)
    BY <1>11, CommitAppends
  <2>2. ASSUME NEW d \in Checks, check'[d].pc # "idle"
        PROVE  /\ Beaten(d)' >= check'[d].tries
               /\ check'[d].pc = "commit" /\ check'[d].exp # state'[check'[d].mon].seq
                    => Beaten(d)' > check'[d].tries
    <3>1. check' = [check EXCEPT ![c] = Idle(@)]
      BY <1>11 DEF CommitLocalHeartbeat
    <3>2. d # c /\ check'[d] = check[d]
      BY <1>0, <2>2, <3>1, IdleFields DEF RecordingInv, TypeOK
    <3>3. {check[d].tries, check[d].begun, check[d].aborts} \subseteq Nat /\ check[d].mon \in Monitors
      BY <1>0
    <3>4. Beaten(d) >= check[d].tries
      BY <2>2, <3>2 DEF AttemptsAreExplained
    <3>5. CASE check[d].mon = m
      <4>1. Len(log'[check[d].mon]) = Len(log[check[d].mon]) + 1 /\ Len(log[check[d].mon]) \in Nat
        BY <2>1, <3>5 DEF Appends
      <4>2. QED BY <3>2, <3>3, <3>4, <4>1, SMTT(30) DEF Beaten
    <3>6. CASE check[d].mon # m
      <4>1. log'[check[d].mon] = log[check[d].mon] /\ state'[check[d].mon] = state[check[d].mon]
        BY <2>1, <3>3, <3>6 DEF Appends
      <4>2. QED BY <2>2, <3>2, <4>1 DEF Beaten, AttemptsAreExplained
    <3>7. QED BY <3>5, <3>6
  <2>3. QED BY <2>2 DEF AttemptsAreExplained
<1>12. CASE UNCHANGED vars
  BY <1>12 DEF vars, AttemptsAreExplained, Beaten
<1>13. QED
  BY <1>1, <1>2, <1>3, <1>6, <1>7, <1>8, <1>9, <1>10, <1>11, <1>12 DEF Next, CheckStep

\* The invariant of the numbers, the counts and the attempts.
HistoryInv == RecordingInv /\ NumbersGivenOnce /\ FailuresCounted /\ AttemptsAreExplained

\* It holds at all times.
THEOREM HistoryInvariant == Spec => []HistoryInv
<1>1. Init => HistoryInv
  <2> SUFFICES ASSUME Init PROVE HistoryInv
    OBVIOUS
  <2>1. lastSeq = 0 /\ (\A m \in Monitors : log[m] = << >>) /\ \A c \in Checks : check[c].pc = "idle"
    BY DEF Init
  <2>2. QED
    BY <2>1, RecordingInit DEF HistoryInv, NumbersGivenOnce, FailuresCounted, AttemptsAreExplained
<1>2. HistoryInv /\ [Next]_vars => HistoryInv'
  BY RecordingStep, NumbersStep, FailuresStep, AttemptsStep DEF HistoryInv
<1>3. QED BY <1>1, <1>2, PTL DEF Spec

\* No sequence number of the local probe is skipped or given out twice, however
\* many attempts are refused, aborted or abandoned (allocateLocalSequence inside
\* CommitLocalHeartbeat's transaction).
THEOREM NumbersAreDense == Spec => []SequenceGapFree
<1>1. HistoryInv => SequenceGapFree
  <2> SUFFICES ASSUME HistoryInv, NEW n \in 1..MaxSeq
               PROVE  Cardinality(Holders(n)) = (IF n <= lastSeq THEN 1 ELSE 0)
    BY DEF SequenceGapFree, Holders
  <2>0. lastSeq \in Nat /\ n \in Nat /\ n > 0
    BY RecordingAssumption DEF HistoryInv, RecordingInv, TypeOK
  <2>1. CASE n <= lastSeq
    <3>1. PICK m \in Monitors : Holders(n) = {m}
      BY <2>0, <2>1 DEF HistoryInv, NumbersGivenOnce
    <3>2. QED BY <2>1, <3>1, FS_Singleton
  <2>2. CASE n > lastSeq
    <3>1. \A m \in Monitors : log[m] \in Seq(Observation)
      BY DEF HistoryInv, RecordingInv, TypeOK
    <3>2. \A m \in Monitors : \A i \in DOMAIN log[m] : log[m][i] \in Observation
      BY <3>1
    <3>3. \A m \in Monitors : \A i \in DOMAIN log[m] : log[m][i].seq \in Nat /\ log[m][i].seq <= lastSeq
      BY <3>2 DEF HistoryInv, RecordingInv, LogIsPast, Observation
    <3>4. Holders(n) = {}
      BY <2>0, <2>2, <3>3 DEF Holders
    <3>5. QED BY <2>0, <2>2, <3>4, FS_EmptySet
  <2>3. QED BY <2>0, <2>1, <2>2
<1>2. QED BY <1>1, HistoryInvariant, PTL

\* DOWN is confirmed by more than MaxRetries failed checks in a row, of one
\* generation and outside maintenance, and by nothing less, whichever checks
\* overlap (EvaluateRetry under the compare-and-set of persistCheck).
THEOREM FailuresAreConfirmed == Spec => []ConfirmedByConsecutiveFailures
<1>1. HistoryInv => ConfirmedByConsecutiveFailures
  <2> SUFFICES ASSUME HistoryInv, NEW m \in Monitors, NEW i \in DOMAIN log[m]
               PROVE  /\ log[m][i].downCount = Counted(Run(log[m], i))
                      /\ MaxRetries < MaxInt =>
                           (log[m][i].status = "DOWN") = (Cardinality(Run(log[m], i)) > MaxRetries)
    <3>1. \A m \in Monitors : \A i \in DOMAIN log[m] : FailureRun(m, i) = Cardinality(Run(log[m], i))
      BY DEF FailureRun, Run, Failed
    <3>2. QED BY <3>1 DEF ConfirmedByConsecutiveFailures, Counted
  <2>1. log[m][i].downCount = Counted(Run(log[m], i))
    BY DEF HistoryInv, FailuresCounted
  <2>2. log[m] \in Seq(Observation)
    BY DEF HistoryInv, RecordingInv, TypeOK
  <2>3. i \in Nat /\ log[m][i] \in Observation
    BY <2>2
  <2>4. Cardinality(Run(log[m], i)) \in Nat
    BY <2>3, RunIsFinite
  <2>5. PICK p : [status |-> log[m][i].status, downCount |-> log[m][i].downCount,
                  important |-> log[m][i].important]
                   = EvaluateObservation(p, log[m][i].raw, log[m][i].maint, MaxRetries)
    BY DEF HistoryInv, RecordingInv, SerialHistory
  <2>6. (log[m][i].status = "DOWN") = (log[m][i].downCount > MaxRetries)
    <3> DEFINE e == EvaluateObservation(p, log[m][i].raw, log[m][i].maint, MaxRetries)
    <3>1. log[m][i].status = e.status /\ log[m][i].downCount = e.downCount
      BY <2>5
    <3>2. (e.status = "DOWN") = (e.downCount > MaxRetries)
      BY <2>3, <3>1, RecordingAssumption DEF EvaluateObservation, EvaluateRetry, NextDownCount, Effective, RawStatuses,
         Observation
    <3>3. QED BY <3>1, <3>2
  <2>7. QED BY <2>1, <2>4, <2>6, MaxIntAssumption, RecordingAssumption DEF Counted
<1>2. QED BY <1>1, HistoryInvariant, PTL

\* A result is given up only after MaxAttempts attempts that were each beaten by
\* another check's commit or aborted by the engine: contention never loses a
\* result while nobody makes progress (persistCheck's retry loop).
THEOREM ContentionIsProgress == Spec => ContentionMeansProgress
<1>1. HistoryInv => \A c \in Checks, aborted \in BOOLEAN : GiveUp(c, aborted) =>
            (Len(log[check[c].mon]) - check[c].begun)
              + check[c].aborts + (IF aborted THEN 1 ELSE 0) >= MaxAttempts
  <2> SUFFICES ASSUME HistoryInv, NEW c \in Checks, NEW aborted \in BOOLEAN, GiveUp(c, aborted)
               PROVE  Beaten(c) + (IF aborted THEN 1 ELSE 0) >= MaxAttempts
    BY DEF Beaten
  <2>1. /\ check[c].pc = "commit" /\ check[c].tries + 1 = MaxAttempts
        /\ aborted \/ check[c].exp # state[check[c].mon].seq
    BY DEF GiveUp, LastTry, Stale, StateMatches
  <2>2. Beaten(c) \in Int /\ check[c].tries \in Nat
    BY DEF HistoryInv, RecordingInv, TypeOK, CheckRecord, Beaten
  <2>3. Beaten(c) >= check[c].tries /\ (~aborted => Beaten(c) > check[c].tries)
    BY <2>1 DEF HistoryInv, AttemptsAreExplained
  <2>4. QED BY <2>1, <2>2, <2>3, RecordingAssumption
<1>2. QED BY <1>1, HistoryInvariant, PTL DEF Spec, ContentionMeansProgress
-----------------------------------------------------------------------------
(* The stored overall snapshot *)

\* What a projector carries through ProjectCurrent.
Projecting(v) ==
  \/ v = NoProjection
  \/ v = [pc |-> "evaluate"]
  \/ v = [pc |-> "load", health |-> v.health]
  \/ \E a \in {"put", "insert", "update"} :
       v = [pc |-> a, health |-> v.health, version |-> v.version]

ProjectionShapes ==
  /\ proj = [r \in Projectors |-> proj[r]]
  /\ \A r \in Projectors : Projecting(proj[r])
  /\ shown = [v \in Versions |-> shown[v]]
  /\ beats \in 0..MaxBeats

AtWork(r) == proj[r].pc # "idle"

\* The last version shown is the one stored, and later ones are unused.
VersionsAreCounted ==
  IF row = {} THEN \A v \in Versions : shown[v] = {}
  ELSE /\ row = {Snapshot(row)}
       /\ Snapshot(row).version \in 1..beats
       /\ shown[Snapshot(row).version] = {Snapshot(row).health}
       /\ \A v \in Versions : v > Snapshot(row).version => shown[v] = {}

\* What a projector read still holds when it projects alone; its own check
\* is not yet among the versions.
ReadIsCurrent(r) ==
  /\ beats >= 1 /\ (row # {} => Snapshot(row).version < beats)
  /\ proj[r].pc = "evaluate" => moved
  /\ proj[r].pc # "evaluate" =>
       moved \/ proj[r].health = MonitorHealth
  /\ proj[r].pc \in {"put", "insert", "update"} =>
       proj[r].version = NextVersion(row, proj[r].health)
  /\ proj[r].pc = "insert" => row = {}
  /\ proj[r].pc = "update" => row # {}

OneProjection ==
  /\ \A q, r \in Projectors : AtWork(q) /\ AtWork(r) => q = r
  /\ VersionsAreCounted
  /\ \A r \in Projectors : AtWork(r) => ReadIsCurrent(r)
  /\ (\A r \in Projectors : ~ AtWork(r)) /\ ~ moved /\ ~ failed /\ row # {}
       => Snapshot(row).health = MonitorHealth
  /\ \A v \in Versions : \A a, b \in shown[v] : a = b
  /\ \A v \in Versions \ {1} : shown[v] # {} => shown[v] # shown[v - 1]

ProjectionInv == ProjectionShapes /\ (~ overlap => OneProjection)

-----------------------------------------------------------------------------
LEMMA SnapshotOf == \A x : Snapshot({x}) = x
BY DEF Snapshot

LEMMA ProjectionInitInv == ProjectionInit => ProjectionInv
<1> SUFFICES ASSUME ProjectionInit PROVE ProjectionInv
  OBVIOUS
<1>1. \A r \in Projectors : proj[r] = NoProjection /\ ~ AtWork(r)
  BY DEF ProjectionInit, AtWork, NoProjection
<1>2. ProjectionShapes
  BY <1>1, ProjectionAssumption DEF ProjectionInit, ProjectionShapes, Projecting
<1>3. OneProjection
  BY <1>1 DEF ProjectionInit, OneProjection, VersionsAreCounted
<1>4. QED BY <1>2, <1>3 DEF ProjectionInv

LEMMA RecordedCheckKeeps ==
  ASSUME ProjectionInv, NEW r \in Projectors, NEW s \in {"UP", "DOWN"}, RecordedCheck(r, s)
  PROVE  ProjectionInv'
<1>1. /\ proj' = [q \in Projectors |-> proj'[q]] /\ proj'[r] = [pc |-> "evaluate"]
      /\ \A q \in Projectors \ {r} : proj'[q] = proj[q]
  BY DEF RecordedCheck, ProjectionInv, ProjectionShapes
<1>2. beats \in Nat /\ beats' = beats + 1 /\ beats' \in 0..MaxBeats /\ MaxBeats \in Nat
  BY ProjectionAssumption DEF RecordedCheck, ProjectionInv, ProjectionShapes
<1>3. row' = row /\ shown' = shown /\ moved' = TRUE
  BY DEF RecordedCheck
<1>4. ProjectionShapes'
  BY <1>1, <1>2, <1>3 DEF ProjectionInv, ProjectionShapes, Projecting, Versions, NoProjection
<1>5. ASSUME ~ overlap' PROVE OneProjection'
  <2>1. ~ overlap /\ \A q \in Projectors : ~ AtWork(q)
    BY <1>5, Zenon DEF RecordedCheck, AtWork
  <2>2. OneProjection
    BY <2>1 DEF ProjectionInv
  <2>3. \A q \in Projectors \ {r} : ~ AtWork(q)'
    BY <1>1, <2>1 DEF AtWork
  <2>4. VersionsAreCounted'
    BY <1>2, <1>3, <2>2 DEF OneProjection, VersionsAreCounted, Snapshot, Versions
  <2>5. row # {} => Snapshot(row).version < beats'
    BY <1>2, <2>2 DEF OneProjection, VersionsAreCounted
  <2>6. ReadIsCurrent(r)'
    BY <1>1, <1>2, <1>3, <2>5 DEF ReadIsCurrent, Snapshot
  <2>7. QED BY <1>3, <2>2, <2>3, <2>4, <2>6 DEF OneProjection, Versions
<1>6. QED BY <1>4, <1>5 DEF ProjectionInv

\* Evidence or policy changes while nothing is projected by it.
LEMMA EvidenceChangeKeeps ==
  ASSUME ProjectionInv, (\E s \in Seen : RemoteChange(s)) \/ (\E new : PolicyChange(new))
  PROVE  ProjectionInv'
<1>1. proj' = proj /\ row' = row /\ shown' = shown /\ moved' = TRUE /\ overlap' = overlap
  BY DEF RemoteChange, PolicyChange
<1>2. beats \in Nat /\ beats' = beats + 1 /\ beats' \in 0..MaxBeats /\ MaxBeats \in Nat
  BY ProjectionAssumption DEF RemoteChange, PolicyChange, ProjectionInv, ProjectionShapes
<1>3. ProjectionShapes'
  BY <1>1, <1>2 DEF ProjectionInv, ProjectionShapes, Projecting, Versions, NoProjection
<1>4. ASSUME ~ overlap' PROVE OneProjection'
  <2>1. OneProjection
    BY <1>1, <1>4 DEF ProjectionInv
  <2>2. VersionsAreCounted'
    <3>1. VersionsAreCounted /\ Snapshot(row)' = Snapshot(row) /\ Versions' = Versions
      BY <1>1, <2>1 DEF OneProjection, Snapshot, Versions
    <3>2. QED BY <1>1, <1>2, <3>1 DEF VersionsAreCounted
  <2>3. \A r \in Projectors : AtWork(r)' => ReadIsCurrent(r)'
    <3>1. SUFFICES ASSUME NEW r \in Projectors, AtWork(r) PROVE ReadIsCurrent(r)'
      BY <1>1 DEF AtWork
    <3>2. ReadIsCurrent(r)
      BY <2>1, <3>1 DEF OneProjection
    <3>3. row # {} => Snapshot(row).version \in Nat
      BY <1>2, <2>1 DEF OneProjection, VersionsAreCounted
    <3>4. QED BY <1>1, <1>2, <3>2, <3>3 DEF ReadIsCurrent, Snapshot, NextVersion
  <2>4. QED BY <1>1, <2>1, <2>2, <2>3 DEF OneProjection, AtWork, Versions
<1>5. QED BY <1>3, <1>4 DEF ProjectionInv

\* A step of the projector at work that leaves the stored row alone.
LEMMA ProjectorMoves ==
  ASSUME ProjectionInv, NEW r \in Projectors, NEW v, AtWork(r), v.pc # "idle", Projecting(v),
         proj' = [proj EXCEPT ![r] = v],
         UNCHANGED <<region, policy, row, beats, overlap, failed, shown>>,
         ~ overlap => ReadIsCurrent(r)'
  PROVE  ProjectionInv'
<1>1. /\ proj' = [q \in Projectors |-> proj'[q]] /\ proj'[r] = v
      /\ \A q \in Projectors \ {r} : proj'[q] = proj[q]
  BY DEF ProjectionInv, ProjectionShapes
<1>2. ProjectionShapes'
  BY <1>1 DEF ProjectionInv, ProjectionShapes, Projecting, Versions, NoProjection
<1>3. ASSUME ~ overlap' PROVE OneProjection'
  <2>1. OneProjection
    BY <1>3 DEF ProjectionInv
  <2>2. \A q \in Projectors \ {r} : ~ AtWork(q)'
    BY <1>1, <2>1 DEF AtWork, OneProjection
  <2>3. AtWork(r)' /\ ReadIsCurrent(r)'
    BY <1>1, <1>3 DEF AtWork
  <2>4. VersionsAreCounted'
    BY <2>1 DEF OneProjection, VersionsAreCounted, Snapshot, Versions
  <2>5. QED BY <2>1, <2>2, <2>3, <2>4 DEF OneProjection, Versions
<1>4. QED BY <1>2, <1>3 DEF ProjectionInv

LEMMA EvaluateKeeps ==
  ASSUME ProjectionInv, NEW r \in Projectors, EvaluateRegions(r)
  PROVE  ProjectionInv'
<1>1. PICK v : v = [pc |-> "load", health |-> MonitorHealth]
  OBVIOUS
<1>2. v.pc = "load" /\ v.health = MonitorHealth /\ Projecting(v) /\ AtWork(r)
  BY <1>1 DEF Projecting, AtWork, EvaluateRegions
<1>3. proj' = [proj EXCEPT ![r] = v] /\ proj'[r] = v
      /\ UNCHANGED <<region, policy, row, beats, overlap, failed, shown>>
  BY <1>1 DEF EvaluateRegions, ProjectionInv, ProjectionShapes
<1>4. ASSUME ~ overlap PROVE ReadIsCurrent(r)'
  <2>1. ReadIsCurrent(r)
    BY <1>2, <1>4 DEF ProjectionInv, OneProjection
  <2>2. QED BY <1>2, <1>3, <2>1 DEF ReadIsCurrent, Snapshot, MonitorHealth
<1>5. QED BY <1>2, <1>3, <1>4, ProjectorMoves

LEMMA LoadKeeps ==
  ASSUME ProjectionInv, NEW r \in Projectors, LoadSnapshot(r)
  PROVE  ProjectionInv'
<1>1. PICK v : v = [pc |-> "put", health |-> proj[r].health,
                    version |-> NextVersion(row, proj[r].health)]
  OBVIOUS
<1>2. /\ v.pc = "put" /\ v.health = proj[r].health /\ v.version = NextVersion(row, proj[r].health)
      /\ Projecting(v) /\ AtWork(r) /\ proj[r].pc = "load"
  BY <1>1 DEF Projecting, AtWork, LoadSnapshot
<1>3. proj' = [proj EXCEPT ![r] = v] /\ proj'[r] = v
      /\ UNCHANGED <<region, policy, row, beats, overlap, failed, shown, moved>>
  BY <1>1 DEF LoadSnapshot, ProjectionInv, ProjectionShapes
<1>4. ASSUME ~ overlap PROVE ReadIsCurrent(r)'
  <2>1. ReadIsCurrent(r)
    BY <1>2, <1>4 DEF ProjectionInv, OneProjection
  <2>2. QED BY <1>2, <1>3, <2>1 DEF ReadIsCurrent, Snapshot, NextVersion, MonitorHealth
<1>5. QED BY <1>2, <1>3, <1>4, ProjectorMoves

LEMMA ProbeRowKeeps ==
  ASSUME ProjectionInv, NEW r \in Projectors, ProbeRow(r)
  PROVE  ProjectionInv'
<1>1. PICK v : v = [pc |-> IF row = {} THEN "insert" ELSE "update",
                    health |-> proj[r].health, version |-> proj[r].version]
  OBVIOUS
<1>2. /\ v.pc = (IF row = {} THEN "insert" ELSE "update")
      /\ v.health = proj[r].health /\ v.version = proj[r].version
      /\ Projecting(v) /\ AtWork(r) /\ proj[r].pc = "put"
  BY <1>1 DEF Projecting, AtWork, ProbeRow
<1>3. proj' = [proj EXCEPT ![r] = v] /\ proj'[r] = v
      /\ UNCHANGED <<region, policy, row, beats, overlap, failed, shown, moved>>
  BY <1>1 DEF ProbeRow, ProjectionInv, ProjectionShapes
<1>4. ASSUME ~ overlap PROVE ReadIsCurrent(r)'
  <2>1. ReadIsCurrent(r)
    BY <1>2, <1>4 DEF ProjectionInv, OneProjection
  <2>2. QED BY <1>2, <1>3, <2>1 DEF ReadIsCurrent, Snapshot, NextVersion, MonitorHealth
<1>5. QED BY <1>2, <1>3, <1>4, ProjectorMoves

LEMMA WriteKeeps ==
  ASSUME ProjectionInv, NEW r \in Projectors, WriteSnapshot(r)
  PROVE  ProjectionInv'
<1>1. /\ proj' = [q \in Projectors |-> proj'[q]] /\ proj'[r] = NoProjection
      /\ \A q \in Projectors \ {r} : proj'[q] = proj[q]
  BY DEF WriteSnapshot, ProjectionInv, ProjectionShapes
<1>2. UNCHANGED <<region, policy, beats, overlap, moved>> /\ ~ failed' /\ proj[r].pc \in {"insert", "update"}
  BY DEF WriteSnapshot
<1>3. PICK n, s : n = proj[r].version /\ s = proj[r].health
  OBVIOUS
<1>4. row' = {[health |-> s, version |-> n]} /\ shown' = [shown EXCEPT ![n] = @ \cup {s}]
  BY <1>2, <1>3 DEF WriteSnapshot
<1>5. shown' = [v \in Versions |-> shown'[v]]
  BY <1>4 DEF ProjectionInv, ProjectionShapes
<1>6. ProjectionShapes'
  BY <1>1, <1>2, <1>5 DEF ProjectionInv, ProjectionShapes, Projecting, Versions, NoProjection
<1>7. ASSUME ~ overlap' PROVE OneProjection'
  <2>1. OneProjection /\ AtWork(r)
    BY <1>2, <1>7 DEF ProjectionInv, AtWork
  <2>2. ReadIsCurrent(r)
    BY <2>1 DEF OneProjection
  <2>3. \A q \in Projectors : ~ AtWork(q)'
    BY <1>1, <2>1 DEF AtWork, OneProjection, NoProjection
  <2>5. Snapshot(row') = [health |-> s, version |-> n] /\ row' # {}
    BY <1>4, SnapshotOf
  <2>6. /\ moved \/ s = MonitorHealth
        /\ n = NextVersion(row, s) /\ beats >= 1
        /\ row # {} => Snapshot(row).version < beats
    BY <1>2, <1>3, <2>2 DEF ReadIsCurrent
  <2>7. VersionsAreCounted /\ beats \in 0..MaxBeats /\ MaxBeats \in Nat
    BY <2>1, ProjectionAssumption DEF OneProjection, ProjectionInv, ProjectionShapes
  <2>8. n \in 1..beats /\ n \in Versions
    BY <2>6, <2>7 DEF NextVersion, VersionsAreCounted, Versions
  <2>9. \/ row = {} /\ n = 1 /\ \A v \in Versions : shown[v] = {}
        \/ \E k \in 1..beats : /\ \A v \in Versions : v > k => shown[v] = {}
                              /\ \/ n = k /\ shown[k] = {s}
                                 \/ \E o : n = k + 1 /\ shown[k] = {o} /\ o # s
    <3>1. CASE row = {}
      BY <3>1, <2>6, <2>7 DEF VersionsAreCounted, NextVersion
    <3>2. CASE row # {}
      <4>1. PICK k, o : k = Snapshot(row).version /\ o = Snapshot(row).health
        OBVIOUS
      <4>2. k \in 1..beats /\ shown[k] = {o} /\ \A v \in Versions : v > k => shown[v] = {}
        BY <3>2, <4>1, <2>7 DEF VersionsAreCounted
      <4>3. (n = k /\ o = s) \/ (n = k + 1 /\ o # s)
        BY <3>2, <4>1, <2>6 DEF NextVersion
      <4>4. QED BY <4>2, <4>3
    <3>3. QED BY <3>1, <3>2
  <2>10. /\ shown'[n] = {s} /\ \A v \in Versions \ {n} : shown'[v] = shown[v]
         /\ \A v \in Versions : v > n => shown'[v] = {}
    <3>1. shown'[n] = shown[n] \cup {s} /\ \A v \in Versions \ {n} : shown'[v] = shown[v]
      BY <1>4, <2>8 DEF ProjectionInv, ProjectionShapes
    <3>2. CASE row = {} /\ n = 1 /\ \A v \in Versions : shown[v] = {}
      BY <3>1, <3>2, <2>8 DEF Versions
    <3>3. ASSUME NEW k \in 1..beats, \A v \in Versions : v > k => shown[v] = {},
                 n = k /\ shown[k] = {s}
          PROVE  /\ shown'[n] = {s} /\ \A v \in Versions : v > n => shown'[v] = {}
      BY <3>1, <3>3, <2>7, <2>8 DEF Versions
    <3>4. ASSUME NEW k \in 1..beats, \A v \in Versions : v > k => shown[v] = {}, n = k + 1
          PROVE  /\ shown'[n] = {s} /\ \A v \in Versions : v > n => shown'[v] = {}
      BY <3>1, <3>4, <2>7, <2>8 DEF Versions
    <3>5. QED BY <2>9, <3>1, <3>2, <3>3, <3>4
  <2>11. VersionsAreCounted'
    <3>1. PICK x : x = [health |-> s, version |-> n]
      OBVIOUS
    <3>2. row' = {x} /\ Snapshot(row') = x /\ x.health = s /\ x.version = n
      BY <3>1, <1>4, <2>5
    <3>3. Versions' = Versions /\ beats' = beats
      BY <1>2 DEF Versions
    <3>4. QED BY <3>2, <3>3, <2>6, <2>8, <2>10 DEF VersionsAreCounted
  <2>12. ASSUME NEW v \in Versions \ {1}, shown'[v] # {} PROVE shown'[v] # shown'[v - 1]
    <3>1. v - 1 \in Versions /\ v \in Nat /\ v - 1 \in Nat
      BY <2>7 DEF Versions
    <3>2. shown[v] # {} => shown[v] # shown[v - 1]
      BY <2>1 DEF OneProjection
    <3>3. CASE row = {} /\ n = 1 /\ \A u \in Versions : shown[u] = {}
      BY <3>1, <3>3, <2>10, <2>12
    <3>4. ASSUME NEW k \in 1..beats, n = k /\ shown[k] = {s} PROVE shown'[v] # shown'[v - 1]
      BY <3>1, <3>2, <3>4, <2>8, <2>10, <2>12
    <3>5. ASSUME NEW k \in 1..beats, NEW o, \A u \in Versions : u > k => shown[u] = {},
                 n = k + 1 /\ shown[k] = {o} /\ o # s
          PROVE  shown'[v] # shown'[v - 1]
      <4>1. k \in Versions \ {n} /\ shown'[k] = {o}
        BY <3>5, <2>7, <2>10 DEF Versions
      <4>2. CASE v = n
        BY <3>5, <4>1, <4>2, <2>10
      <4>3. CASE v # n
        <5>1. shown'[v] = shown[v] /\ v <= k
          BY <3>1, <3>5, <4>3, <2>10, <2>12
        <5>2. v - 1 # n
          BY <5>1, <3>1, <3>5
        <5>3. QED BY <5>1, <5>2, <3>1, <3>2, <2>10, <2>12
      <4>4. QED BY <4>2, <4>3
    <3>6. QED BY <2>9, <3>3, <3>4, <3>5
  <2>13. ~ moved' => Snapshot(row').health = MonitorHealth'
    BY <1>2, <2>5, <2>6 DEF MonitorHealth
  <2>14. \A v \in Versions : \A a, b \in shown'[v] : a = b
    <3>1. \A v \in Versions : \A a, b \in shown[v] : a = b
      BY <2>1 DEF OneProjection
    <3>2. \A a, b \in shown'[n] : a = b
      BY <2>10
    <3>3. QED BY <3>1, <3>2, <2>10
  <2>15. \A v \in Versions \ {1} : shown'[v] # {} => shown'[v] # shown'[v - 1]
    BY <2>12
  <2>16. QED BY <2>3, <2>11, <2>13, <2>14, <2>15 DEF OneProjection, Versions
<1>8. QED BY <1>6, <1>7 DEF ProjectionInv

LEMMA FailKeeps ==
  ASSUME ProjectionInv, NEW r \in Projectors, ProjectionFails(r)
  PROVE  ProjectionInv'
<1>1. /\ proj' = [q \in Projectors |-> proj'[q]] /\ proj'[r] = NoProjection
      /\ \A q \in Projectors \ {r} : proj'[q] = proj[q]
  BY DEF ProjectionFails, ProjectionInv, ProjectionShapes
<1>2. /\ UNCHANGED <<region, policy, row, beats, overlap, moved, shown>> /\ failed' = TRUE
      /\ AtWork(r)
  BY DEF ProjectionFails, AtWork
<1>3. ProjectionShapes'
  BY <1>1, <1>2 DEF ProjectionInv, ProjectionShapes, Projecting, Versions, NoProjection
<1>4. ASSUME ~ overlap' PROVE OneProjection'
  <2>1. OneProjection
    BY <1>2, <1>4 DEF ProjectionInv
  <2>2. \A q \in Projectors : ~ AtWork(q)'
    BY <1>1, <1>2, <2>1 DEF AtWork, OneProjection, NoProjection
  <2>3. VersionsAreCounted'
    BY <1>2, <2>1 DEF OneProjection, VersionsAreCounted, Snapshot, Versions
  <2>4. QED BY <1>2, <2>1, <2>2, <2>3 DEF OneProjection, Versions
<1>5. QED BY <1>3, <1>4 DEF ProjectionInv

LEMMA ProjectionStep ==
  ASSUME ProjectionInv, [ProjectionNext]_projectionVars
  PROVE  ProjectionInv'
<1>1. CASE ProjectionNext
  <2>1. ASSUME NEW r \in Projectors, NEW s \in {"UP", "DOWN"}, RecordedCheck(r, s)
        PROVE  ProjectionInv'
    BY <2>1, RecordedCheckKeeps
  <2>2. CASE (\E s \in Seen : RemoteChange(s)) \/ (\E new : PolicyChange(new))
    BY <2>2, EvidenceChangeKeeps
  <2>3. ASSUME NEW r \in Projectors,
               \/ EvaluateRegions(r) \/ LoadSnapshot(r) \/ ProbeRow(r)
               \/ WriteSnapshot(r) \/ ProjectionFails(r)
        PROVE  ProjectionInv'
    BY <2>3, EvaluateKeeps, LoadKeeps, ProbeRowKeeps, WriteKeeps, FailKeeps
  <2>4. QED BY <1>1, <2>1, <2>2, <2>3 DEF ProjectionNext
<1>2. CASE UNCHANGED projectionVars
  <2>1. UNCHANGED <<region, policy, row, proj, beats, overlap, failed, moved, shown>>
    BY <1>2 DEF projectionVars
  <2>2. /\ VersionsAreCounted' <=> VersionsAreCounted
        /\ MonitorHealth' = MonitorHealth
        /\ \A r \in Projectors : AtWork(r)' <=> AtWork(r)
    BY <2>1 DEF VersionsAreCounted, MonitorHealth, AtWork, Snapshot, Versions
  <2>3. \A r \in Projectors : ReadIsCurrent(r)' <=> ReadIsCurrent(r)
    BY <2>1, <2>2 DEF ReadIsCurrent, Snapshot, NextVersion
  <2>4. OneProjection' <=> OneProjection
    BY <2>1, <2>2, <2>3 DEF OneProjection, Snapshot, Versions
  <2>5. ProjectionShapes' <=> ProjectionShapes
    BY <2>1 DEF ProjectionShapes, Projecting, Versions
  <2>6. QED BY <2>1, <2>4, <2>5 DEF ProjectionInv
<1>3. QED BY <1>1, <1>2

\* While one recorder projects at a time the stored snapshot is what the
\* regions add up to once nothing has changed and the last projection was
\* stored, and a version names one snapshot, status, policy and counts, for any
\* number of checks, failures, recorders, remote changes and policy edits
\* (ProjectCurrent, PutHealthState).
THEOREM SnapshotSound == ProjectionSpec => []SnapshotIsSound
<1>1. ProjectionInit => ProjectionInv
  BY ProjectionInitInv
<1>2. ProjectionInv /\ [ProjectionNext]_projectionVars => ProjectionInv'
  BY ProjectionStep
<1>3. ProjectionInv => SnapshotIsSound
  BY DEF ProjectionInv, OneProjection, AtWork, SnapshotIsSound, StaleHasACause, VersionsAreChanges
<1>4. QED BY <1>1, <1>2, <1>3, PTL DEF ProjectionSpec

-----------------------------------------------------------------------------
(* Minutes and keys *)

LEMMA WidthIs ==
  /\ Width["m"] = 1 /\ Width["o"] = 1 /\ DOMAIN Width = {"m", "h", "d", "o"}
  /\ Width["h"] \in Nat \ {0} /\ Width["d"] \in Nat \ {0} /\ Width.d = Width["d"]
BY HistoryAssumption DEF Width

LEMMA LastMinuteIs == LastMinute \in Nat /\ Minutes = 0..LastMinute
BY WidthIs, HistoryAssumption DEF LastMinute, Minutes

LEMMA MinuteIs ==
  ASSUME NEW t \in Nat
  PROVE  /\ Minute(t) \in Nat
         /\ Minute(t) * TicksPerMinute <= t /\ t < (Minute(t) + 1) * TicksPerMinute
<1>1. TicksPerMinute \in Nat \ {0}
  BY HistoryAssumption
<1>2. QED BY <1>1 DEF Minute

LEMMA Ahead ==
  ASSUME NEW u \in Nat, NEW v \in Nat, u < v
  PROVE  (u + 1) * TicksPerMinute <= v * TicksPerMinute
<1>1. TicksPerMinute \in Nat
  BY HistoryAssumption
<1>2. QED BY <1>1

LEMMA MinuteOrder ==
  ASSUME NEW t \in Nat, NEW r \in Nat, t <= r
  PROVE  Minute(t) <= Minute(r)
<1>1. Minute(t) \in Nat /\ Minute(r) \in Nat /\ Minute(t) * TicksPerMinute <= t
      /\ r < (Minute(r) + 1) * TicksPerMinute
  BY MinuteIs
<1>2. TicksPerMinute \in Nat \ {0}
  BY HistoryAssumption
<1>3. SUFFICES ASSUME Minute(r) < Minute(t) PROVE FALSE
  BY <1>1
<1>4. (Minute(r) + 1) * TicksPerMinute <= Minute(t) * TicksPerMinute
  BY <1>1, <1>3, Ahead
<1>5. QED
  <2>1. \A a, b : a \in Nat /\ b \in Nat => a * b \in Nat
    OBVIOUS
  <2>2. (Minute(r) + 1) * TicksPerMinute \in Nat /\ Minute(t) * TicksPerMinute \in Nat
    BY <2>1, <1>1, <1>2
  <2>3. QED BY <1>1, <1>4, <2>2

LEMMA InMinute ==
  ASSUME NEW t \in Nat, NEW u \in Nat, u * TicksPerMinute <= t, t < (u + 1) * TicksPerMinute
  PROVE  Minute(t) = u
<1>1. Minute(t) \in Nat /\ Minute(t) * TicksPerMinute <= t /\ t < (Minute(t) + 1) * TicksPerMinute
  BY MinuteIs
<1>2. TicksPerMinute \in Nat \ {0}
  BY HistoryAssumption
<1>3. PICK a, b, c, d \in Nat : a = u * TicksPerMinute /\ b = (u + 1) * TicksPerMinute
        /\ c = Minute(t) * TicksPerMinute /\ d = (Minute(t) + 1) * TicksPerMinute
  <2>1. \A x, y \in Nat : x * y \in Nat
    OBVIOUS
  <2>2. /\ u * TicksPerMinute \in Nat /\ (u + 1) * TicksPerMinute \in Nat
        /\ Minute(t) * TicksPerMinute \in Nat /\ (Minute(t) + 1) * TicksPerMinute \in Nat
    <3>1. u + 1 \in Nat /\ Minute(t) + 1 \in Nat /\ TicksPerMinute \in Nat
      BY <1>1, <1>2
    <3>2. QED BY <2>1, <3>1, <1>1
  <2>3. QED BY <2>2
<1>4. ~ (u < Minute(t))
  <2>1. u < Minute(t) => b <= c
    BY <1>1, <1>3, Ahead
  <2>2. QED BY <2>1, <1>1, <1>3
<1>5. ~ (Minute(t) < u)
  <2>1. Minute(t) < u => d <= a
    BY <1>1, <1>3, Ahead
  <2>2. QED BY <2>1, <1>1, <1>3
<1>6. QED BY <1>1, <1>4, <1>5

LEMMA KeyIs ==
  ASSUME NEW p, NEW u \in Nat
  PROVE  /\ Key("m", p, u) = <<"m", p, u>>
         /\ Key("o", p, u) = <<"o", Local, u>>
<1>1. (u \div 1) * 1 = u
  OBVIOUS
<1>2. QED BY <1>1, WidthIs DEF Key

Fine == {k \in Keys : k[1] \in {"m", "o"}}

LEMMA FineIs ==
  ASSUME NEW k \in Fine
  PROVE  /\ k[3] \in Minutes
         /\ k[1] = "m" => k[2] \in Probes /\ k = <<"m", k[2], k[3]>>
         /\ k[1] # "m" => k = <<"o", Local, k[3]>>
         /\ TicksOf(k) = k[3] * TicksPerMinute .. (k[3] + 1) * TicksPerMinute - 1
<1>1. PICK res \in DOMAIN Width, p \in Probes, u \in Minutes : k = Key(res, p, u)
  BY DEF Fine, Keys
<1>2. k[1] = res /\ k[1] \in {"m", "o"}
  BY <1>1 DEF Fine, Key
<1>3. u \in Nat
  BY LastMinuteIs
<1>4. k = <<"m", p, u>> \/ k = <<"o", Local, u>>
  BY <1>1, <1>2, <1>3, KeyIs
<1>5. k[3] = u /\ (k[1] = "m" => k[2] = p)
  BY <1>4
<1>6. Width[k[1]] = 1
  BY <1>2, WidthIs
<1>7. QED BY <1>4, <1>5, <1>6 DEF TicksOf

LEMMA FineTicks ==
  ASSUME NEW k \in Fine
  PROVE  \E b \in Nat : /\ b = k[3] * TicksPerMinute /\ (k[3] + 1) * TicksPerMinute = b + TicksPerMinute
                        /\ \A t : t \in TicksOf(k) <=> t \in Int /\ b <= t /\ t < b + TicksPerMinute
<1>1. k[3] \in Nat /\ TicksPerMinute \in Nat
  BY FineIs, LastMinuteIs, HistoryAssumption
<1>2. PICK b \in Nat : b = k[3] * TicksPerMinute
  <2>1. \A x, y \in Nat : x * y \in Nat
    OBVIOUS
  <2>2. QED BY <1>1, <2>1
<1>3. PICK c : c = (k[3] + 1) * TicksPerMinute
  OBVIOUS
<1>4. c = b + TicksPerMinute
  BY <1>1, <1>2, <1>3
<1>5. TicksOf(k) = b..(c - 1)
  BY <1>2, <1>3, FineIs, Zenon
<1>6. \A t : t \in TicksOf(k) <=> t \in Int /\ b <= t /\ t < b + TicksPerMinute
  <2>1. TicksPerMinute \in Nat /\ b \in Nat
    BY <1>1
  <2>2. QED BY <1>4, <1>5, <2>1
<1>7. QED BY <1>2, <1>3, <1>4, <1>6, Zenon

LEMMA MinuteKeys ==
  ASSUME NEW p \in Probes, NEW u \in Minutes
  PROVE  /\ <<"m", p, u>> \in Fine /\ <<"o", Local, u>> \in Fine
         /\ <<"m", p, u>> \in DirtyBuckets(p, u) /\ <<"o", Local, u>> \in DirtyBuckets(p, u)
<1>1. u \in Nat
  BY LastMinuteIs
<1>2. Key("m", p, u) = <<"m", p, u>> /\ Key("o", p, u) = <<"o", Local, u>>
  BY <1>1, KeyIs
<1>3. QED BY <1>2, WidthIs DEF Fine, Keys, DirtyBuckets

LEMMA DirtyAreKeys ==
  ASSUME NEW p \in Probes, NEW u
  PROVE  /\ DirtyBuckets(p, u) \subseteq Keys
         /\ \A k \in DirtyBuckets(p, u) \cap Fine : u \in Minutes /\ k[3] = u /\ (k[1] = "m" => k[2] = p)
<1>1. DirtyBuckets(p, u) \subseteq Keys
  BY DEF DirtyBuckets, Keys
<1>2. ASSUME NEW k \in DirtyBuckets(p, u) \cap Fine
      PROVE  u \in Minutes /\ k[3] = u /\ (k[1] = "m" => k[2] = p)
  <2>1. PICK res \in DOMAIN Width : k = Key(res, p, u) /\ u \in Minutes
    BY DEF DirtyBuckets
  <2>2. u \in Nat
    BY <2>1, LastMinuteIs
  <2>3. res \in {"m", "o"}
    BY <2>1 DEF Fine, Key
  <2>4. k = <<"m", p, u>> \/ k = <<"o", Local, u>>
    BY <2>1, <2>2, <2>3, KeyIs
  <2>5. QED BY <2>1, <2>4
<1>3. QED BY <1>1, <1>2
LEMMA TicksAreNat ==
  ASSUME NEW t \in Ticks
  PROVE  t \in Nat /\ Minute(t) \in Minutes
<1>1. TicksPerMinute \in Nat \ {0} /\ LastMinute \in Nat
  BY HistoryAssumption, LastMinuteIs
<1>2. PICK e \in Nat : e = (LastMinute + 1) * TicksPerMinute
  <2>1. \A x, y \in Nat : x * y \in Nat
    OBVIOUS
  <2>2. LastMinute + 1 \in Nat /\ TicksPerMinute \in Nat
    BY <1>1
  <2>3. QED BY <2>1, <2>2
<1>3. t \in 0..(e - 1)
  BY <1>2 DEF Ticks
<1>4. t \in Nat /\ t < e
  BY <1>2, <1>3
<1>5. PICK u \in Nat : u = Minute(t) /\ u * TicksPerMinute <= t
  BY <1>4, MinuteIs
<1>6. ~ (LastMinute < u)
  <2>1. LastMinute < u => e <= u * TicksPerMinute
    BY <1>1, <1>2, Ahead
  <2>2. \A x, y \in Nat : x * y \in Nat
    OBVIOUS
  <2>3. u * TicksPerMinute \in Nat
    BY <2>2, <1>1
  <2>4. QED BY <2>1, <2>3, <1>2, <1>4, <1>5
<1>7. QED BY <1>1, <1>4, <1>5, <1>6, LastMinuteIs

LEMMA SampleIs ==
  ASSUME NEW s \in Observations
  PROVE  /\ s.probe \in Probes /\ s.at \in Nat /\ s.seq \in Nat /\ s.seq <= MaxEvents
         /\ Minute(s.at) \in Minutes /\ Minute(s.at) \in Nat /\ s.at \in Ticks
<1>1. s.probe \in Probes /\ s.seq \in 1..MaxEvents /\ s.at \in Ticks
  BY DEF Observations
<1>2. s.at \in Nat /\ Minute(s.at) \in Minutes
  BY <1>1, TicksAreNat
<1>3. QED BY <1>1, <1>2, LastMinuteIs, HistoryAssumption

-----------------------------------------------------------------------------
(* What evidence says *)

\* Every set of numbers that is not empty has a least one.
LEMMA LeastNat ==
  ASSUME NEW T \in SUBSET Nat, T # {}
  PROVE  \E x \in T : \A y \in T : x <= y
<1>1. PICK x \in T : \A y \in T : ~ (<<y, x>> \in OpToRel(<, Nat))
  BY NatLessThanWellFounded, WFMin
<1>2. \A y \in T : ~(y < x)
  <2> TAKE y \in T
  <2>1. x \in Nat /\ y \in Nat
    OBVIOUS
  <2>2. y < x => <<y, x>> \in OpToRel(<, Nat)
    BY <2>1 DEF OpToRel
  <2> QED BY <1>1, <2>2, Zenon
<1>3. QED BY <1>2

LEMMA MaxIs ==
  ASSUME NEW b \in Nat, NEW S \in SUBSET (0..b), S # {}
  PROVE  Max(S) \in S /\ \A x \in S : x <= Max(S)
<1> DEFINE T == {y \in 0..b : b - y \in S}
<1>1. T \in SUBSET Nat /\ T # {}
  <2>1. PICK x \in S : TRUE
    OBVIOUS
  <2>2. b - x \in 0..b /\ b - (b - x) = x
    OBVIOUS
  <2>3. b - x \in T
    BY <2>2
  <2>4. QED BY <2>3
<1>2. PICK y \in T : \A z \in T : y <= z
  BY <1>1, LeastNat
<1>3. PICK x \in S : x = b - y /\ y \in 0..b
  BY <1>2
<1>4. ASSUME NEW z \in S PROVE x >= z
  <2>1. b - z \in 0..b /\ b - (b - z) = z
    OBVIOUS
  <2>2. y <= b - z
    BY <1>2, <2>1
  <2>3. QED BY <2>1, <2>2, <1>3
<1>5. \E m \in S : \A z \in S : m >= z
  BY <1>4
<1>6. Max(S) \in S /\ \A z \in S : Max(S) >= z
  BY <1>5, Zenon DEF Max
<1>7. QED BY <1>6

\* The same definitions with the declared gaps as an argument.
Hides(G, s, t) == \E g \in G : g.probe = s.probe /\ t >= g.at /\ s.seq <= g.throughSeq
Shown(G, s, t) == IF FreshAt(s.at, t) /\ ~ Hides(G, s, t) THEN s.status ELSE "UNKNOWN"
Reports(p, E, t) == {s \in E : s.probe = p /\ s.at <= t}
Latest(R) == CHOOSE s \in R : \A o \in R : s.seq >= o.seq
StatusFrom(G, p, E, t) ==
  IF Reports(p, E, t) = {} THEN "UNKNOWN" ELSE Shown(G, Latest(Reports(p, E, t)), t)

LEMMA StatusIsFrom ==
  ASSUME NEW p, NEW E, NEW t
  PROVE  /\ StatusAt(p, E, t) = StatusFrom(gaps, p, E, t)
         /\ StatusAt(p, E, t)' = StatusFrom(gaps', p, E, t)
<1>1. StatusAt(p, E, t) = StatusFrom(gaps, p, E, t)
  BY DEF StatusAt, StatusFrom, Latest, Reports, Shown, Hides, observationHiddenByGap, laterHistoricalEvidence
<1>2. StatusAt(p, E, t)' = StatusFrom(gaps', p, E, t)
  BY DEF StatusAt, StatusFrom, Latest, Reports, Shown, Hides, observationHiddenByGap, laterHistoricalEvidence
<1>3. QED BY <1>1, <1>2

\* A stream numbers its samples without repetition.
Streams(E) ==
  /\ E \subseteq Observations
  /\ \A s, o \in E : s.probe = o.probe /\ s.seq = o.seq => s = o

LEMMA LatestIs ==
  ASSUME NEW E, Streams(E), NEW p, NEW t, NEW s \in Reports(p, E, t),
         \A o \in Reports(p, E, t) : o.seq <= s.seq, NEW G
  PROVE  StatusFrom(G, p, E, t) = Shown(G, s, t)
<1>1. PICK c : c = Latest(Reports(p, E, t))
  OBVIOUS
<1>2. \A o \in E : o.seq \in Nat
  BY DEF Streams, Observations
<1>3. Reports(p, E, t) \subseteq E
  BY DEF Reports
<1>4. \A o \in Reports(p, E, t) : s.seq >= o.seq
  BY <1>2, <1>3
<1>5. c \in Reports(p, E, t) /\ \A o \in Reports(p, E, t) : c.seq >= o.seq
  BY <1>1, <1>4 DEF Latest
<1>6. c.seq = s.seq
  BY <1>2, <1>3, <1>4, <1>5
<1>7. c = s
  BY <1>5, <1>6 DEF Reports, Streams
<1>8. QED BY <1>1, <1>7 DEF StatusFrom

LEMMA LatestExists ==
  ASSUME NEW E, Streams(E), NEW p, NEW t, Reports(p, E, t) # {}
  PROVE  \E s \in Reports(p, E, t) : \A o \in Reports(p, E, t) : o.seq <= s.seq
<1> DEFINE T == {s.seq : s \in Reports(p, E, t)}
<1>1. T \in SUBSET (0..MaxEvents) /\ T # {} /\ MaxEvents \in Nat
  BY HistoryAssumption DEF Reports, Streams, Observations
<1>2. Max(T) \in T /\ \A x \in T : x <= Max(T)
  BY <1>1, MaxIs
<1>3. QED BY <1>2

LEMMA StatusCases ==
  ASSUME NEW E, Streams(E), NEW p, NEW t, NEW G, StatusFrom(G, p, E, t) # "UNKNOWN"
  PROVE  \E s \in Reports(p, E, t) : FreshAt(s.at, t) /\ ~ Hides(G, s, t)
<1>1. Reports(p, E, t) # {}
  BY DEF StatusFrom
<1>2. PICK s \in Reports(p, E, t) : \A o \in Reports(p, E, t) : o.seq <= s.seq
  BY <1>1, LatestExists
<1>3. StatusFrom(G, p, E, t) = Shown(G, s, t)
  BY <1>2, LatestIs
<1>4. QED BY <1>3 DEF Shown

\* A sample that is not of the probe, or not yet, changes nothing.
LEMMA OtherSample ==
  ASSUME NEW E, NEW s, NEW p, NEW t, s.probe # p \/ ~ (s.at <= t), NEW G
  PROVE  StatusFrom(G, p, E \cup {s}, t) = StatusFrom(G, p, E, t)
<1>1. Reports(p, E \cup {s}, t) = Reports(p, E, t)
  BY DEF Reports
<1>2. QED BY <1>1 DEF StatusFrom

\* Sample s is the latest of its stream and stale at t, and so is every
\* sample ahead of its clock.
StaleLatest(E, s, t) ==
  /\ s.at <= t /\ s.at + FreshFor <= t
  /\ \A o \in E : o.probe = s.probe =>
       o.seq <= s.seq /\ (s.at < o.at => o.at + FreshFor <= t)

\* The latest sample of a stream changes the status only while it is fresh,
\* or while a sample ahead of its clock would have been.
LEMMA LatestSample ==
  ASSUME NEW E, NEW s, NEW O, O = E \cup {s}, Streams(O), NEW t \in Nat, StaleLatest(E, s, t), NEW G
  PROVE  StatusFrom(G, s.probe, O, t) = StatusFrom(G, s.probe, E, t)
<1>1. s \in Observations /\ E \subseteq Observations /\ Streams(E)
  BY DEF Streams
<1>2. /\ s.at \in Nat /\ s.seq \in Nat /\ FreshFor \in Nat
      /\ \A o \in E : o.at \in Nat /\ o.seq \in Nat
  <2>1. \A o \in Observations : o.at \in Nat /\ o.seq \in Nat
    BY SampleIs
  <2>2. QED BY <1>1, <2>1, HealthAssumption
<1>3. \A o \in Reports(s.probe, O, t) : ~ FreshAt(o.at, t)
  BY <1>2 DEF Reports, FreshAt, StaleLatest
<1>4. Reports(s.probe, E, t) \subseteq Reports(s.probe, O, t)
  BY DEF Reports
<1>5. StatusFrom(G, s.probe, O, t) = "UNKNOWN"
  BY <1>3, StatusCases
<1>6. StatusFrom(G, s.probe, E, t) = "UNKNOWN"
  BY <1>1, <1>3, <1>4, StatusCases
<1>7. QED BY <1>5, <1>6

\* Gaps that hide alike say the same.
LEMMA SameGaps ==
  ASSUME NEW G, NEW H, NEW E, NEW p, NEW t,
         \A s \in Reports(p, E, t) : Hides(G, s, t) <=> Hides(H, s, t),
         Streams(E)
  PROVE  StatusFrom(G, p, E, t) = StatusFrom(H, p, E, t)
<1>1. CASE Reports(p, E, t) = {}
  BY <1>1 DEF StatusFrom
<1>2. CASE Reports(p, E, t) # {}
  <2>1. PICK s \in Reports(p, E, t) : \A o \in Reports(p, E, t) : o.seq <= s.seq
    BY <1>2, LatestExists
  <2>2. StatusFrom(G, p, E, t) = Shown(G, s, t) /\ StatusFrom(H, p, E, t) = Shown(H, s, t)
    BY <2>1, LatestIs
  <2>3. QED BY <2>2 DEF Shown
<1>3. QED BY <1>1, <1>2

\* A gap is of another probe, starts after t, or finds no sample fresh at t.
OutsideGap(E, g, p, t) ==
  /\ Streams(E)
  /\ p # g.probe \/ ~ (t >= g.at) \/ \A o \in Reports(p, E, t) : ~ FreshAt(o.at, t)

\* A declared gap changes the status only from its start and while a sample
\* is fresh.
LEMMA NewGap ==
  ASSUME NEW G, NEW g, NEW H, H = G \cup {g}, NEW E, NEW p, NEW t, OutsideGap(E, g, p, t)
  PROVE  StatusFrom(H, p, E, t) = StatusFrom(G, p, E, t)
<1>1. CASE p # g.probe \/ ~ (t >= g.at)
  <2>1. \A s \in Reports(p, E, t) : Hides(H, s, t) <=> Hides(G, s, t)
    BY <1>1 DEF Hides, Reports
  <2>2. QED BY <2>1, SameGaps DEF OutsideGap
<1>2. CASE \A o \in Reports(p, E, t) : ~ FreshAt(o.at, t)
  BY <1>2, StatusCases DEF OutsideGap
<1>3. QED BY <1>1, <1>2 DEF OutsideGap

-----------------------------------------------------------------------------
(* What a bucket should say *)

TruthFrom(G, O, k) ==
  IF k[1] = "o"
  THEN [t \in TicksOf(k) |-> EvaluateMonitorHealth(Policy, [p \in Probes |-> StatusFrom(G, p, O, t)])]
  ELSE [time   |-> Durations(TicksOf(k), [t \in TicksOf(k) |-> StatusFrom(G, k[2], O, t)]),
        checks |-> Cardinality({s \in O : s.probe = k[2] /\ s.at \in TicksOf(k)})]

\* Evidence that agrees on every status and sample of a bucket agrees on it.
LEMMA SameTruth ==
  ASSUME NEW k, NEW G, NEW H, NEW O, NEW P,
         \A p \in Probes \cup {k[2]}, t \in TicksOf(k) :
           k[1] = "o" \/ p = k[2] => StatusFrom(G, p, O, t) = StatusFrom(H, p, P, t),
         k[1] # "o" => {s \in O : s.probe = k[2] /\ s.at \in TicksOf(k)}
                         = {s \in P : s.probe = k[2] /\ s.at \in TicksOf(k)}
  PROVE  TruthFrom(G, O, k) = TruthFrom(H, P, k)
<1>1. CASE k[1] = "o"
  <2>1. ASSUME NEW t \in TicksOf(k)
        PROVE  [p \in Probes |-> StatusFrom(G, p, O, t)] = [p \in Probes |-> StatusFrom(H, p, P, t)]
    BY <1>1
  <2>2. QED BY <1>1, <2>1 DEF TruthFrom
<1>2. CASE k[1] # "o"
  <2>1. [t \in TicksOf(k) |-> StatusFrom(G, k[2], O, t)] = [t \in TicksOf(k) |-> StatusFrom(H, k[2], P, t)]
    OBVIOUS
  <2>2. QED BY <1>2, <2>1 DEF TruthFrom
<1>3. QED BY <1>1, <1>2

LEMMA TruthIsFrom ==
  ASSUME NEW k
  PROVE  /\ Truth(k) = TruthFrom(gaps, obs, k)
         /\ Truth(k)' = TruthFrom(gaps', obs', k)
<1>1. Truth(k) = TruthFrom(gaps, obs, k)
  <2>1. \A p, t : StatusAt(p, obs, t) = StatusFrom(gaps, p, obs, t)
    BY StatusIsFrom
  <2>2. QED BY <2>1 DEF Truth, TruthFrom
<1>2. Truth(k)' = TruthFrom(gaps', obs', k)
  <2>1. PICK O : O = obs'
    OBVIOUS
  <2>2. \A p, t : StatusAt(p, O, t)' = StatusFrom(gaps', p, O, t)
    BY StatusIsFrom
  <2>3. QED BY <2>1, <2>2 DEF Truth, TruthFrom
<1>3. QED BY <1>1, <1>2

\* A snapshot's window holds all the evidence its minute needs.
LEMMA WindowIsEnough ==
  ASSUME Streams(obs), NEW k \in Fine, NEW p \in Probes, NEW t \in TicksOf(k)
  PROVE  StatusFrom(gaps, p, Evidence(k), t) = StatusFrom(gaps, p, obs, t)
<1>1. PICK b \in Nat :
        /\ b = k[3] * TicksPerMinute /\ (k[3] + 1) * TicksPerMinute = b + TicksPerMinute
        /\ \A u : u \in TicksOf(k) <=> u \in Int /\ b <= u /\ u < b + TicksPerMinute
  BY FineTicks
<1>2. t \in Nat /\ b <= t /\ t < b + TicksPerMinute
  BY <1>1
<1>3. FreshFor \in Nat /\ TicksPerMinute \in Nat
  BY HealthAssumption, HistoryAssumption
<1>4. Evidence(k) \subseteq obs /\ Streams(Evidence(k))
  BY DEF Evidence, Streams
<1>5. CASE Reports(p, obs, t) = {}
  <2>1. Reports(p, Evidence(k), t) = {}
    BY <1>4, <1>5 DEF Reports
  <2>2. QED BY <1>5, <2>1 DEF StatusFrom
<1>6. CASE Reports(p, obs, t) # {}
  <2>1. PICK s \in Reports(p, obs, t) : \A o \in Reports(p, obs, t) : o.seq <= s.seq
    BY <1>6, LatestExists
  <2>2. s \in obs /\ s.probe = p /\ s.at <= t
    BY <2>1 DEF Reports
  <2>3. \A o \in obs : o.at \in Nat /\ o.seq \in Nat
    BY SampleIs DEF Streams
  <2>4. s \in Evidence(k)
    <3>1. CASE s.at >= b - FreshFor
      <4>1. s.at < b + TicksPerMinute
        BY <1>1, <1>2, <1>3, <2>2, <2>3
      <4>2. QED BY <1>1, <2>2, <3>1, <4>1 DEF Evidence
    <3>2. CASE s.at < b - FreshFor
      <4> DEFINE old == {o \in obs : o.probe = p /\ o.at < b - FreshFor}
      <4>1. \A o \in old : o \in Reports(p, obs, t)
        BY <1>1, <1>2, <1>3, <2>3 DEF Reports
      <4>2. \A o \in old : s.seq >= o.seq
        BY <2>1, <2>2, <2>3, <4>1
      <4>3. s \in {x \in old : \A o \in old : x.seq >= o.seq}
        BY <2>2, <3>2, <4>2
      <4>4. QED BY <1>1, <4>3 DEF Evidence
    <3>3. QED BY <1>1, <1>3, <2>2, <2>3, <3>1, <3>2
  <2>5. s \in Reports(p, Evidence(k), t)
    BY <2>2, <2>4 DEF Reports
  <2>6. \A o \in Reports(p, Evidence(k), t) : o.seq <= s.seq
    BY <1>4, <2>1 DEF Reports
  <2>7. StatusFrom(gaps, p, Evidence(k), t) = Shown(gaps, s, t)
    BY <1>4, <2>5, <2>6, LatestIs
  <2>8. StatusFrom(gaps, p, obs, t) = Shown(gaps, s, t)
    BY <2>1, LatestIs
  <2>9. QED BY <2>7, <2>8
<1>7. QED BY <1>5, <1>6

\* What a worker reads of a minute is what all the evidence says.
LEMMA ReadIsExact ==
  ASSUME Streams(obs), NEW k \in Fine
  PROVE  ProjectHistory(k) = Truth(k)
<1>1. PICK E : E = Evidence(k)
  OBVIOUS
<1>2. ProjectHistory(k) = TruthFrom(gaps, E, k)
  <2>1. \A p, t : StatusAt(p, E, t) = StatusFrom(gaps, p, E, t)
    BY StatusIsFrom
  <2>2. k[1] \in {"m", "o"}
    BY DEF Fine
  <2>3. QED BY <1>1, <2>1, <2>2 DEF ProjectHistory, TruthFrom
<1>3. \A p \in Probes \cup {k[2]}, t \in TicksOf(k) :
        k[1] = "o" \/ p = k[2] => StatusFrom(gaps, p, E, t) = StatusFrom(gaps, p, obs, t)
  <2>1. SUFFICES ASSUME NEW p \in Probes \cup {k[2]}, NEW t \in TicksOf(k), k[1] = "o" \/ p = k[2]
                 PROVE  StatusFrom(gaps, p, E, t) = StatusFrom(gaps, p, obs, t)
    OBVIOUS
  <2>2. CASE p \in Probes
    BY <1>1, <2>2, WindowIsEnough
  <2>3. CASE p \notin Probes
    <3>1. Reports(p, obs, t) = {}
      BY <2>3, SampleIs DEF Reports, Streams
    <3>2. Reports(p, E, t) = {}
      BY <1>1, <3>1 DEF Reports, Evidence
    <3>3. QED BY <3>1, <3>2 DEF StatusFrom
  <2>4. QED BY <2>2, <2>3
<1>4. {s \in E : s.probe = k[2] /\ s.at \in TicksOf(k)}
        = {s \in obs : s.probe = k[2] /\ s.at \in TicksOf(k)}
  <2>1. PICK b \in Nat :
          /\ b = k[3] * TicksPerMinute /\ (k[3] + 1) * TicksPerMinute = b + TicksPerMinute
          /\ \A u : u \in TicksOf(k) <=> u \in Int /\ b <= u /\ u < b + TicksPerMinute
    BY FineTicks
  <2>2. TicksPerMinute \in Nat /\ FreshFor \in Nat
    BY HistoryAssumption, HealthAssumption
  <2>3. \A s \in obs : s.at \in TicksOf(k) => s \in E
    <3>1. SUFFICES ASSUME NEW s \in obs, s.at \in TicksOf(k) PROVE s \in E
      OBVIOUS
    <3>2. s.at >= b - FreshFor /\ s.at < b + TicksPerMinute
      BY <2>1, <2>2, <3>1
    <3>3. QED BY <1>1, <2>1, <3>2 DEF Evidence
  <2>4. E \subseteq obs
    BY <1>1 DEF Evidence
  <2>5. QED BY <2>3, <2>4
<1>5. TruthFrom(gaps, E, k) = TruthFrom(gaps, obs, k)
  BY <1>3, <1>4, SameTruth
<1>6. QED BY <1>2, <1>5, TruthIsFrom

LEMMA NothingIs ==
  ASSUME NEW k, NEW G
  PROVE  TruthFrom(G, {}, k) = Nothing(k)
<1>1. \A p, t : StatusFrom(G, p, {}, t) = "UNKNOWN"
  BY DEF StatusFrom, Reports
<1>2. CASE k[1] = "o"
  <2>1. \A t : [p \in Probes |-> StatusFrom(G, p, {}, t)] = [p \in Probes |-> "UNKNOWN"]
    BY <1>1
  <2>2. EvaluateMonitorHealth(Policy, [p \in Probes |-> "UNKNOWN"]) = "UNKNOWN"
    BY HealthAssumption DEF EvaluateMonitorHealth
  <2>3. QED BY <1>2, <2>1, <2>2 DEF TruthFrom, Nothing
<1>3. CASE k[1] # "o"
  <2>1. [t \in TicksOf(k) |-> StatusFrom(G, k[2], {}, t)] = [t \in TicksOf(k) |-> "UNKNOWN"]
    BY <1>1
  <2>2. {s \in {} : s.probe = k[2] /\ s.at \in TicksOf(k)} = {} /\ Cardinality({}) = 0
    BY FS_EmptySet
  <2>3. QED BY <1>3, <2>1, <2>2 DEF TruthFrom, Nothing
<1>4. QED BY <1>2, <1>3

-----------------------------------------------------------------------------
(* The inductive invariant *)

Window(v) ==
  \/ v = NoWindow
  \/ v = [pc |-> "selected", key |-> v.key] /\ v.key \in Keys
  \/ /\ v = [pc |-> "read", key |-> v.key, rev |-> v.rev, value |-> v.value, carry |-> v.carry]
     /\ v.key \in Keys /\ v.rev \in Nat \ {0}

HistoryShapes ==
  /\ Streams(obs) /\ \A s \in obs : s.seq <= streamSeq[s.probe]
  /\ streamSeq \in [Probes -> Nat]
  /\ ranges \in [Probes -> {NoRange} \cup [cursor : Nat, through : Nat]]
  /\ gaps \subseteq [probe : Probes, throughSeq : Nat, at : Nat, until : Nat,
                     pending : BOOLEAN, bucket : Nat]
  /\ dirty \in [Keys -> Nat]
  /\ rows = [k \in Keys |-> rows[k]]
  /\ worker = [w \in Workers |-> worker[w]]
  /\ \A w \in Workers : Window(worker[w])

\* Work that will still mark minute u of probe p: a repair range or a gap
\* that has not been expanded so far, and a sample that a marked minute
\* before u, or one that a gap will mark, carries over. A minute beyond a
\* gap's repair stays out of date.
OwedByRange(p, u) ==
  ranges[p] # NoRange /\ ranges[p].cursor <= u /\ u <= ReachedFrom(ranges[p].through)
OwedByGap(p, u) ==
  \E g \in gaps : g.probe = p /\ g.pending = TRUE /\ g.bucket <= u /\ u <= ReachedFrom(g.until)
Carries(s, p, v, u) ==
  s.probe = p /\ Minute(s.at) <= v /\ v < u /\ u * TicksPerMinute < s.at + FreshFor
OwedByCarry(p, u) ==
  \E s \in obs, v \in Minutes : Carries(s, p, v, u) /\ dirty[<<"m", p, v>>] # 0

OwedByBoth(p, u) ==
  \E g \in gaps, s \in obs, v \in Minutes :
    /\ g.probe = p /\ g.pending = TRUE /\ g.bucket <= v /\ v <= ReachedFrom(g.until)
    /\ Carries(s, p, v, u)

Owed(p, u) ==
  OwedByRange(p, u) \/ OwedByGap(p, u) \/ OwedByCarry(p, u) \/ OwedByBoth(p, u) \/ BeyondRepair(p, u)
Due(k) == \E p \in Probes : (k[1] = "m" => p = k[2]) /\ Owed(p, k[3])

Accounted == \A k \in Fine : dirty[k] # 0 \/ Stored(k) = Truth(k) \/ Due(k)

\* A worker whose marker is current read the truth, or other work is due.
Reading(w) == worker[w].pc = "read" /\ worker[w].key \in Fine /\ Current(w)
ReadsAreAccounted ==
  \A w \in Workers : Reading(w) => worker[w].value = Truth(worker[w].key) \/ Due(worker[w].key)

\* It knows what its minute carries over, or an earlier one is marked.
CarryIsKnown(v, s) ==
  Carries(s, v.key[2], v.key[3], v.key[3] + 1) =>
    \/ v.carry
    \/ \E u \in Minutes : /\ Minute(s.at) <= u /\ u < v.key[3]
                          /\ dirty[<<"m", v.key[2], u>>] # 0
CarriesAreKnown ==
  \A w \in Workers : Reading(w) /\ worker[w].key[1] = "m" =>
    \A s \in obs : CarryIsKnown(worker[w], s)

HistoryIInv == HistoryShapes /\ Accounted /\ ReadsAreAccounted /\ CarriesAreKnown

-----------------------------------------------------------------------------
(* Revisions *)

\* There is always a revision that no worker holds.
LEMMA RevisionIsNew ==
  ASSUME NEW k
  PROVE  /\ NewRevision(k) \in Nat \ {0}
         /\ \A w \in Workers :
              worker[w].pc = "read" /\ worker[w].key = k => worker[w].rev # NewRevision(k)
<1>1. PICK n \in Nat : n = Cardinality(Workers)
  BY HistoryAssumption, FS_CardinalityType
<1>2. PICK f : f = [w \in Workers |-> worker[w].rev]
  OBVIOUS
<1>3. PICK T : T = {f[w] : w \in Workers}
  OBVIOUS
<1>4. IsFiniteSet(T) /\ Cardinality(T) <= n
  <2>1. f \in Surjection(Workers, T)
    BY <1>2, <1>3 DEF Surjection
  <2>2. QED BY <1>1, <2>1, HistoryAssumption, FS_Surjection
<1>5. IsFiniteSet(1..(n + 1)) /\ Cardinality(1..(n + 1)) = n + 1
  <2>1. 1 \in Int /\ n + 1 \in Int /\ 1 <= n + 1
    BY <1>1
  <2>2. QED BY <1>1, <2>1, FS_Interval
<1>6. PICK r \in 1..(n + 1) : r \notin T
  <2>1. SUFFICES ASSUME 1..(n + 1) \in SUBSET T PROVE FALSE
    OBVIOUS
  <2>2. Cardinality(1..(n + 1)) <= Cardinality(T)
    BY <1>4, <2>1, FS_Subset
  <2>3. Cardinality(T) \in Nat
    BY <1>4, FS_CardinalityType
  <2>4. QED BY <1>1, <1>4, <1>5, <2>2, <2>3
<1>7. \A w \in Workers : worker[w].rev # r
  BY <1>2, <1>3, <1>6
<1>8. /\ NewRevision(k) \in 1..(n + 1)
      /\ \A w \in Workers :
           worker[w].pc = "read" /\ worker[w].key = k => worker[w].rev # NewRevision(k)
  BY <1>1, <1>6, <1>7, Zenon DEF NewRevision
<1>9. QED BY <1>1, <1>8

LEMMA MarkedIs ==
  ASSUME HistoryShapes, NEW K
  PROVE  /\ Marked(dirty, K) \in [Keys -> Nat]
         /\ \A k \in Keys : IF k \in K THEN Marked(dirty, K)[k] # 0 ELSE Marked(dirty, K)[k] = dirty[k]
         /\ \A k \in Keys \cap K, w \in Workers :
              worker[w].pc = "read" /\ worker[w].key = k => worker[w].rev # Marked(dirty, K)[k]
<1>1. \A k : NewRevision(k) \in Nat \ {0}
  BY RevisionIsNew
<1>2. \A k \in Keys : Marked(dirty, K)[k] = IF k \in K THEN NewRevision(k) ELSE dirty[k]
  BY DEF Marked
<1>3. Marked(dirty, K) \in [Keys -> Nat]
  BY <1>1 DEF Marked, HistoryShapes
<1>4. \A k \in Keys \cap K, w \in Workers :
        worker[w].pc = "read" /\ worker[w].key = k => worker[w].rev # Marked(dirty, K)[k]
  <2> SUFFICES ASSUME NEW k \in Keys \cap K, NEW w \in Workers,
                      worker[w].pc = "read", worker[w].key = k
               PROVE  worker[w].rev # Marked(dirty, K)[k]
    OBVIOUS
  <2>1. worker[w].rev # NewRevision(k)
    BY RevisionIsNew
  <2>2. QED BY <1>2, <2>1
<1>5. QED BY <1>1, <1>2, <1>3, <1>4

-----------------------------------------------------------------------------
(* Steps that mark buckets *)

\* Evidence may come, buckets K are marked, and the workers stand still.
LEMMA MarkingKeeps ==
  ASSUME HistoryIInv, HistoryShapes', NEW K, dirty' = Marked(dirty, K),
         rows' = rows, worker' = worker, obs \subseteq obs',
         \A k \in Fine : k \in K \/ Truth(k)' = Truth(k) \/ Due(k)',
         \A k \in Fine : Due(k) => k \in K \/ Due(k)',
         \A s \in obs' \ obs : <<"m", s.probe, Minute(s.at)>> \in K
  PROVE  HistoryIInv'
<1>1. HistoryShapes
  BY DEF HistoryIInv
<1>2. \A k \in Keys : (k \in K => dirty'[k] # 0) /\ (dirty[k] # 0 => dirty'[k] # 0)
  BY <1>1, MarkedIs
<1>3. Fine' = Fine /\ \A k : Stored(k)' = Stored(k)
  BY DEF Fine, Stored, Nothing
<1>4. Fine \subseteq Keys
  BY DEF Fine
<1>5. Accounted'
  BY <1>2, <1>3, <1>4 DEF HistoryIInv, Accounted
<1>6. ASSUME NEW w \in Workers, Reading(w)'
      PROVE  Reading(w) /\ worker[w].key \notin K /\ worker[w].key \in Fine
  <2>1. worker[w].pc = "read" /\ worker[w].key \in Fine /\ dirty'[worker[w].key] = worker[w].rev
    BY <1>3, <1>6 DEF Reading, Current
  <2>2. worker[w].key \notin K
    BY <1>1, <1>4, <2>1, MarkedIs
  <2>3. dirty'[worker[w].key] = dirty[worker[w].key]
    BY <1>1, <1>4, <2>1, <2>2, MarkedIs
  <2>4. QED BY <2>1, <2>2, <2>3 DEF Reading, Current
<1>7. ReadsAreAccounted'
  <2>1. SUFFICES ASSUME NEW w \in Workers, Reading(w)'
                 PROVE  (worker[w].value = Truth(worker[w].key) \/ Due(worker[w].key))'
    BY DEF ReadsAreAccounted
  <2>2. PICK k : k = worker[w].key
    OBVIOUS
  <2>3. k \in Fine /\ k \notin K /\ (worker[w].value = Truth(k) \/ Due(k))
    BY <1>6, <2>1, <2>2 DEF HistoryIInv, ReadsAreAccounted
  <2>4. worker'[w].value = Truth(k)' \/ Due(k)'
    BY <2>3
  <2>5. worker'[w].key = k
    BY <2>2
  <2>6. QED BY <2>4, <2>5
<1>8. CarriesAreKnown'
  <2>1. SUFFICES ASSUME NEW w \in Workers, Reading(w)', worker[w].key[1] = "m", NEW s \in obs'
                 PROVE  CarryIsKnown(worker[w], s)'
    BY DEF CarriesAreKnown
  <2>2. PICK v : v = worker[w]
    OBVIOUS
  <2>3. SUFFICES ASSUME Carries(s, v.key[2], v.key[3], v.key[3] + 1)
                 PROVE  \/ v.carry
                        \/ \E u \in Minutes : /\ Minute(s.at) <= u /\ u < v.key[3]
                                              /\ dirty'[<<"m", v.key[2], u>>] # 0
    BY <2>2 DEF CarryIsKnown, Carries
  <2>4. Reading(w) /\ v.key \notin K /\ v.key \in Fine
    BY <1>6, <2>1, <2>2
  <2>5. v.key[2] \in Probes /\ v.key = <<"m", v.key[2], v.key[3]>>
    BY <2>1, <2>2, <2>4, FineIs
  <2>6. CASE s \in obs
    <3>1. CarryIsKnown(v, s)
      BY <2>1, <2>2, <2>4, <2>6 DEF HistoryIInv, CarriesAreKnown
    <3>2. \A u \in Minutes : <<"m", v.key[2], u>> \in Keys
      BY <2>5, <1>4, MinuteKeys
    <3>3. QED BY <2>3, <3>1, <3>2, <1>2 DEF CarryIsKnown
  <2>7. CASE s \notin obs
    <3>1. s \in Observations
      BY <2>1 DEF HistoryShapes, Streams
    <3>2. PICK u : u = Minute(s.at)
      OBVIOUS
    <3>3. u \in Minutes /\ u \in Nat
      BY <3>1, <3>2, SampleIs
    <3>4. <<"m", v.key[2], u>> \in K /\ u <= v.key[3]
      BY <2>1, <2>3, <2>7, <3>2 DEF Carries
    <3>5. u # v.key[3]
      BY <2>4, <2>5, <3>4
    <3>6. u < v.key[3]
      <4>1. v.key[3] \in Nat
        BY <2>4, FineIs, LastMinuteIs
      <4>2. QED BY <3>3, <3>4, <3>5, <4>1
    <3>7. dirty'[<<"m", v.key[2], u>>] # 0
      BY <1>2, <1>4, <2>5, <3>3, <3>4, MinuteKeys
    <3>8. Minute(s.at) <= u
      BY <3>2, <3>3
    <3>9. QED BY <3>3, <3>6, <3>7, <3>8
  <2>8. QED BY <2>6, <2>7
<1>9. QED BY <1>5, <1>7, <1>8 DEF HistoryIInv

\* What was due stays due when markers, samples, ranges and gaps only grow.
LEMMA CarryStaysDue ==
  ASSUME HistoryIInv, NEW K, dirty' = Marked(dirty, K), obs \subseteq obs',
         NEW p \in Probes, NEW u, OwedByCarry(p, u)
  PROVE  OwedByCarry(p, u)'
<1>1. HistoryShapes
  BY DEF HistoryIInv
<1>2. PICK s \in obs, v \in Minutes : Carries(s, p, v, u) /\ dirty[<<"m", p, v>>] # 0
  BY DEF OwedByCarry
<1>3. <<"m", p, v>> \in Keys
  BY MinuteKeys DEF Fine
<1>4. dirty'[<<"m", p, v>>] # 0
  BY <1>1, <1>2, <1>3, MarkedIs
<1>5. s \in obs'
  BY <1>2
<1>6. QED BY <1>2, <1>4, <1>5 DEF OwedByCarry, Carries

\* Nothing that the history depends on changes.
LEMMA HistoryFrame ==
  ASSUME HistoryIInv, HistoryShapes', UNCHANGED <<obs, gaps, ranges, dirty, rows, worker>>
  PROVE  HistoryIInv'
<1>1. \A k : Truth(k)' = Truth(k)
  BY TruthIsFrom
<1>2. \A k : Due(k)' <=> Due(k)
  BY DEF Due, Owed, OwedByRange, OwedByGap, OwedByCarry, OwedByBoth, BeyondRepair
<1>3. Fine' = Fine /\ \A k : Stored(k)' = Stored(k)
  BY DEF Fine, Stored, Nothing
<1>4. Accounted'
  BY <1>1, <1>2, <1>3 DEF HistoryIInv, Accounted
<1>5. \A w \in Workers : Reading(w)' <=> Reading(w)
  BY <1>3 DEF Reading, Current
<1>6. ReadsAreAccounted'
  <2>1. SUFFICES ASSUME NEW w \in Workers, Reading(w)'
                 PROVE  (worker[w].value = Truth(worker[w].key) \/ Due(worker[w].key))'
    BY DEF ReadsAreAccounted
  <2>2. PICK k : k = worker[w].key
    OBVIOUS
  <2>3. worker[w].value = Truth(k) \/ Due(k)
    BY <1>5, <2>1, <2>2 DEF HistoryIInv, ReadsAreAccounted
  <2>4. worker'[w].value = Truth(k)' \/ Due(k)'
    BY <1>1, <1>2, <2>3
  <2>5. worker'[w].key = k
    BY <2>2
  <2>6. QED BY <2>4, <2>5
<1>7. CarriesAreKnown'
  <2>1. SUFFICES ASSUME NEW w \in Workers, Reading(w)', worker[w].key[1] = "m", NEW s \in obs
                 PROVE  CarryIsKnown(worker[w], s)'
    BY DEF CarriesAreKnown
  <2>2. CarryIsKnown(worker[w], s)
    BY <1>5, <2>1 DEF HistoryIInv, CarriesAreKnown
  <2>3. QED BY <2>2 DEF CarryIsKnown, Carries
<1>8. QED BY <1>4, <1>6, <1>7 DEF HistoryIInv

LEMMA TwoBounds ==
  ASSUME NEW a \in Nat, NEW b \in Nat
  PROVE  /\ Max({a, b}) \in {a, b} /\ a <= Max({a, b}) /\ b <= Max({a, b})
         /\ Min({a, b}) \in {a, b} /\ Min({a, b}) <= a /\ Min({a, b}) <= b
<1>1. /\ \E x \in {a, b} : \A y \in {a, b} : x >= y
      /\ \E x \in {a, b} : \A y \in {a, b} : x =< y
  OBVIOUS
<1>2. Max({a, b}) \in {a, b} /\ \A y \in {a, b} : Max({a, b}) >= y
  BY <1>1, Zenon DEF Max
<1>3. Min({a, b}) \in {a, b} /\ \A y \in {a, b} : Min({a, b}) =< y
  BY <1>1, Zenon DEF Min
<1>4. QED BY <1>2, <1>3

LEMMA ReachGrows ==
  ASSUME NEW t \in Nat, NEW r \in Nat, t <= r
  PROVE  ReachedFrom(t) \in Nat /\ ReachedFrom(r) \in Nat /\ ReachedFrom(t) <= ReachedFrom(r)
<1>1. FreshFor \in Nat
  BY HealthAssumption
<1>2. t + FreshFor \in Nat /\ r + FreshFor \in Nat /\ t + FreshFor <= r + FreshFor
  BY <1>1
<1>3. QED BY <1>2, MinuteIs, MinuteOrder DEF ReachedFrom

\* The repair range of a new sample.
LEMMA RepairIs ==
  ASSUME HistoryShapes, NEW p \in Probes, NEW q \in Nat, NEW at \in Ticks
  PROVE  /\ RepairRange(p, q, at) \in {NoRange} \cup [cursor : Nat, through : Nat]
         /\ \A o \in obs : o.probe = p /\ o.seq < q /\ at < o.at =>
              /\ RepairRange(p, q, at) # NoRange
              /\ RepairRange(p, q, at).cursor = Minute(at)
              /\ o.at <= RepairRange(p, q, at).through
<1> DEFINE ahead == {s \in obs : s.probe = p /\ s.seq < q /\ s.at > at}
<1>1. at \in Nat /\ Minute(at) \in Nat
  BY TicksAreNat, MinuteIs
<1>2. \A o \in obs : o.at \in Nat /\ o.at \in Ticks
  BY SampleIs DEF HistoryShapes, Streams
<1>3. PICK e \in Nat : Ticks \subseteq 0..e
  <2>1. TicksPerMinute \in Nat /\ LastMinute + 1 \in Nat
    BY HistoryAssumption, LastMinuteIs
  <2>2. \A x, y \in Nat : x * y \in Nat
    OBVIOUS
  <2>3. PICK e \in Nat : e = (LastMinute + 1) * TicksPerMinute
    BY <2>1, <2>2
  <2>4. Ticks = 0..(e - 1)
    BY <2>3 DEF Ticks
  <2>5. QED BY <2>3, <2>4
<1>4. CASE ahead = {}
  <2>1. RepairRange(p, q, at) = NoRange
    BY <1>4 DEF RepairRange
  <2>2. QED BY <1>1, <1>2, <1>4, <2>1
<1>5. CASE ahead # {}
  <2>1. PICK T : T = {s.at : s \in ahead}
    OBVIOUS
  <2>2. T \in SUBSET (0..e) /\ T # {}
    BY <1>2, <1>3, <1>5, <2>1
  <2>3. PICK m \in Nat : m = Max(T) /\ \A x \in T : x <= m
    <3>1. Max(T) \in T /\ \A x \in T : x <= Max(T)
      BY <2>2, MaxIs
    <3>2. Max(T) \in Nat
      <4>1. 0..e \subseteq Nat
        OBVIOUS
      <4>2. QED BY <2>2, <3>1, <4>1
    <3>3. QED BY <3>1, <3>2
  <2>4. RepairRange(p, q, at) = [cursor |-> Minute(at), through |-> m]
    BY <1>5, <2>1, <2>3 DEF RepairRange
  <2>5. RepairRange(p, q, at) # NoRange
    BY <1>1, <2>4 DEF NoRange
  <2>6. ASSUME NEW o \in obs, o.probe = p, o.seq < q, at < o.at PROVE o.at <= m
    <3>1. o \in ahead
      BY <1>1, <1>2, <2>6
    <3>2. o.at \in T
      BY <2>1, <3>1
    <3>3. QED BY <2>3, <3>2
  <2>7. QED BY <1>1, <2>3, <2>4, <2>5, <2>6
<1>6. QED BY <1>4, <1>5

LEMMA MergeIs ==
  ASSUME NEW a \in {NoRange} \cup [cursor : Nat, through : Nat],
         NEW b \in {NoRange} \cup [cursor : Nat, through : Nat]
  PROVE  /\ MergeRange(a, b) \in {NoRange} \cup [cursor : Nat, through : Nat]
         /\ \A c \in {a, b} : c # NoRange =>
              /\ MergeRange(a, b) # NoRange
              /\ MergeRange(a, b).cursor <= c.cursor /\ c.through <= MergeRange(a, b).through
<1>1. CASE a = NoRange \/ b = NoRange
  BY <1>1 DEF MergeRange, NoRange
<1>2. CASE a # NoRange /\ b # NoRange
  <2>1. a \in [cursor : Nat, through : Nat] /\ b \in [cursor : Nat, through : Nat]
    BY <1>2
  <2>2. PICK x, y : x = Min({a.cursor, b.cursor}) /\ y = Max({a.through, b.through})
    OBVIOUS
  <2>3. /\ x \in Nat /\ x <= a.cursor /\ x <= b.cursor
        /\ y \in Nat /\ a.through <= y /\ b.through <= y
    BY <2>1, <2>2, TwoBounds
  <2>4. MergeRange(a, b) = [cursor |-> x, through |-> y]
    BY <1>2, <2>2 DEF MergeRange
  <2>5. MergeRange(a, b) # NoRange
    BY <2>3, <2>4 DEF NoRange
  <2>6. QED BY <2>3, <2>4, <2>5
<1>3. QED BY <1>1, <1>2

LEMMA IngestKeeps ==
  ASSUME HistoryIInv, NEW p \in Probes, NEW at \in Ticks, NEW status \in {"UP", "DOWN"},
         Ingest(p, at, status)
  PROVE  HistoryIInv'
<1> DEFINE q == streamSeq[p] + 1
<1>1. HistoryShapes
  BY DEF HistoryIInv
<1>2. /\ streamSeq[p] \in Nat /\ q \in Nat /\ q \in 1..MaxEvents
      /\ streamSeq' = [streamSeq EXCEPT ![p] = q]
      /\ UNCHANGED <<gaps, rows, worker>>
  BY <1>1, HistoryAssumption DEF Ingest, HistoryShapes
<1>3. streamSeq' \in [Probes -> Nat] /\ \A s \in obs : s.seq <= streamSeq'[s.probe]
  <2>1. \A s \in obs : s.seq \in Nat /\ s.probe \in Probes
    BY <1>1, SampleIs DEF HistoryShapes, Streams
  <2>2. \A s \in obs : s.seq <= streamSeq[s.probe]
    BY <1>1 DEF HistoryShapes
  <2>3. streamSeq \in [Probes -> Nat]
    BY <1>1 DEF HistoryShapes
  <2>4. QED BY <1>2, <2>1, <2>2, <2>3
<1>4. CASE UNCHANGED <<obs, ranges, dirty>>
  <2>1. HistoryShapes'
    BY <1>1, <1>2, <1>3, <1>4 DEF HistoryShapes
  <2>2. QED BY <1>2, <1>4, <2>1, HistoryFrame
<1>5. CASE ~ Cleared(p, q, at)
  <2>1. PICK s : s = [probe |-> p, seq |-> q, at |-> at, status |-> status]
    OBVIOUS
  <2>2. PICK K : K = DirtyBuckets(p, Minute(at))
    OBVIOUS
  <2>3. /\ obs' = obs \cup {s} /\ dirty' = Marked(dirty, K)
        /\ ranges' = [ranges EXCEPT ![p] = MergeRange(@, RepairRange(p, q, at))]
    BY <1>5, <2>1, <2>2 DEF Ingest
  <2>4. s \in Observations /\ s.probe = p /\ s.seq = q /\ s.at = at
    BY <1>2, <2>1 DEF Observations
  <2>5. at \in Nat /\ Minute(at) \in Minutes /\ Minute(at) \in Nat
    BY TicksAreNat, LastMinuteIs
  <2>6. \A o \in obs : o \in Observations /\ o.at \in Nat /\ o.seq \in Nat
    BY <1>1, SampleIs DEF HistoryShapes, Streams
  <2>7. \A o \in obs : o.probe = p => o.seq < q
    BY <1>1, <1>2, <2>6 DEF HistoryShapes
  <2>8. Streams(obs \cup {s})
    BY <1>1, <1>2, <2>4, <2>6, <2>7 DEF HistoryShapes, Streams
  <2>9. PICK R : R = RepairRange(p, q, at)
    OBVIOUS
  <2>10. /\ R \in {NoRange} \cup [cursor : Nat, through : Nat]
         /\ \A o \in obs : o.probe = p /\ o.seq < q /\ at < o.at =>
              R # NoRange /\ R.cursor = Minute(at) /\ o.at <= R.through
    BY <1>1, <1>2, <2>9, RepairIs
  <2>11. /\ ranges'[p] \in {NoRange} \cup [cursor : Nat, through : Nat]
         /\ \A c \in {ranges[p], R} : c # NoRange =>
              /\ ranges'[p] # NoRange
              /\ ranges'[p].cursor <= c.cursor /\ c.through <= ranges'[p].through
         /\ \A r \in Probes \ {p} : ranges'[r] = ranges[r]
    <3>1. ranges[p] \in {NoRange} \cup [cursor : Nat, through : Nat]
      BY <1>1 DEF HistoryShapes
    <3>2. ranges'[p] = MergeRange(ranges[p], R) /\ \A r \in Probes \ {p} : ranges'[r] = ranges[r]
      BY <1>1, <2>3, <2>9 DEF HistoryShapes
    <3>3. QED BY <2>10, <3>1, <3>2, MergeIs
  <2>12. HistoryShapes'
    <3>1. ranges' \in [Probes -> {NoRange} \cup [cursor : Nat, through : Nat]]
      BY <1>1, <2>3, <2>11 DEF HistoryShapes
    <3>2. dirty' \in [Keys -> Nat]
      BY <1>1, <2>3, MarkedIs
    <3>3. s.seq <= streamSeq'[s.probe]
      BY <1>1, <1>2, <2>4 DEF HistoryShapes
    <3>4. QED BY <1>1, <1>2, <1>3, <2>3, <2>8, <3>1, <3>2, <3>3 DEF HistoryShapes
  <2>13. ASSUME NEW k \in Fine, Due(k) PROVE Due(k)'
    <3>1. PICK r \in Probes : (k[1] = "m" => r = k[2]) /\ Owed(r, k[3])
      BY <2>13 DEF Due
    <3>2. CASE OwedByRange(r, k[3])
      <4>1. CASE r # p
        BY <2>11, <3>1, <3>2, <4>1 DEF Due, Owed, OwedByRange
      <4>2. CASE r = p
        <5>1. /\ ranges[p] \in [cursor : Nat, through : Nat] /\ ranges'[p] \in [cursor : Nat, through : Nat]
              /\ ranges'[p] # NoRange
              /\ ranges'[p].cursor <= ranges[p].cursor /\ ranges[p].through <= ranges'[p].through
              /\ ranges[p].cursor <= k[3] /\ k[3] <= ReachedFrom(ranges[p].through)
          BY <1>1, <2>11, <3>2, <4>2 DEF OwedByRange, HistoryShapes
        <5>2. ReachedFrom(ranges[p].through) <= ReachedFrom(ranges'[p].through)
              /\ ReachedFrom(ranges[p].through) \in Nat /\ ReachedFrom(ranges'[p].through) \in Nat
          BY <5>1, ReachGrows
        <5>3. k[3] \in Nat
          BY FineIs, LastMinuteIs
        <5>4. ranges'[p].cursor <= k[3] /\ k[3] <= ReachedFrom(ranges'[p].through)
          BY <5>1, <5>2, <5>3
        <5>5. OwedByRange(r, k[3])'
          BY <4>2, <5>1, <5>4 DEF OwedByRange, ReachedFrom, Minute
        <5>6. QED BY <3>1, <5>5 DEF Due, Owed
      <4>3. QED BY <4>1, <4>2
    <3>3. CASE OwedByGap(r, k[3])
      BY <1>2, <3>1, <3>3 DEF Due, Owed, OwedByGap
    <3>4. CASE OwedByCarry(r, k[3])
      <4>1. OwedByCarry(r, k[3])'
        BY <2>3, <3>4, CarryStaysDue
      <4>2. QED BY <3>1, <4>1 DEF Due, Owed
    <3>5. CASE OwedByBoth(r, k[3]) \/ BeyondRepair(r, k[3])
      BY <1>2, <2>3, <3>1, <3>5 DEF Due, Owed, OwedByBoth, BeyondRepair
    <3>6. QED BY <3>1, <3>2, <3>3, <3>4, <3>5 DEF Owed
  <2>14. ASSUME NEW k \in Fine, k \notin K, ~ Due(k)' PROVE Truth(k)' = Truth(k)
    <3>1. PICK b \in Nat :
            /\ b = k[3] * TicksPerMinute /\ (k[3] + 1) * TicksPerMinute = b + TicksPerMinute
            /\ \A u : u \in TicksOf(k) <=> u \in Int /\ b <= u /\ u < b + TicksPerMinute
      BY FineTicks
    <3>2. TicksPerMinute \in Nat /\ k[3] \in Nat /\ k[3] \in Minutes /\ FreshFor \in Nat
      BY HistoryAssumption, HealthAssumption, FineIs, LastMinuteIs
    <3>3. \A t \in TicksOf(k) : t \in Nat /\ Minute(t) = k[3]
      BY <3>1, <3>2, InMinute
    <3>4. k[1] = "o" \/ p = k[2] => Minute(at) # k[3]
      BY <2>2, <2>5, <2>14, FineIs, MinuteKeys
    <3>5. ASSUME NEW r \in Probes \cup {k[2]}, NEW t \in TicksOf(k), k[1] = "o" \/ r = k[2]
          PROVE  StatusFrom(gaps, r, obs \cup {s}, t) = StatusFrom(gaps, r, obs, t)
      <4>1. CASE s.probe # r \/ ~ (s.at <= t)
        BY <4>1, OtherSample
      <4>2. CASE s.probe = r /\ s.at <= t
        <5>1. r = p /\ t \in Nat /\ at <= t /\ b <= t
          BY <2>4, <3>1, <3>3, <4>2
        <5>2. Minute(at) <= k[3] /\ Minute(at) < k[3]
          BY <2>5, <3>2, <3>3, <3>4, <3>5, <5>1, MinuteOrder
        <5>3. at + FreshFor <= t
          <6>1. SUFFICES ASSUME t < at + FreshFor PROVE FALSE
            BY <2>5, <3>2, <5>1
          <6>2. Carries(s, p, Minute(at), k[3])
            BY <2>4, <2>5, <3>1, <3>2, <5>1, <5>2, <6>1 DEF Carries
          <6>3. dirty'[<<"m", p, Minute(at)>>] # 0
            <7>1. PICK j : j = <<"m", p, Minute(at)>>
              OBVIOUS
            <7>2. j \in Fine /\ j \in K
              BY <2>2, <2>5, <7>1, MinuteKeys
            <7>3. Marked(dirty, K)[j] # 0
              BY <1>1, <7>2, MarkedIs DEF Fine
            <7>4. QED BY <2>3, <7>1, <7>3
          <6>4. OwedByCarry(p, k[3])'
            BY <2>3, <2>5, <6>2, <6>3 DEF OwedByCarry, Carries
          <6>5. k[1] = "m" => p = k[2]
            BY <3>5, <5>1
          <6>6. Due(k)'
            BY <6>4, <6>5 DEF Due, Owed
          <6>7. QED BY <2>14, <6>6
        <5>4. ASSUME NEW o \in obs, o.probe = p, at < o.at PROVE o.at + FreshFor <= t
          <6>1. SUFFICES ASSUME t < o.at + FreshFor PROVE FALSE
            BY <2>6, <3>2, <5>1
          <6>2. R # NoRange /\ R.cursor = Minute(at) /\ o.at <= R.through
            BY <2>7, <2>10, <5>4
          <6>3. /\ ranges'[p] # NoRange /\ ranges'[p] \in [cursor : Nat, through : Nat]
                /\ ranges'[p].cursor <= Minute(at) /\ R.through <= ranges'[p].through
                /\ R.through \in Nat
            BY <2>10, <2>11, <6>2
          <6>4. PICK e \in Nat : e = ranges'[p].through + FreshFor
            BY <3>2, <6>3
          <6>5. t <= e
            BY <2>6, <3>2, <5>1, <6>1, <6>2, <6>3, <6>4
          <6>6. k[3] <= ReachedFrom(ranges'[p].through)
            <7>1. Minute(t) <= Minute(e)
              BY <5>1, <6>4, <6>5, MinuteOrder
            <7>2. QED BY <3>3, <6>4, <7>1 DEF ReachedFrom
          <6>7. ranges'[p].cursor <= k[3]
            BY <2>5, <3>2, <5>2, <6>3
          <6>8. OwedByRange(p, k[3])'
            BY <6>3, <6>6, <6>7 DEF OwedByRange, ReachedFrom, Minute
          <6>9. k[1] = "m" => p = k[2]
            BY <3>5, <5>1
          <6>10. Due(k)'
            BY <6>8, <6>9 DEF Due, Owed
          <6>11. QED BY <2>14, <6>10
        <5>5. \A o \in obs : o.probe = p => o.seq <= s.seq
          BY <1>2, <2>4, <2>6, <2>7
        <5>6. StaleLatest(obs, s, t)
          BY <2>4, <5>1, <5>3, <5>4, <5>5 DEF StaleLatest
        <5>7. StatusFrom(gaps, s.probe, obs \cup {s}, t) = StatusFrom(gaps, s.probe, obs, t)
          <6>1. PICK O : O = obs \cup {s}
            OBVIOUS
          <6>2. Streams(O)
            BY <2>8, <6>1
          <6>3. \A G : StatusFrom(G, s.probe, O, t) = StatusFrom(G, s.probe, obs, t)
            BY <5>1, <5>6, <6>1, <6>2, LatestSample
          <6>4. QED BY <6>1, <6>3
        <5>8. QED BY <4>2, <5>7
      <4>3. QED BY <4>1, <4>2
    <3>6. k[1] # "o" => {x \in obs \cup {s} : x.probe = k[2] /\ x.at \in TicksOf(k)}
                         = {x \in obs : x.probe = k[2] /\ x.at \in TicksOf(k)}
      <4>1. k[1] # "o" => ~ (s.probe = k[2] /\ s.at \in TicksOf(k))
        BY <2>4, <3>3, <3>4
      <4>2. QED BY <4>1
    <3>7. TruthFrom(gaps, obs \cup {s}, k) = TruthFrom(gaps, obs, k)
      BY <3>5, <3>6, SameTruth
    <3>8. QED BY <1>2, <2>3, <3>7, TruthIsFrom
  <2>15. \A x \in obs' \ obs : <<"m", x.probe, Minute(x.at)>> \in K
    BY <2>2, <2>3, <2>4, <2>5, MinuteKeys
  <2>16. obs \subseteq obs' /\ rows' = rows /\ worker' = worker
    BY <1>2, <2>3
  <2>17. \A k \in Fine : k \in K \/ Truth(k)' = Truth(k) \/ Due(k)'
    BY <2>14
  <2>18. \A k \in Fine : Due(k) => k \in K \/ Due(k)'
    BY <2>13
  <2>19. QED BY <2>3, <2>12, <2>15, <2>16, <2>17, <2>18, MarkingKeeps
<1>6. QED BY <1>4, <1>5 DEF Ingest

\* The gap that is declared hides samples only of minutes it will mark, of
\* minutes they carry over to, and of minutes beyond its repair.
LEMMA DeclareKeeps ==
  ASSUME HistoryIInv, NEW p \in Probes, NEW n \in 1..MaxGapEvents,
         NEW at \in Ticks, NEW until \in Ticks, DeclareGap(p, n, at, until)
  PROVE  HistoryIInv'
<1>1. HistoryShapes
  BY DEF HistoryIInv
<1>2. PICK g : g = [probe |-> p, throughSeq |-> streamSeq[p] + n, at |-> at, until |-> until,
                    pending |-> TRUE, bucket |-> Minute(at)]
  OBVIOUS
<1>3. /\ gaps' = gaps \cup {g} /\ streamSeq' = [streamSeq EXCEPT ![p] = @ + n]
      /\ UNCHANGED <<obs, ranges, dirty, rows, worker>> /\ at <= until
  BY <1>2 DEF DeclareGap
<1>4. at \in Nat /\ until \in Nat /\ Minute(at) \in Nat /\ n \in Nat
  BY TicksAreNat, MinuteIs, HistoryAssumption
<1>5. /\ g.probe = p /\ g.at = at /\ g.until = until /\ g.pending = TRUE /\ g.bucket = Minute(at)
      /\ g.throughSeq = streamSeq[p] + n
  BY <1>2
<1>6. HistoryShapes'
  <2>1. \A s \in obs : s.seq \in Nat /\ s.probe \in Probes
    BY <1>1, SampleIs DEF HistoryShapes, Streams
  <2>2. streamSeq \in [Probes -> Nat] /\ \A s \in obs : s.seq <= streamSeq[s.probe]
    BY <1>1 DEF HistoryShapes
  <2>3. streamSeq' \in [Probes -> Nat] /\ \A s \in obs : s.seq <= streamSeq'[s.probe]
    BY <1>3, <1>4, <2>1, <2>2
  <2>4. streamSeq[p] + n \in Nat
    BY <1>4, <2>2
  <2>5. g \in [probe : Probes, throughSeq : Nat, at : Nat, until : Nat, pending : BOOLEAN, bucket : Nat]
    BY <1>2, <1>4, <2>4, Zenon
  <2>6. QED BY <1>1, <1>3, <2>3, <2>5 DEF HistoryShapes
<1>7. PICK K : K = {}
  OBVIOUS
<1>8. dirty' = Marked(dirty, K)
  BY <1>1, <1>3, <1>7 DEF Marked, HistoryShapes
<1>9. ASSUME NEW k \in Fine, Due(k) PROVE Due(k)'
  BY <1>3, <1>9 DEF Due, Owed, OwedByRange, OwedByGap, OwedByCarry, OwedByBoth, BeyondRepair
<1>10. ASSUME NEW k \in Fine, ~ Due(k)' PROVE Truth(k)' = Truth(k)
  <2>0. PICK G : G = gaps \cup {g}
    OBVIOUS
  <2>1. PICK b \in Nat :
          /\ b = k[3] * TicksPerMinute /\ (k[3] + 1) * TicksPerMinute = b + TicksPerMinute
          /\ \A u : u \in TicksOf(k) <=> u \in Int /\ b <= u /\ u < b + TicksPerMinute
    BY FineTicks
  <2>2. TicksPerMinute \in Nat /\ k[3] \in Nat /\ FreshFor \in Nat
    BY HistoryAssumption, HealthAssumption, FineIs, LastMinuteIs
  <2>3. \A t \in TicksOf(k) : t \in Nat /\ Minute(t) = k[3]
    BY <2>1, <2>2, InMinute
  <2>4. ASSUME NEW r \in Probes \cup {k[2]}, NEW t \in TicksOf(k), k[1] = "o" \/ r = k[2]
        PROVE  StatusFrom(G, r, obs, t) = StatusFrom(gaps, r, obs, t)
    <3>1. ASSUME r = p, t >= at, NEW o \in Reports(p, obs, t), FreshAt(o.at, t) PROVE FALSE
      <4>1. /\ o \in obs /\ o.probe = p /\ o.at \in Nat /\ o.at <= t /\ t < o.at + FreshFor
            /\ o.seq \in Nat /\ o.seq <= streamSeq[p] /\ streamSeq[p] \in Nat /\ t \in Nat
        BY <1>1, <2>2, <2>3, <3>1, SampleIs DEF Reports, FreshAt, HistoryShapes, Streams
      <4>2. PICK e, f \in Nat : e = until + FreshFor /\ f = o.at + FreshFor
        BY <1>4, <2>2, <4>1
      <4>3. PICK x, y \in Nat : x = ReachedFrom(until) /\ y = ReachedFrom(o.at)
        BY <4>2, MinuteIs DEF ReachedFrom
      <4>4. /\ Minute(at) <= k[3] /\ Minute(o.at) <= k[3] /\ k[3] <= y /\ Minute(at) <= x
            /\ Minute(o.at) \in Nat
        <5>1. Minute(t) = k[3] /\ Minute(e) = x /\ Minute(f) = y
          BY <2>3, <4>2, <4>3 DEF ReachedFrom
        <5>2. at <= t /\ t <= f /\ at <= e
          BY <1>3, <1>4, <2>2, <3>1, <4>1, <4>2
        <5>3. QED BY <1>4, <4>1, <4>2, <5>1, <5>2, MinuteOrder, MinuteIs
      <4>5. CASE k[3] <= x
        <5>1. OwedByGap(p, k[3])'
          BY <1>3, <1>5, <4>3, <4>4, <4>5 DEF OwedByGap, ReachedFrom, Minute
        <5>2. QED BY <1>10, <2>4, <3>1, <5>1 DEF Due, Owed
      <4>6. CASE x < k[3] /\ Minute(o.at) <= x
        <5>1. x \in Minutes
          BY <2>2, <4>6, FineIs, LastMinuteIs
        <5>2. k[3] * TicksPerMinute < o.at + FreshFor
          <6>1. b <= t
            BY <2>1
          <6>2. QED BY <2>1, <2>2, <4>1, <6>1
        <5>3. Carries(o, p, x, k[3])
          BY <4>1, <4>6, <5>2 DEF Carries
        <5>4. OwedByBoth(p, k[3])'
          BY <1>3, <1>5, <4>1, <4>3, <4>4, <5>1, <5>3 DEF OwedByBoth, Carries, ReachedFrom, Minute
        <5>5. QED BY <1>10, <2>4, <3>1, <5>4 DEF Due, Owed
      <4>7. CASE x < Minute(o.at)
        <5>1. o.seq <= g.throughSeq
          BY <1>4, <1>5, <4>1
        <5>2. BeyondRepair(p, k[3])'
          BY <1>3, <1>5, <4>1, <4>3, <4>4, <4>7, <5>1 DEF BeyondRepair, ReachedFrom, Minute
        <5>3. QED BY <1>10, <2>4, <3>1, <5>2 DEF Due, Owed
      <4>8. QED BY <2>2, <4>3, <4>4, <4>5, <4>6, <4>7
    <3>2. Streams(obs)
      BY <1>1 DEF HistoryShapes
    <3>3. OutsideGap(obs, g, r, t)
      BY <1>5, <3>1, <3>2 DEF OutsideGap
    <3>4. QED BY <2>0, <3>3, NewGap
  <2>5. TruthFrom(G, obs, k) = TruthFrom(gaps, obs, k)
    BY <2>4, SameTruth
  <2>6. QED BY <1>3, <2>0, <2>5, TruthIsFrom
<1>11. \A k \in Fine : k \in K \/ Truth(k)' = Truth(k) \/ Due(k)'
  BY <1>10
<1>12. \A k \in Fine : Due(k) => k \in K \/ Due(k)'
  BY <1>9
<1>13. obs \subseteq obs' /\ rows' = rows /\ worker' = worker /\ obs' \ obs = {}
  BY <1>3
<1>14. QED BY <1>6, <1>8, <1>11, <1>12, <1>13, MarkingKeeps

LEMMA ClearKeeps ==
  ASSUME HistoryIInv, NEW at \in Ticks, ClearHistory(at)
  PROVE  HistoryIInv'
<1>1. HistoryShapes
  BY DEF HistoryIInv
<1>2. /\ obs' = {} /\ dirty' = [k \in Keys |-> 0] /\ rows' = [k \in Keys |-> NoRollup]
      /\ UNCHANGED <<streamSeq, gaps, ranges, worker>>
  BY DEF ClearHistory
<1>3. HistoryShapes'
  <2>1. Streams({})
    BY DEF Streams
  <2>2. QED BY <1>1, <1>2, <2>1 DEF HistoryShapes
<1>4. Accounted'
  <2>1. SUFFICES ASSUME NEW k \in Fine PROVE Stored(k)' = Truth(k)'
    BY DEF Accounted, Fine
  <2>2. k \in Keys
    BY DEF Fine
  <2>3. Stored(k)' = Nothing(k)
    BY <1>2, <2>2 DEF Stored, Nothing
  <2>4. Truth(k)' = TruthFrom(gaps, {}, k)
    BY <1>2, TruthIsFrom
  <2>5. QED BY <2>3, <2>4, NothingIs
<1>5. \A w \in Workers : ~ Reading(w)'
  <2>1. SUFFICES ASSUME NEW w \in Workers, Reading(w)' PROVE FALSE
    OBVIOUS
  <2>2. worker[w].pc = "read" /\ worker[w].key \in Fine /\ dirty'[worker[w].key] = worker[w].rev
    BY <1>2, <2>1 DEF Reading, Current, Fine
  <2>3. worker[w].rev # 0
    BY <1>1, <2>2 DEF HistoryShapes, Window, NoWindow
  <2>4. QED BY <1>2, <2>2, <2>3 DEF Fine
<1>6. QED BY <1>3, <1>4, <1>5 DEF HistoryIInv, ReadsAreAccounted, CarriesAreKnown

\* The marked minute leaves the range, and the rest of it stays.
LEMMA ExpandRangeKeeps ==
  ASSUME HistoryIInv, NEW p \in Probes, ExpandRange(p)
  PROVE  HistoryIInv'
<1>1. HistoryShapes
  BY DEF HistoryIInv
<1>2. PICK r \in [cursor : Nat, through : Nat] : r = ranges[p]
  BY <1>1 DEF ExpandRange, ExpandableRanges, HistoryShapes
<1>3. PICK c \in Nat : c = r.cursor
  OBVIOUS
<1>4. PICK K : K = DirtyBuckets(p, c)
  OBVIOUS
<1>5. /\ dirty' = Marked(dirty, K) /\ UNCHANGED <<obs, streamSeq, gaps, rows, worker>>
      /\ ranges' = [ranges EXCEPT ![p] = IF c + 1 > ReachedFrom(r.through) THEN NoRange
                                         ELSE [cursor |-> c + 1, through |-> r.through]]
  BY <1>2, <1>3, <1>4 DEF ExpandRange
<1>6. HistoryShapes'
  <2>1. dirty' \in [Keys -> Nat]
    BY <1>1, <1>5, MarkedIs
  <2>2. ranges' \in [Probes -> {NoRange} \cup [cursor : Nat, through : Nat]]
    BY <1>1, <1>2, <1>3, <1>5 DEF HistoryShapes
  <2>3. QED BY <1>1, <1>5, <2>1, <2>2 DEF HistoryShapes
<1>7. ASSUME NEW k \in Fine, Due(k), k \notin K PROVE Due(k)'
  <2>1. PICK q \in Probes : (k[1] = "m" => q = k[2]) /\ Owed(q, k[3])
    BY <1>7 DEF Due
  <2>2. CASE OwedByRange(q, k[3]) /\ q # p
    BY <1>1, <1>5, <2>1, <2>2 DEF Due, Owed, OwedByRange, HistoryShapes
  <2>3. CASE OwedByRange(q, k[3]) /\ q = p
    <3>1. c <= k[3] /\ k[3] <= ReachedFrom(r.through)
      BY <1>2, <1>3, <2>3 DEF OwedByRange
    <3>2. k[3] # c
      BY <1>4, <1>7, <2>1, <2>3, FineIs, MinuteKeys
    <3>3. k[3] \in Nat /\ ReachedFrom(r.through) \in Nat
      <4>1. r.through \in Nat /\ r.through <= r.through
        OBVIOUS
      <4>2. ReachedFrom(r.through) \in Nat
        BY <4>1, ReachGrows
      <4>3. QED BY <4>2, FineIs, LastMinuteIs
    <3>4. c + 1 <= k[3] /\ ~ (c + 1 > ReachedFrom(r.through))
      BY <3>1, <3>2, <3>3
    <3>5. ranges'[p] = [cursor |-> c + 1, through |-> r.through] /\ ranges'[p] # NoRange
      BY <1>1, <1>5, <3>4 DEF HistoryShapes, NoRange
    <3>6. OwedByRange(p, k[3])'
      BY <3>1, <3>4, <3>5 DEF OwedByRange, ReachedFrom, Minute
    <3>7. QED BY <2>1, <2>3, <3>6 DEF Due, Owed
  <2>4. CASE OwedByGap(q, k[3])
    BY <1>5, <2>1, <2>4 DEF Due, Owed, OwedByGap
  <2>5. CASE OwedByCarry(q, k[3])
    <3>1. OwedByCarry(q, k[3])'
      BY <1>5, <2>5, CarryStaysDue
    <3>2. QED BY <2>1, <3>1 DEF Due, Owed
  <2>6. CASE OwedByBoth(q, k[3]) \/ BeyondRepair(q, k[3])
    BY <1>5, <2>1, <2>6 DEF Due, Owed, OwedByBoth, BeyondRepair
  <2>7. QED BY <2>1, <2>2, <2>3, <2>4, <2>5, <2>6 DEF Owed
<1>8. \A k : Truth(k)' = Truth(k)
  BY <1>5, TruthIsFrom
<1>9. QED BY <1>5, <1>6, <1>7, <1>8, MarkingKeeps

LEMMA ExpandGapKeeps ==
  ASSUME HistoryIInv, NEW g \in gaps, ExpandGap(g)
  PROVE  HistoryIInv'
<1>1. HistoryShapes
  BY DEF HistoryIInv
<1>2. g \in [probe : Probes, throughSeq : Nat, at : Nat, until : Nat, pending : BOOLEAN, bucket : Nat]
  BY <1>1 DEF HistoryShapes
<1>3. PICK c \in Nat : c = g.bucket
  BY <1>2
<1>4. PICK K : K = DirtyBuckets(g.probe, c)
  OBVIOUS
<1>5. PICK h : h = IF c + 1 > ReachedFrom(g.until) THEN [g EXCEPT !.pending = FALSE]
                   ELSE [g EXCEPT !.bucket = c + 1]
  OBVIOUS
<1>6. /\ dirty' = Marked(dirty, K) /\ UNCHANGED <<obs, streamSeq, ranges, rows, worker>>
      /\ gaps' = (gaps \ {g}) \cup {h} /\ g.pending
  BY <1>3, <1>4, <1>5 DEF ExpandGap, ExpandableGaps
<1>7. /\ h \in [probe : Probes, throughSeq : Nat, at : Nat, until : Nat, pending : BOOLEAN, bucket : Nat]
      /\ h.probe = g.probe /\ h.at = g.at /\ h.throughSeq = g.throughSeq /\ h.until = g.until
      /\ ~ (c + 1 > ReachedFrom(g.until)) => h.pending = g.pending /\ h.bucket = c + 1
  <2>1. CASE c + 1 > ReachedFrom(g.until)
    BY <1>2, <1>5, <2>1
  <2>2. CASE ~ (c + 1 > ReachedFrom(g.until))
    BY <1>2, <1>3, <1>5, <2>2
  <2>3. QED BY <2>1, <2>2
<1>8. HistoryShapes'
  <2>1. dirty' \in [Keys -> Nat]
    BY <1>1, <1>6, MarkedIs
  <2>2. QED BY <1>1, <1>6, <1>7, <2>1 DEF HistoryShapes
<1>9. ASSUME NEW k \in Fine, Due(k), k \notin K PROVE Due(k)'
  <2>1. PICK q \in Probes : (k[1] = "m" => q = k[2]) /\ Owed(q, k[3])
    BY <1>9 DEF Due
  <2>2. CASE OwedByRange(q, k[3])
    BY <1>6, <2>1, <2>2 DEF Due, Owed, OwedByRange
  <2>3. CASE OwedByGap(q, k[3])
    <3>1. PICK f \in gaps : f.probe = q /\ f.pending = TRUE /\ f.bucket <= k[3] /\ k[3] <= ReachedFrom(f.until)
      BY <2>3 DEF OwedByGap
    <3>2. CASE f # g
      <4>1. f \in gaps'
        BY <1>6, <3>2
      <4>2. OwedByGap(q, k[3])'
        BY <3>1, <4>1 DEF OwedByGap, ReachedFrom, Minute
      <4>3. QED BY <2>1, <4>2 DEF Due, Owed
    <3>3. CASE f = g
      <4>1. k[3] # c
        <5>1. q = g.probe /\ k[3] \in Minutes
          BY <3>1, <3>3, FineIs
        <5>2. k \in DirtyBuckets(q, k[3])
          BY <2>1, <5>1, FineIs, MinuteKeys
        <5>3. QED BY <1>4, <1>9, <5>1, <5>2
      <4>2. k[3] \in Nat /\ ReachedFrom(g.until) \in Nat
        <5>1. g.until \in Nat /\ g.until <= g.until
          BY <1>2
        <5>2. ReachedFrom(g.until) \in Nat
          BY <5>1, ReachGrows
        <5>3. QED BY <5>2, FineIs, LastMinuteIs
      <4>3. c + 1 <= k[3] /\ ~ (c + 1 > ReachedFrom(g.until))
        BY <1>3, <3>1, <3>3, <4>1, <4>2
      <4>4. h.pending = TRUE /\ h.bucket = c + 1 /\ h \in gaps'
        BY <1>6, <1>7, <3>1, <3>3, <4>3
      <4>5. OwedByGap(q, k[3])'
        BY <1>7, <3>1, <3>3, <4>3, <4>4 DEF OwedByGap, ReachedFrom, Minute
      <4>6. QED BY <2>1, <4>5 DEF Due, Owed
    <3>4. QED BY <3>2, <3>3
  <2>4. CASE OwedByCarry(q, k[3])
    <3>1. OwedByCarry(q, k[3])'
      BY <1>6, <2>4, CarryStaysDue
    <3>2. QED BY <2>1, <3>1 DEF Due, Owed
  <2>5. CASE OwedByBoth(q, k[3])
    <3>1. PICK f \in gaps, s \in obs, v \in Minutes :
            /\ f.probe = q /\ f.pending = TRUE /\ f.bucket <= v /\ v <= ReachedFrom(f.until)
            /\ Carries(s, q, v, k[3])
      BY <2>5 DEF OwedByBoth
    <3>2. CASE f # g
      <4>1. f \in gaps' /\ s \in obs'
        BY <1>6, <3>2
      <4>2. OwedByBoth(q, k[3])'
        BY <3>1, <4>1 DEF OwedByBoth, Carries, ReachedFrom, Minute
      <4>3. QED BY <2>1, <4>2 DEF Due, Owed
    <3>3. CASE f = g /\ v = c
      <4>1. PICK j : j = <<"m", q, v>>
        OBVIOUS
      <4>2. j \in Keys /\ j \in K
        BY <1>4, <3>1, <3>3, <4>1, MinuteKeys DEF Fine
      <4>3. dirty'[<<"m", q, v>>] # 0
        BY <1>1, <1>6, <4>1, <4>2, MarkedIs
      <4>4. OwedByCarry(q, k[3])'
        BY <1>6, <3>1, <4>3 DEF OwedByCarry, Carries
      <4>5. QED BY <2>1, <4>4 DEF Due, Owed
    <3>4. CASE f = g /\ v # c
      <4>1. v \in Nat /\ ReachedFrom(g.until) \in Nat
        <5>1. g.until \in Nat /\ g.until <= g.until
          BY <1>2
        <5>2. ReachedFrom(g.until) \in Nat
          BY <5>1, ReachGrows
        <5>3. QED BY <5>2, LastMinuteIs
      <4>2. c + 1 <= v /\ ~ (c + 1 > ReachedFrom(g.until))
        BY <1>3, <3>1, <3>4, <4>1
      <4>3. h.pending = TRUE /\ h.bucket = c + 1 /\ h \in gaps' /\ s \in obs'
        BY <1>6, <1>7, <3>1, <3>4, <4>2
      <4>4. OwedByBoth(q, k[3])'
        BY <1>7, <3>1, <3>4, <4>2, <4>3 DEF OwedByBoth, Carries, ReachedFrom, Minute
      <4>5. QED BY <2>1, <4>4 DEF Due, Owed
    <3>5. QED BY <3>2, <3>3, <3>4
  <2>6. CASE BeyondRepair(q, k[3])
    <3>1. PICK f \in gaps, s \in obs :
            /\ f.probe = q /\ s.probe = q /\ s.seq <= f.throughSeq
            /\ ReachedFrom(f.until) < Minute(s.at) /\ Minute(s.at) <= k[3] /\ k[3] <= ReachedFrom(s.at)
      BY <2>6 DEF BeyondRepair
    <3>2. PICK x \in gaps' : x.probe = f.probe /\ x.throughSeq = f.throughSeq /\ x.until = f.until
      BY <1>6, <1>7
    <3>3. s \in obs'
      BY <1>6
    <3>4. BeyondRepair(q, k[3])'
      BY <3>1, <3>2, <3>3 DEF BeyondRepair, ReachedFrom, Minute
    <3>5. QED BY <2>1, <3>4 DEF Due, Owed
  <2>7. QED BY <2>1, <2>2, <2>3, <2>4, <2>5, <2>6 DEF Owed
<1>10. ASSUME NEW k \in Fine PROVE Truth(k)' = Truth(k)
  <2>1. PICK G : G = gaps'
    OBVIOUS
  <2>2. \A s, t : Hides(G, s, t) <=> Hides(gaps, s, t)
    BY <1>6, <1>7, <2>1 DEF Hides
  <2>3. \A r, t : StatusFrom(G, r, obs, t) = StatusFrom(gaps, r, obs, t)
    BY <1>1, <2>2, SameGaps DEF HistoryShapes
  <2>4. TruthFrom(G, obs, k) = TruthFrom(gaps, obs, k)
    BY <2>3, SameTruth
  <2>5. QED BY <1>6, <2>1, <2>4, TruthIsFrom
<1>11. QED BY <1>6, <1>8, <1>9, <1>10, MarkingKeeps

-----------------------------------------------------------------------------
(* Steps of a worker *)

\* What a worker holds changes, and nothing else; what it read is the truth.
LEMMA WorkerKeeps ==
  ASSUME HistoryIInv, UNCHANGED <<obs, streamSeq, gaps, ranges, dirty, rows>>,
         NEW w \in Workers, NEW v, worker' = [worker EXCEPT ![w] = v], Window(v),
         v.pc = "read" /\ v.key \in Fine =>
           /\ v.value = Truth(v.key)
           /\ v.key[1] = "m" => \A s \in obs : CarryIsKnown(v, s)
  PROVE  HistoryIInv'
<1>1. HistoryShapes
  BY DEF HistoryIInv
<1>2. worker'[w] = v /\ \A x \in Workers \ {w} : worker'[x] = worker[x]
  BY <1>1 DEF HistoryShapes
<1>3. HistoryShapes'
  <2>1. worker' = [x \in Workers |-> worker'[x]]
    BY <1>1 DEF HistoryShapes
  <2>2. \A x \in Workers : Window(worker'[x])
    BY <1>1, <1>2 DEF HistoryShapes
  <2>3. (\A x \in Workers : Window(worker[x]))'
    BY <2>2
  <2>4. QED BY <1>1, <2>1, <2>3 DEF HistoryShapes
<1>4. \A k : Truth(k)' = Truth(k)
  BY TruthIsFrom
<1>5. \A k : Due(k)' <=> Due(k)
  BY DEF Due, Owed, OwedByRange, OwedByGap, OwedByCarry, OwedByBoth, BeyondRepair
<1>6. Fine' = Fine /\ \A k : Stored(k)' = Stored(k)
  BY DEF Fine, Stored, Nothing
<1>7. Accounted'
  BY <1>4, <1>5, <1>6 DEF HistoryIInv, Accounted
<1>8. \A x \in Workers \ {w} : Reading(x)' <=> Reading(x)
  BY <1>2, <1>6 DEF Reading, Current
<1>9. Reading(w)' => v.pc = "read" /\ v.key \in Fine
  BY <1>2, <1>6 DEF Reading
<1>10. ReadsAreAccounted'
  <2>1. SUFFICES ASSUME NEW x \in Workers, Reading(x)'
                 PROVE  (worker[x].value = Truth(worker[x].key) \/ Due(worker[x].key))'
    BY DEF ReadsAreAccounted
  <2>2. PICK y : y = worker'[x]
    OBVIOUS
  <2>3. y.value = Truth(y.key) \/ Due(y.key)
    <3>1. CASE x = w
      BY <1>2, <1>9, <2>1, <2>2, <3>1
    <3>2. CASE x # w
      BY <1>2, <1>8, <2>1, <2>2, <3>2 DEF HistoryIInv, ReadsAreAccounted
    <3>3. QED BY <3>1, <3>2
  <2>4. y.value = Truth(y.key)' \/ Due(y.key)'
    BY <1>4, <1>5, <2>3
  <2>5. QED BY <2>2, <2>4
<1>11. CarriesAreKnown'
  <2>1. SUFFICES ASSUME NEW x \in Workers, Reading(x)', worker'[x].key[1] = "m", NEW s \in obs
                 PROVE  CarryIsKnown(worker[x], s)'
    BY DEF CarriesAreKnown
  <2>2. PICK y : y = worker'[x]
    OBVIOUS
  <2>3. CarryIsKnown(y, s)
    <3>1. CASE x = w
      BY <1>2, <1>9, <2>1, <2>2, <3>1
    <3>2. CASE x # w
      BY <1>2, <1>8, <2>1, <2>2, <3>2 DEF HistoryIInv, CarriesAreKnown
    <3>3. QED BY <3>1, <3>2
  <2>4. QED BY <2>2, <2>3 DEF CarryIsKnown, Carries
<1>12. QED BY <1>3, <1>7, <1>10, <1>11 DEF HistoryIInv

LEMMA NoWindowKeeps ==
  ASSUME HistoryIInv, UNCHANGED <<obs, streamSeq, gaps, ranges, dirty, rows>>,
         NEW w \in Workers, worker' = [worker EXCEPT ![w] = NoWindow]
  PROVE  HistoryIInv'
<1>1. Window(NoWindow) /\ NoWindow.pc # "read"
  BY DEF Window, NoWindow
<1>2. QED BY <1>1, WorkerKeeps

LEMMA SelectKeeps ==
  ASSUME HistoryIInv, NEW w \in Workers, Select(w)
  PROVE  HistoryIInv'
<1>1. PICK k \in First(Candidates) : worker' = [worker EXCEPT ![w] = [pc |-> "selected", key |-> k]]
  BY DEF Select
<1>2. k \in Keys
  BY DEF First, Candidates
<1>3. PICK v : v = [pc |-> "selected", key |-> k]
  OBVIOUS
<1>4. Window(v) /\ v.pc # "read"
  BY <1>2, <1>3 DEF Window
<1>5. UNCHANGED <<obs, streamSeq, gaps, ranges, dirty, rows>>
  BY DEF Select
<1>6. worker' = [worker EXCEPT ![w] = v]
  BY <1>1, <1>3
<1>7. QED BY <1>4, <1>5, <1>6, WorkerKeeps

\* A sample that is fresh past its minute is in the window that was read.
LEMMA CarryIsSeen ==
  ASSUME HistoryShapes, NEW k \in Fine, NEW s \in obs, Carries(s, k[2], k[3], k[3] + 1)
  PROVE  CarriesOver(k)
<1>1. PICK b \in Nat :
        /\ b = k[3] * TicksPerMinute /\ (k[3] + 1) * TicksPerMinute = b + TicksPerMinute
        /\ \A u : u \in TicksOf(k) <=> u \in Int /\ b <= u /\ u < b + TicksPerMinute
  BY FineTicks
<1>2. s.at \in Nat /\ Minute(s.at) \in Nat /\ k[3] \in Nat /\ TicksPerMinute \in Nat /\ FreshFor \in Nat
  BY SampleIs, FineIs, LastMinuteIs, HistoryAssumption, HealthAssumption DEF HistoryShapes, Streams
<1>3. Minute(s.at) <= k[3] /\ b + TicksPerMinute < s.at + FreshFor /\ s.probe = k[2]
  BY <1>1 DEF Carries
<1>4. s.at < b + TicksPerMinute
  <2>1. PICK e \in Nat : e = (Minute(s.at) + 1) * TicksPerMinute
    <3>1. \A x, y \in Nat : x * y \in Nat
      OBVIOUS
    <3>2. Minute(s.at) + 1 \in Nat
      BY <1>2
    <3>3. QED BY <1>2, <3>1, <3>2
  <2>2. s.at < e
    BY <1>2, <2>1, MinuteIs
  <2>3. e <= b + TicksPerMinute
    <3>1. Minute(s.at) < k[3] + 1 /\ k[3] + 1 \in Nat
      BY <1>2, <1>3
    <3>2. CASE Minute(s.at) = k[3]
      BY <1>1, <1>2, <2>1, <3>2
    <3>3. CASE Minute(s.at) < k[3]
      <4>1. e <= b
        BY <1>1, <1>2, <2>1, <3>3, Ahead
      <4>2. QED BY <1>1, <1>2, <2>1, <4>1
    <3>4. QED BY <1>2, <1>3, <3>2, <3>3
  <2>4. QED BY <1>1, <1>2, <2>1, <2>2, <2>3
<1>5. s.at >= b - FreshFor
  BY <1>1, <1>2, <1>3
<1>6. s \in Evidence(k)
  BY <1>1, <1>4, <1>5 DEF Evidence
<1>7. s.at + FreshFor > (k[3] + 1) * TicksPerMinute
  BY <1>1, <1>2, <1>3
<1>8. QED BY <1>3, <1>6, <1>7 DEF CarriesOver

LEMMA ReadKeeps ==
  ASSUME HistoryIInv, NEW w \in Workers, Read(w)
  PROVE  HistoryIInv'
<1>1. HistoryShapes
  BY DEF HistoryIInv
<1>2. PICK k : k = worker[w].key
  OBVIOUS
<1>3. k \in Keys
  BY <1>1, <1>2 DEF Read, HistoryShapes, Window, NoWindow
<1>4. UNCHANGED <<obs, streamSeq, gaps, ranges, dirty, rows>>
  BY DEF Read
<1>5. CASE dirty[k] # 0 /\ CleanChildren(k)
  <2>1. PICK v : v = [pc |-> "read", key |-> k, rev |-> dirty[k], value |-> ProjectHistory(k),
                      carry |-> k[1] = "m" /\ CarriesOver(k)]
    OBVIOUS
  <2>2. worker' = [worker EXCEPT ![w] = v]
    BY <1>2, <1>5, <2>1 DEF Read
  <2>3. /\ v.key = k /\ v.rev = dirty[k] /\ v.value = ProjectHistory(k)
        /\ v.carry = (k[1] = "m" /\ CarriesOver(k))
        /\ v = [pc |-> "read", key |-> v.key, rev |-> v.rev, value |-> v.value, carry |-> v.carry]
    BY <2>1, Zenon
  <2>4. Window(v)
    <3>1. dirty[k] \in Nat \ {0}
      BY <1>1, <1>3, <1>5 DEF HistoryShapes
    <3>2. QED BY <1>3, <2>3, <3>1, Zenon DEF Window
  <2>5. ASSUME k \in Fine
        PROVE  /\ v.value = Truth(k)
               /\ k[1] = "m" => \A s \in obs : CarryIsKnown(v, s)
    <3>1. v.value = Truth(k)
      BY <1>1, <2>3, <2>5, ReadIsExact DEF HistoryShapes
    <3>2. ASSUME k[1] = "m", NEW s \in obs, Carries(s, k[2], k[3], k[3] + 1) PROVE v.carry
      <4>1. CarriesOver(k)
        BY <1>1, <2>5, <3>2, CarryIsSeen
      <4>2. QED BY <2>3, <3>2, <4>1, Zenon
    <3>3. k[1] = "m" => \A s \in obs : CarryIsKnown(v, s)
      BY <2>3, <3>2 DEF CarryIsKnown
    <3>4. QED BY <3>1, <3>3
  <2>6. QED BY <1>4, <2>2, <2>3, <2>4, <2>5, WorkerKeeps
<1>6. CASE ~ (dirty[k] # 0 /\ CleanChildren(k))
  <2>1. worker' = [worker EXCEPT ![w] = NoWindow]
    BY <1>2, <1>6 DEF Read
  <2>2. QED BY <1>4, <2>1, NoWindowKeeps
<1>7. QED BY <1>5, <1>6

\* The rollup commits with the next minute's markers: whatever the consumed
\* marker still owed passes on to a later or an earlier one.
LEMMA PublishKeeps ==
  ASSUME HistoryIInv, NEW w \in Workers, Publish(w), Current(w)
  PROVE  HistoryIInv'
<1>1. HistoryShapes
  BY DEF HistoryIInv
<1>2. PICK v : v = worker[w]
  OBVIOUS
<1>3. PICK k : k = v.key
  OBVIOUS
<1>4. PICK K : K = IF v.carry THEN DirtyBuckets(k[2], k[3] + 1) ELSE {}
  OBVIOUS
<1>5. /\ worker' = [worker EXCEPT ![w] = NoWindow] /\ rows' = [rows EXCEPT ![k] = {v.value}]
      /\ dirty' = [Marked(dirty, K) EXCEPT ![k] = 0]
      /\ UNCHANGED <<obs, streamSeq, gaps, ranges>> /\ v.pc = "read"
  BY <1>2, <1>3, <1>4 DEF Publish
<1>6. k \in Keys /\ dirty[k] = v.rev /\ v.rev \in Nat \ {0}
  BY <1>1, <1>2, <1>3, <1>5 DEF HistoryShapes, Window, NoWindow, Current
<1>7. /\ dirty' \in [Keys -> Nat] /\ dirty'[k] = 0
      /\ \A j \in Keys \ {k} : IF j \in K THEN dirty'[j] # 0 ELSE dirty'[j] = dirty[j]
      /\ \A j \in Keys \cap K, x \in Workers :
           j # k /\ worker[x].pc = "read" /\ worker[x].key = j => worker[x].rev # dirty'[j]
  <2>1. PICK M : M = Marked(dirty, K)
    OBVIOUS
  <2>2. /\ M \in [Keys -> Nat]
        /\ \A j \in Keys : IF j \in K THEN M[j] # 0 ELSE M[j] = dirty[j]
        /\ \A j \in Keys \cap K, x \in Workers :
             worker[x].pc = "read" /\ worker[x].key = j => worker[x].rev # M[j]
    BY <1>1, <2>1, MarkedIs
  <2>3. dirty' = [M EXCEPT ![k] = 0]
    BY <1>5, <2>1
  <2>4. dirty'[k] = 0 /\ \A j \in Keys \ {k} : dirty'[j] = M[j]
    BY <1>6, <2>2, <2>3
  <2>5. dirty' \in [Keys -> Nat]
    BY <2>2, <2>3
  <2>6. QED BY <2>2, <2>4, <2>5
<1>8. worker'[w] = NoWindow /\ \A x \in Workers \ {w} : worker'[x] = worker[x]
  BY <1>1, <1>5 DEF HistoryShapes
<1>9. HistoryShapes'
  <2>1. worker' = [x \in Workers |-> worker'[x]] /\ rows' = [j \in Keys |-> rows'[j]]
    BY <1>1, <1>5 DEF HistoryShapes
  <2>2. \A x \in Workers : Window(worker'[x])
    BY <1>1, <1>8 DEF HistoryShapes, Window
  <2>3. (\A x \in Workers : Window(worker[x]))'
    BY <2>2
  <2>4. QED BY <1>1, <1>5, <1>7, <2>1, <2>3 DEF HistoryShapes
<1>10. Fine' = Fine /\ Fine \subseteq Keys /\ \A j : Truth(j)' = Truth(j)
  BY <1>5, TruthIsFrom DEF Fine
\* A marker that hands sample s on from minute u is replaced by another one.
<1>11. ASSUME NEW p \in Probes, NEW u \in Minutes, NEW s \in obs, NEW z \in Minutes, u < z,
              Carries(s, p, u, z), dirty[<<"m", p, u>>] # 0
       PROVE  \/ <<"m", p, z>> \in K /\ <<"o", Local, z>> \in K
              \/ \E y \in Minutes : Carries(s, p, y, z) /\ dirty'[<<"m", p, y>>] # 0
  <2>1. /\ u \in Nat /\ z \in Nat /\ s.at \in Nat /\ Minute(s.at) \in Nat
        /\ TicksPerMinute \in Nat /\ FreshFor \in Nat
    BY <1>1, SampleIs, LastMinuteIs, HistoryAssumption, HealthAssumption DEF HistoryShapes, Streams
  <2>2. CASE <<"m", p, u>> # k
    <3>1. <<"m", p, u>> \in Keys
      BY <1>10, MinuteKeys
    <3>2. dirty'[<<"m", p, u>>] # 0
      BY <1>7, <1>11, <2>2, <3>1
    <3>3. QED BY <1>11, <3>2
  <2>3. CASE <<"m", p, u>> = k
    <3>1. k \in Fine /\ k[1] = "m" /\ k[2] = p /\ k[3] = u
      BY <2>3, MinuteKeys
    <3>2. Reading(w)
      BY <1>2, <1>3, <1>5, <3>1 DEF Reading
    <3>3. CarryIsKnown(v, s)
      BY <1>2, <1>3, <3>1, <3>2 DEF HistoryIInv, CarriesAreKnown
    <3>4. Carries(s, p, u, u + 1)
      <4>1. s.probe = p /\ Minute(s.at) <= u /\ z * TicksPerMinute < s.at + FreshFor
        BY <1>11 DEF Carries
      <4>2. PICK a, b \in Nat : a = (u + 1) * TicksPerMinute /\ b = z * TicksPerMinute
        <5>1. \A x, y \in Nat : x * y \in Nat
          OBVIOUS
        <5>2. u + 1 \in Nat
          BY <2>1
        <5>3. QED BY <2>1, <5>1, <5>2
      <4>3. a <= b
        BY <1>11, <2>1, <4>2, Ahead
      <4>4. a < s.at + FreshFor
        BY <2>1, <4>1, <4>2, <4>3
      <4>5. QED BY <2>1, <4>1, <4>2, <4>4 DEF Carries
    <3>5. CASE v.carry
      <4>1. K = DirtyBuckets(p, u + 1)
        BY <1>4, <3>1, <3>5
      <4>2. u + 1 \in Minutes
        BY <1>11, <2>1, LastMinuteIs
      <4>3. CASE u + 1 = z
        BY <4>1, <4>2, <4>3, MinuteKeys
      <4>4. CASE u + 1 # z
        <5>1. <<"m", p, u + 1>> \in K /\ <<"m", p, u + 1>> \in Keys
          BY <1>10, <4>1, <4>2, MinuteKeys
        <5>2. <<"m", p, u + 1>> # k
          BY <2>1, <3>1
        <5>3. dirty'[<<"m", p, u + 1>>] # 0
          BY <1>7, <5>1, <5>2
        <5>4. Carries(s, p, u + 1, z)
          BY <1>11, <2>1, <4>4 DEF Carries
        <5>5. QED BY <4>2, <5>3, <5>4
      <4>5. QED BY <4>3, <4>4
    <3>6. CASE ~ v.carry
      <4>1. PICK y \in Minutes : Minute(s.at) <= y /\ y < u /\ dirty[<<"m", p, y>>] # 0
        BY <1>3, <3>1, <3>3, <3>4, <3>6 DEF CarryIsKnown
      <4>2. <<"m", p, y>> \in Keys /\ y \in Nat
        <5>1. <<"m", p, y>> \in Fine
          BY MinuteKeys
        <5>2. QED BY <1>10, <5>1, LastMinuteIs
      <4>3. <<"m", p, y>> # k
        BY <2>1, <3>1, <4>1, <4>2
      <4>4. dirty'[<<"m", p, y>>] # 0
        BY <1>7, <4>1, <4>2, <4>3
      <4>5. Carries(s, p, y, z)
        BY <1>11, <2>1, <4>1, <4>2 DEF Carries
      <4>6. QED BY <4>4, <4>5
    <3>7. QED BY <3>5, <3>6
  <2>4. QED BY <2>2, <2>3
<1>12. ASSUME NEW j \in Fine, Due(j), j \notin K PROVE Due(j)'
  <2>1. PICK p \in Probes : (j[1] = "m" => p = j[2]) /\ Owed(p, j[3])
    BY <1>12 DEF Due
  <2>2. CASE OwedByRange(p, j[3])
    BY <1>5, <2>1, <2>2 DEF Due, Owed, OwedByRange
  <2>3. CASE OwedByGap(p, j[3])
    BY <1>5, <2>1, <2>3 DEF Due, Owed, OwedByGap
  <2>4. CASE OwedByCarry(p, j[3])
    <3>1. PICK s \in obs, u \in Minutes : Carries(s, p, u, j[3]) /\ dirty[<<"m", p, u>>] # 0
      BY <2>4 DEF OwedByCarry
    <3>2. j[3] \in Minutes /\ u < j[3]
      BY <3>1, FineIs DEF Carries
    <3>3. j = <<"m", p, j[3]>> \/ j = <<"o", Local, j[3]>>
      BY <2>1, FineIs
    <3>4. PICK y \in Minutes : Carries(s, p, y, j[3]) /\ dirty'[<<"m", p, y>>] # 0
      BY <1>11, <1>12, <3>1, <3>2, <3>3
    <3>5. OwedByCarry(p, j[3])'
      BY <1>5, <3>4 DEF OwedByCarry, Carries
    <3>6. QED BY <2>1, <3>5 DEF Due, Owed
  <2>5. CASE OwedByBoth(p, j[3]) \/ BeyondRepair(p, j[3])
    BY <1>5, <2>1, <2>5 DEF Due, Owed, OwedByBoth, BeyondRepair
  <2>6. QED BY <2>1, <2>2, <2>3, <2>4, <2>5 DEF Owed
<1>13. k \in Fine => k \notin K
  <2>1. SUFFICES ASSUME k \in Fine, k \in K PROVE FALSE
    OBVIOUS
  <2>2. k \in DirtyBuckets(k[2], k[3] + 1)
    BY <1>4, <2>1
  <2>3. PICK res \in DOMAIN Width : k = Key(res, k[2], k[3] + 1)
    BY <2>2 DEF DirtyBuckets
  <2>4. k[3] \in Nat /\ k[3] + 1 \in Nat
    BY <2>1, FineIs, LastMinuteIs
  <2>5. res \in {"m", "o"}
    BY <2>1, <2>3 DEF Fine, Key
  <2>6. k = <<"m", k[2], k[3] + 1>> \/ k = <<"o", Local, k[3] + 1>>
    BY <2>3, <2>4, <2>5, KeyIs
  <2>7. k[3] = k[3] + 1
    BY <2>6
  <2>8. QED BY <2>4, <2>7
<1>14. Accounted'
  <2>1. SUFFICES ASSUME NEW j \in Fine, dirty'[j] = 0 PROVE Stored(j)' = Truth(j) \/ Due(j)'
    BY <1>10 DEF Accounted
  <2>2. CASE j = k
    <3>1. Reading(w)
      BY <1>2, <1>3, <1>5, <2>2 DEF Reading
    <3>2. v.value = Truth(k) \/ Due(k)
      BY <1>2, <1>3, <3>1 DEF HistoryIInv, ReadsAreAccounted
    <3>3. rows'[k] = {v.value}
      BY <1>1, <1>5, <1>6 DEF HistoryShapes
    <3>4. Stored(k)' = v.value
      BY <3>3 DEF Stored, NoRollup, RollupOf
    <3>5. QED BY <1>12, <1>13, <2>1, <2>2, <3>2, <3>4
  <2>3. CASE j # k
    <3>1. j \notin K /\ dirty[j] = 0 /\ j \in Keys
      BY <1>7, <1>10, <2>1, <2>3
    <3>2. rows'[j] = rows[j]
      BY <1>1, <1>5, <2>3, <3>1 DEF HistoryShapes
    <3>3. Stored(j)' = Stored(j)
      BY <3>2 DEF Stored, Nothing
    <3>4. Stored(j) = Truth(j) \/ Due(j)
      BY <3>1 DEF HistoryIInv, Accounted
    <3>5. QED BY <1>12, <3>1, <3>3, <3>4
  <2>4. QED BY <2>2, <2>3
<1>15. ASSUME NEW x \in Workers, Reading(x)'
       PROVE  Reading(x) /\ worker'[x] = worker[x] /\ worker[x].key \in Fine /\ worker[x].key \notin K
  <2>1. x # w
    BY <1>8, <1>15 DEF Reading, NoWindow
  <2>2. /\ worker'[x] = worker[x] /\ worker[x].pc = "read" /\ worker[x].key \in Fine
        /\ dirty'[worker[x].key] = worker[x].rev
    BY <1>8, <1>10, <1>15, <2>1 DEF Reading, Current
  <2>3. worker[x].rev # 0
    BY <1>1, <2>2 DEF HistoryShapes, Window, NoWindow
  <2>4. worker[x].key # k
    BY <1>7, <2>2, <2>3
  <2>5. worker[x].key \notin K
    BY <1>7, <1>10, <2>2, <2>4
  <2>6. dirty'[worker[x].key] = dirty[worker[x].key]
    BY <1>7, <1>10, <2>2, <2>4, <2>5
  <2>7. QED BY <2>2, <2>5, <2>6 DEF Reading, Current
<1>16. ReadsAreAccounted'
  <2>1. SUFFICES ASSUME NEW x \in Workers, Reading(x)'
                 PROVE  (worker[x].value = Truth(worker[x].key) \/ Due(worker[x].key))'
    BY DEF ReadsAreAccounted
  <2>2. PICK j : j = worker[x].key
    OBVIOUS
  <2>3. j \in Fine /\ j \notin K /\ (worker[x].value = Truth(j) \/ Due(j))
    BY <1>15, <2>1, <2>2 DEF HistoryIInv, ReadsAreAccounted
  <2>4. worker'[x].value = Truth(j)' \/ Due(j)'
    BY <1>10, <1>12, <1>15, <2>1, <2>3
  <2>5. worker'[x].key = j
    BY <1>15, <2>1, <2>2
  <2>6. QED BY <2>4, <2>5
<1>17. CarriesAreKnown'
  <2>1. SUFFICES ASSUME NEW x \in Workers, Reading(x)', worker'[x].key[1] = "m", NEW s \in obs'
                 PROVE  CarryIsKnown(worker[x], s)'
    BY DEF CarriesAreKnown
  <2>2. PICK y : y = worker[x]
    OBVIOUS
  <2>3. Reading(x) /\ worker'[x] = y /\ y.key \in Fine /\ y.key \notin K /\ y.key[1] = "m" /\ s \in obs
    BY <1>5, <1>15, <2>1, <2>2
  <2>4. PICK p \in Probes, z \in Minutes : p = y.key[2] /\ z = y.key[3] /\ y.key = <<"m", p, z>>
    BY <2>3, FineIs
  <2>5. z \in Nat /\ TicksPerMinute \in Nat /\ FreshFor \in Nat /\ s.at \in Nat
    BY <1>1, <2>3, LastMinuteIs, HistoryAssumption, HealthAssumption, SampleIs DEF HistoryShapes, Streams
  <2>6. SUFFICES ASSUME Carries(s, p, z, z + 1), ~ y.carry
                 PROVE  \E u \in Minutes : Minute(s.at) <= u /\ u < z /\ dirty'[<<"m", p, u>>] # 0
    BY <2>3, <2>4 DEF CarryIsKnown, Carries
  <2>7. CarryIsKnown(y, s)
    BY <2>2, <2>3 DEF HistoryIInv, CarriesAreKnown
  <2>8. PICK u \in Minutes : Minute(s.at) <= u /\ u < z /\ dirty[<<"m", p, u>>] # 0
    BY <2>4, <2>6, <2>7 DEF CarryIsKnown
  <2>9. Carries(s, p, u, z)
    <3>1. PICK a, b \in Nat : a = z * TicksPerMinute /\ b = (z + 1) * TicksPerMinute
      <4>1. \A i, n \in Nat : i * n \in Nat
        OBVIOUS
      <4>2. z + 1 \in Nat
        BY <2>5
      <4>3. QED BY <2>5, <4>1, <4>2
    <3>2. b = a + TicksPerMinute
      BY <2>5, <3>1
    <3>3. b < s.at + FreshFor /\ s.probe = p
      BY <2>6, <3>1 DEF Carries
    <3>4. a < s.at + FreshFor
      BY <2>5, <3>1, <3>2, <3>3
    <3>5. QED BY <2>8, <3>1, <3>3, <3>4 DEF Carries
  <2>10. PICK n \in Minutes : Carries(s, p, n, z) /\ dirty'[<<"m", p, n>>] # 0
    <3>1. s \in obs /\ u < z /\ Carries(s, p, u, z) /\ dirty[<<"m", p, u>>] # 0
      BY <2>3, <2>8, <2>9
    <3>2. \/ <<"m", p, z>> \in K /\ <<"o", Local, z>> \in K
          \/ \E n \in Minutes : Carries(s, p, n, z) /\ dirty'[<<"m", p, n>>] # 0
      BY <1>11, <3>1, Zenon
    <3>3. QED BY <2>3, <2>4, <3>2
  <2>11. QED BY <2>10 DEF Carries
<1>18. QED BY <1>9, <1>14, <1>16, <1>17 DEF HistoryIInv

-----------------------------------------------------------------------------
(* Every step, and rest *)

LEMMA HistoryStarts == HistoryInit => HistoryIInv
<1> SUFFICES ASSUME HistoryInit PROVE HistoryIInv
  OBVIOUS
<1>1. HistoryShapes
  <2>1. Streams({})
    BY DEF Streams
  <2>2. Window(NoWindow)
    BY DEF Window
  <2>3. QED BY <2>1, <2>2 DEF HistoryInit, HistoryShapes
<1>2. Accounted
  <2>1. SUFFICES ASSUME NEW k \in Fine PROVE Stored(k) = Truth(k)
    BY DEF Accounted
  <2>2. Stored(k) = Nothing(k)
    BY DEF Stored, Fine, HistoryInit
  <2>3. Truth(k) = TruthFrom({}, {}, k)
    BY TruthIsFrom DEF HistoryInit
  <2>4. QED BY <2>2, <2>3, NothingIs
<1>3. \A w \in Workers : ~ Reading(w)
  BY DEF HistoryInit, Reading, NoWindow
<1>4. QED BY <1>1, <1>2, <1>3 DEF HistoryIInv, ReadsAreAccounted, CarriesAreKnown

LEMMA HistoryKeeps ==
  ASSUME HistoryIInv, [HistoryNext]_historyVars
  PROVE  HistoryIInv'
<1>1. HistoryShapes
  BY DEF HistoryIInv
<1>2. ASSUME NEW p \in Probes, NEW at \in Ticks, NEW status \in {"UP", "DOWN"}, Ingest(p, at, status)
      PROVE  HistoryIInv'
  BY <1>2, IngestKeeps
<1>3. ASSUME NEW p \in Probes, NEW n \in 1..MaxGapEvents, NEW at \in Ticks, NEW until \in Ticks,
             DeclareGap(p, n, at, until)
      PROVE  HistoryIInv'
  BY <1>3, DeclareKeeps
<1>4. ASSUME NEW at \in Ticks, ClearHistory(at) PROVE HistoryIInv'
  BY <1>4, ClearKeeps
<1>5. CASE NextMinute \/ UNCHANGED historyVars
  <2>1. UNCHANGED <<obs, streamSeq, gaps, ranges, dirty, rows, worker>>
    BY <1>5 DEF NextMinute, historyVars
  <2>2. HistoryShapes'
    BY <1>1, <2>1 DEF HistoryShapes
  <2>3. QED BY <2>1, <2>2, HistoryFrame
<1>6. CASE Expand
  <2>1. ASSUME NEW p \in Probes, ExpandRange(p) PROVE HistoryIInv'
    BY <2>1, ExpandRangeKeeps
  <2>2. ASSUME NEW g \in gaps, ExpandGap(g) PROVE HistoryIInv'
    BY <2>2, ExpandGapKeeps
  <2>3. QED BY <1>6, <2>1, <2>2 DEF Expand
<1>7. ASSUME NEW w \in Workers, Select(w) \/ Read(w) \/ Publish(w) \/ AbandonWindow(w)
      PROVE  HistoryIInv'
  <2>1. CASE Select(w)
    BY <2>1, SelectKeeps
  <2>2. CASE Read(w)
    BY <2>2, ReadKeeps
  <2>3. CASE Publish(w)
    <3>1. CASE Current(w)
      BY <2>3, <3>1, PublishKeeps
    <3>2. CASE ~ Current(w)
      <4>1. /\ UNCHANGED <<obs, streamSeq, gaps, ranges, dirty, rows>>
            /\ worker' = [worker EXCEPT ![w] = NoWindow]
        BY <2>3, <3>2 DEF Publish
      <4>2. QED BY <4>1, NoWindowKeeps
    <3>3. QED BY <3>1, <3>2
  <2>4. CASE AbandonWindow(w)
    <3>1. /\ UNCHANGED <<obs, streamSeq, gaps, ranges, dirty, rows>>
          /\ worker' = [worker EXCEPT ![w] = NoWindow]
      BY <2>4 DEF AbandonWindow
    <3>2. QED BY <3>1, NoWindowKeeps
  <2>5. QED BY <1>7, <2>1, <2>2, <2>3, <2>4
<1>8. QED BY <1>2, <1>3, <1>4, <1>5, <1>6, <1>7 DEF HistoryNext

\* When the workers have nothing left to do before now, nothing is due there
\* but what is beyond a gap's repair.
LEMMA RestIsExact ==
  ASSUME HistoryIInv, now \in Nat
  PROVE  MinutesAreExact
<1>1. SUFFICES ASSUME Quiescent, NEW k \in Keys, k[1] \in {"m", "o"}, Closed(k), ~ Forgettable(k)
               PROVE  Stored(k) = Truth(k)
  BY DEF MinutesAreExact
<1>2. HistoryShapes /\ k \in Fine
  BY <1>1 DEF HistoryIInv, Fine
<1>3. k[3] \in Nat /\ k[3] < now
  <2>1. k[3] \in Nat /\ Width[k[1]] = 1
    BY <1>1, <1>2, FineIs, LastMinuteIs, WidthIs
  <2>2. k[3] + 1 <= now
    BY <1>1, <2>1 DEF Closed
  <2>3. QED BY <2>1, <2>2
<1>4. dirty[k] = 0
  BY <1>1 DEF Quiescent, Candidates
<1>5. ~ Due(k)
  <2>1. SUFFICES ASSUME NEW p \in Probes, k[1] = "m" => p = k[2], Owed(p, k[3]) PROVE FALSE
    BY DEF Due
  <2>2. CASE OwedByRange(p, k[3])
    <3>1. ranges[p] # NoRange /\ ranges[p].cursor <= k[3] /\ ranges[p].cursor \in Nat
      BY <1>2, <2>2 DEF OwedByRange, HistoryShapes
    <3>2. p \in ExpandableRanges
      BY <1>3, <3>1 DEF ExpandableRanges
    <3>3. QED BY <1>1, <3>2 DEF Quiescent
  <2>3. CASE OwedByGap(p, k[3])
    <3>1. PICK g \in gaps : g.pending = TRUE /\ g.bucket <= k[3]
      BY <2>3 DEF OwedByGap
    <3>2. g.bucket \in Nat
      BY <1>2 DEF HistoryShapes
    <3>3. g \in ExpandableGaps
      BY <1>3, <3>1, <3>2 DEF ExpandableGaps
    <3>4. QED BY <1>1, <3>3 DEF Quiescent
  <2>4. CASE OwedByCarry(p, k[3])
    <3>1. PICK u \in Minutes : u < k[3] /\ dirty[<<"m", p, u>>] # 0
      BY <2>4 DEF OwedByCarry, Carries
    <3>2. <<"m", p, u>> \in Keys /\ u \in Nat
      <4>1. <<"m", p, u>> \in Fine
        BY MinuteKeys
      <4>2. QED BY <4>1, LastMinuteIs DEF Fine
    <3>3. Closed(<<"m", p, u>>)
      BY <1>3, <3>1, <3>2, WidthIs DEF Closed
    <3>4. QED BY <1>1, <3>1, <3>2, <3>3 DEF Quiescent, Candidates
  <2>5. CASE OwedByBoth(p, k[3])
    <3>1. PICK g \in gaps, u \in Minutes : g.pending = TRUE /\ g.bucket <= u /\ u < k[3]
      BY <2>5 DEF OwedByBoth, Carries
    <3>2. g.bucket \in Nat /\ u \in Nat
      BY <1>2, LastMinuteIs DEF HistoryShapes
    <3>3. g \in ExpandableGaps
      BY <1>3, <3>1, <3>2 DEF ExpandableGaps
    <3>4. QED BY <1>1, <3>3 DEF Quiescent
  <2>6. CASE BeyondRepair(p, k[3])
    <3>1. k[3] \in MinutesOf(k)
      BY <1>1, <1>3, WidthIs DEF MinutesOf
    <3>2. k[1] # "o" => p = k[2]
      BY <1>1, <2>1
    <3>3. QED BY <1>1, <2>6, <3>1, <3>2 DEF Forgettable
  <2>7. QED BY <2>1, <2>2, <2>3, <2>4, <2>5, <2>6 DEF Owed
<1>6. QED BY <1>2, <1>4, <1>5 DEF HistoryIInv, Accounted

LEMMA ClockCounts == HistorySpec => [](now \in Nat)
<1>1. HistoryInit => now \in Nat
  BY DEF HistoryInit
<1>2. now \in Nat /\ [HistoryNext]_historyVars => (now \in Nat)'
  <2>1. SUFFICES ASSUME now \in Nat, [HistoryNext]_historyVars PROVE now' \in Nat
    OBVIOUS
  <2>2. NextMinute \/ now' = now
    BY <2>1 DEF HistoryNext, historyVars, Ingest, DeclareGap, ClearHistory, Expand, ExpandRange,
                ExpandGap, Select, Read, Publish, AbandonWindow
  <2>3. QED BY <2>1, <2>2 DEF NextMinute
<1>3. QED BY <1>1, <1>2, PTL DEF HistorySpec

\* What the fence is made of, and the samples it let through.
FenceInv ==
  /\ obs \subseteq Observations /\ streamSeq \in [Probes -> Nat]
  /\ fence = [at |-> fence.at, seq |-> fence.seq]
  /\ fence.at \in Int /\ fence.seq \in [Probes -> 0..MaxEvents]
  /\ ClearedStaysCleared

LEMMA FenceKeeps ==
  ASSUME FenceInv, [HistoryNext]_historyVars
  PROVE  FenceInv'
<1>1. ASSUME NEW p \in Probes, NEW at \in Ticks, NEW status \in {"UP", "DOWN"}, Ingest(p, at, status)
      PROVE  FenceInv'
  <2>1. streamSeq[p] \in Nat /\ streamSeq[p] < MaxEvents /\ MaxEvents \in Nat
    BY <1>1, HistoryAssumption DEF Ingest, FenceInv
  <2>2. PICK q \in 1..MaxEvents : q = streamSeq[p] + 1
    BY <2>1
  <2>3. streamSeq' = [streamSeq EXCEPT ![p] = q] /\ fence' = fence
    BY <1>1, <2>2 DEF Ingest
  <2>4. streamSeq' \in [Probes -> Nat]
    BY <2>2, <2>3 DEF FenceInv
  <2>5. CASE obs' = obs
    BY <2>3, <2>4, <2>5 DEF FenceInv, ClearedStaysCleared
  <2>6. CASE obs' # obs
    <3>1. PICK s : s = [probe |-> p, seq |-> q, at |-> at, status |-> status]
      OBVIOUS
    <3>2. obs' = obs \cup {s} /\ ~ Cleared(p, q, at)
      BY <1>1, <2>2, <2>6, <3>1 DEF Ingest
    <3>3. s \in Observations
      BY <3>1 DEF Observations
    <3>4. at \in Int /\ q \in Int /\ fence.at \in Int /\ fence.seq[p] \in Int
      BY TicksAreNat DEF FenceInv
    <3>5. at > fence.at /\ q > fence.seq[p]
      BY <3>2, <3>4 DEF Cleared
    <3>6. s.at > fence.at /\ s.seq > fence.seq[s.probe]
      BY <3>1, <3>5
    <3>7. QED BY <2>3, <2>4, <3>2, <3>3, <3>6 DEF FenceInv, ClearedStaysCleared
  <2>7. QED BY <2>5, <2>6
<1>2. ASSUME NEW p \in Probes, NEW n \in 1..MaxGapEvents, NEW at \in Ticks, NEW until \in Ticks,
             DeclareGap(p, n, at, until)
      PROVE  FenceInv'
  <2>1. n \in Nat
    BY HistoryAssumption
  <2>2. QED BY <1>2, <2>1 DEF DeclareGap, FenceInv, ClearedStaysCleared
<1>3. ASSUME NEW at \in Ticks, ClearHistory(at) PROVE FenceInv'
  <2>1. PICK a : a = Max({at, fence.at})
    OBVIOUS
  <2>2. PICK f : f = [p \in Probes |-> Max({fence.seq[p]} \cup {s.seq : s \in {o \in obs : o.probe = p}})]
    OBVIOUS
  <2>3. fence' = [at |-> a, seq |-> f] /\ obs' = {} /\ streamSeq' = streamSeq
    BY <1>3, <2>1, <2>2 DEF ClearHistory
  <2>4. a \in Int
    <3>1. at \in Int /\ fence.at \in Int
      BY TicksAreNat DEF FenceInv
    <3>2. \E x \in {at, fence.at} : \A y \in {at, fence.at} : x >= y
      BY <3>1
    <3>3. a \in {at, fence.at}
      BY <2>1, <3>2, Zenon DEF Max
    <3>4. QED BY <3>1, <3>3
  <2>5. ASSUME NEW p \in Probes PROVE f[p] \in 0..MaxEvents
    <3>1. PICK T : T = {fence.seq[p]} \cup {s.seq : s \in {o \in obs : o.probe = p}}
      OBVIOUS
    <3>2. T \in SUBSET (0..MaxEvents) /\ T # {} /\ MaxEvents \in Nat
      BY <3>1, HistoryAssumption DEF FenceInv, Observations
    <3>3. Max(T) \in 0..MaxEvents
      BY <3>2, MaxIs
    <3>4. f[p] = Max(T)
      BY <2>2, <3>1
    <3>5. QED BY <3>3, <3>4
  <2>6. f \in [Probes -> 0..MaxEvents]
    BY <2>2, <2>5
  <2>7. fence'.at = a /\ fence'.seq = f
    BY <2>3
  <2>8. QED BY <2>3, <2>4, <2>6, <2>7 DEF FenceInv, ClearedStaysCleared
<1>4. CASE UNCHANGED <<obs, streamSeq, fence>>
  BY <1>4 DEF FenceInv, ClearedStaysCleared
<1>5. CASE NextMinute \/ UNCHANGED historyVars \/ Expand
           \/ \E w \in Workers : Select(w) \/ Read(w) \/ Publish(w) \/ AbandonWindow(w)
  <2>1. UNCHANGED <<obs, streamSeq, fence>>
    BY <1>5 DEF NextMinute, historyVars, Expand, ExpandRange, ExpandGap, Select, Read, Publish, AbandonWindow
  <2>2. QED BY <1>4, <2>1
<1>6. QED BY <1>1, <1>2, <1>3, <1>5 DEF HistoryNext

\* No sample that a clear removed, or that was made before it, is ever stored
\* again, however late its batch is replayed.
THEOREM ClearedSound == HistorySpec => []ClearedStaysCleared
<1>1. HistoryInit => FenceInv
  <2>1. SUFFICES ASSUME HistoryInit PROVE FenceInv
    OBVIOUS
  <2>2. -1 \in Int /\ 0 \in 0..MaxEvents
    BY HistoryAssumption
  <2>3. fence.at = -1 /\ fence.seq = [p \in Probes |-> 0] /\ fence = [at |-> fence.at, seq |-> fence.seq]
    BY <2>1, Zenon DEF HistoryInit
  <2>4. QED BY <2>1, <2>2, <2>3 DEF HistoryInit, FenceInv, ClearedStaysCleared
<1>2. FenceInv /\ [HistoryNext]_historyVars => FenceInv'
  BY FenceKeeps
<1>3. FenceInv => ClearedStaysCleared
  BY DEF FenceInv
<1>4. QED BY <1>1, <1>2, <1>3, PTL DEF HistorySpec

-----------------------------------------------------------------------------
(* Sums over children *)

\* The equation of the sum over the subsets of S.
AnyOf(T) == CHOOSE x \in T : TRUE
Sums(f, S, h) == h = [T \in SUBSET S |-> IF T = {} THEN 0 ELSE f[AnyOf(T)] + h[T \ {AnyOf(T)}]]

LEMMA SumFollows ==
  ASSUME NEW f, NEW S, NEW g, Sums(f, S, g)
  PROVE  \E h : Sums(f, S, h) /\ SumFunctionOnSet(f, S) = h[S]
<1>1. PICK h : h = CHOOSE k : Sums(f, S, k)
  OBVIOUS
<1>2. Sums(f, S, h)
  BY <1>1
<1>3. SumFunctionOnSet(f, S) = h[S]
  BY <1>1, Zenon DEF SumFunctionOnSet, FoldFunctionOnSet, MapThenFoldSet, Sums, AnyOf
<1>4. QED BY <1>2, <1>3

\* A function of places to finite sets that are disjoint.
Parts(S, A) ==
  /\ IsFiniteSet(S) /\ \A x \in S : IsFiniteSet(A[x])
  /\ \A x, y \in S : x # y => A[x] \cap A[y] = {}
Joined(T, A) == UNION {A[x] : x \in T}

LEMMA ApartAdd ==
  ASSUME NEW B, NEW C, IsFiniteSet(B), IsFiniteSet(C), B \cap C = {}
  PROVE  /\ IsFiniteSet(B \cup C) /\ Cardinality(B) \in Nat /\ Cardinality(C) \in Nat
         /\ Cardinality(B \cup C) = Cardinality(B) + Cardinality(C)
<1>1. IsFiniteSet(B \cup C) /\ Cardinality(B \cup C) = Cardinality(B) + Cardinality(C) - Cardinality(B \cap C)
  BY FS_Union
<1>2. Cardinality(B) \in Nat /\ Cardinality(C) \in Nat /\ Cardinality({}) = 0
  BY FS_CardinalityType, FS_EmptySet
<1>3. Cardinality(B \cap C) = 0
  BY <1>2
<1>4. QED BY <1>1, <1>2, <1>3

LEMMA JoinedStep ==
  ASSUME NEW S, NEW A, Parts(S, A), NEW T \in SUBSET S, NEW x \in T, IsFiniteSet(Joined(T \ {x}, A))
  PROVE  /\ IsFiniteSet(Joined(T, A))
         /\ Cardinality(Joined(T, A)) = Cardinality(A[x]) + Cardinality(Joined(T \ {x}, A))
<1>1. PICK B, C : B = A[x] /\ C = Joined(T \ {x}, A)
  OBVIOUS
<1>2. Joined(T, A) = B \cup C /\ B \cap C = {}
  BY <1>1 DEF Joined, Parts
<1>3. IsFiniteSet(B) /\ IsFiniteSet(C)
  BY <1>1 DEF Parts
<1>4. IsFiniteSet(B \cup C) /\ Cardinality(B \cup C) = Cardinality(B) + Cardinality(C)
  BY <1>2, <1>3, ApartAdd
<1>5. QED BY <1>1, <1>2, <1>4

\* The parts of a subset, however many, are finite.
LEMMA JoinedFinite ==
  ASSUME NEW S, NEW A, Parts(S, A), NEW T \in SUBSET S
  PROVE  IsFiniteSet(Joined(T, A))
<1> DEFINE W == {U \in SUBSET S : ~ IsFiniteSet(Joined(U, A))}
           N == {Cardinality(U) : U \in W}
<1>1. \A U \in SUBSET S : IsFiniteSet(U) /\ Cardinality(U) \in Nat
  BY FS_Subset, FS_CardinalityType DEF Parts
<1>2. SUFFICES ASSUME W # {} PROVE FALSE
  OBVIOUS
<1>3. N \in SUBSET Nat /\ N # {}
  BY <1>1, <1>2
<1>4. PICK U \in W : \A V \in W : Cardinality(U) <= Cardinality(V)
  <2>1. PICK n \in N : \A m \in N : n <= m
    BY <1>3, LeastNat
  <2>2. QED BY <2>1
<1>5. CASE U = {}
  <2>1. Joined(U, A) = {}
    BY <1>5 DEF Joined
  <2>2. QED BY <1>4, <2>1, FS_EmptySet
<1>6. CASE U # {}
  <2>1. PICK x \in U : TRUE
    BY <1>6
  <2>2. PICK V : V = U \ {x}
    OBVIOUS
  <2>3. V \in SUBSET S /\ IsFiniteSet(U)
    BY <1>1, <1>4, <2>2
  <2>4. Cardinality(V) = Cardinality(U) - 1
    BY <2>1, <2>2, <2>3, FS_RemoveElement
  <2>5. V \notin W
    BY <1>1, <1>4, <2>3, <2>4
  <2>6. IsFiniteSet(Joined(V, A))
    BY <2>3, <2>5
  <2>7. QED BY <1>4, <2>2, <2>6, JoinedStep
<1>7. QED BY <1>5, <1>6

\* The sum over disjoint parts counts what they hold together.
LEMMA SumIsJoined ==
  ASSUME NEW S, NEW A, Parts(S, A), NEW f, \A x \in S : f[x] = Cardinality(A[x])
  PROVE  SumFunctionOnSet(f, S) = Cardinality(Joined(S, A))
<1>1. \A U \in SUBSET S : IsFiniteSet(U) /\ Cardinality(U) \in Nat
  BY FS_Subset, FS_CardinalityType DEF Parts
<1>2. ASSUME NEW T \in SUBSET S, T # {}
      PROVE  /\ AnyOf(T) \in T
             /\ Cardinality(Joined(T, A)) = f[AnyOf(T)] + Cardinality(Joined(T \ {AnyOf(T)}, A))
  <2>1. PICK x : x = AnyOf(T)
    OBVIOUS
  <2>2. x \in T
    BY <1>2, <2>1 DEF AnyOf
  <2>3. IsFiniteSet(Joined(T \ {x}, A))
    <3>1. T \ {x} \in SUBSET S
      OBVIOUS
    <3>2. QED BY <3>1, JoinedFinite
  <2>4. Cardinality(Joined(T, A)) = Cardinality(A[x]) + Cardinality(Joined(T \ {x}, A))
    BY <2>2, <2>3, JoinedStep
  <2>5. f[x] = Cardinality(A[x])
    BY <2>2
  <2>6. QED BY <2>1, <2>2, <2>4, <2>5
<1>3. Cardinality(Joined({}, A)) = 0
  <2>1. Joined({}, A) = {}
    BY DEF Joined
  <2>2. QED BY <2>1, FS_EmptySet
<1>4. PICK g : g = [T \in SUBSET S |-> Cardinality(Joined(T, A))]
  OBVIOUS
<1>5. Sums(f, S, g)
  <2>1. \A T \in SUBSET S : g[T] = IF T = {} THEN 0 ELSE f[AnyOf(T)] + g[T \ {AnyOf(T)}]
    <3>1. SUFFICES ASSUME NEW T \in SUBSET S
                   PROVE  g[T] = IF T = {} THEN 0 ELSE f[AnyOf(T)] + g[T \ {AnyOf(T)}]
      OBVIOUS
    <3>2. PICK x : x = AnyOf(T)
      OBVIOUS
    <3>3. g[T] = Cardinality(Joined(T, A)) /\ g[T \ {x}] = Cardinality(Joined(T \ {x}, A))
      BY <1>4
    <3>4. QED BY <1>2, <1>3, <3>2, <3>3
  <2>2. g = [T \in SUBSET S |-> g[T]]
    BY <1>4
  <2>3. QED BY <2>1, <2>2 DEF Sums
<1>6. PICK h : Sums(f, S, h) /\ SumFunctionOnSet(f, S) = h[S]
  BY <1>5, SumFollows
<1>7. \A T \in SUBSET S : h[T] = IF T = {} THEN 0 ELSE f[AnyOf(T)] + h[T \ {AnyOf(T)}]
  BY <1>6 DEF Sums
<1>8. \A T \in SUBSET S : h[T] = Cardinality(Joined(T, A))
  <2> DEFINE W == {U \in SUBSET S : h[U] # Cardinality(Joined(U, A))}
             N == {Cardinality(U) : U \in W}
  <2>1. SUFFICES ASSUME W # {} PROVE FALSE
    OBVIOUS
  <2>2. N \in SUBSET Nat /\ N # {}
    BY <1>1, <2>1
  <2>3. PICK U \in W : \A V \in W : Cardinality(U) <= Cardinality(V)
    <3>1. PICK n \in N : \A m \in N : n <= m
      BY <2>2, LeastNat
    <3>2. QED BY <3>1
  <2>4. U # {}
    BY <1>3, <1>7, <2>3
  <2>5. PICK x : x = AnyOf(U)
    OBVIOUS
  <2>6. PICK V : V = U \ {x}
    OBVIOUS
  <2>7. x \in U /\ Cardinality(Joined(U, A)) = f[x] + Cardinality(Joined(V, A))
    BY <1>2, <2>3, <2>4, <2>5, <2>6
  <2>8. V \in SUBSET S /\ Cardinality(V) = Cardinality(U) - 1
    BY <1>1, <2>3, <2>6, <2>7, FS_RemoveElement
  <2>9. h[V] = Cardinality(Joined(V, A))
    BY <1>1, <2>3, <2>8
  <2>10. h[U] = f[x] + h[V]
    BY <1>7, <2>3, <2>4, <2>5, <2>6
  <2>11. QED BY <2>3, <2>7, <2>9, <2>10
<1>9. QED BY <1>6, <1>8

-----------------------------------------------------------------------------
(* Hours, days and what lies below them *)

LEMMA BucketIs ==
  ASSUME NEW W \in Nat \ {0}, NEW u \in Nat
  PROVE  \E b, q \in Nat : /\ b = (u \div W) * W /\ q = u \div W /\ b = q * W
                           /\ b <= u /\ u < b + W
<1>1. PICK q \in Nat : q = u \div W
  OBVIOUS
<1>2. PICK b \in Nat : b = q * W
  <2>1. \A x, y \in Nat : x * y \in Nat
    OBVIOUS
  <2>2. QED BY <2>1
<1>3. b <= u /\ u < b + W
  BY <1>1, <1>2
<1>4. QED BY <1>1, <1>2, <1>3

\* A place in a bucket that starts at a multiple of its width names it.
LEMMA SameBucket ==
  ASSUME NEW W \in Nat \ {0}, NEW q \in Nat, NEW u \in Nat, q * W <= u, u < q * W + W
  PROVE  u \div W = q
  OBVIOUS

\* Multiples that are apart are a width apart.
LEMMA Multiples ==
  ASSUME NEW W \in Nat, NEW q \in Nat, NEW r \in Nat, q < r
  PROVE  q * W + W <= r * W
  OBVIOUS

Parents == {k \in Keys : k[1] \in {"h", "d"}}
Finer(k) == IF k[1] = "h" THEN {"m"} ELSE {"m", "h"}
Below(k) == {Key(res, k[2], m) : res \in Finer(k), m \in MinutesOf(k)}

LEMMA WidthsAre ==
  /\ MinutesPerHour \in Nat \ {0} /\ HoursPerDay \in Nat \ {0} /\ Days \in Nat \ {0}
  /\ TicksPerMinute \in Nat \ {0}
  /\ Width["h"] = MinutesPerHour /\ Width["d"] = HoursPerDay * MinutesPerHour
  /\ LastMinute + 1 = Days * Width["d"]
  /\ \E n \in Nat : LastMinute + 1 = n * Width["h"]
<1>1. /\ MinutesPerHour \in Nat \ {0} /\ HoursPerDay \in Nat \ {0} /\ Days \in Nat \ {0}
      /\ TicksPerMinute \in Nat \ {0}
  BY HistoryAssumption
<1>2. Width["h"] = MinutesPerHour /\ Width["d"] = MinutesPerHour * HoursPerDay /\ Width.d = Width["d"]
  BY DEF Width
<1>3. \A x, y \in Nat : x * y \in Nat /\ x * y = y * x
  OBVIOUS
<1>4. PICK w \in Nat : w = MinutesPerHour * HoursPerDay /\ w = HoursPerDay * MinutesPerHour
  BY <1>1, <1>3
<1>5. LastMinute + 1 = Days * w
  <2>1. PICK a \in Nat : a = w * Days /\ a = Days * w
    BY <1>1, <1>3
  <2>2. LastMinute = a - 1
    BY <1>2, <1>4, <2>1 DEF LastMinute
  <2>3. QED BY <2>1, <2>2
<1>6. \E n \in Nat : Days * w = n * MinutesPerHour
  <2>1. PICK n \in Nat : n = Days * HoursPerDay
    BY <1>1, <1>3
  <2>2. \A x, y, z \in Nat : x * (y * z) = (x * y) * z
    OBVIOUS
  <2>3. Days * (HoursPerDay * MinutesPerHour) = (Days * HoursPerDay) * MinutesPerHour
    BY <1>1, <2>2
  <2>4. QED BY <1>4, <2>1, <2>3
<1>7. QED BY <1>1, <1>2, <1>4, <1>5, <1>6

LEMMA ParentIs ==
  ASSUME NEW k \in Parents
  PROVE  /\ k[2] \in Probes /\ k[1] \in {"h", "d"} /\ k[3] \in Nat
         /\ Width[k[1]] \in Nat \ {0} /\ k = <<k[1], k[2], k[3]>>
         /\ MinutesOf(k) \subseteq Minutes
         /\ \E q \in Nat : k[3] = q * Width[k[1]]
<1>1. PICK res \in DOMAIN Width, p \in Probes, u \in Minutes : k = Key(res, p, u)
  BY DEF Parents, Keys
<1>2. k[1] = res /\ res \in {"h", "d"} /\ k[2] = p /\ k[3] = (u \div Width[res]) * Width[res]
      /\ k = <<k[1], k[2], k[3]>>
  BY <1>1 DEF Parents, Key
<1>3. PICK W \in Nat \ {0} : W = Width[res]
  BY <1>2, WidthIs
<1>4. u \in Nat /\ u < LastMinute + 1 /\ LastMinute \in Nat
  BY LastMinuteIs
<1>5. PICK b, q \in Nat : b = (u \div W) * W /\ b = q * W /\ b <= u /\ u < b + W
  BY <1>3, <1>4, BucketIs
<1>6. k[3] = b
  BY <1>2, <1>3, <1>5
<1>7. PICK n \in Nat : LastMinute + 1 = n * W
  BY <1>2, <1>3, WidthsAre
<1>8. b + W <= LastMinute + 1
  <2>1. PICK e \in Nat : e = n * W /\ e = LastMinute + 1
    BY <1>4, <1>7
  <2>2. q < n
    <3>1. SUFFICES ASSUME n <= q PROVE FALSE
      OBVIOUS
    <3>2. CASE n = q
      BY <1>4, <1>5, <2>1, <3>2
    <3>3. CASE n < q
      <4>1. e + W <= b
        BY <1>3, <1>5, <2>1, <3>3, Multiples
      <4>2. QED BY <1>3, <1>4, <1>5, <2>1, <4>1
    <3>4. QED BY <3>1, <3>2, <3>3
  <2>3. b + W <= e
    BY <1>3, <1>5, <2>1, <2>2, Multiples
  <2>4. QED BY <2>1, <2>3
<1>9. MinutesOf(k) = b..(b + W - 1)
  BY <1>2, <1>3, <1>6 DEF MinutesOf
<1>10. MinutesOf(k) \subseteq Minutes
  BY <1>3, <1>4, <1>8, <1>9, LastMinuteIs
<1>11. QED BY <1>2, <1>3, <1>5, <1>6, <1>10

LEMMA MinuteKeyIs ==
  ASSUME NEW k \in Fine, k[1] = "m"
  PROVE  MinutesOf(k) = {k[3]} /\ k[3] \in Nat
<1>1. k[3] \in Nat /\ Width[k[1]] = 1
  BY FineIs, LastMinuteIs, WidthIs
<1>2. QED BY <1>1 DEF MinutesOf

\* A minute names the bucket it lies in.
LEMMA KeyOfMinute ==
  ASSUME NEW k \in Parents \cup Fine, k[1] # "o", NEW u \in MinutesOf(k)
  PROVE  Key(k[1], k[2], u) = k /\ u \in Nat
<1>1. CASE k \in Fine
  <2>1. k[1] = "m"
    BY <1>1 DEF Fine
  <2>2. u = k[3] /\ u \in Nat
    BY <1>1, <2>1, MinuteKeyIs
  <2>3. QED BY <1>1, <2>1, <2>2, FineIs, KeyIs
<1>2. CASE k \in Parents
  <2>1. PICK W \in Nat \ {0} : W = Width[k[1]]
    BY <1>2, ParentIs
  <2>2. PICK q \in Nat : k[3] = q * W
    BY <1>2, <2>1, ParentIs
  <2>3. k[3] \in Nat /\ k = <<k[1], k[2], k[3]>>
    BY <1>2, ParentIs
  <2>4. u \in Nat /\ k[3] <= u /\ u < k[3] + W
    BY <2>1, <2>3 DEF MinutesOf
  <2>5. u \div W = q
    BY <2>2, <2>3, <2>4, SameBucket
  <2>6. Key(k[1], k[2], u) = <<k[1], k[2], (u \div W) * W>>
    BY <2>1 DEF Key
  <2>7. QED BY <2>2, <2>3, <2>4, <2>5, <2>6
<1>3. QED BY <1>1, <1>2

\* What lies below a parent lies inside it.
LEMMA ChildIs ==
  ASSUME NEW k \in Parents, NEW res \in Finer(k), NEW m \in MinutesOf(k), NEW c, c = Key(res, k[2], m)
  PROVE  /\ c \in Keys /\ c[1] = res /\ c[2] = k[2] /\ c # k /\ m \in MinutesOf(c)
         /\ c \in Parents \cup Fine /\ c[1] # "o" /\ MinutesOf(c) \subseteq MinutesOf(k)
         /\ res = "m" => c \in Fine
         /\ res = "h" => c \in Parents
<1>1. /\ k[2] \in Probes /\ k[1] \in {"h", "d"} /\ k[3] \in Nat /\ MinutesOf(k) \subseteq Minutes
      /\ Width[k[1]] \in Nat \ {0}
  BY ParentIs
<1>2. m \in Minutes /\ m \in Nat
  BY <1>1, LastMinuteIs
<1>3. c \in Keys /\ c[1] = res /\ c[2] = k[2] /\ res \in {"m", "h"}
  BY <1>1, <1>2, WidthIs DEF Finer, Keys, Key
<1>4. c # k
  BY <1>1, <1>3 DEF Finer
<1>5. CASE res = "m"
  <2>1. c = <<"m", k[2], m>>
    BY <1>2, <1>5, KeyIs
  <2>2. c \in Fine /\ c[3] = m
    <3>1. <<"m", k[2], m>> \in Fine
      BY <1>1, <1>2, MinuteKeys
    <3>2. QED BY <2>1, <3>1
  <2>3. MinutesOf(c) = {m}
    BY <1>3, <1>5, <2>2, MinuteKeyIs
  <2>4. QED BY <1>3, <1>4, <1>5, <2>2, <2>3
<1>6. CASE res = "h"
  <2>1. k[1] = "d" /\ c \in Parents
    BY <1>1, <1>3, <1>6 DEF Finer, Parents
  <2>2. PICK V, H \in Nat \ {0} : V = Width["h"] /\ H = HoursPerDay /\ Width["d"] = H * V
    BY WidthsAre
  <2>3. PICK W \in Nat \ {0} : W = Width["d"] /\ W = H * V
    BY <1>1, <2>1, <2>2
  <2>4. PICK q \in Nat : k[3] = q * W
    BY <2>1, <2>3, ParentIs
  <2>5. PICK n \in Nat : n = q * H
    <3>1. \A x, y \in Nat : x * y \in Nat
      OBVIOUS
    <3>2. QED BY <3>1
  <2>6. k[3] = n * V /\ k[3] + W = (n + H) * V
    <3>1. \A x, y, z \in Nat : x * (y * z) = (x * y) * z /\ (x + y) * z = x * z + y * z
      OBVIOUS
    <3>2. q * (H * V) = (q * H) * V /\ (n + H) * V = n * V + H * V
      BY <3>1
    <3>3. QED BY <2>3, <2>4, <2>5, <3>2
  <2>7. k[3] <= m /\ m < k[3] + W
    BY <1>1, <2>1, <2>3 DEF MinutesOf
  <2>8. PICK b, a \in Nat : b = (m \div V) * V /\ b = a * V /\ b <= m /\ m < b + V
    BY <1>2, <2>2, BucketIs
  <2>9. c[3] = b
    BY <1>6, <2>2, <2>8 DEF Key
  <2>10. k[3] <= b
    <3>1. a < n => a * V + V <= n * V
      BY Multiples
    <3>2. ~ (a < n)
      BY <1>1, <1>2, <2>6, <2>7, <2>8, <3>1
    <3>3. a = n \/ n < a
      BY <3>2
    <3>4. n < a => n * V + V <= a * V
      BY Multiples
    <3>5. QED BY <1>1, <2>6, <2>8, <3>3, <3>4
  <2>11. b + V <= k[3] + W
    <3>1. PICK e \in Nat : e = n + H
      OBVIOUS
    <3>2. PICK f \in Nat : f = e * V /\ f = k[3] + W
      BY <1>1, <2>3, <2>6, <3>1
    <3>3. a < e => a * V + V <= e * V
      BY Multiples
    <3>4. e < a => e * V + V <= a * V
      BY Multiples
    <3>5. a < e
      <4>1. a # e
        BY <1>2, <2>7, <2>8, <3>2
      <4>2. ~ (e < a)
        BY <1>2, <2>7, <2>8, <3>2, <3>4
      <4>3. QED BY <4>1, <4>2
    <3>6. QED BY <2>8, <3>2, <3>3, <3>5
  <2>12. MinutesOf(c) = b..(b + V - 1) /\ MinutesOf(k) = k[3]..(k[3] + W - 1)
    BY <1>3, <1>6, <2>1, <2>2, <2>3, <2>9 DEF MinutesOf
  <2>13. m \in MinutesOf(c) /\ MinutesOf(c) \subseteq MinutesOf(k)
    <3>1. PICK d \in Nat : d = k[3]
      BY <1>1
    <3>2. b \in Int /\ V \in Int /\ W \in Int /\ m \in Int /\ d \in Int
      BY <1>2, <2>2, <2>3, <2>8
    <3>3. m \in b..(b + V - 1)
      BY <2>8, <3>2
    <3>4. b..(b + V - 1) \subseteq d..(d + W - 1)
      BY <2>10, <2>11, <3>1, <3>2
    <3>5. QED BY <2>12, <3>1, <3>3, <3>4, Zenon
  <2>14. QED BY <1>3, <1>4, <1>6, <2>1, <2>13
<1>7. QED BY <1>3, <1>5, <1>6

\* The children a merge takes are below, and every minute has one.
LEMMA ChildrenAre ==
  ASSUME NEW k \in Parents
  PROVE  /\ ChildKeys(k) \subseteq Below(k)
         /\ \A m \in MinutesOf(k) : \E c \in ChildKeys(k) : m \in MinutesOf(c)
         /\ \A c \in ChildKeys(k) : \A m \in MinutesOf(c) :
              m \in MinutesOf(k) /\ c = Key(IF k[1] = "h" THEN "m" ELSE "h", k[2], m)
<1>1. PICK res : res = IF k[1] = "h" THEN "m" ELSE "h"
  OBVIOUS
<1>2. res \in Finer(k) /\ ChildKeys(k) = {Key(res, k[2], m) : m \in MinutesOf(k)}
  BY <1>1 DEF Finer, ChildKeys
<1>3. ASSUME NEW m \in MinutesOf(k) PROVE m \in MinutesOf(Key(res, k[2], m))
  BY <1>2, ChildIs
<1>4. ASSUME NEW c \in ChildKeys(k), NEW m \in MinutesOf(c)
      PROVE  m \in MinutesOf(k) /\ c = Key(res, k[2], m)
  <2>1. PICK n \in MinutesOf(k) : c = Key(res, k[2], n)
    BY <1>2
  <2>2. c[1] = res /\ c[2] = k[2] /\ c \in Parents \cup Fine /\ c[1] # "o" /\ MinutesOf(c) \subseteq MinutesOf(k)
    BY <1>2, <2>1, ChildIs
  <2>3. Key(c[1], c[2], m) = c
    BY <2>2, KeyOfMinute
  <2>4. QED BY <1>4, <2>2, <2>3
<1>5. QED BY <1>1, <1>2, <1>3, <1>4 DEF Below

LEMMA TicksAre ==
  ASSUME NEW k, k[3] \in Nat, Width[k[1]] \in Nat, NEW t
  PROVE  t \in TicksOf(k) <=> t \in Nat /\ Minute(t) \in MinutesOf(k)
<1>1. PICK a, e \in Nat : a = k[3] /\ e = k[3] + Width[k[1]]
  OBVIOUS
<1>2. TicksPerMinute \in Nat \ {0}
  BY HistoryAssumption
<1>3. PICK b, f \in Nat : b = a * TicksPerMinute /\ f = e * TicksPerMinute
  <2>1. \A x, y \in Nat : x * y \in Nat
    OBVIOUS
  <2>2. QED BY <1>2, <2>1
<1>4. TicksOf(k) = b..(f - 1) /\ MinutesOf(k) = a..(e - 1)
  BY <1>1, <1>3 DEF TicksOf, MinutesOf
<1>5. ASSUME t \in Nat PROVE b <= t /\ t < f <=> a <= Minute(t) /\ Minute(t) < e
  <2>1. PICK m \in Nat : m = Minute(t)
    BY <1>5, MinuteIs
  <2>2. PICK g, h \in Nat : g = m * TicksPerMinute /\ h = (m + 1) * TicksPerMinute
    <3>1. \A x, y \in Nat : x * y \in Nat
      OBVIOUS
    <3>2. m + 1 \in Nat
      OBVIOUS
    <3>3. QED BY <1>2, <3>1, <3>2
  <2>3. g <= t /\ t < h
    BY <1>5, <2>1, <2>2, MinuteIs
  <2>4. /\ m < a => h <= b
        /\ m < e => h <= f
        /\ a < m => b + TicksPerMinute <= g
        /\ e < m => f + TicksPerMinute <= g
    <3>1. m < a => h <= b
      BY <1>3, <2>2, Ahead
    <3>2. m < e => h <= f
      BY <1>3, <2>2, Ahead
    <3>3. a < m => b + TicksPerMinute <= g
      BY <1>2, <1>3, <2>2, Multiples
    <3>4. e < m => f + TicksPerMinute <= g
      BY <1>2, <1>3, <2>2, Multiples
    <3>5. QED BY <3>1, <3>2, <3>3, <3>4
  <2>5. (a = m => b = g) /\ (e = m => f = g)
    BY <1>3, <2>2
  <2>6. QED BY <1>2, <1>5, <2>1, <2>3, <2>4, <2>5
<1>6. QED
  <2>1. t \in TicksOf(k) => t \in Nat
    BY <1>4
  <2>2. t \in Nat => Minute(t) \in Nat
    BY MinuteIs
  <2>3. QED BY <1>4, <1>5, <2>1, <2>2

-----------------------------------------------------------------------------
(* The queue's hold on the parents *)

\* What a merge of rows R makes of bucket k.
Merges(R, k) == MergeChildren(k, [c \in ChildKeys(k) |-> R[c]])

\* With markers D, rows R and windows W: a parent of a marked bucket is marked,
\* a parent that is not marked is the merge of its children, a worker whose
\* marker is current holds that merge and nothing below it is marked, and only
\* a minute carries over.
Untouched(R, k) == R[k] = NoRollup /\ \A c \in ChildKeys(k) : R[c] = NoRollup
MergeIsHeld(D, R, v) ==
  v.pc = "read" /\ v.key \in Parents /\ D[v.key] = v.rev =>
    v.value = Merges(R, v.key) /\ \A c \in Below(v.key) : D[c] = 0
Whole(D, R, W) ==
  /\ \A k \in Parents : \A c \in Below(k) : D[c] # 0 => D[k] # 0
  /\ \A k \in Parents : D[k] # 0 \/ R[k] = {Merges(R, k)} \/ Untouched(R, k)
  /\ \A w \in Workers : MergeIsHeld(D, R, W[w])
  /\ \A w \in Workers : W[w].pc = "read" /\ W[w].key[1] # "m" => ~ W[w].carry
ParentInv == Whole(dirty, rows, worker)

\* A minute lies in the bucket it names.
LEMMA KeyHolds ==
  ASSUME NEW res \in DOMAIN Width, NEW p, NEW u \in Minutes
  PROVE  u \in MinutesOf(Key(res, p, u))
<1>1. PICK W \in Nat \ {0} : W = Width[res]
  BY WidthIs
<1>2. u \in Nat
  BY LastMinuteIs
<1>3. PICK b \in Nat : b = (u \div W) * W /\ b <= u /\ u < b + W
  BY <1>1, <1>2, BucketIs
<1>4. Key(res, p, u)[1] = res /\ Key(res, p, u)[3] = b
  BY <1>1, <1>3 DEF Key
<1>5. MinutesOf(Key(res, p, u)) = b..(b + W - 1)
  BY <1>1, <1>4 DEF MinutesOf
<1>6. u \in b..(b + W - 1)
  BY <1>1, <1>2, <1>3
<1>7. QED BY <1>5, <1>6

\* A commit that marks a bucket marks its parents.
LEMMA MarksReachParents ==
  ASSUME NEW p \in Probes, NEW u, NEW k \in Parents, NEW c \in Below(k), c \in DirtyBuckets(p, u)
  PROVE  k \in DirtyBuckets(p, u)
<1>1. PICK r \in DOMAIN Width : c = Key(r, p, u) /\ u \in Minutes
  BY DEF DirtyBuckets
<1>2. PICK res \in Finer(k), m \in MinutesOf(k) : c = Key(res, k[2], m)
  BY DEF Below
<1>3. c[1] = res /\ c[2] = k[2] /\ c[1] # "o" /\ MinutesOf(c) \subseteq MinutesOf(k)
  BY <1>2, ChildIs
<1>4. r = res /\ p = k[2]
  BY <1>1, <1>3 DEF Key
<1>5. u \in MinutesOf(k)
  BY <1>1, <1>3, KeyHolds
<1>6. k[1] # "o" /\ k[1] \in DOMAIN Width
  BY ParentIs, WidthIs
<1>7. Key(k[1], p, u) = k
  BY <1>4, <1>5, <1>6, KeyOfMinute
<1>8. QED BY <1>1, <1>6, <1>7 DEF DirtyBuckets

LEMMA BelowAreKeys ==
  ASSUME NEW k \in Parents
  PROVE  /\ k \in Keys /\ Below(k) \subseteq Keys \ {k}
         /\ ChildKeys(k) \subseteq Keys \ {k} /\ ChildKeys(k) \subseteq Below(k)
<1>1. \A c \in Below(k) : c \in Keys /\ c # k
  BY ChildIs DEF Below
<1>2. QED BY <1>1, ChildrenAre DEF Parents

\* Marking buckets together with their parents.
LEMMA WholeMarks ==
  ASSUME NEW D, NEW R, NEW W, Whole(D, R, W), NEW K, NEW E,
         \A k \in Parents : \A c \in Below(k) : c \in K => k \in K,
         \A k \in Keys : IF k \in K THEN E[k] # 0 ELSE E[k] = D[k],
         \A k \in Keys \cap K, w \in Workers : W[w].pc = "read" /\ W[w].key = k => W[w].rev # E[k]
  PROVE  Whole(E, R, W)
<1>1. ASSUME NEW k \in Parents, NEW c \in Below(k), E[c] # 0 PROVE E[k] # 0
  BY <1>1, BelowAreKeys DEF Whole
<1>2. ASSUME NEW k \in Parents PROVE E[k] # 0 \/ R[k] = {Merges(R, k)} \/ Untouched(R, k)
  BY BelowAreKeys DEF Whole
<1>3. ASSUME NEW w \in Workers PROVE MergeIsHeld(E, R, W[w])
  <2>1. SUFFICES ASSUME W[w].pc = "read", W[w].key \in Parents, E[W[w].key] = W[w].rev
                 PROVE  W[w].value = Merges(R, W[w].key) /\ \A c \in Below(W[w].key) : E[c] = 0
    BY DEF MergeIsHeld
  <2>2. PICK k : k = W[w].key
    OBVIOUS
  <2>3. k \in Keys /\ k \notin K
    BY <2>1, <2>2, BelowAreKeys
  <2>4. D[k] = W[w].rev
    BY <2>1, <2>2, <2>3
  <2>5. W[w].value = Merges(R, k) /\ \A c \in Below(k) : D[c] = 0
    BY <2>1, <2>2, <2>4 DEF Whole, MergeIsHeld
  <2>6. \A c \in Below(k) : E[c] = 0
    BY <2>1, <2>2, <2>3, <2>5, BelowAreKeys
  <2>7. QED BY <2>2, <2>5, <2>6
<1>4. QED BY <1>1, <1>2, <1>3 DEF Whole

\* One worker turns to another window.
LEMMA WholeTurns ==
  ASSUME NEW D, NEW R, NEW W, Whole(D, R, W), NEW w \in Workers, NEW V, NEW v,
         V[w] = v, \A x \in Workers \ {w} : V[x] = W[x],
         MergeIsHeld(D, R, v), v.pc = "read" /\ v.key[1] # "m" => ~ v.carry
  PROVE  Whole(D, R, V)
<1>1. \A x \in Workers : MergeIsHeld(D, R, V[x])
  BY DEF Whole
<1>2. \A x \in Workers : V[x].pc = "read" /\ V[x].key[1] # "m" => ~ V[x].carry
  BY DEF Whole
<1>3. QED BY <1>1, <1>2 DEF Whole

\* A worker publishes bucket k, whose marker goes, and marks K.
Publishes(D, R, W, w, k, K, E, S, V) ==
  /\ W[w].pc = "read" /\ W[w].key = k /\ D[k] = W[w].rev
  /\ \A x \in Workers : W[x].pc = "read" => W[x].rev # 0
  /\ \A j \in Parents : \A c \in Below(j) : c \in K => j \in K
  /\ W[w].carry \/ K = {}
  /\ E[k] = 0 /\ \A j \in Keys \ {k} : IF j \in K THEN E[j] # 0 ELSE E[j] = D[j]
  /\ \A j \in Keys \cap K, x \in Workers :
       j # k /\ W[x].pc = "read" /\ W[x].key = j => W[x].rev # E[j]
  /\ S[k] = {W[w].value} /\ \A j \in Keys \ {k} : S[j] = R[j]
  /\ V[w] = NoWindow /\ \A x \in Workers \ {w} : V[x] = W[x]

LEMMA WholePublishes ==
  ASSUME NEW D, NEW R, NEW W, Whole(D, R, W), NEW w \in Workers, NEW k \in Keys, NEW K,
         NEW E, NEW S, NEW V, Publishes(D, R, W, w, k, K, E, S, V)
  PROVE  Whole(E, S, V)
<1>0. /\ W[w].pc = "read" /\ W[w].key = k /\ D[k] = W[w].rev /\ D[k] # 0
      /\ \A x \in Workers : W[x].pc = "read" => W[x].rev # 0
      /\ \A j \in Parents : \A c \in Below(j) : c \in K => j \in K
      /\ W[w].carry \/ K = {}
      /\ E[k] = 0 /\ \A j \in Keys \ {k} : IF j \in K THEN E[j] # 0 ELSE E[j] = D[j]
      /\ \A j \in Keys \cap K, x \in Workers :
           j # k /\ W[x].pc = "read" /\ W[x].key = j => W[x].rev # E[j]
      /\ S[k] = {W[w].value} /\ \A j \in Keys \ {k} : S[j] = R[j]
      /\ V[w] = NoWindow /\ \A x \in Workers \ {w} : V[x] = W[x]
  BY DEF Publishes
<1> USE <1>0
<1>1. ASSUME k \in Parents
      PROVE  K = {} /\ W[w].value = Merges(R, k) /\ \A c \in Below(k) : D[c] = 0
  <2>1. k[1] # "m"
    BY <1>1, ParentIs
  <2>2. ~ W[w].carry
    BY <2>1 DEF Whole
  <2>3. QED BY <1>1, <2>2 DEF Whole, MergeIsHeld
<1>2. ASSUME NEW j \in Parents, k \notin ChildKeys(j) PROVE Merges(S, j) = Merges(R, j)
  <2>1. \A c \in ChildKeys(j) : S[c] = R[c]
    BY <1>2, BelowAreKeys
  <2>2. [c \in ChildKeys(j) |-> S[c]] = [c \in ChildKeys(j) |-> R[c]]
    BY <2>1
  <2>3. QED BY <2>2 DEF Merges
<1>3. ASSUME NEW j \in Parents, k \in Below(j) PROVE D[j] # 0 /\ j # k
  BY <1>3, BelowAreKeys DEF Whole
<1>4. ASSUME NEW j \in Parents, NEW c \in Below(j), E[c] # 0 PROVE E[j] # 0
  <2>1. c \in Keys /\ j \in Keys /\ c # j /\ c # k
    BY <1>4, BelowAreKeys
  <2>2. CASE j = k
    <3>1. K = {} /\ D[c] = 0
      BY <1>1, <1>4, <2>2
    <3>2. QED BY <1>4, <2>1, <3>1
  <2>3. CASE j # k
    <3>1. CASE c \in K
      BY <2>1, <2>3, <3>1
    <3>2. CASE c \notin K
      <4>1. D[c] # 0
        BY <1>4, <2>1, <3>2
      <4>2. D[j] # 0
        BY <4>1 DEF Whole
      <4>3. QED BY <2>1, <2>3, <4>2
    <3>3. QED BY <3>1, <3>2
  <2>4. QED BY <2>2, <2>3
<1>5. ASSUME NEW j \in Parents PROVE E[j] # 0 \/ S[j] = {Merges(S, j)} \/ Untouched(S, j)
  <2>0. j \in Keys
    BY BelowAreKeys
  <2>1. CASE j = k
    <3>1. k \notin ChildKeys(k)
      BY <2>1, BelowAreKeys
    <3>2. Merges(S, k) = Merges(R, k)
      BY <1>2, <2>1, <3>1
    <3>3. QED BY <1>1, <2>1, <3>2
  <2>2. CASE j # k /\ k \in Below(j)
    BY <1>3, <2>0, <2>2
  <2>3. CASE j # k /\ k \notin Below(j)
    <3>1. k \notin ChildKeys(j) /\ \A c \in ChildKeys(j) : S[c] = R[c]
      BY <2>3, BelowAreKeys
    <3>2. Merges(S, j) = Merges(R, j) /\ S[j] = R[j]
      BY <1>2, <2>0, <2>3, <3>1
    <3>3. Untouched(R, j) => Untouched(S, j)
      BY <3>1, <3>2 DEF Untouched
    <3>4. D[j] # 0 => E[j] # 0
      BY <2>0, <2>3
    <3>5. QED BY <3>2, <3>3, <3>4 DEF Whole
  <2>4. QED BY <2>1, <2>2, <2>3
<1>6. ASSUME NEW x \in Workers PROVE MergeIsHeld(E, S, V[x])
  <2>1. CASE x = w
    BY <2>1 DEF MergeIsHeld, NoWindow
  <2>2. CASE x # w
    <3>1. PICK y : y = W[x] /\ V[x] = y
      BY <2>2
    <3>2. SUFFICES ASSUME y.pc = "read", y.key \in Parents, E[y.key] = y.rev
                   PROVE  y.value = Merges(S, y.key) /\ \A c \in Below(y.key) : E[c] = 0
      BY <3>1 DEF MergeIsHeld
    <3>3. PICK j : j = y.key
      OBVIOUS
    <3>4. j \in Parents /\ j \in Keys /\ j # k
      <4>1. y.rev # 0
        BY <3>1, <3>2
      <4>2. QED BY <3>2, <3>3, <4>1, BelowAreKeys
    <3>5. j \notin K /\ D[j] = y.rev
      BY <3>1, <3>2, <3>3, <3>4
    <3>6. y.value = Merges(R, j) /\ \A c \in Below(j) : D[c] = 0
      BY <3>1, <3>2, <3>3, <3>5 DEF Whole, MergeIsHeld
    <3>7. k \notin Below(j)
      BY <3>6
    <3>8. Merges(S, j) = Merges(R, j)
      BY <1>2, <3>4, <3>7, BelowAreKeys
    <3>9. \A c \in Below(j) : E[c] = 0
      BY <3>4, <3>5, <3>6, <3>7, BelowAreKeys
    <3>10. QED BY <3>3, <3>6, <3>8, <3>9
  <2>3. QED BY <2>1, <2>2
<1>7. ASSUME NEW x \in Workers, V[x].pc = "read", V[x].key[1] # "m" PROVE ~ V[x].carry
  BY <1>7 DEF Whole, NoWindow
<1>8. QED BY <1>4, <1>5, <1>6, <1>7 DEF Whole

LEMMA ParentsStart == HistoryInit => ParentInv
<1> SUFFICES ASSUME HistoryInit PROVE Whole(dirty, rows, worker)
  BY DEF ParentInv
<1>1. \A k \in Keys : dirty[k] = 0 /\ rows[k] = NoRollup
  BY DEF HistoryInit
<1>2. \A w \in Workers : worker[w].pc # "read"
  BY DEF HistoryInit, NoWindow
<1>3. \A k \in Parents : Untouched(rows, k) /\ \A c \in Below(k) : dirty[c] = 0
  BY <1>1, BelowAreKeys DEF Untouched
<1>4. QED BY <1>2, <1>3 DEF Whole, MergeIsHeld

\* A step that marks the four buckets of a minute.
LEMMA ParentMarks ==
  ASSUME HistoryShapes, ParentInv, NEW p \in Probes, NEW u,
         dirty' = Marked(dirty, DirtyBuckets(p, u)), rows' = rows, worker' = worker
  PROVE  ParentInv'
<1>1. PICK K : K = DirtyBuckets(p, u)
  OBVIOUS
<1>2. PICK E : E = Marked(dirty, K)
  OBVIOUS
<1>3. \A k \in Parents : \A c \in Below(k) : c \in K => k \in K
  BY <1>1, MarksReachParents
<1>4. /\ \A k \in Keys : IF k \in K THEN E[k] # 0 ELSE E[k] = dirty[k]
      /\ \A k \in Keys \cap K, w \in Workers :
           worker[w].pc = "read" /\ worker[w].key = k => worker[w].rev # E[k]
  BY <1>2, MarkedIs
<1>5. Whole(E, rows, worker)
  BY <1>3, <1>4, WholeMarks DEF ParentInv
<1>6. dirty' = E
  BY <1>1, <1>2
<1>7. QED BY <1>5, <1>6 DEF ParentInv

LEMMA ParentTurns ==
  ASSUME HistoryShapes, ParentInv, UNCHANGED <<dirty, rows>>, NEW w \in Workers, NEW v,
         worker' = [worker EXCEPT ![w] = v],
         MergeIsHeld(dirty, rows, v), v.pc = "read" /\ v.key[1] # "m" => ~ v.carry
  PROVE  ParentInv'
<1>1. worker'[w] = v /\ \A x \in Workers \ {w} : worker'[x] = worker[x]
  BY DEF HistoryShapes
<1>2. Whole(dirty, rows, worker')
  BY <1>1, WholeTurns DEF ParentInv
<1>3. QED BY <1>2 DEF ParentInv

\* CleanChildren is the condition a parent's reader needs.
LEMMA CleanIs ==
  ASSUME NEW k \in Parents, CleanChildren(k), NEW c \in Below(k)
  PROVE  dirty[c] = 0
<1>1. PICK res \in Finer(k), m \in MinutesOf(k) : c = Key(res, k[2], m)
  BY DEF Below
<1>2. k[1] \in {"h", "d"}
  BY DEF Parents
<1>3. QED BY <1>1, <1>2 DEF CleanChildren, Finer

LEMMA ParentReads ==
  ASSUME HistoryShapes, ParentInv, NEW w \in Workers, Read(w)
  PROVE  ParentInv'
<1>1. PICK k : k = worker[w].key
  OBVIOUS
<1>2. UNCHANGED <<dirty, rows>>
  BY DEF Read
<1>3. CASE dirty[k] # 0 /\ CleanChildren(k)
  <2>1. PICK v : v = [pc |-> "read", key |-> k, rev |-> dirty[k], value |-> ProjectHistory(k),
                      carry |-> k[1] = "m" /\ CarriesOver(k)]
    OBVIOUS
  <2>2. worker' = [worker EXCEPT ![w] = v]
    BY <1>1, <1>3, <2>1 DEF Read
  <2>3. v.key = k /\ v.value = ProjectHistory(k) /\ v.carry = (k[1] = "m" /\ CarriesOver(k))
    BY <2>1, Zenon
  <2>4. v.key[1] # "m" => ~ v.carry
    BY <2>3, Zenon
  <2>5. MergeIsHeld(dirty, rows, v)
    <3>1. ASSUME k \in Parents
          PROVE  v.value = Merges(rows, k) /\ \A c \in Below(k) : dirty[c] = 0
      <4>1. k[1] \in {"h", "d"}
        BY <3>1 DEF Parents
      <4>2. v.value = Merges(rows, k)
        BY <2>3, <4>1 DEF ProjectHistory, Merges
      <4>3. QED BY <1>3, <3>1, <4>2, CleanIs
    <3>2. QED BY <2>3, <3>1 DEF MergeIsHeld
  <2>6. QED BY <1>2, <2>2, <2>4, <2>5, ParentTurns
<1>4. CASE ~ (dirty[k] # 0 /\ CleanChildren(k))
  <2>1. worker' = [worker EXCEPT ![w] = NoWindow]
    BY <1>1, <1>4 DEF Read
  <2>2. NoWindow.pc # "read"
    BY DEF NoWindow
  <2>3. QED BY <1>2, <2>1, <2>2, ParentTurns DEF MergeIsHeld
<1>5. QED BY <1>3, <1>4

LEMMA ParentPublishes ==
  ASSUME HistoryShapes, ParentInv, NEW w \in Workers, Publish(w), Current(w)
  PROVE  ParentInv'
<1>2. PICK v : v = worker[w]
  OBVIOUS
<1>3. PICK k : k = v.key
  OBVIOUS
<1>4. PICK K : K = IF v.carry THEN DirtyBuckets(k[2], k[3] + 1) ELSE {}
  OBVIOUS
<1>5. /\ worker' = [worker EXCEPT ![w] = NoWindow] /\ rows' = [rows EXCEPT ![k] = {v.value}]
      /\ dirty' = [Marked(dirty, K) EXCEPT ![k] = 0] /\ v.pc = "read"
  BY <1>2, <1>3, <1>4 DEF Publish
<1>6. k \in Keys /\ dirty[k] = v.rev /\ v.rev # 0
  BY <1>2, <1>3, <1>5 DEF HistoryShapes, Window, NoWindow, Current
<1>7. \A x \in Workers : worker[x].pc = "read" => worker[x].rev # 0
  BY DEF HistoryShapes, Window, NoWindow
<1>8. /\ dirty'[k] = 0
      /\ \A j \in Keys \ {k} : IF j \in K THEN dirty'[j] # 0 ELSE dirty'[j] = dirty[j]
      /\ \A j \in Keys \cap K, x \in Workers :
           j # k /\ worker[x].pc = "read" /\ worker[x].key = j => worker[x].rev # dirty'[j]
  <2>1. PICK M : M = Marked(dirty, K)
    OBVIOUS
  <2>2. /\ M \in [Keys -> Nat]
        /\ \A j \in Keys : IF j \in K THEN M[j] # 0 ELSE M[j] = dirty[j]
        /\ \A j \in Keys \cap K, x \in Workers :
             worker[x].pc = "read" /\ worker[x].key = j => worker[x].rev # M[j]
    BY <2>1, MarkedIs
  <2>3. dirty' = [M EXCEPT ![k] = 0]
    BY <1>5, <2>1
  <2>4. dirty'[k] = 0 /\ \A j \in Keys \ {k} : dirty'[j] = M[j]
    BY <1>6, <2>2, <2>3
  <2>5. QED BY <2>2, <2>4
<1>9. worker'[w] = NoWindow /\ \A x \in Workers \ {w} : worker'[x] = worker[x]
  BY <1>5 DEF HistoryShapes
<1>10. rows'[k] = {v.value} /\ \A j \in Keys \ {k} : rows'[j] = rows[j]
  BY <1>5, <1>6 DEF HistoryShapes
<1>11. \A j \in Parents : \A c \in Below(j) : c \in K => j \in K
  <2>1. CASE v.carry
    <3>1. k[1] = "m"
      BY <1>2, <1>3, <1>5, <2>1 DEF ParentInv, Whole
    <3>2. k \in Fine
      BY <1>6, <3>1 DEF Fine
    <3>3. k[2] \in Probes
      BY <3>1, <3>2, FineIs
    <3>4. PICK u : u = k[3] + 1
      OBVIOUS
    <3>5. K = DirtyBuckets(k[2], u)
      BY <1>4, <2>1, <3>4
    <3>6. QED BY <3>3, <3>5, MarksReachParents
  <2>2. CASE ~ v.carry
    BY <1>4, <2>2
  <2>3. QED BY <2>1, <2>2
<1>12. v.carry \/ K = {}
  BY <1>4
<1>13. PICK E, S, V : E = dirty' /\ S = rows' /\ V = worker'
  OBVIOUS
<1>14. Publishes(dirty, rows, worker, w, k, K, E, S, V)
  BY <1>2, <1>3, <1>5, <1>6, <1>7, <1>8, <1>9, <1>10, <1>11, <1>12, <1>13, Zenon DEF Publishes
<1>15. Whole(E, S, V)
  BY <1>6, <1>14, WholePublishes DEF ParentInv
<1>16. QED BY <1>13, <1>15 DEF ParentInv

LEMMA ParentsKeep ==
  ASSUME HistoryShapes, ParentInv, [HistoryNext]_historyVars
  PROVE  ParentInv'
<1>1. ASSUME UNCHANGED <<dirty, rows, worker>> PROVE ParentInv'
  BY <1>1 DEF ParentInv
<1>2. ASSUME NEW p \in Probes, NEW at \in Ticks, NEW status \in {"UP", "DOWN"}, Ingest(p, at, status)
      PROVE  ParentInv'
  <2>1. rows' = rows /\ worker' = worker
    BY <1>2 DEF Ingest
  <2>2. PICK u : u = Minute(at)
    OBVIOUS
  <2>3. dirty' = dirty \/ dirty' = Marked(dirty, DirtyBuckets(p, u))
    BY <1>2, <2>2 DEF Ingest
  <2>4. QED BY <1>1, <2>1, <2>3, ParentMarks
<1>3. ASSUME NEW p \in Probes, NEW n \in 1..MaxGapEvents, NEW at \in Ticks, NEW until \in Ticks,
             DeclareGap(p, n, at, until)
      PROVE  ParentInv'
  BY <1>1, <1>3 DEF DeclareGap
<1>4. ASSUME NEW at \in Ticks, ClearHistory(at) PROVE ParentInv'
  <2>1. dirty' = [k \in Keys |-> 0] /\ rows' = [k \in Keys |-> NoRollup] /\ worker' = worker
    BY <1>4 DEF ClearHistory
  <2>2. PICK E, S : E = [k \in Keys |-> 0] /\ S = [k \in Keys |-> NoRollup]
    OBVIOUS
  <2>3. \A k \in Keys : E[k] = 0 /\ S[k] = NoRollup
    BY <2>2
  <2>4. \A k \in Parents : Untouched(S, k) /\ \A c \in Below(k) : E[c] = 0
    BY <2>3, BelowAreKeys DEF Untouched
  <2>5. \A w \in Workers : MergeIsHeld(E, S, worker[w])
    <3>1. \A w \in Workers : worker[w].pc = "read" => worker[w].rev # 0
      BY DEF HistoryShapes, Window, NoWindow
    <3>2. QED BY <2>3, <3>1, BelowAreKeys DEF MergeIsHeld
  <2>6. Whole(E, S, worker)
    BY <2>4, <2>5 DEF Whole, ParentInv
  <2>7. QED BY <2>1, <2>2, <2>6 DEF ParentInv
<1>5. CASE NextMinute \/ UNCHANGED historyVars
  BY <1>1, <1>5 DEF NextMinute, historyVars
<1>6. ASSUME NEW p \in Probes, ExpandRange(p) PROVE ParentInv'
  <2>1. PICK u : u = ranges[p].cursor
    OBVIOUS
  <2>2. dirty' = Marked(dirty, DirtyBuckets(p, u)) /\ rows' = rows /\ worker' = worker
    BY <1>6, <2>1 DEF ExpandRange
  <2>3. QED BY <2>2, ParentMarks
<1>7. ASSUME NEW g \in gaps, ExpandGap(g) PROVE ParentInv'
  <2>1. PICK p, u : p = g.probe /\ u = g.bucket /\ p \in Probes
    BY DEF HistoryShapes
  <2>2. dirty' = Marked(dirty, DirtyBuckets(p, u)) /\ rows' = rows /\ worker' = worker
    BY <1>7, <2>1 DEF ExpandGap
  <2>3. QED BY <2>1, <2>2, ParentMarks
<1>8. NoWindow.pc # "read"
  BY DEF NoWindow
<1>9. ASSUME NEW w \in Workers, UNCHANGED <<dirty, rows>>, worker' = [worker EXCEPT ![w] = NoWindow]
      PROVE  ParentInv'
  BY <1>8, <1>9, ParentTurns DEF MergeIsHeld
<1>10. ASSUME NEW w \in Workers, Select(w) \/ Read(w) \/ Publish(w) \/ AbandonWindow(w)
       PROVE  ParentInv'
  <2>1. CASE Select(w)
    <3>1. PICK k : worker' = [worker EXCEPT ![w] = [pc |-> "selected", key |-> k]]
      BY <2>1 DEF Select
    <3>2. PICK v : v = [pc |-> "selected", key |-> k]
      OBVIOUS
    <3>3. v.pc # "read" /\ worker' = [worker EXCEPT ![w] = v] /\ UNCHANGED <<dirty, rows>>
      BY <2>1, <3>1, <3>2 DEF Select
    <3>4. QED BY <3>3, ParentTurns DEF MergeIsHeld
  <2>2. CASE Read(w)
    BY <2>2, ParentReads
  <2>3. CASE Publish(w)
    <3>1. CASE Current(w)
      BY <2>3, <3>1, ParentPublishes
    <3>2. CASE ~ Current(w)
      <4>1. UNCHANGED <<dirty, rows>> /\ worker' = [worker EXCEPT ![w] = NoWindow]
        BY <2>3, <3>2 DEF Publish
      <4>2. QED BY <1>9, <4>1
    <3>3. QED BY <3>1, <3>2
  <2>4. CASE AbandonWindow(w)
    <3>1. UNCHANGED <<dirty, rows>> /\ worker' = [worker EXCEPT ![w] = NoWindow]
      BY <2>4 DEF AbandonWindow
    <3>2. QED BY <1>9, <3>1
  <2>5. QED BY <1>10, <2>1, <2>2, <2>3, <2>4
<1>11. QED BY <1>2, <1>3, <1>4, <1>5, <1>6, <1>7, <1>10 DEF HistoryNext, Expand

-----------------------------------------------------------------------------
(* What a parent should say *)

\* The ticks of a region's bucket with status s, and the samples it counts.
At(G, O, k, s) == {t \in TicksOf(k) : StatusFrom(G, k[2], O, t) = s}
SamplesIn(O, k) == {s \in O : s.probe = k[2] /\ s.at \in TicksOf(k)}

LEMMA TruthParts ==
  ASSUME NEW G, NEW O, NEW k, k[1] # "o"
  PROVE  TruthFrom(G, O, k) = [time   |-> [s \in {"UP", "DOWN", "UNKNOWN"} |-> Cardinality(At(G, O, k, s))],
                               checks |-> Cardinality(SamplesIn(O, k))]
<1>1. PICK f : f = [t \in TicksOf(k) |-> StatusFrom(G, k[2], O, t)]
  OBVIOUS
<1>2. \A s : {t \in TicksOf(k) : f[t] = s} = At(G, O, k, s)
  BY <1>1 DEF At
<1>3. Durations(TicksOf(k), f) = [s \in {"UP", "DOWN", "UNKNOWN"} |-> Cardinality(At(G, O, k, s))]
  BY <1>2 DEF Durations
<1>4. QED BY <1>1, <1>3 DEF TruthFrom, SamplesIn

LEMMA NothingParts ==
  ASSUME NEW k, k[1] # "o", NEW s \in {"UP", "DOWN"}
  PROVE  Nothing(k).time[s] = 0 /\ Nothing(k).checks = 0
<1>1. PICK f : f = [t \in TicksOf(k) |-> "UNKNOWN"]
  OBVIOUS
<1>2. {t \in TicksOf(k) : f[t] = s} = {}
  BY <1>1
<1>3. Durations(TicksOf(k), f)[s] = 0
  BY <1>2, FS_EmptySet DEF Durations
<1>4. Nothing(k) = [time |-> Durations(TicksOf(k), f), checks |-> 0]
  BY <1>1 DEF Nothing
<1>5. QED BY <1>3, <1>4

LEMMA ThreeStatuses ==
  ASSUME NEW G, NEW O, Streams(O), NEW p, NEW t
  PROVE  StatusFrom(G, p, O, t) \in {"UP", "DOWN", "UNKNOWN"}
<1>1. CASE Reports(p, O, t) = {}
  BY <1>1 DEF StatusFrom
<1>2. CASE Reports(p, O, t) # {}
  <2>1. PICK s \in Reports(p, O, t) : \A o \in Reports(p, O, t) : o.seq <= s.seq
    BY <1>2, LatestExists
  <2>2. StatusFrom(G, p, O, t) = Shown(G, s, t)
    BY <2>1, LatestIs
  <2>3. s.status \in {"UP", "DOWN"}
    BY DEF Reports, Streams, Observations
  <2>4. QED BY <2>2, <2>3 DEF Shown
<1>3. QED BY <1>1, <1>2

LEMMA FiniteTicks ==
  ASSUME NEW k, k[3] \in Nat, Width[k[1]] \in Nat
  PROVE  IsFiniteSet(TicksOf(k)) /\ IsFiniteSet(MinutesOf(k))
<1>1. TicksPerMinute \in Nat
  BY HistoryAssumption
<1>2. \A x, y \in Nat : x * y \in Nat
  OBVIOUS
<1>3. PICK a, e \in Nat : a = k[3] /\ e = k[3] + Width[k[1]]
  OBVIOUS
<1>4. PICK b, f \in Nat : b = a * TicksPerMinute /\ f = e * TicksPerMinute
  BY <1>1, <1>2
<1>5. TicksOf(k) = b..(f - 1) /\ MinutesOf(k) = a..(e - 1)
  BY <1>3, <1>4 DEF TicksOf, MinutesOf
<1>6. b \in Int /\ f - 1 \in Int /\ a \in Int /\ e - 1 \in Int
  OBVIOUS
<1>7. IsFiniteSet(b..(f - 1)) /\ IsFiniteSet(a..(e - 1))
  BY <1>6, FS_Interval
<1>8. QED BY <1>5, <1>7

LEMMA FiniteSeen ==
  ASSUME NEW O, Streams(O), NEW k
  PROVE  IsFiniteSet(SamplesIn(O, k))
<1>1. PICK f : f = [s \in SamplesIn(O, k) |-> s.seq]
  OBVIOUS
<1>2. \A s \in SamplesIn(O, k) : s.seq \in 1..MaxEvents /\ s.probe = k[2] /\ s \in O
  BY DEF SamplesIn, Streams, Observations
<1>3. f \in [SamplesIn(O, k) -> 1..MaxEvents]
  BY <1>1, <1>2
<1>4. \A s, o \in SamplesIn(O, k) : f[s] = f[o] => s = o
  BY <1>1, <1>2 DEF Streams
<1>5. f \in Injection(SamplesIn(O, k), 1..MaxEvents)
  BY <1>3, <1>4 DEF Injection, IsInjective
<1>6. IsFiniteSet(1..MaxEvents)
  <2>1. 1 \in Int /\ MaxEvents \in Int
    BY HistoryAssumption
  <2>2. QED BY <2>1, FS_Interval
<1>7. QED BY <1>5, <1>6, FS_Injection

LEMMA RegionIs ==
  ASSUME NEW k \in Parents \cup Fine, k[1] # "o"
  PROVE  k[3] \in Nat /\ Width[k[1]] \in Nat
<1>1. CASE k \in Parents
  BY <1>1, ParentIs
<1>2. CASE k \in Fine
  <2>1. k[1] = "m"
    BY <1>2 DEF Fine
  <2>2. QED BY <1>2, <2>1, FineIs, LastMinuteIs, WidthIs
<1>3. QED BY <1>1, <1>2

\* The ticks of a parent are those of its children, each in one of them.
LEMMA TicksSplit ==
  ASSUME NEW k \in Parents
  PROVE  /\ \A c \in ChildKeys(k) : /\ c[1] # "o" /\ c[2] = k[2] /\ c \in Parents \cup Fine
                                    /\ TicksOf(c) \subseteq TicksOf(k)
         /\ \A t \in TicksOf(k) : \E c \in ChildKeys(k) : t \in TicksOf(c)
         /\ \A c, d \in ChildKeys(k) : c # d => TicksOf(c) \cap TicksOf(d) = {}
         /\ IsFiniteSet(ChildKeys(k))
<1>1. PICK res : res = IF k[1] = "h" THEN "m" ELSE "h"
  OBVIOUS
<1>2. res \in Finer(k) /\ ChildKeys(k) = {Key(res, k[2], m) : m \in MinutesOf(k)}
  BY <1>1 DEF Finer, ChildKeys
<1>3. \A c \in ChildKeys(k) : c[1] # "o" /\ c[2] = k[2] /\ c \in Parents \cup Fine
  BY <1>2, ChildIs
<1>4. k \in Parents \cup Fine /\ k[1] # "o"
  BY ParentIs
<1>5. \A c \in ChildKeys(k) \cup {k} : c[3] \in Nat /\ Width[c[1]] \in Nat
  BY <1>3, <1>4, RegionIs
<1>6. \A c \in ChildKeys(k) \cup {k} : \A t : t \in TicksOf(c) <=> t \in Nat /\ Minute(t) \in MinutesOf(c)
  BY <1>5, TicksAre
<1>7. \A c \in ChildKeys(k) : TicksOf(c) \subseteq TicksOf(k)
  BY <1>6, ChildrenAre
<1>8. \A t \in TicksOf(k) : \E c \in ChildKeys(k) : t \in TicksOf(c)
  BY <1>6, ChildrenAre
<1>9. ASSUME NEW c \in ChildKeys(k), NEW d \in ChildKeys(k), NEW t \in TicksOf(c) \cap TicksOf(d)
      PROVE  c = d
  <2>1. Minute(t) \in MinutesOf(c) /\ Minute(t) \in MinutesOf(d)
    BY <1>6
  <2>2. c = Key(res, k[2], Minute(t)) /\ d = Key(res, k[2], Minute(t))
    BY <1>1, <2>1, ChildrenAre
  <2>3. QED BY <2>2
<1>10. IsFiniteSet(ChildKeys(k))
  <2>1. PICK f : f = [m \in MinutesOf(k) |-> Key(res, k[2], m)]
    OBVIOUS
  <2>2. f \in Surjection(MinutesOf(k), ChildKeys(k))
    BY <1>2, <2>1 DEF Surjection
  <2>3. IsFiniteSet(MinutesOf(k))
    BY <1>5, FiniteTicks
  <2>4. QED BY <2>2, <2>3, FS_Surjection
<1>11. QED BY <1>3, <1>7, <1>8, <1>9, <1>10

\* The ticks of a bucket with no status are the rest of them.
LEMMA UnknownIsTheRest ==
  ASSUME NEW G, NEW O, Streams(O), NEW k \in Parents
  PROVE  Cardinality(At(G, O, k, "UNKNOWN"))
           = Cardinality(TicksOf(k)) - Cardinality(At(G, O, k, "UP")) - Cardinality(At(G, O, k, "DOWN"))
<1>1. PICK T, A, B, C : /\ T = TicksOf(k) /\ A = At(G, O, k, "UP")
                        /\ B = At(G, O, k, "DOWN") /\ C = At(G, O, k, "UNKNOWN")
  OBVIOUS
<1>2. T = (A \cup B) \cup C /\ A \cap B = {} /\ (A \cup B) \cap C = {}
  BY <1>1, ThreeStatuses DEF At
<1>3. IsFiniteSet(T)
  BY <1>1, ParentIs, FiniteTicks
<1>4. A \in SUBSET T /\ B \in SUBSET T /\ C \in SUBSET T /\ (A \cup B) \in SUBSET T
  BY <1>2
<1>5. IsFiniteSet(A) /\ IsFiniteSet(B) /\ IsFiniteSet(C) /\ IsFiniteSet(A \cup B)
  BY <1>3, <1>4, FS_Subset
<1>6. /\ Cardinality(A) \in Nat /\ Cardinality(B) \in Nat
      /\ Cardinality(A \cup B) = Cardinality(A) + Cardinality(B)
  BY <1>2, <1>5, ApartAdd
<1>7. PICK D : D = A \cup B
  OBVIOUS
<1>8. Cardinality(C) \in Nat /\ Cardinality(D \cup C) = Cardinality(D) + Cardinality(C)
  BY <1>2, <1>5, <1>7, ApartAdd
<1>9. Cardinality(T) = Cardinality(A) + Cardinality(B) + Cardinality(C)
  BY <1>2, <1>6, <1>7, <1>8
<1>10. QED BY <1>1, <1>6, <1>8, <1>9

\* The parts of children that committed a row make up the whole, when the
\* others have none.
LEMMA SumOfChildren ==
  ASSUME NEW S, NEW A, Parts(S, A), NEW H \in SUBSET S, \A c \in S \ H : A[c] = {},
         NEW f, \A c \in H : f[c] = Cardinality(A[c])
  PROVE  SumFunctionOnSet(f, H) = Cardinality(Joined(S, A))
<1>1. Parts(H, A)
  BY FS_Subset DEF Parts
<1>2. Joined(H, A) = Joined(S, A)
  BY DEF Joined
<1>3. QED BY <1>1, <1>2, SumIsJoined

\* A merge of children that say what the evidence says of them says what it
\* says of the parent.
Faithful(G, O, child, c) ==
  IF child[c] = NoRollup THEN TruthFrom(G, O, c) = Nothing(c) ELSE RollupOf(child[c]) = TruthFrom(G, O, c)

LEMMA MergeIsTruth ==
  ASSUME NEW G, NEW O, Streams(O), NEW k \in Parents, NEW child, DOMAIN child = ChildKeys(k),
         \A c \in ChildKeys(k) : Faithful(G, O, child, c)
  PROVE  MergeChildren(k, child) = TruthFrom(G, O, k)
<1>1. PICK S : S = ChildKeys(k)
  OBVIOUS
<1>2. PICK H : H = {c \in DOMAIN child : child[c] # NoRollup}
  OBVIOUS
<1>3. H \in SUBSET S
  BY <1>1, <1>2
<1>4. /\ \A c \in S : c[1] # "o" /\ c[2] = k[2] /\ c \in Parents \cup Fine /\ TicksOf(c) \subseteq TicksOf(k)
      /\ \A t \in TicksOf(k) : \E c \in S : t \in TicksOf(c)
      /\ \A c, d \in S : c # d => TicksOf(c) \cap TicksOf(d) = {}
      /\ IsFiniteSet(S)
  BY <1>1, TicksSplit
<1>5. \A c \in S : IsFiniteSet(TicksOf(c))
  BY <1>4, RegionIs, FiniteTicks
<1>6. \A c \in H : RollupOf(child[c]) = TruthFrom(G, O, c)
  BY <1>1, <1>2, <1>3 DEF Faithful
<1>7. \A c \in S \ H : TruthFrom(G, O, c) = Nothing(c)
  BY <1>1, <1>2 DEF Faithful
<1>8. ASSUME NEW s \in {"UP", "DOWN"}
      PROVE  SumFunctionOnSet([c \in H |-> RollupOf(child[c]).time[s]], H) = Cardinality(At(G, O, k, s))
  <2>1. PICK A : A = [c \in S |-> At(G, O, c, s)]
    OBVIOUS
  <2>2. Parts(S, A)
    <3>1. \A c \in S : A[c] \in SUBSET TicksOf(c)
      BY <2>1 DEF At
    <3>2. \A c \in S : IsFiniteSet(A[c])
      BY <1>5, <3>1, FS_Subset
    <3>3. QED BY <1>4, <3>1, <3>2 DEF Parts
  <2>3. Joined(S, A) = At(G, O, k, s)
    BY <1>4, <2>1 DEF Joined, At
  <2>4. \A c \in S : TruthFrom(G, O, c).time[s] = Cardinality(A[c])
    BY <1>4, <2>1, TruthParts
  <2>5. \A c \in S \ H : A[c] = {}
    <3>1. \A c \in S \ H : Nothing(c).time[s] = 0
      BY <1>4, NothingParts
    <3>2. \A c \in S \ H : Cardinality(A[c]) = 0 /\ IsFiniteSet(A[c])
      BY <1>7, <2>2, <2>4, <3>1 DEF Parts
    <3>3. QED BY <3>2, FS_EmptySet
  <2>6. PICK f : f = [c \in H |-> RollupOf(child[c]).time[s]]
    OBVIOUS
  <2>7. \A c \in H : f[c] = Cardinality(A[c])
    BY <1>3, <1>6, <2>4, <2>6
  <2>8. SumFunctionOnSet(f, H) = Cardinality(Joined(S, A))
    BY <1>3, <2>2, <2>5, <2>7, SumOfChildren
  <2>9. QED BY <2>3, <2>6, <2>8
<1>9. SumFunctionOnSet([c \in H |-> RollupOf(child[c]).checks], H) = Cardinality(SamplesIn(O, k))
  <2>1. PICK A : A = [c \in S |-> SamplesIn(O, c)]
    OBVIOUS
  <2>2. Parts(S, A)
    <3>1. \A c \in S : IsFiniteSet(A[c])
      BY <2>1, FiniteSeen
    <3>2. QED BY <1>4, <2>1, <3>1 DEF Parts, SamplesIn
  <2>3. Joined(S, A) = SamplesIn(O, k)
    BY <1>4, <2>1 DEF Joined, SamplesIn
  <2>4. \A c \in S : TruthFrom(G, O, c).checks = Cardinality(A[c])
    BY <1>4, <2>1, TruthParts
  <2>5. \A c \in S \ H : A[c] = {}
    <3>1. \A c \in S \ H : Nothing(c).checks = 0
      BY <1>4, NothingParts
    <3>2. \A c \in S \ H : Cardinality(A[c]) = 0 /\ IsFiniteSet(A[c])
      BY <1>7, <2>2, <2>4, <3>1 DEF Parts
    <3>3. QED BY <3>2, FS_EmptySet
  <2>6. PICK f : f = [c \in H |-> RollupOf(child[c]).checks]
    OBVIOUS
  <2>7. \A c \in H : f[c] = Cardinality(A[c])
    BY <1>3, <1>6, <2>4, <2>6
  <2>8. SumFunctionOnSet(f, H) = Cardinality(Joined(S, A))
    BY <1>3, <2>2, <2>5, <2>7, SumOfChildren
  <2>9. QED BY <2>3, <2>6, <2>8
<1>10. k[1] # "o"
  BY ParentIs
<1>11. MergeChildren(k, child)
         = [time   |-> [s \in {"UP", "DOWN", "UNKNOWN"} |->
                          IF s # "UNKNOWN" THEN SumFunctionOnSet([c \in H |-> RollupOf(child[c]).time[s]], H)
                          ELSE Cardinality(TicksOf(k))
                                 - SumFunctionOnSet([c \in H |-> RollupOf(child[c]).time["UP"]], H)
                                 - SumFunctionOnSet([c \in H |-> RollupOf(child[c]).time["DOWN"]], H)],
            checks |-> SumFunctionOnSet([c \in H |-> RollupOf(child[c]).checks], H)]
  BY <1>2, Zenon DEF MergeChildren
<1>12. PICK n, u, d : /\ n = Cardinality(TicksOf(k)) /\ u = Cardinality(At(G, O, k, "UP"))
                      /\ d = Cardinality(At(G, O, k, "DOWN"))
  OBVIOUS
<1>13. MergeChildren(k, child)
         = [time   |-> [s \in {"UP", "DOWN", "UNKNOWN"} |->
                          IF s # "UNKNOWN" THEN Cardinality(At(G, O, k, s)) ELSE n - u - d],
            checks |-> Cardinality(SamplesIn(O, k))]
  BY <1>8, <1>9, <1>11, <1>12
<1>14. Cardinality(At(G, O, k, "UNKNOWN")) = n - u - d
  BY <1>12, UnknownIsTheRest
<1>15. QED BY <1>10, <1>13, <1>14, TruthParts

-----------------------------------------------------------------------------
(* Hours and days *)

\* An unmarked parent whose children say what the evidence says, says it too.
LEMMA ParentIsExact ==
  ASSUME HistoryShapes, ParentInv, NEW k \in Parents, dirty[k] = 0,
         \A c \in ChildKeys(k) : Stored(c) = Truth(c)
  PROVE  Stored(k) = Truth(k)
<1>1. PICK child : child = [c \in ChildKeys(k) |-> rows[c]]
  OBVIOUS
<1>2. Streams(obs)
  BY DEF HistoryShapes
<1>3. \A c \in ChildKeys(k) : Faithful(gaps, obs, child, c)
  <2>1. \A c : Truth(c) = TruthFrom(gaps, obs, c)
    BY TruthIsFrom
  <2>2. QED BY <1>1, <2>1 DEF Faithful, Stored
<1>4. Merges(rows, k) = Truth(k)
  <2>1. DOMAIN child = ChildKeys(k)
    BY <1>1
  <2>2. MergeChildren(k, child) = TruthFrom(gaps, obs, k)
    BY <1>2, <1>3, <2>1, MergeIsTruth
  <2>3. QED BY <1>1, <2>2, TruthIsFrom DEF Merges
<1>5. CASE rows[k] = {Merges(rows, k)}
  <2>1. RollupOf({Merges(rows, k)}) = Merges(rows, k)
    BY DEF RollupOf
  <2>2. QED BY <1>4, <1>5, <2>1 DEF Stored, NoRollup
<1>6. CASE Untouched(rows, k)
  <2>1. PICK none : none = [c \in ChildKeys(k) |-> NoRollup]
    OBVIOUS
  <2>2. Stored(k) = Nothing(k) /\ \A c \in ChildKeys(k) : Nothing(c) = TruthFrom(gaps, {}, c)
    BY <1>6, NothingIs DEF Stored, Untouched
  <2>3. child = none
    BY <1>1, <1>6, <2>1 DEF Untouched
  <2>4. \A c \in ChildKeys(k) : Faithful(gaps, {}, none, c)
    BY <2>1, <2>2 DEF Faithful
  <2>5. Streams({})
    BY DEF Streams
  <2>6. MergeChildren(k, none) = TruthFrom(gaps, {}, k)
    <3>1. DOMAIN none = ChildKeys(k)
      BY <2>1
    <3>2. QED BY <2>4, <2>5, <3>1, MergeIsTruth
  <2>7. QED BY <1>1, <1>4, <2>2, <2>3, <2>6, NothingIs DEF Merges
<1>7. QED BY <1>5, <1>6 DEF ParentInv, Whole

\* A closed parent's children are closed.
LEMMA ChildrenClose ==
  ASSUME NEW k \in Parents, NEW c \in ChildKeys(k), Closed(k), now \in Nat
  PROVE  Closed(c)
<1>1. c \in Parents \cup Fine /\ c[1] # "o" /\ k[1] # "o" /\ k \in Parents \cup Fine
  BY TicksSplit, ParentIs
<1>2. PICK a, v, b, w \in Nat : a = c[3] /\ v = Width[c[1]] /\ b = k[3] /\ w = Width[k[1]]
  BY <1>1, RegionIs
<1>3. PICK e, f \in Nat : e = a + v /\ f = b + w
  OBVIOUS
<1>4. MinutesOf(c) = a..(e - 1) /\ MinutesOf(k) = b..(f - 1) /\ f <= now
  <2>1. MinutesOf(c) = a..(a + v - 1) /\ MinutesOf(k) = b..(b + w - 1) /\ b + w <= now
    BY <1>2, Zenon DEF MinutesOf, Closed
  <2>2. QED BY <1>3, <2>1
<1>5. MinutesOf(c) \subseteq MinutesOf(k)
  BY ChildrenAre
<1>6. v # 0
  <2>1. CASE c \in Parents
    BY <1>2, <2>1, ParentIs
  <2>2. CASE c \in Fine
    BY <1>2, <2>2, WidthIs DEF Fine
  <2>3. QED BY <1>1, <2>1, <2>2
<1>7. e - 1 \in a..(e - 1)
  BY <1>3, <1>6
<1>8. e <= now
  BY <1>4, <1>5, <1>7
<1>9. c[3] + Width[c[1]] <= now
  BY <1>2, <1>3, <1>8
<1>10. QED BY <1>9 DEF Closed

\* What a child may forget its parent may.
LEMMA ForgettableChild ==
  ASSUME NEW k \in Parents, NEW c \in ChildKeys(k), c \in Fine \cup Parents, c[1] # "o",
         Forgettable(c)
  PROVE  Forgettable(k)
<1>1. PICK p \in Probes, m \in MinutesOf(c) : p = c[2] /\ BeyondRepair(p, m)
  BY DEF Forgettable
<1>2. m \in MinutesOf(k) /\ c = Key(IF k[1] = "h" THEN "m" ELSE "h", k[2], m)
  BY ChildrenAre
<1>3. c[2] = k[2] /\ k[1] # "o"
  BY <1>2 DEF Key, Parents
<1>4. QED BY <1>1, <1>2, <1>3 DEF Forgettable

LEMMA RestIsWhole ==
  ASSUME HistoryIInv, ParentInv, now \in Nat
  PROVE  ParentsAreExact
<1>1. SUFFICES ASSUME Quiescent
               PROVE  \A k \in Parents : Closed(k) /\ ~ Forgettable(k) => Stored(k) = Truth(k)
  BY DEF ParentsAreExact, Parents
<1>2. HistoryShapes
  BY DEF HistoryIInv
<1>3. \A k \in Fine : Closed(k) /\ ~ Forgettable(k) => Stored(k) = Truth(k)
  BY <1>1, RestIsExact DEF MinutesAreExact, Fine
<1>4. \A k \in Parents : Closed(k) => dirty[k] = 0
  BY <1>1 DEF Quiescent, Candidates, Parents
<1>5. ASSUME NEW k \in Parents, Closed(k), ~ Forgettable(k), k[1] = "h" PROVE Stored(k) = Truth(k)
  <2>1. \A c \in ChildKeys(k) : c \in Fine /\ c[1] # "o"
    <3>1. "m" \in Finer(k) /\ ChildKeys(k) = {Key("m", k[2], m) : m \in MinutesOf(k)}
      BY <1>5 DEF Finer, ChildKeys
    <3>2. \A m \in MinutesOf(k) : Key("m", k[2], m)[1] = "m"
      BY DEF Key
    <3>3. QED BY <3>1, <3>2, ChildIs
  <2>2. \A c \in ChildKeys(k) : ~ Forgettable(c)
    BY <1>5, <2>1, ForgettableChild
  <2>3. \A c \in ChildKeys(k) : Stored(c) = Truth(c)
    BY <1>3, <1>5, <2>1, <2>2, ChildrenClose
  <2>4. QED BY <1>2, <1>4, <1>5, <2>3, ParentIsExact
<1>6. ASSUME NEW k \in Parents, Closed(k), ~ Forgettable(k), k[1] = "d" PROVE Stored(k) = Truth(k)
  <2>1. \A c \in ChildKeys(k) : c \in Parents /\ c[1] = "h"
    <3>1. "h" \in Finer(k) /\ ChildKeys(k) = {Key("h", k[2], m) : m \in MinutesOf(k)}
      BY <1>6 DEF Finer, ChildKeys
    <3>2. QED BY <3>1, ChildIs
  <2>2. \A c \in ChildKeys(k) : ~ Forgettable(c)
    BY <1>6, <2>1, ForgettableChild
  <2>3. \A c \in ChildKeys(k) : Stored(c) = Truth(c)
    BY <1>5, <1>6, <2>1, <2>2, ChildrenClose
  <2>4. QED BY <1>2, <1>4, <1>6, <2>3, ParentIsExact
<1>7. QED BY <1>5, <1>6 DEF Parents

\* Once nothing is left to do, every closed minute, hour and day says what all
\* the evidence says, and nothing an operator cleared comes back, however many
\* probes, workers, samples, clock steps, losses and clears there were: no
\* marker, carried sample, repair range or gap is lost between ProjectHistory's
\* snapshot and its commit, and no parent is merged from a child that changes
\* afterwards. Left out are exactly the buckets of a sample that is older than a
\* gap and was made after all the minutes the gap re-marks (expandHistoryGap).
THEOREM HistoryExact == HistorySpec => []HistoryIsExact
<1>1. HistoryInit => HistoryIInv /\ ParentInv
  BY HistoryStarts, ParentsStart
<1>2. HistoryIInv /\ ParentInv /\ [HistoryNext]_historyVars => HistoryIInv' /\ ParentInv'
  BY HistoryKeeps, ParentsKeep DEF HistoryIInv
<1>3. HistoryIInv /\ ParentInv /\ now \in Nat => MinutesAreExact /\ ParentsAreExact
  BY RestIsExact, RestIsWhole
<1>4. HistorySpec => [](MinutesAreExact /\ ParentsAreExact)
  BY <1>1, <1>2, <1>3, ClockCounts, PTL DEF HistorySpec
<1>5. ClearedStaysCleared /\ MinutesAreExact /\ ParentsAreExact => HistoryIsExact
  BY DEF HistoryIsExact
<1>6. QED BY <1>4, <1>5, ClearedSound, PTL
=============================================================================
