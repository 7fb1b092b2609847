------------------------- MODULE ProbeReplayProofs -------------------------
(***************************************************************************)
(* The theorems about ProbeReplay, for any number of events, any budget,   *)
(* batch size and limit on gaps, any length of the wire and any number of  *)
(* failures.                                                               *)
(*                                                                         *)
(* The argument.  ReplayInv relates the two stores and what is between     *)
(* them.  Stores: the edge's rows and gaps partition what it owes, the     *)
(* hub's receipts and gaps partition what it settled, and what the edge    *)
(* pruned is known at the hub or was reported.  Pumping and Wire: every    *)
(* frame starts no later than behind the hub's cursor, and the batch in    *)
(* flight tells what the queue holds.  Answered: a frame or an ACK on the  *)
(* wire belongs to the batch completed last or to the one in flight, and   *)
(* none of the older kind comes after one of the newer.                    *)
(*                                                                         *)
(* An edge that is never restored from a copy numbers its events without a *)
(* repetition.  Mirror says that the hub and every frame then show the     *)
(* edge's own record, from which the order of the current state and the    *)
(* refinement of ReplayedStream follow.                                    *)
(***************************************************************************)
EXTENDS ProbeReplay, FiniteSetTheorems, WellFoundedInduction, TLAPS

-----------------------------------------------------------------------------
(* Numbers *)

\* Every set of numbers that is not empty has a least one.
LEMMA LeastNat ==
  ASSUME NEW T \in SUBSET Nat, T # {}
  PROVE  \E x \in T : \A y \in T : x <= y
<1>1. PICK x \in T : \A y \in T : ~ (<<y, x>> \in OpToRel(<, Nat))
  BY NatLessThanWellFounded, WFMin
<1>2. \A y \in T : ~(y < x)
  <2> TAKE y \in T
  <2>1. x \in Nat /\ y \in Nat
    OBVIOUS
  <2>2. y < x => <<y, x>> \in OpToRel(<, Nat)
    BY <2>1 DEF OpToRel
  <2> QED BY <1>1, <2>2, Zenon
<1>3. QED BY <1>2

\* Induction, over the set of the numbers for which a fact holds.
LEMMA NatSet ==
  ASSUME NEW S \in SUBSET Nat, 0 \in S, \A n \in S : n + 1 \in S
  PROVE  S = Nat
<1>1. SUFFICES ASSUME Nat \ S # {} PROVE FALSE
  OBVIOUS
<1>2. PICK x \in Nat \ S : \A y \in Nat \ S : x <= y
  BY <1>1, LeastNat
<1>3. x # 0 /\ x - 1 \in Nat /\ ~(x <= x-1)
  BY <1>2
<1>4. x - 1 \in S
  BY <1>2, <1>3
<1>5. (x - 1) + 1 = x
  BY <1>2
<1>6. QED BY <1>2, <1>4, <1>5

\* The greatest of a bounded set of numbers.
LEMMA MaxOf ==
  ASSUME NEW S \in SUBSET Nat, S # {}, NEW b \in Nat, \A s \in S : s <= b
  PROVE  Max(S) \in S /\ \A s \in S : s <= Max(S)
<1> DEFINE B == {n \in Nat : \A s \in S : s <= n}
<1>1. PICK m \in B : \A y \in B : m <= y
  <2>1. b \in B
    OBVIOUS
  <2> QED BY <2>1, LeastNat
<1>2. m \in S
  <2>1. SUFFICES ASSUME m \notin S PROVE FALSE
    OBVIOUS
  <2>2. PICK s \in S : TRUE
    OBVIOUS
  <2>3. \A t \in S : t < m
    BY <1>1, <2>1
  <2>4. m # 0 /\ m - 1 \in Nat /\ \A t \in S : t <= m - 1
    BY <2>2, <2>3, <1>1
  <2>5. m - 1 \in B
    BY <2>4
  <2> QED BY <2>5, <1>1
<1>3. \E x \in S : \A y \in S : x >= y
  BY <1>1, <1>2
<1> QED BY <1>3 DEF Max

\* The least of a set of numbers.
LEMMA MinOf ==
  ASSUME NEW S \in SUBSET Nat, S # {}
  PROVE  Min(S) \in S /\ \A s \in S : Min(S) <= s
  BY LeastNat DEF Min

\* The greater of two numbers.
LEMMA MaxOfTwo ==
  ASSUME NEW a \in Nat, NEW b \in Nat
  PROVE  Max({a, b}) = IF a <= b THEN b ELSE a
<1>1. PICK S : S = {a, b}
  OBVIOUS
<1>2. PICK n \in Nat : n = a + b
  OBVIOUS
<1>3. S \in SUBSET Nat /\ S # {} /\ \A s \in S : s <= n
  BY <1>1, <1>2
<1>4. Max(S) \in S /\ \A s \in S : s <= Max(S)
  BY <1>3, MaxOf
<1>5. QED BY <1>1, <1>4

-----------------------------------------------------------------------------
(* The edge's queue *)

Event == [id : Nat, obs : BOOLEAN]
Span == [from : Nat, through : Nat]

QueueShape(q) ==
  /\ q \in [made : Seq(Event), acked : Nat, rows : SUBSET Nat, gaps : SUBSET Span]
  /\ q.acked <= Len(q.made)
  /\ q.rows \subseteq (q.acked + 1)..Len(q.made)

GapsApart(gaps, low, high) ==
  /\ gaps \subseteq Span
  /\ \A g \in gaps : low < g.from /\ g.from <= g.through /\ g.through <= high
  /\ \A g, h \in gaps : g = h \/ g.through < h.from \/ h.through < g.from

QueueOK(q) ==
  /\ QueueShape(q)
  /\ GapsApart(q.gaps, q.acked, Len(q.made))
  /\ \A s \in (q.acked + 1)..Len(q.made) : s \in q.rows <=> ~ Covers(q.gaps, s)

\* Evicting a sequence the edge owes keeps every sequence accounted for and forgets
\* no gap (evictTelemetry with its merges and the collapse to one span).
LEMMA Evict ==
  ASSUME NEW q, QueueOK(q), NEW s \in (q.acked + 1)..Len(q.made),
         NEW r, r = evictTelemetry(q, s)
  PROVE  /\ QueueOK(r) /\ r.made = q.made /\ r.acked = q.acked
         /\ \A x \in Nat : Covers(q.gaps, x) => Covers(r.gaps, x)
<1> DEFINE touching == {g \in q.gaps : g.from <= s + 1 /\ g.through + 1 >= s}
           F == {s} \cup {g.from : g \in touching}
           T == {s} \cup {g.through : g \in touching}
           gap == [from |-> Min(F), through |-> Max(T)]
           gaps == (q.gaps \ touching) \cup {gap}
           FF == {g.from : g \in gaps}
           TT == {g.through : g \in gaps}
           span == [from |-> Min(FF), through |-> Max(TT)]
<1>0. /\ s \in Nat /\ q.acked \in Nat /\ Len(q.made) \in Nat /\ q.gaps \subseteq Span
      /\ q.acked < s /\ s <= Len(q.made) /\ q.made \in Seq(Event) /\ q.rows \in SUBSET Nat
      /\ q \in [made : Seq(Event), acked : Nat, rows : SUBSET Nat, gaps : SUBSET Span]
  BY DEF QueueOK, QueueShape
<1>1. \A g \in q.gaps : /\ g.from \in Nat /\ g.through \in Nat
                        /\ q.acked < g.from /\ g.from <= g.through /\ g.through <= Len(q.made)
  BY DEF QueueOK, GapsApart, Span
<1>2. /\ Min(F) \in F /\ \A x \in F : Min(F) <= x
      /\ Max(T) \in T /\ \A x \in T : x <= Max(T)
  <2>1. F \in SUBSET Nat /\ F # {} /\ T \in SUBSET Nat /\ T # {} /\ \A x \in T : x <= Len(q.made)
    BY <1>0, <1>1
  <2> HIDE DEF F, T
  <2>2. QED BY <2>1, <1>0, MinOf, MaxOf
<1>3. PICK lo \in Nat, hi \in Nat : /\ lo = Min(F) /\ hi = Max(T) /\ lo \in F /\ hi \in T
                                    /\ (\A x \in F : lo <= x) /\ (\A x \in T : x <= hi)
  <2>1. F \subseteq Nat /\ T \subseteq Nat
    BY <1>0, <1>1
  <2> HIDE DEF F, T
  <2>2. QED BY <1>2, <2>1
<1>4. /\ q.acked < lo /\ lo <= s /\ s <= hi /\ hi <= Len(q.made)
      /\ \A g \in touching : lo <= g.from /\ g.through <= hi
  BY <1>0, <1>1, <1>3
<1>5. \A x \in lo..hi : x = s \/ \E g \in touching : g.from <= x /\ x <= g.through
  <2> TAKE x \in lo..hi
  <2>1. CASE x < s
    <3>0. lo # s
      BY <1>0, <2>1
    <3>1. PICK g \in touching : lo = g.from
      BY <1>3, <3>0, Zenon
    <3>2. QED BY <1>0, <1>1, <2>1, <3>1
  <2>2. CASE x > s
    <3>0. hi # s
      BY <1>0, <2>2
    <3>1. PICK g \in touching : hi = g.through
      BY <1>3, <3>0, Zenon
    <3>2. QED BY <1>0, <1>1, <2>2, <3>1
  <2>3. QED BY <2>1, <2>2, <1>0
<1>6. \A h \in q.gaps \ touching : h.through < lo \/ hi < h.from
  <2> TAKE h \in q.gaps \ touching
  <2>1. h.from \in Nat /\ h.through \in Nat /\ h.from <= h.through
    BY <1>1
  <2>2. \A g \in touching : g.through < h.from \/ h.through < g.from
    BY DEF QueueOK, GapsApart
  <2>3. CASE h.from > s + 1
    <3>1. hi = s \/ \E g \in touching : hi = g.through
      BY <1>3
    <3>2. QED BY <1>0, <1>1, <2>1, <2>2, <2>3, <3>1
  <2>4. CASE h.through + 1 < s
    <3>1. lo = s \/ \E g \in touching : lo = g.from
      BY <1>3
    <3>2. QED BY <1>0, <1>1, <2>1, <2>2, <2>4, <3>1
  <2>5. QED BY <1>0, <2>1, <2>3, <2>4
<1>7. gap \in Span /\ gap.from = lo /\ gap.through = hi
  BY <1>3 DEF Span
<1>8. GapsApart(gaps, q.acked, Len(q.made))
  <2>1. gaps \subseteq Span
    BY <1>0, <1>7
  <2>2. ASSUME NEW g \in gaps PROVE q.acked < g.from /\ g.from <= g.through /\ g.through <= Len(q.made)
    BY <1>0, <1>1, <1>4, <1>7
  <2>3. ASSUME NEW g \in gaps, NEW h \in gaps PROVE g = h \/ g.through < h.from \/ h.through < g.from
    <3>1. CASE g # gap /\ h # gap
      BY <3>1 DEF QueueOK, GapsApart
    <3>2. CASE g = gap \/ h = gap
      BY <3>2, <1>6, <1>7
    <3>3. QED BY <3>1, <3>2
  <2> HIDE DEF gaps
  <2>4. QED BY <2>1, <2>2, <2>3 DEF GapsApart
<1>9. \A x \in Nat : Covers(gaps, x) <=> (x = s \/ Covers(q.gaps, x))
  <2> TAKE x \in Nat
  <2>1. ASSUME Covers(gaps, x) PROVE x = s \/ Covers(q.gaps, x)
    <3>1. PICK g \in gaps : g.from <= x /\ x <= g.through
      BY <2>1 DEF Covers
    <3>2. CASE g = gap
      <4>1. x \in lo..hi
        BY <1>7, <3>1, <3>2
      <4>2. QED BY <1>5, <4>1 DEF Covers
    <3>3. QED BY <3>1, <3>2 DEF Covers
  <2>2. ASSUME x = s \/ Covers(q.gaps, x) PROVE Covers(gaps, x)
    <3>1. CASE x = s
      BY <1>4, <1>7, <3>1 DEF Covers
    <3>2. CASE Covers(q.gaps, x)
      <4>1. PICK g \in q.gaps : g.from <= x /\ x <= g.through
        BY <3>2 DEF Covers
      <4>2. CASE g \in touching
        <5>1. gap.from <= x /\ x <= gap.through
          BY <1>1, <1>4, <1>7, <4>1, <4>2
        <5>2. QED BY <5>1 DEF Covers
      <4>3. CASE g \notin touching
        BY <4>1, <4>3 DEF Covers
      <4>4. QED BY <4>2, <4>3
    <3>3. QED BY <2>2, <3>1, <3>2
  <2>3. QED BY <2>1, <2>2
<1>10. CASE Cardinality(gaps) <= MaxGaps
  <2>1. r = [q EXCEPT !.gaps = gaps, !.rows = @ \ {s}]
    BY <1>10 DEF evictTelemetry
  <2> HIDE DEF gaps
  <2>2. /\ r \in [made : Seq(Event), acked : Nat, rows : SUBSET Nat, gaps : SUBSET Span]
        /\ r.made = q.made /\ r.acked = q.acked /\ r.gaps = gaps /\ r.rows = q.rows \ {s}
    BY <1>0, <1>8, <2>1 DEF GapsApart
  <2>3. QueueShape(r)
    BY <2>2 DEF QueueOK, QueueShape
  <2>4. \A x \in (q.acked + 1)..Len(q.made) : x \in r.rows <=> ~ Covers(r.gaps, x)
    BY <1>0, <1>9, <2>2 DEF QueueOK
  <2>5. QED BY <1>8, <1>9, <2>2, <2>3, <2>4 DEF QueueOK
<1>11. CASE ~(Cardinality(gaps) <= MaxGaps)
  <2>1. r = [q EXCEPT !.gaps = {span}, !.rows = @ \ (span.from..span.through)]
    BY <1>11 DEF evictTelemetry
  <2>2. gap \in gaps
    OBVIOUS
  <2> HIDE DEF gaps, gap
  <2>3. \A g \in gaps : /\ g.from \in Nat /\ g.through \in Nat
                        /\ q.acked < g.from /\ g.from <= g.through /\ g.through <= Len(q.made)
    BY <1>8 DEF GapsApart, Span
  <2>4. /\ Min(FF) \in FF /\ \A x \in FF : Min(FF) <= x
        /\ Max(TT) \in TT /\ \A x \in TT : x <= Max(TT)
    <3>1. FF \in SUBSET Nat /\ FF # {} /\ TT \in SUBSET Nat /\ TT # {} /\ \A x \in TT : x <= Len(q.made)
      BY <2>2, <2>3
    <3>2. QED BY <3>1, <1>0, MinOf, MaxOf
  <2>5. PICK from \in Nat, through \in Nat : from = Min(FF) /\ through = Max(TT)
    BY <2>3, <2>4
  <2>6. span \in Span /\ span.from = from /\ span.through = through
    BY <2>5 DEF Span
  <2>7. /\ q.acked < from /\ from <= through /\ through <= Len(q.made)
        /\ \A g \in gaps : from <= g.from /\ g.through <= through
    <3>1. \A g \in gaps : from <= g.from /\ g.through <= through
      BY <2>4, <2>5
    <3>2. q.acked < from /\ through <= Len(q.made)
      BY <2>3, <2>4, <2>5
    <3>3. gap.from \in Nat /\ gap.through \in Nat /\ gap.from <= gap.through
      BY <2>2, <2>3
    <3>4. QED BY <2>2, <3>1, <3>2, <3>3
  <2> HIDE DEF span
  <2>8. /\ r \in [made : Seq(Event), acked : Nat, rows : SUBSET Nat, gaps : SUBSET Span]
        /\ r.made = q.made /\ r.acked = q.acked /\ r.gaps = {span} /\ r.rows = q.rows \ (from..through)
    BY <1>0, <2>1, <2>6
  <2>9. QueueShape(r)
    BY <2>8 DEF QueueOK, QueueShape
  <2>10. GapsApart(r.gaps, q.acked, Len(q.made))
    BY <2>6, <2>7, <2>8 DEF GapsApart
  <2>11. \A x \in Nat : Covers(r.gaps, x) <=> x \in from..through
    BY <2>6, <2>8 DEF Covers
  <2>12. \A x \in Nat : x = s \/ Covers(q.gaps, x) => Covers(r.gaps, x)
    <3> SUFFICES ASSUME NEW x \in Nat, x = s \/ Covers(q.gaps, x) PROVE x \in from..through
      BY <2>11
    <3>1. PICK g \in gaps : g.from <= x /\ x <= g.through
      BY <1>9 DEF Covers
    <3>2. QED BY <2>3, <2>7, <3>1
  <2>13. \A x \in (q.acked + 1)..Len(q.made) : x \in r.rows <=> ~ Covers(r.gaps, x)
    <3> TAKE x \in (q.acked + 1)..Len(q.made)
    <3>1. x \in Nat /\ (x \in q.rows <=> ~ Covers(q.gaps, x))
      BY <1>0 DEF QueueOK
    <3>2. QED BY <2>8, <2>11, <2>12, <3>1
  <2>14. QED BY <2>8, <2>9, <2>10, <2>12, <2>13 DEF QueueOK
<1>12. QED BY <1>10, <1>11

\* What retention leaves of a queue.
Retained(q, r) ==
  /\ QueueOK(r) /\ r.made = q.made /\ r.acked = q.acked
  /\ \A x \in Nat : Covers(q.gaps, x) => Covers(r.gaps, x)

\* The same, of the queue evictTelemetry returns.
LEMMA Evicted ==
  ASSUME NEW q, QueueOK(q), NEW s \in (q.acked + 1)..Len(q.made)
  PROVE  Retained(q, evictTelemetry(q, s))
<1>1. PICK r : r = evictTelemetry(q, s)
  OBVIOUS
<1>2. QED BY <1>1, Evict DEF Retained

\* What retention picks as the next victim is owed.
LEMMA VictimIsOwed ==
  ASSUME NEW q, QueueOK(q), q.rows # {}
  PROVE  Victim(q) \in (q.acked + 1)..Len(q.made)
<1> DEFINE samples == {s \in q.rows : q.made[s].obs}
<1>1. q.rows \subseteq (q.acked + 1)..Len(q.made) /\ q.rows \subseteq Nat
  BY DEF QueueOK, QueueShape
<1>2. CASE samples # {}
  <2>1. samples \in SUBSET Nat /\ samples \subseteq q.rows
    BY <1>1
  <2>2. Victim(q) = Min(samples)
    BY <1>2 DEF Victim
  <2> HIDE DEF samples
  <2>3. QED BY <1>1, <1>2, <2>1, <2>2, MinOf
<1>3. CASE samples = {}
  <2>1. Victim(q) = Min(q.rows)
    BY <1>3 DEF Victim
  <2>2. QED BY <1>1, <2>1, MinOf
<1>4. QED BY <1>2, <1>3

\* The queues a run of retainTelemetry goes through.
Trace(f, N, q, obs, incoming, old) ==
  f = [n \in 0..N |-> IF n = 0 THEN q ELSE RetainStep(f[n - 1], n, obs, incoming, old)]

\* The recursive function of retainTelemetry exists and each value follows from the
\* one before it.
LEMMA RetainComputes ==
  ASSUME NEW q, NEW obs, NEW incoming, NEW old, NEW N \in Nat, N = Len(old) + MaxSeq
  PROVE  \E f : /\ Trace(f, N, q, obs, incoming, old)
                /\ retainTelemetry(q, obs, incoming, old) = f[N]
<1> DEFINE Is(f, m) == f = [n \in 0..m |-> IF n = 0 THEN q ELSE RetainStep(f[n - 1], n, obs, incoming, old)]
           S == {m \in Nat : \E f : Is(f, m)}
<1>1. 0 \in S
  <2> DEFINE g == [n \in 0..0 |-> q]
  <2>1. Is(g, 0)
    OBVIOUS
  <2>2. QED BY <2>1
<1>2. ASSUME NEW m \in S PROVE m + 1 \in S
  <2>0. m \in Nat
    OBVIOUS
  <2>1. PICK f : Is(f, m)
    OBVIOUS
  <2> DEFINE g == [n \in 0..(m+1) |-> IF n = m + 1 THEN RetainStep(f[m], m + 1, obs, incoming, old) ELSE f[n]]
  <2>2. \A n \in 0..m : g[n] = f[n] /\ f[n] = IF n = 0 THEN q ELSE RetainStep(f[n - 1], n, obs, incoming, old)
    BY <2>1
  <2>3. \A n \in 0..(m+1) : g[n] = IF n = 0 THEN q ELSE RetainStep(g[n - 1], n, obs, incoming, old)
    <3> TAKE n \in 0..(m+1)
    <3>1. CASE n = m + 1
      <4>1. m \in Nat /\ n # 0 /\ n - 1 = m /\ g[m] = f[m] /\ g[n] = RetainStep(f[m], m + 1, obs, incoming, old)
        BY <2>0, <2>2, <3>1
      <4>2. QED BY <3>1, <4>1
    <3>2. CASE n \in 0..m /\ n # 0
      <4>1. n - 1 \in 0..m /\ n \in 0..m
        BY <3>2
      <4> HIDE DEF g
      <4>2. QED BY <2>2, <3>2, <4>1
    <3>3. CASE n = 0
      <4>1. 0 \in 0..m
        BY <2>0
      <4> HIDE DEF g
      <4>2. g[0] = q
        BY <2>2, <4>1
      <4>3. QED BY <3>3, <4>2
    <3>4. QED BY <3>1, <3>2, <3>3
  <2>4. Is(g, m + 1)
    BY <2>3
  <2> HIDE DEF g
  <2>5. m + 1 \in Nat /\ \E h : Is(h, m + 1)
    BY <2>0, <2>4
  <2>6. QED BY <2>5
<1>3. N \in S
  <2>1. S \in SUBSET Nat
    OBVIOUS
  <2> HIDE DEF S
  <2>2. QED BY <1>1, <1>2, <2>1, NatSet
<1>4. PICK f : Is(f, N)
  BY <1>3
<1>5. Is(CHOOSE h : Is(h, N), N)
  BY <1>4
<1>6. retainTelemetry(q, obs, incoming, old) = (CHOOSE h : Is(h, N))[N]
  BY DEF retainTelemetry
<1>7. QED BY <1>5, <1>6 DEF Trace

\* Retention keeps the queue accounted for, whatever it evicts.
LEMMA Retain ==
  ASSUME NEW q, QueueOK(q), NEW obs, NEW incoming,
         NEW old, Len(old) \in Nat, \A i \in 1..Len(old) : old[i] \in (q.acked + 1)..Len(q.made),
         MaxSeq \in Nat
  PROVE  Retained(q, retainTelemetry(q, obs, incoming, old))
<1>1. PICK N \in Nat : N = Len(old) + MaxSeq
  OBVIOUS
<1>2. PICK f : /\ Trace(f, N, q, obs, incoming, old)
               /\ retainTelemetry(q, obs, incoming, old) = f[N]
  BY <1>1, RetainComputes
<1>3. \A n \in 0..N : f[n] = IF n = 0 THEN q ELSE RetainStep(f[n - 1], n, obs, incoming, old)
  BY <1>2, Zenon DEF Trace
<1> DEFINE S == {n \in Nat : n \in 0..N => Retained(q, f[n])}
<1>4. 0 \in S
  <2>1. f[0] = q
    BY <1>1, <1>3
  <2>2. QED BY <2>1 DEF Retained
<1>5. ASSUME NEW n \in S PROVE n + 1 \in S
  <2>0. n \in Nat
    OBVIOUS
  <2>1. SUFFICES ASSUME n + 1 \in 0..N PROVE Retained(q, f[n + 1])
    BY <2>0
  <2>2. Retained(q, f[n]) /\ n + 1 # 0 /\ (n + 1) - 1 = n
    BY <1>1, <2>0, <2>1
  <2>3. f[n + 1] = RetainStep(f[n], n + 1, obs, incoming, old)
    BY <1>3, <2>1, <2>2
  <2>4. PICK p : p = f[n] /\ QueueOK(p) /\ Retained(q, p)
    BY <2>2 DEF Retained
  <2>5. Retained(p, RetainStep(p, n + 1, obs, incoming, old))
    <3>1. CASE n + 1 <= Len(old)
      <4>1. old[n + 1] \in (p.acked + 1)..Len(p.made)
        BY <2>0, <2>4, <3>1 DEF Retained
      <4>2. QED BY <2>4, <3>1, <4>1, Evicted DEF RetainStep
    <3>2. CASE ~(n + 1 <= Len(old)) /\ (p.rows = {} \/ Fits(p, obs, incoming))
      <4>1. RetainStep(p, n + 1, obs, incoming, old) = p
        BY <3>2 DEF RetainStep
      <4>2. QED BY <2>4, <4>1 DEF Retained
    <3>3. CASE ~(n + 1 <= Len(old)) /\ ~(p.rows = {} \/ Fits(p, obs, incoming))
      <4>1. Victim(p) \in (p.acked + 1)..Len(p.made)
        BY <2>4, <3>3, VictimIsOwed
      <4>2. RetainStep(p, n + 1, obs, incoming, old) = evictTelemetry(p, Victim(p))
        BY <3>3 DEF RetainStep
      <4>3. QED BY <2>4, <4>1, <4>2, Evicted
    <3>4. QED BY <3>1, <3>2, <3>3
  <2>6. QED BY <2>3, <2>4, <2>5 DEF Retained
<1>6. N \in S
  <2>1. S \in SUBSET Nat
    OBVIOUS
  <2> HIDE DEF S
  <2>2. QED BY <1>4, <1>5, <2>1, NatSet
<1>7. QED BY <1>2, <1>6

\* What appending an event makes of a queue.
Appended(q, r, event) ==
  /\ QueueOK(r) /\ r.made = Append(q.made, event) /\ r.acked = q.acked
  /\ \A x \in Nat : Covers(q.gaps, x) => Covers(r.gaps, x)

\* An append evicts, then numbers the event after the last one.
LEMMA AppendEvent ==
  ASSUME NEW q, QueueOK(q), NEW event \in Event,
         NEW old, Len(old) \in Nat, \A i \in 1..Len(old) : old[i] \in (q.acked + 1)..Len(q.made),
         MaxSeq \in Nat
  PROVE  Appended(q, appendTelemetry(q, event, old), event)
<1>1. PICK p : p = retainTelemetry(q, event.obs, RowBytes, old) /\ Retained(q, p)
  BY Retain
<1>2. PICK n \in Nat : n = Len(q.made) /\ n = Len(p.made)
  BY <1>1 DEF QueueOK, QueueShape, Retained
<1>3. PICK r : r = appendTelemetry(q, event, old) /\ r = [p EXCEPT !.made = Append(@, event), !.rows = @ \cup {n + 1}]
  BY <1>1, <1>2 DEF appendTelemetry, Created
<1>4. /\ p \in [made : Seq(Event), acked : Nat, rows : SUBSET Nat, gaps : SUBSET Span] /\ p.acked <= n
      /\ p.rows \subseteq (p.acked + 1)..n /\ p.made = q.made /\ p.acked = q.acked
  BY <1>1, <1>2 DEF QueueOK, QueueShape, Retained
<1>5. /\ r \in [made : Seq(Event), acked : Nat, rows : SUBSET Nat, gaps : SUBSET Span]
      /\ r.made = Append(p.made, event) /\ r.acked = p.acked /\ r.rows = p.rows \cup {n + 1} /\ r.gaps = p.gaps
      /\ Len(r.made) = n + 1
  <2>1. p.made \in Seq(Event) /\ Append(p.made, event) \in Seq(Event) /\ Len(Append(p.made, event)) = n + 1
    BY <1>2, <1>4
  <2>2. PICK m \in Seq(Event) : m = Append(p.made, event)
    BY <2>1
  <2>3. p.rows \cup {n + 1} \in SUBSET Nat
    BY <1>2, <1>4
  <2>4. r = [p EXCEPT !.made = m, !.rows = p.rows \cup {n + 1}]
    BY <1>3, <2>2
  <2>5. QED BY <1>4, <2>1, <2>2, <2>3, <2>4
<1>6. QueueShape(r)
  BY <1>2, <1>4, <1>5 DEF QueueShape
<1>7. \A g \in p.gaps : /\ g.from \in Nat /\ g.through \in Nat
                        /\ p.acked < g.from /\ g.from <= g.through /\ g.through <= n
  BY <1>1, <1>2 DEF Retained, QueueOK, GapsApart, Span
<1>8. GapsApart(r.gaps, r.acked, Len(r.made))
  <2>1. \A g \in r.gaps : r.acked < g.from /\ g.from <= g.through /\ g.through <= Len(r.made)
    BY <1>5, <1>7
  <2>2. QED BY <1>1, <1>5, <2>1 DEF Retained, QueueOK, GapsApart
<1>9. ASSUME NEW s \in (r.acked + 1)..Len(r.made) PROVE s \in r.rows <=> ~ Covers(r.gaps, s)
  <2>1. CASE s = n + 1
    <3>1. ~ Covers(r.gaps, s)
      BY <1>5, <1>7, <2>1 DEF Covers
    <3>2. QED BY <1>5, <2>1, <3>1
  <2>2. CASE s # n + 1
    <3>1. s \in (p.acked + 1)..n
      BY <1>4, <1>5, <2>2
    <3>2. s \in p.rows <=> ~ Covers(p.gaps, s)
      BY <1>1, <1>2, <3>1 DEF Retained, QueueOK
    <3>3. QED BY <1>5, <2>2, <3>2
  <2>3. QED BY <2>1, <2>2
<1>10. QED BY <1>1, <1>3, <1>4, <1>5, <1>6, <1>8, <1>9 DEF Appended, QueueOK, Retained

\* An acknowledged range is always accounted for, and pruning it keeps the rest.
LEMMA Acknowledge ==
  ASSUME NEW q, QueueOK(q), NEW last \in q.acked..Len(q.made)
  PROVE  /\ ACKAccounted(q, last)
         /\ QueueOK(CommitReplayACK(q, last))
         /\ CommitReplayACK(q, last).made = q.made /\ CommitReplayACK(q, last).acked = last
         /\ \A x \in Nat : Covers(CommitReplayACK(q, last).gaps, x) => Covers(q.gaps, x)
<1>0. /\ q \in [made : Seq(Event), acked : Nat, rows : SUBSET Nat, gaps : SUBSET Span]
      /\ q.acked \in Nat /\ Len(q.made) \in Nat /\ last \in Nat /\ q.acked <= last /\ last <= Len(q.made)
      /\ q.rows \subseteq (q.acked + 1)..Len(q.made)
  BY DEF QueueOK, QueueShape
<1>1. \A g \in q.gaps : /\ g.from \in Nat /\ g.through \in Nat
                        /\ q.acked < g.from /\ g.from <= g.through /\ g.through <= Len(q.made)
                        /\ g = [from |-> g.from, through |-> g.through]
  BY DEF QueueOK, GapsApart, Span
<1>2. ACKAccounted(q, last)
  BY <1>0 DEF ACKAccounted, QueueOK, Created
<1>3. PICK r : r = CommitReplayACK(q, last)
  OBVIOUS
<1>4. /\ r = [q EXCEPT !.acked = last, !.rows = {s \in @ : s > last}, !.gaps = TrimGaps(q, last)]
  BY <1>3 DEF CommitReplayACK
<1>5. \A a, b \in Nat : Max({a, b}) = IF a <= b THEN b ELSE a
  <2> TAKE a, b \in Nat
  <2>1. PICK S : S = {a, b}
    OBVIOUS
  <2>2. PICK n \in Nat : n = a + b
    OBVIOUS
  <2>3. S \in SUBSET Nat /\ S # {} /\ \A s \in S : s <= n
    BY <2>1, <2>2
  <2>4. Max(S) \in S /\ \A s \in S : s <= Max(S)
    BY <2>3, MaxOf
  <2>5. QED BY <2>1, <2>4
<1> DEFINE cut(g) == [g EXCEPT !.from = Max({@, last + 1})]
<1>6. \A g \in q.gaps : /\ cut(g) \in Span /\ cut(g).through = g.through
                        /\ cut(g).from = IF g.from <= last + 1 THEN last + 1 ELSE g.from
  <2> TAKE g \in q.gaps
  <2>1. PICK x \in Nat : x = Max({g.from, last + 1}) /\ x = IF g.from <= last + 1 THEN last + 1 ELSE g.from
    <3>1. PICK a \in Nat, b \in Nat : a = g.from /\ b = last + 1
      BY <1>0, <1>1
    <3>2. QED BY <1>5, <3>1
  <2>2. cut(g) = [g EXCEPT !.from = x]
    BY <2>1
  <2>3. g \in Span
    BY <1>0
  <2>4. QED BY <2>1, <2>2, <2>3 DEF Span
<1>7. TrimGaps(q, last) = {cut(g) : g \in {h \in q.gaps : h.through > last}}
  BY DEF TrimGaps
<1> HIDE DEF cut
<1>8. GapsApart(TrimGaps(q, last), last, Len(q.made))
  <2>1. TrimGaps(q, last) \subseteq Span
    BY <1>6, <1>7
  <2>2. ASSUME NEW c \in TrimGaps(q, last)
        PROVE  last < c.from /\ c.from <= c.through /\ c.through <= Len(q.made)
    <3>1. PICK g \in q.gaps : g.through > last /\ c = cut(g)
      BY <1>7
    <3>2. QED BY <1>0, <1>1, <1>6, <3>1
  <2>3. ASSUME NEW c \in TrimGaps(q, last), NEW d \in TrimGaps(q, last)
        PROVE  c = d \/ c.through < d.from \/ d.through < c.from
    <3>1. PICK g \in q.gaps : g.through > last /\ c = cut(g)
      BY <1>7
    <3>2. PICK h \in q.gaps : h.through > last /\ d = cut(h)
      BY <1>7
    <3>3. g = h \/ g.through < h.from \/ h.through < g.from
      BY DEF QueueOK, GapsApart
    <3>4. QED BY <1>0, <1>1, <1>6, <3>1, <3>2, <3>3
  <2>4. QED BY <2>1, <2>2, <2>3 DEF GapsApart
<1>9. \A x \in Nat : Covers(TrimGaps(q, last), x) <=> x > last /\ Covers(q.gaps, x)
  <2> TAKE x \in Nat
  <2>1. ASSUME Covers(TrimGaps(q, last), x) PROVE x > last /\ Covers(q.gaps, x)
    <3>1. PICK c \in TrimGaps(q, last) : c.from <= x /\ x <= c.through
      BY <2>1 DEF Covers
    <3>2. PICK g \in q.gaps : g.through > last /\ c = cut(g)
      BY <1>7
    <3>3. x > last /\ g.from <= x /\ x <= g.through
      BY <1>0, <1>1, <1>6, <3>1, <3>2
    <3>4. QED BY <3>3 DEF Covers
  <2>2. ASSUME x > last, Covers(q.gaps, x) PROVE Covers(TrimGaps(q, last), x)
    <3>1. PICK g \in q.gaps : g.from <= x /\ x <= g.through
      BY <2>2 DEF Covers
    <3>2. g.through > last
      BY <1>0, <1>1, <2>2, <3>1
    <3>3. cut(g) \in TrimGaps(q, last)
      BY <1>7, <3>2
    <3>4. cut(g).from <= x /\ x <= cut(g).through
      BY <1>0, <1>1, <1>6, <2>2, <3>1
    <3>5. QED BY <3>3, <3>4 DEF Covers
  <2>3. QED BY <2>1, <2>2
<1>10. /\ r \in [made : Seq(Event), acked : Nat, rows : SUBSET Nat, gaps : SUBSET Span]
       /\ r.made = q.made /\ r.acked = last /\ r.rows = {s \in q.rows : s > last} /\ r.gaps = TrimGaps(q, last)
  BY <1>0, <1>4, <1>8 DEF GapsApart
<1>11. QueueShape(r)
  BY <1>0, <1>10 DEF QueueShape
<1>12. \A s \in (last + 1)..Len(q.made) : s \in r.rows <=> ~ Covers(r.gaps, s)
  <2> TAKE s \in (last + 1)..Len(q.made)
  <2>1. s \in (q.acked + 1)..Len(q.made) /\ s \in Nat /\ s > last
    BY <1>0
  <2>2. s \in q.rows <=> ~ Covers(q.gaps, s)
    BY <2>1 DEF QueueOK
  <2>3. QED BY <1>9, <1>10, <2>1, <2>2
<1>13. QED BY <1>2, <1>3, <1>8, <1>9, <1>10, <1>11, <1>12 DEF QueueOK

-----------------------------------------------------------------------------
(* The hub's ledger *)

Frame == [kind : {"batch", "gap"}, first : Nat, last : Nat, events : Seq(Event)]

FrameOK(f) ==
  /\ f \in Frame /\ 0 < f.first /\ f.first <= f.last
  /\ Len(f.events) = IF f.kind = "batch" THEN f.last - f.first + 1 ELSE 0

State == [seq : Nat, event : Event]

HubShape(h) ==
  /\ h = [cursor |-> h.cursor, receipts |-> h.receipts, gaps |-> h.gaps,
          state |-> h.state, snapSeq |-> h.snapSeq, missing |-> h.missing]
  /\ h.cursor \in Nat /\ h.state \in State /\ h.snapSeq \in Nat /\ h.missing \in Nat
  /\ h.receipts = [s \in DOMAIN h.receipts |-> h.receipts[s]]
  /\ DOMAIN h.receipts \subseteq 1..h.cursor
  /\ \A s \in DOMAIN h.receipts : h.receipts[s].event \in Event

HubOK(h) ==
  /\ HubShape(h)
  /\ GapsApart(h.gaps, 0, h.cursor)
  /\ \A s \in 1..h.cursor : s \in DOMAIN h.receipts <=> ~ Covers(h.gaps, s)

\* What the three records are made of.
LEMMA QueueFields ==
  ASSUME NEW q, QueueOK(q)
  PROVE  q.acked \in Nat /\ Len(q.made) \in Nat /\ q.acked <= Len(q.made)
<1>1. q.made \in Seq(Event) /\ q.acked \in Nat
  BY DEF QueueOK, QueueShape
<1>2. Len(q.made) \in Nat
  BY <1>1
<1>3. QED BY <1>1, <1>2 DEF QueueOK, QueueShape

LEMMA FrameFields ==
  ASSUME NEW f, FrameOK(f)
  PROVE  /\ f.kind \in {"batch", "gap"} /\ f.first \in Nat /\ f.last \in Nat
         /\ 0 < f.first /\ f.first <= f.last
BY DEF FrameOK, Frame

LEMMA HubFields ==
  ASSUME NEW h, HubShape(h)
  PROVE  /\ h.cursor \in Nat /\ h.state.seq \in Nat /\ h.missing \in Nat
         /\ DOMAIN h.receipts \subseteq 1..h.cursor
BY DEF HubShape, State

\* A later state of the hub's ledger.
Grown(h, r) ==
  /\ h.cursor <= r.cursor
  /\ \A s \in DOMAIN h.receipts : s \in DOMAIN r.receipts /\ r.receipts[s] = h.receipts[s]
  /\ \A s \in Nat : Covers(h.gaps, s) => Covers(r.gaps, s)

\* A frame that starts no later than behind the cursor can be reconciled.
LEMMA Reconciled ==
  ASSUME NEW h, HubOK(h), NEW f, FrameOK(f), f.first <= h.cursor + 1
  PROVE  ~ Unreconciled(h, f)
<1>1. f.first \in Nat /\ f.last \in Nat /\ h.cursor \in Nat /\ 0 < f.first
  BY DEF FrameOK, Frame, HubOK, HubShape
<1>2. \A s \in Sequences(f) \ Fresh(h, f) : s \in 1..h.cursor
  BY <1>1 DEF Sequences, Fresh
<1>3. QED BY <1>1, <1>2 DEF Unreconciled, HubOK

\* A sequence of a batch has its event.
LEMMA EventOf ==
  ASSUME NEW f, FrameOK(f), NEW s \in Sequences(f)
  PROVE  /\ s \in Nat /\ f.first <= s /\ s <= f.last /\ f.kind = "batch"
         /\ s - f.first + 1 \in 1..Len(f.events) /\ EventAt(f, s) \in Event
<1>1. f \in Frame /\ f.first \in Nat /\ f.last \in Nat /\ f.events \in Seq(Event) /\ 0 < f.first
  BY DEF FrameOK, Frame
<1>2. s \in f.first..f.last /\ f.kind = "batch"
  BY DEF Sequences, FrameOK, Frame
<1>3. s - f.first + 1 \in 1..Len(f.events)
  BY <1>1, <1>2 DEF FrameOK
<1>4. QED BY <1>1, <1>2, <1>3 DEF EventAt

\* What ingesting a frame does to the ledger.
Ingested(h, r, f) ==
  LET fresh == Fresh(h, f) IN
  /\ r.cursor = IF h.cursor <= f.last THEN f.last ELSE h.cursor
  /\ DOMAIN r.receipts = DOMAIN h.receipts \cup fresh
  /\ \A s \in DOMAIN h.receipts : r.receipts[s] = h.receipts[s]
  /\ \A s \in fresh : r.receipts[s].event = EventAt(f, s)
  /\ \A s \in fresh : r.receipts[s].refused <=> ~ AuthorizeEvent(EventAt(f, s))
  /\ r.gaps = h.gaps \cup (IF f.kind = "gap" /\ f.last > h.cursor
                           THEN {[from |-> h.cursor + 1, through |-> f.last]} ELSE {})

\* The observations of a frame that are newer than the current state.
Newer(h, f) ==
  {s \in Fresh(h, f) : /\ AuthorizeEvent(EventAt(f, s)) /\ EventAt(f, s).obs
                       /\ EventAt(f, s).id \notin Ahead
                       /\ s > h.state.seq /\ s > h.missing}

\* What ingesting it does to the current state.
Refreshed(h, r, f) ==
  \/ Newer(h, f) = {} /\ r.state = h.state /\ r.missing = h.missing
  \/ \E m \in Newer(h, f) :
       /\ \A s \in Newer(h, f) : s <= m
       /\ r.state = [seq |-> m, event |-> EventAt(f, m)] /\ r.missing = 0

\* Ingestion changes the ledger and the current state in this way.
LEMMA IngestRecord ==
  ASSUME NEW h, HubOK(h), NEW f, FrameOK(f), f.first <= h.cursor + 1,
         NEW r, r = IngestReplayBatch(h, f)
  PROVE  HubShape(r) /\ Ingested(h, r, f) /\ Refreshed(h, r, f)
<1> DEFINE fresh == Fresh(h, f)
           refused == {s \in fresh : ~ AuthorizeEvent(EventAt(f, s))}
           receipts == [s \in DOMAIN h.receipts \cup fresh |->
                          IF s \in fresh THEN [event |-> EventAt(f, s), refused |-> s \in refused]
                          ELSE h.receipts[s]]
           gaps == recordReplayGap(h, f)
           newer(k) == {s \in Shown(f, fresh \ refused) : s > k.state.seq /\ s > k.missing}
<1>1. f.first \in Nat /\ f.last \in Nat /\ h.cursor \in Nat /\ 0 < f.first /\ f.first <= f.last
  BY DEF FrameOK, Frame, HubOK, HubShape
<1>2. /\ fresh \subseteq Sequences(f)
      /\ \A s \in fresh : s \in Nat /\ s > h.cursor /\ s <= f.last /\ EventAt(f, s) \in Event
  BY <1>1, EventOf DEF Fresh
<1>3. PICK c \in Nat : /\ c = Max({h.cursor, f.last}) /\ h.cursor <= c /\ f.last <= c
                      /\ c = IF h.cursor <= f.last THEN f.last ELSE h.cursor
  <2>1. Max({h.cursor, f.last}) = IF h.cursor <= f.last THEN f.last ELSE h.cursor
    BY <1>1, MaxOfTwo
  <2>2. PICK m \in Nat : m = IF h.cursor <= f.last THEN f.last ELSE h.cursor
    BY <1>1
  <2>3. h.cursor <= m /\ f.last <= m
    BY <1>1, <2>2
  <2>4. QED BY <2>1, <2>2, <2>3
<1>4. DOMAIN h.receipts \subseteq 1..h.cursor /\ \A s \in DOMAIN h.receipts : s \notin fresh
  BY <1>1, <1>2 DEF HubOK, HubShape
<1>5. /\ DOMAIN receipts = DOMAIN h.receipts \cup fresh
      /\ receipts = [s \in DOMAIN receipts |-> receipts[s]]
      /\ \A s \in DOMAIN h.receipts : receipts[s] = h.receipts[s]
      /\ \A s \in fresh : receipts[s].event = EventAt(f, s) /\ (receipts[s].refused <=> s \in refused)
  <2> HIDE DEF fresh, refused
  <2>1. DOMAIN receipts = DOMAIN h.receipts \cup fresh
    OBVIOUS
  <2>2. receipts = [s \in DOMAIN receipts |-> receipts[s]]
    BY Zenon
  <2>3. \A s \in DOMAIN h.receipts : receipts[s] = h.receipts[s]
    BY <1>4
  <2>4. \A s \in fresh : receipts[s] = [event |-> EventAt(f, s), refused |-> s \in refused]
    OBVIOUS
  <2>5. \A s \in fresh : receipts[s].event = EventAt(f, s) /\ (receipts[s].refused <=> s \in refused)
    BY <2>4, Zenon
  <2>6. QED BY <2>1, <2>2, <2>3, <2>5
<1>6. gaps = h.gaps \cup (IF f.kind = "gap" /\ f.last > h.cursor
                          THEN {[from |-> h.cursor + 1, through |-> f.last]} ELSE {})
  <2>1. Max({f.first, h.cursor + 1}) = h.cursor + 1
    BY <1>1, MaxOfTwo
  <2>2. QED BY <2>1 DEF recordReplayGap
<1>7. PICK k : k = [h EXCEPT !.receipts = receipts, !.gaps = gaps, !.cursor = Max({@, f.last})]
  OBVIOUS
<1>8. r = updateReplayState(k, f, fresh \ refused)
  BY <1>7 DEF IngestReplayBatch
<1> HIDE DEF receipts, gaps
<1>9. k = [cursor |-> c, receipts |-> receipts, gaps |-> gaps, state |-> h.state,
           snapSeq |-> h.snapSeq, missing |-> h.missing]
  <2>1. k = [h EXCEPT !.receipts = receipts, !.gaps = gaps, !.cursor = c]
    BY <1>3, <1>7
  <2>2. h = [cursor |-> h.cursor, receipts |-> h.receipts, gaps |-> h.gaps,
             state |-> h.state, snapSeq |-> h.snapSeq, missing |-> h.missing]
    BY DEF HubOK, HubShape
  <2>3. QED BY <2>1, <2>2
<1>10. /\ k.receipts = receipts /\ k.gaps = gaps /\ k.cursor = c /\ k.state = h.state
       /\ k.snapSeq = h.snapSeq /\ k.missing = h.missing
  BY <1>9
<1>11. HubShape(k) /\ Ingested(h, k, f)
  <2>1. \A s \in DOMAIN receipts : receipts[s].event \in Event
    BY <1>2, <1>5 DEF HubOK, HubShape
  <2>2. DOMAIN receipts \subseteq 1..c
    <3>1. \A s \in fresh : s \in 1..c
      <4> TAKE s \in fresh
      <4> HIDE DEF fresh, refused
      <4>1. s \in Nat /\ s > h.cursor /\ s <= f.last
        BY <1>2
      <4>2. f.last <= c /\ f.last \in Nat /\ h.cursor \in Nat
        BY <1>1, <1>3
      <4>3. 1 <= s /\ s <= c
        BY <4>1, <4>2
      <4>4. QED BY <4>1, <4>3
    <3>2. \A s \in DOMAIN h.receipts : s \in 1..c
      <4> TAKE s \in DOMAIN h.receipts
      <4>1. s \in 1..h.cursor
        BY <1>4
      <4>2. QED BY <1>1, <1>3, <4>1
    <3>3. QED BY <1>5, <3>1, <3>2, Zenon
  <2>3. HubShape(k)
    BY <1>5, <1>9, <1>10, <2>1, <2>2 DEF HubOK, HubShape
  <2>4. QED BY <1>3, <1>5, <1>6, <1>10, <2>3 DEF Ingested
<1> HIDE DEF fresh, refused
<1>20. newer(k) = Newer(h, f)
  <2>1. \A s \in fresh : s \in refused <=> ~ AuthorizeEvent(EventAt(f, s))
    BY DEF refused
  <2>2. newer(k) = {s \in fresh : /\ AuthorizeEvent(EventAt(f, s)) /\ EventAt(f, s).obs
                                  /\ EventAt(f, s).id \notin Ahead
                                  /\ s > h.state.seq /\ s > h.missing}
    BY <1>10, <2>1 DEF Shown
  <2>3. QED BY <2>2 DEF Newer, fresh
<1>12. CASE newer(k) = {}
  <2>1. r = k
    BY <1>8, <1>12 DEF updateReplayState
  <2>2. Refreshed(h, r, f)
    BY <1>10, <1>12, <1>20, <2>1 DEF Refreshed
  <2>3. QED BY <1>11, <2>1, <2>2
<1>13. CASE newer(k) # {}
  <2>1. PICK m : m = Max(newer(k))
    OBVIOUS
  <2>2. m \in newer(k) /\ \A s \in newer(k) : s <= m
    <3>1. newer(k) \in SUBSET Nat /\ \A s \in newer(k) : s <= f.last
      BY <1>2 DEF Shown
    <3>2. PICK S : S = newer(k)
      OBVIOUS
    <3>3. Max(S) \in S /\ \A s \in S : s <= Max(S)
      BY <1>1, <1>13, <3>1, <3>2, MaxOf
    <3>4. QED BY <2>1, <3>2, <3>3
  <2>3. m \in Nat /\ EventAt(f, m) \in Event
    BY <1>2, <2>2 DEF Shown
  <2>4. r = [k EXCEPT !.state = [seq |-> m, event |-> EventAt(f, m)], !.missing = 0]
    BY <1>8, <1>13, <2>1 DEF updateReplayState
  <2>5. PICK st \in State : st = [seq |-> m, event |-> EventAt(f, m)]
    BY <2>3 DEF State
  <2>6. r = [cursor |-> c, receipts |-> receipts, gaps |-> gaps, state |-> st,
             snapSeq |-> h.snapSeq, missing |-> 0]
    BY <1>9, <2>4, <2>5
  <2>7. /\ r.receipts = receipts /\ r.gaps = gaps /\ r.cursor = c /\ r.state = st
        /\ r.snapSeq = h.snapSeq /\ r.missing = 0
    BY <2>6
  <2>8. HubShape(r)
    BY <1>10, <1>11, <2>6, <2>7 DEF HubShape
  <2>9. Refreshed(h, r, f)
    <3>1. \E n \in newer(k) : /\ \A s \in newer(k) : s <= n
                              /\ r.state = [seq |-> n, event |-> EventAt(f, n)] /\ r.missing = 0
      BY <2>2, <2>5, <2>7
    <3>2. QED BY <1>20, <3>1, Zenon DEF Refreshed
  <2>10. QED BY <1>10, <1>11, <2>7, <2>8, <2>9 DEF Ingested
<1>14. QED BY <1>12, <1>13

\* What it leaves is a ledger again, and has grown.
LEMMA IngestSettles ==
  ASSUME NEW h, HubOK(h), NEW f, FrameOK(f), f.first <= h.cursor + 1,
         NEW r, HubShape(r), Ingested(h, r, f)
  PROVE  HubOK(r) /\ Grown(h, r) /\ f.last <= r.cursor
<1>1. f.first \in Nat /\ f.last \in Nat /\ h.cursor \in Nat /\ 0 < f.first /\ f.first <= f.last /\ r.cursor \in Nat
  BY DEF FrameOK, Frame, HubOK, HubShape
<1>2. /\ r.cursor = IF h.cursor <= f.last THEN f.last ELSE h.cursor
      /\ DOMAIN r.receipts = DOMAIN h.receipts \cup Fresh(h, f)
      /\ \A s \in DOMAIN h.receipts : r.receipts[s] = h.receipts[s]
  BY DEF Ingested
<1>3. DOMAIN h.receipts \subseteq 1..h.cursor
  BY DEF HubOK, HubShape
<1>4. \A g \in h.gaps : /\ g \in Span /\ g.from \in Nat /\ g.through \in Nat
                        /\ 0 < g.from /\ g.from <= g.through /\ g.through <= h.cursor
  BY DEF HubOK, GapsApart, Span
<1>5. CASE f.kind = "gap" /\ f.last > h.cursor
  <2>0. PICK a \in Nat, b \in Nat : a = h.cursor + 1 /\ b = f.last
    BY <1>1
  <2>1. PICK g \in Span : g = [from |-> h.cursor + 1, through |-> f.last]
    BY <2>0 DEF Span
  <2>2. g.from = h.cursor + 1 /\ g.through = f.last
    BY <2>1
  <2>3. r.gaps = h.gaps \cup {g} /\ Fresh(h, f) = {}
    BY <1>5, <2>1 DEF Ingested, Fresh, Sequences
  <2>4. GapsApart(r.gaps, 0, r.cursor)
    <3>1. r.gaps \subseteq Span
      BY <1>4, <2>3
    <3>2. ASSUME NEW x \in r.gaps PROVE 0 < x.from /\ x.from <= x.through /\ x.through <= r.cursor
      BY <1>1, <1>2, <1>4, <1>5, <2>2, <2>3
    <3>3. ASSUME NEW x \in r.gaps, NEW y \in r.gaps PROVE x = y \/ x.through < y.from \/ y.through < x.from
      <4>1. CASE x \in h.gaps /\ y \in h.gaps
        BY <4>1 DEF HubOK, GapsApart
      <4>2. CASE x = g \/ y = g
        BY <1>1, <1>4, <2>2, <2>3, <4>2
      <4>3. QED BY <2>3, <4>1, <4>2
    <3>4. QED BY <3>1, <3>2, <3>3 DEF GapsApart
  <2>5. \A s \in Nat : Covers(r.gaps, s) <=> Covers(h.gaps, s) \/ s \in (h.cursor + 1)..f.last
    BY <1>1, <2>2, <2>3 DEF Covers
  <2>6. ASSUME NEW s \in 1..r.cursor PROVE s \in DOMAIN r.receipts <=> ~ Covers(r.gaps, s)
    <3>1. CASE s <= h.cursor
      <4>1. s \in 1..h.cursor /\ s \in Nat /\ s \notin (h.cursor + 1)..f.last
        BY <1>1, <3>1
      <4>2. s \in DOMAIN h.receipts <=> ~ Covers(h.gaps, s)
        BY <4>1 DEF HubOK
      <4>3. QED BY <1>2, <2>3, <2>5, <4>1, <4>2
    <3>2. CASE s > h.cursor
      <4>1. s \in Nat /\ s \in (h.cursor + 1)..f.last
        BY <1>1, <1>2, <1>5, <3>2
      <4>2. s \notin DOMAIN r.receipts
        BY <1>1, <1>2, <1>3, <2>3, <3>2
      <4>3. QED BY <2>5, <4>1, <4>2
    <3>3. QED BY <1>1, <3>1, <3>2
  <2>7. QED BY <1>1, <1>2, <2>4, <2>5, <2>6 DEF HubOK, Grown
<1>6. CASE ~(f.kind = "gap" /\ f.last > h.cursor)
  <2>1. r.gaps = h.gaps
    BY <1>6 DEF Ingested
  <2>2. \A s \in Nat : Covers(r.gaps, s) => s <= h.cursor
    BY <1>1, <1>4, <2>1 DEF Covers
  <2>3. \A s \in Nat : s \in Fresh(h, f) <=> s > h.cursor /\ s <= r.cursor
    <3> TAKE s \in Nat
    <3>1. CASE f.kind = "gap"
      BY <1>1, <1>2, <1>6, <3>1 DEF Fresh, Sequences
    <3>2. CASE f.kind # "gap"
      BY <1>1, <1>2, <3>2 DEF Fresh, Sequences
    <3>3. QED BY <3>1, <3>2
  <2>4. GapsApart(r.gaps, 0, r.cursor)
    BY <1>1, <1>2, <1>4, <2>1 DEF HubOK, GapsApart
  <2>5. ASSUME NEW s \in 1..r.cursor PROVE s \in DOMAIN r.receipts <=> ~ Covers(r.gaps, s)
    <3>1. CASE s <= h.cursor
      <4>1. s \in 1..h.cursor /\ s \in Nat /\ s \notin Fresh(h, f)
        BY <1>1, <2>3, <3>1
      <4>2. s \in DOMAIN h.receipts <=> ~ Covers(h.gaps, s)
        BY <4>1 DEF HubOK
      <4>3. QED BY <1>2, <2>1, <4>1, <4>2
    <3>2. CASE s > h.cursor
      BY <1>1, <1>2, <2>2, <2>3, <3>2
    <3>3. QED BY <1>1, <3>1, <3>2
  <2>6. QED BY <1>1, <1>2, <2>1, <2>4, <2>5 DEF HubOK, Grown
<1>7. QED BY <1>5, <1>6

\* The outcome of one event of a frame.
Code(h, f, s) ==
  IF s > h.cursor THEN "refused"
  ELSE IF s \notin DOMAIN h.receipts THEN "history_gap"
  ELSE IF h.receipts[s].event # EventAt(f, s) THEN "reused" ELSE "refused"

Rejects(h, f, s) ==
  IF s > h.cursor THEN ~ AuthorizeEvent(EventAt(f, s))
  ELSE s \in DOMAIN h.receipts => h.receipts[s].event # EventAt(f, s) \/ h.receipts[s].refused

\* The outcome of a batch, sequence by sequence.
LEMMA Outcomes ==
  ASSUME NEW h, h.cursor \in Nat, NEW f, FrameOK(f)
  PROVE  Rejections(h, f) = {[seq |-> s, code |-> Code(h, f, s)] : s \in {x \in Sequences(f) : Rejects(h, f, x)}}
<1>1. \A s \in Sequences(f) : s \in Fresh(h, f) <=> s > h.cursor
  BY DEF Fresh
<1>2. \A s \in Fresh(h, f) : s \in Sequences(f)
  BY DEF Fresh
<1> DEFINE A == {[seq |-> s, code |-> "refused"] :
                   s \in {x \in Fresh(h, f) : ~ AuthorizeEvent(EventAt(f, x))}}
           old(s) == IF s \notin DOMAIN h.receipts THEN "history_gap"
                     ELSE IF h.receipts[s].event # EventAt(f, s) THEN "reused" ELSE "refused"
           B == {[seq |-> s, code |-> old(s)] :
                   s \in {x \in Sequences(f) \ Fresh(h, f) :
                            x \in DOMAIN h.receipts =>
                              h.receipts[x].event # EventAt(f, x) \/ h.receipts[x].refused}}
           C == {[seq |-> s, code |-> Code(h, f, s)] : s \in {x \in Sequences(f) : Rejects(h, f, x)}}
<1>3. Rejections(h, f) = A \cup B
  BY DEF Rejections
<1>4. ASSUME NEW x \in A PROVE x \in C
  <2>1. PICK s \in Fresh(h, f) : ~ AuthorizeEvent(EventAt(f, s)) /\ x = [seq |-> s, code |-> "refused"]
    OBVIOUS
  <2>2. s \in Sequences(f) /\ s > h.cursor
    BY <1>1, <1>2
  <2>3. Code(h, f, s) = "refused" /\ Rejects(h, f, s)
    BY <2>1, <2>2 DEF Code, Rejects
  <2>4. QED BY <2>1, <2>2, <2>3
<1>5. ASSUME NEW x \in B PROVE x \in C
  <2>1. PICK s \in Sequences(f) \ Fresh(h, f) :
          /\ s \in DOMAIN h.receipts => h.receipts[s].event # EventAt(f, s) \/ h.receipts[s].refused
          /\ x = [seq |-> s, code |-> old(s)]
    OBVIOUS
  <2>2. s \in Sequences(f) /\ ~(s > h.cursor)
    BY <1>1
  <2>3. Code(h, f, s) = old(s) /\ Rejects(h, f, s)
    BY <2>1, <2>2 DEF Code, Rejects
  <2>4. QED BY <2>1, <2>2, <2>3
<1>6. ASSUME NEW x \in C PROVE x \in A \cup B
  <2>1. PICK s \in Sequences(f) : Rejects(h, f, s) /\ x = [seq |-> s, code |-> Code(h, f, s)]
    OBVIOUS
  <2>2. CASE s > h.cursor
    <3>1. s \in Fresh(h, f) /\ ~ AuthorizeEvent(EventAt(f, s)) /\ Code(h, f, s) = "refused"
      BY <1>1, <2>1, <2>2 DEF Code, Rejects
    <3>2. QED BY <2>1, <3>1
  <2>3. CASE ~(s > h.cursor)
    <3>1. /\ s \in Sequences(f) \ Fresh(h, f) /\ Code(h, f, s) = old(s)
          /\ s \in DOMAIN h.receipts => h.receipts[s].event # EventAt(f, s) \/ h.receipts[s].refused
      BY <1>1, <2>1, <2>3 DEF Code, Rejects
    <3>2. QED BY <2>1, <3>1
  <2>4. QED BY <2>2, <2>3
<1> HIDE DEF A, B, C
<1>7. A \cup B = C
  BY <1>4, <1>5, <1>6
<1>8. QED BY <1>3, <1>7 DEF C

\* Repeating a frame has the outcome of its first time.
LEMMA SameOutcome ==
  ASSUME NEW h, HubOK(h), NEW f, FrameOK(f), f.first <= h.cursor + 1,
         NEW r, HubShape(r), Ingested(h, r, f)
  PROVE  Rejections(r, f) = Rejections(h, f)
<1>1. f.first \in Nat /\ f.last \in Nat /\ h.cursor \in Nat /\ 0 < f.first /\ f.first <= f.last /\ r.cursor \in Nat
  BY DEF FrameOK, Frame, HubOK, HubShape
<1>2. ASSUME NEW s \in Sequences(f)
      PROVE  Code(h, f, s) = Code(r, f, s) /\ (Rejects(h, f, s) <=> Rejects(r, f, s))
  <2>1. s \in Nat /\ f.first <= s /\ s <= f.last /\ s <= r.cursor
    BY <1>1, EventOf DEF Ingested
  <2>2. CASE s > h.cursor
    <3>1. s \in Fresh(h, f) /\ s \in DOMAIN r.receipts
      BY <2>2 DEF Fresh, Ingested
    <3>2. r.receipts[s].event = EventAt(f, s) /\ (r.receipts[s].refused <=> ~ AuthorizeEvent(EventAt(f, s)))
      BY <3>1 DEF Ingested
    <3>3. ~(s > r.cursor)
      BY <1>1, <2>1
    <3>4. Code(r, f, s) = "refused" /\ Code(h, f, s) = "refused"
      BY <2>2, <3>1, <3>2, <3>3 DEF Code
    <3>5. Rejects(r, f, s) <=> ~ AuthorizeEvent(EventAt(f, s))
      BY <3>1, <3>2, <3>3, Zenon DEF Rejects
    <3>6. QED BY <2>2, <3>4, <3>5 DEF Rejects
  <2>3. CASE ~(s > h.cursor)
    <3>1. ~(s > r.cursor) /\ s \notin Fresh(h, f)
      BY <1>1, <2>1, <2>3 DEF Fresh
    <3>2. /\ s \in DOMAIN r.receipts <=> s \in DOMAIN h.receipts
          /\ s \in DOMAIN h.receipts => r.receipts[s] = h.receipts[s]
      BY <3>1 DEF Ingested
    <3>3. QED BY <2>3, <3>1, <3>2 DEF Code, Rejects
  <2>4. QED BY <2>2, <2>3
<1>3. QED BY <1>1, <1>2, Outcomes

\* A frame behind the cursor changes nothing.
LEMMA OldFrame ==
  ASSUME NEW h, HubOK(h), NEW f, FrameOK(f), f.last <= h.cursor
  PROVE  IngestReplayBatch(h, f) = h
<1>1. f.first \in Nat /\ f.last \in Nat /\ h.cursor \in Nat /\ 0 < f.first /\ f.first <= f.last
  BY DEF FrameOK, Frame, HubOK, HubShape
<1>2. Fresh(h, f) = {}
  BY <1>1 DEF Fresh, Sequences
<1>3. Max({h.cursor, f.last}) = h.cursor
  BY <1>1, MaxOfTwo
<1>4. recordReplayGap(h, f) = h.gaps
  BY <1>1 DEF recordReplayGap
<1>5. h.receipts = [s \in DOMAIN h.receipts |-> h.receipts[s]]
  BY DEF HubOK, HubShape
<1>6. [h EXCEPT !.receipts = h.receipts, !.gaps = h.gaps, !.cursor = h.cursor] = h
  BY DEF HubOK, HubShape
<1> DEFINE receipts == [s \in DOMAIN h.receipts \cup Fresh(h, f) |->
                          IF s \in Fresh(h, f)
                          THEN [event |-> EventAt(f, s),
                                refused |-> s \in {x \in Fresh(h, f) : ~ AuthorizeEvent(EventAt(f, x))}]
                          ELSE h.receipts[s]]
<1>7. receipts = h.receipts
  BY <1>2, <1>5
<1>8. IngestReplayBatch(h, f) =
        updateReplayState([h EXCEPT !.receipts = receipts, !.gaps = recordReplayGap(h, f),
                                    !.cursor = Max({@, f.last})],
                          f, Fresh(h, f) \ {s \in Fresh(h, f) : ~ AuthorizeEvent(EventAt(f, s))})
  BY DEF IngestReplayBatch
<1> HIDE DEF receipts
<1>9. IngestReplayBatch(h, f) = updateReplayState(h, f, {})
  BY <1>2, <1>3, <1>4, <1>6, <1>7, <1>8
<1>10. QED BY <1>9 DEF updateReplayState, Shown

-----------------------------------------------------------------------------
(* The invariant *)

Codes == {"refused", "history_gap", "reused"}
StateFrame == [kind : {"state"}, state : State, created : Nat]
Answer == [kind : {"ack"}, last : Nat, count : Nat, rejected : SUBSET [seq : Nat, code : Codes]]
            \cup [kind : {"retry"}, cursor : Nat] \cup [kind : {"applied"}]

\* What the edge pruned of a queue is known at the hub, or the edge was told.
Told(q) ==
  \A s \in 1..q.acked :
    \/ s \in DOMAIN hub.receipts /\ hub.receipts[s].event = q.made[s]
    \/ Covers(hub.gaps, s)
    \/ q.made[s].id \in reported
    \/ s \in DOMAIN hub.receipts /\ q.made[s].id \in dropped

LossKnown(q) == \A s \in 1..Len(q.made) : Covers(q.gaps, s) => q.made[s].id \in dropped

Stores ==
  /\ QueueOK(edge) /\ QueueOK(backup) /\ HubOK(hub) /\ ids \in Nat
  /\ Told(edge) /\ Told(backup) /\ LossKnown(edge) /\ LossKnown(backup)

Wire ==
  /\ toHub \in Seq(Frame \cup StateFrame) /\ toEdge \in Seq(Answer)
  /\ \A i \in DOMAIN toHub : toHub[i].kind # "state" =>
       FrameOK(toHub[i]) /\ toHub[i].first <= hub.cursor + 1

PumpShape(p) ==
  p = [ready |-> p.ready, pending |-> p.pending, snap |-> p.snap, inflight |-> p.inflight,
       sent |-> p.sent, retry |-> p.retry, completed |-> p.completed]

\* A frame in flight starts at the cursor and tells what the queue held.
Inflight(f) ==
  /\ FrameOK(f) /\ f.first = edge.acked + 1 /\ f.last <= Len(edge.made)
  /\ f.kind = "batch" => \A s \in f.first..f.last : EventAt(f, s) = edge.made[s]
  /\ f.kind = "gap" => \A s \in f.first..f.last : edge.made[s].id \in dropped

Pumping ==
  /\ PumpShape(pump)
  /\ ~ edgeUp => pump = FreshPump /\ toEdge = <<>>
  /\ edgeUp => edge.acked <= hub.cursor
  /\ pump.inflight # NoFrame => Inflight(pump.inflight)
  /\ pump.completed # NoFrame => pump.completed.last <= edge.acked

OutcomeOf(h, f) == [last |-> f.last, count |-> Len(f.events), rejected |-> Rejections(h, f)]

\* A frame on the wire repeats the batch completed last, or the one in flight.
OldFrameOf(f) == pump.completed # NoFrame /\ f.last <= hub.cursor /\ OutcomeOf(hub, f) = pump.completed
CurFrame(f) == pump.inflight # NoFrame /\ pump.sent /\ f = pump.inflight

OldAck(a) == pump.completed # NoFrame /\ Outcome(a) = pump.completed
CurAck(a) == /\ pump.inflight # NoFrame /\ pump.sent /\ pump.inflight.last <= hub.cursor
             /\ Outcome(a) = OutcomeOf(hub, pump.inflight)

Replay(i) == toHub[i].kind # "state"
IsAck(i) == toEdge[i].kind = "ack"

Answered ==
  edgeUp =>
    /\ \A i \in DOMAIN toHub : Replay(i) => OldFrameOf(toHub[i]) \/ CurFrame(toHub[i])
    /\ \A i, j \in DOMAIN toHub : i < j /\ Replay(i) /\ Replay(j) /\ CurFrame(toHub[i]) => CurFrame(toHub[j])
    /\ \A i \in DOMAIN toEdge : IsAck(i) => OldAck(toEdge[i]) \/ CurAck(toEdge[i])
    /\ \A i, j \in DOMAIN toEdge : i < j /\ IsAck(i) /\ IsAck(j) /\ CurAck(toEdge[i]) => CurAck(toEdge[j])
    /\ \A i \in DOMAIN toEdge, j \in DOMAIN toHub :
         IsAck(i) /\ Replay(j) /\ CurAck(toEdge[i]) => CurFrame(toHub[j])

ReplayInv == Stores /\ Wire /\ Pumping /\ Answered

\* A session starts with nothing in flight and nothing completed.
LEMMA FreshFields ==
  /\ PumpShape(FreshPump) /\ FreshPump.inflight = NoFrame /\ FreshPump.completed = NoFrame
  BY DEF PumpShape, FreshPump

\* A replay frame is neither the absent frame nor a snapshot.
LEMMA FrameIsSome == ASSUME NEW f, FrameOK(f) PROVE f # NoFrame /\ f.kind # "state" /\ f.kind # "none"
<1>1. f.kind \in {"batch", "gap"}
  BY DEF FrameOK, Frame
<1>2. NoFrame.kind = "none"
  BY DEF NoFrame
<1>3. QED BY <1>1, <1>2

\* An outcome is not the absent frame.
LEMMA OutcomeIsSome == ASSUME NEW a PROVE Outcome(a) # NoFrame
<1>1. "kind" \in DOMAIN NoFrame
  BY DEF NoFrame
<1>2. DOMAIN Outcome(a) = {"last", "count", "rejected"}
  BY DEF Outcome
<1>3. QED BY <1>1, <1>2

\* An answer with the outcome of a frame has its fields.
LEMMA OutcomeFields ==
  ASSUME NEW a, NEW h, NEW f, Outcome(a) = OutcomeOf(h, f)
  PROVE  a.last = f.last /\ a.count = Len(f.events) /\ a.rejected = Rejections(h, f)
  BY DEF Outcome, OutcomeOf

\* The rejections of a frame lie inside it.
LEMMA RejectionsType ==
  ASSUME NEW h, h.cursor \in Nat, NEW f, FrameOK(f)
  PROVE  /\ Rejections(h, f) \subseteq [seq : Nat, code : Codes]
         /\ \A r \in Rejections(h, f) : r.seq \in Nat /\ r.seq >= f.first /\ r.seq <= f.last
<1>1. \A s \in Sequences(f) : s \in Nat /\ f.first <= s /\ s <= f.last
  BY EventOf
<1>2. f.first \in Nat /\ f.last \in Nat
  BY DEF FrameOK, Frame
<1>3. \A s \in Sequences(f) : Code(h, f, s) \in Codes
  BY DEF Code, Codes
<1>4. ASSUME NEW r \in Rejections(h, f)
      PROVE  r \in [seq : Nat, code : Codes] /\ r.seq \in Nat /\ r.seq >= f.first /\ r.seq <= f.last
  <2>1. PICK s \in Sequences(f) : r = [seq |-> s, code |-> Code(h, f, s)]
    BY Outcomes
  <2>2. QED BY <1>1, <1>2, <1>3, <2>1
<1>5. QED BY <1>4

\* A step that touches neither store.
LEMMA StoresSame ==
  ASSUME Stores, UNCHANGED <<edge, backup, hub, ids, dropped, reported>>
  PROVE  Stores'
  BY DEF Stores, Told, LossKnown

\* The hub's ledger only grows, and with it what is known there.
LEMMA StoresGrow ==
  ASSUME Stores, HubOK(hub'), Grown(hub, hub'), UNCHANGED <<edge, backup, ids, dropped, reported>>
  PROVE  Stores'
<1>1. ASSUME NEW q, QueueOK(q), Told(q) PROVE Told(q)'
  <2> SUFFICES ASSUME NEW s \in 1..q.acked
               PROVE  \/ s \in DOMAIN hub'.receipts /\ hub'.receipts[s].event = q.made[s]
                      \/ Covers(hub'.gaps, s)
                      \/ q.made[s].id \in reported
                      \/ s \in DOMAIN hub'.receipts /\ q.made[s].id \in dropped
    BY DEF Told
  <2>1. s \in Nat
    BY <1>1 DEF QueueOK, QueueShape
  <2>2. QED BY <1>1, <2>1 DEF Told, Grown
<1>2. Told(edge)' /\ Told(backup)'
  <2>1. QueueOK(edge) /\ QueueOK(backup) /\ Told(edge) /\ Told(backup)
    BY DEF Stores
  <2>2. PICK e, b : e = edge /\ b = backup
    OBVIOUS
  <2>3. Told(e)' /\ Told(b)'
    BY <1>1, <2>1, <2>2
  <2>4. QED BY <2>2, <2>3 DEF Told
<1>3. QED BY <1>2 DEF Stores, LossKnown

\* A step that closes the edge's session.
LEMMA Closes ==
  ASSUME Stores', EdgeClosed, toHub' \in Seq(Frame \cup StateFrame),
         \A i \in DOMAIN toHub' : toHub'[i].kind # "state" =>
           FrameOK(toHub'[i]) /\ toHub'[i].first <= hub'.cursor + 1
  PROVE  ReplayInv'
<1>1. Wire'
  BY DEF EdgeClosed, Wire
<1>2. Pumping'
  <2>1. edgeUp' = FALSE /\ toEdge' = <<>> /\ pump' = FreshPump
    BY DEF EdgeClosed
  <2>2. QED BY <2>1, FreshFields DEF Pumping
<1>3. Answered'
  BY DEF Answered, EdgeClosed
<1>4. QED BY <1>1, <1>2, <1>3 DEF ReplayInv

\* What is acknowledged lies before what is in flight.
LEMMA Apart ==
  ASSUME Stores, Pumping
  PROVE  /\ \A f : OldFrameOf(f) => f.last <= edge.acked
         /\ \A f : CurFrame(f) => FrameOK(f) /\ f.last \in Nat /\ edge.acked < f.last
         /\ \A a : OldAck(a) => a.last <= edge.acked
         /\ \A a : CurAck(a) => a.last \in Nat /\ edge.acked < a.last
         /\ edge.acked \in Nat
<1>1. edge.acked \in Nat
  BY DEF Stores, QueueOK, QueueShape
<1>2. \A f : OldFrameOf(f) => f.last <= edge.acked
  BY DEF OldFrameOf, OutcomeOf, Pumping
<1>3. \A a : OldAck(a) => a.last <= edge.acked
  BY DEF OldAck, Outcome, Pumping
<1>4. pump.inflight # NoFrame =>
        FrameOK(pump.inflight) /\ pump.inflight.last \in Nat /\ edge.acked < pump.inflight.last
  BY <1>1 DEF Pumping, Inflight, FrameOK, Frame
<1>5. \A f : CurFrame(f) => FrameOK(f) /\ f.last \in Nat /\ edge.acked < f.last
  BY <1>4 DEF CurFrame
<1>6. \A a : CurAck(a) => a.last \in Nat /\ edge.acked < a.last
  BY <1>4, OutcomeFields DEF CurAck
<1>7. QED BY <1>1, <1>2, <1>3, <1>5, <1>6

\* A step that leaves the batch in flight, may send a snapshot and may take an answer.
LEMMA SameBatch ==
  ASSUME ReplayInv, edgeUp, edgeUp', PumpShape(pump'), pump'.inflight = pump.inflight,
         pump'.sent = pump.sent, pump'.completed = pump.completed,
         UNCHANGED <<edge, backup, hub, ids, dropped, reported>>,
         toHub' = toHub \/ toHub' = <<>> \/ \E f \in StateFrame : toHub' = Append(toHub, f),
         toEdge' = toEdge \/ (toEdge # <<>> /\ toEdge' = Tail(toEdge))
  PROVE  ReplayInv'
<1>0. Stores /\ Wire /\ Pumping /\ Answered /\ toHub \in Seq(Frame \cup StateFrame) /\ toEdge \in Seq(Answer)
  BY DEF ReplayInv, Wire
<1>1. Stores'
  BY <1>0, StoresSame
<1>2. /\ toHub' \in Seq(Frame \cup StateFrame)
      /\ \A i \in DOMAIN toHub' : Replay(i)' => i \in DOMAIN toHub /\ toHub'[i] = toHub[i]
  <2>1. CASE toHub' = toHub
    BY <1>0, <2>1
  <2>2. CASE toHub' = <<>>
    BY <2>2
  <2>3. ASSUME NEW f \in StateFrame, toHub' = Append(toHub, f)
        PROVE  /\ toHub' \in Seq(Frame \cup StateFrame)
               /\ \A i \in DOMAIN toHub' : Replay(i)' => i \in DOMAIN toHub /\ toHub'[i] = toHub[i]
    <3>1. f.kind = "state"
      BY DEF StateFrame
    <3>2. QED BY <1>0, <2>3, <3>1 DEF Replay
  <2>4. QED BY <2>1, <2>2, <2>3
<1>3. PICK d \in {0, 1} : /\ toEdge' \in Seq(Answer)
                          /\ \A i \in DOMAIN toEdge' :
                               i + d \in DOMAIN toEdge /\ toEdge'[i] = toEdge[i + d] /\ i \in Nat
  <2>1. CASE toEdge' = toEdge
    <3>1. \A i \in DOMAIN toEdge' : i + 0 \in DOMAIN toEdge /\ toEdge'[i] = toEdge[i + 0] /\ i \in Nat
      BY <1>0, <2>1
    <3>2. QED BY <1>0, <2>1, <3>1
  <2>2. CASE toEdge # <<>> /\ toEdge' = Tail(toEdge)
    <3>1. \A i \in DOMAIN toEdge' : i + 1 \in DOMAIN toEdge /\ toEdge'[i] = toEdge[i + 1] /\ i \in Nat
      BY <1>0, <2>2
    <3>2. QED BY <1>0, <2>2, <3>1
  <2>3. QED BY <2>1, <2>2
<1>4. Wire'
  BY <1>0, <1>2, <1>3 DEF Wire, Replay
<1>5. Pumping'
  BY <1>0 DEF Pumping, Inflight
<1>6. /\ \A f : OldFrameOf(f)' <=> OldFrameOf(f)
      /\ \A f : CurFrame(f)' <=> CurFrame(f)
      /\ \A a : OldAck(a)' <=> OldAck(a)
      /\ \A a : CurAck(a)' <=> CurAck(a)
  BY DEF OldFrameOf, CurFrame, OldAck, CurAck
<1>7. Answered'
  <2> SUFFICES ASSUME edgeUp'  PROVE Answered'
    BY DEF Answered
  <2>0. edgeUp
    BY <1>0
  <2>1. \A i \in DOMAIN toHub' : Replay(i)' => OldFrameOf(toHub'[i]) \/ CurFrame(toHub'[i])
    BY <1>0, <1>2, <2>0 DEF Answered, Replay
  <2>2. \A i, j \in DOMAIN toHub' :
          i < j /\ Replay(i)' /\ Replay(j)' /\ CurFrame(toHub'[i]) => CurFrame(toHub'[j])
    BY <1>0, <1>2, <2>0 DEF Answered, Replay
  <2>3. \A i \in DOMAIN toEdge' : IsAck(i)' => OldAck(toEdge'[i]) \/ CurAck(toEdge'[i])
    BY <1>0, <1>3, <2>0 DEF Answered, IsAck
  <2>4. \A i, j \in DOMAIN toEdge' :
          i < j /\ IsAck(i)' /\ IsAck(j)' /\ CurAck(toEdge'[i]) => CurAck(toEdge'[j])
    BY <1>0, <1>3, <2>0 DEF Answered, IsAck
  <2>5. \A i \in DOMAIN toEdge', j \in DOMAIN toHub' :
          IsAck(i)' /\ Replay(j)' /\ CurAck(toEdge'[i]) => CurFrame(toHub'[j])
    BY <1>0, <1>2, <1>3, <2>0 DEF Answered, Replay, IsAck
  <2>6. QED BY <1>6, <2>1, <2>2, <2>3, <2>4, <2>5 DEF Answered
<1>8. QED BY <1>1, <1>4, <1>5, <1>7 DEF ReplayInv

-----------------------------------------------------------------------------
(* The recorder *)

\* A transaction of the edge that numbers events and evicts others.
Produces(q, r) ==
  /\ QueueOK(r) /\ r.acked = q.acked /\ Len(q.made) <= Len(r.made)
  /\ \A s \in 1..Len(q.made) : r.made[s] = q.made[s]

\* The events r adds to q are numbered on from n, up to m.
Counted(q, n, r, m) ==
  /\ m = n + (Len(r.made) - Len(q.made))
  /\ \A s \in (Len(q.made) + 1)..Len(r.made) : r.made[s].id = n + (s - Len(q.made))

\* What a transaction of the edge's recorder does.
Records ==
  /\ Produces(edge, edge') /\ Counted(edge, ids, edge', ids') /\ ids' \in Nat
  /\ Len(edge'.made) <= MaxSeq \/ edge'.made = edge.made
  /\ dropped' = dropped \cup Covered(edge')
  /\ UNCHANGED <<backup, hub, sessionVars, faults, reported>>

\* A transaction of the recorder keeps the invariant.
LEMMA EdgeProduces ==
  ASSUME ReplayInv, Records
  PROVE  ReplayInv'
<1>0a. /\ Produces(edge, edge') /\ dropped' = dropped \cup Covered(edge') /\ ids' \in Nat
      /\ UNCHANGED <<backup, hub, sessionVars, faults, reported>>
  BY DEF Records
<1>0. /\ Stores /\ Wire /\ Pumping /\ Answered /\ UNCHANGED <<backup, hub, edgeUp, toHub, toEdge, pump, reported>>
      /\ QueueOK(edge') /\ edge'.acked = edge.acked /\ dropped \subseteq dropped'
  BY <1>0a DEF ReplayInv, sessionVars, Produces
<1>1. /\ Len(edge.made) \in Nat /\ edge.acked \in Nat /\ edge.acked <= Len(edge.made)
      /\ Len(edge.made) <= Len(edge'.made)
      /\ Len(edge'.made) \in Nat
      /\ \A s \in 1..Len(edge.made) : edge'.made[s] = edge.made[s]
  BY <1>0, <1>0a DEF Stores, QueueOK, QueueShape, Produces
<1>2. Told(edge)'
  BY <1>0, <1>1 DEF Stores, Told
<1>3. LossKnown(edge)'
  <2> SUFFICES ASSUME NEW s \in 1..Len(edge'.made), Covers(edge'.gaps, s) PROVE edge'.made[s].id \in dropped'
    BY DEF LossKnown
  <2>1. edge'.made[s].id \in Covered(edge')
    BY DEF Covered, Created
  <2>2. QED BY <1>0a, <2>1
<1>4. Told(backup)' /\ LossKnown(backup)'
  BY <1>0 DEF Stores, Told, LossKnown
<1>5. Stores'
  BY <1>0, <1>0a, <1>2, <1>3, <1>4 DEF Stores
<1>6. Wire'
  BY <1>0 DEF Wire
<1>7. ASSUME NEW f, Inflight(f) PROVE Inflight(f)'
  <2>1. FrameOK(f) /\ f.first \in Nat /\ f.last \in Nat /\ 0 < f.first /\ f.last <= Len(edge.made)
    BY <1>7 DEF Inflight, FrameOK, Frame
  <2>2. \A s \in f.first..f.last : edge'.made[s] = edge.made[s]
    BY <1>1, <2>1
  <2>3. f.last <= Len(edge'.made)
    BY <1>1, <2>1
  <2>4. QED BY <1>0, <1>7, <2>1, <2>2, <2>3 DEF Inflight
<1>8. Pumping'
  BY <1>0, <1>7 DEF Pumping
<1>9. Answered'
  BY <1>0 DEF Answered, Replay, IsAck, OldFrameOf, CurFrame, OldAck, CurAck
<1>10. QED BY <1>5, <1>6, <1>8, <1>9 DEF ReplayInv

\* Expired rows are owed.
LEMMA ExpiredRows ==
  ASSUME NEW q, QueueOK(q), MaxAged \in Nat, NEW old \in Expired(q)
  PROVE  Len(old) \in Nat /\ \A i \in 1..Len(old) : old[i] \in (q.acked + 1)..Len(q.made)
<1>1. PICK m \in 0..MaxAged : old \in [1..m -> q.rows]
  BY DEF Expired, BoundedSeq, SeqOf
<1>2. Len(old) = m
  BY <1>1
<1>3. q.rows \subseteq (q.acked + 1)..Len(q.made)
  BY DEF QueueOK, QueueShape
<1>4. QED BY <1>1, <1>2, <1>3

\* A sweep creates nothing.
LEMMA RetainedProduces ==
  ASSUME NEW q, NEW r, QueueOK(q), Retained(q, r)
  PROVE  Produces(q, r)
<1>1. Len(q.made) \in Nat
  BY DEF QueueOK, QueueShape
<1>2. QED BY <1>1 DEF Retained, Produces

\* An append creates one event.
LEMMA AppendedProduces ==
  ASSUME NEW q, NEW r, NEW event \in Event, QueueOK(q), Appended(q, r, event)
  PROVE  /\ Produces(q, r) /\ Len(r.made) = Len(q.made) + 1 /\ r.made[Len(r.made)] = event
         /\ r.made[Len(q.made) + 1] = event
<1>1. q.made \in Seq(Event) /\ Len(q.made) \in Nat
  BY DEF QueueOK, QueueShape
<1>2. r.made = Append(q.made, event)
  BY DEF Appended
<1>3. /\ Len(r.made) = Len(q.made) + 1 /\ r.made[Len(q.made) + 1] = event
      /\ \A s \in 1..Len(q.made) : r.made[s] = q.made[s]
  BY <1>1, <1>2
<1>4. QED BY <1>1, <1>3 DEF Appended, Produces

\* Two appends in one transaction.
LEMMA ProducesTwice ==
  ASSUME NEW p, NEW q, NEW r, QueueOK(p), Produces(p, q), Produces(q, r)
  PROVE  Produces(p, r)
<1>1. Len(p.made) \in Nat /\ Len(q.made) \in Nat /\ Len(r.made) \in Nat
  BY DEF Produces, QueueOK, QueueShape
<1>2. QED BY <1>1 DEF Produces

\* The constants are numbers.
LEMMA Parameters == MaxSeq \in Nat /\ MaxAged \in Nat /\ BatchMax \in Nat \ {0}
  BY ReplayAssumption

\* CommitEdgeCheck records an observation and perhaps a transition.
LEMMA CheckRecords == ASSUME ReplayInv, CommitEdgeCheck PROVE Records
<1>0. QueueOK(edge) /\ ids \in Nat /\ Len(edge.made) \in Nat
  BY DEF ReplayInv, Stores, QueueOK, QueueShape
<1>a. PICK transition \in BOOLEAN, old \in Expired(edge) : \E o, t, first, second :
        /\ o = [id |-> ids + 1, obs |-> TRUE] /\ t = [id |-> ids + 2, obs |-> FALSE]
        /\ first = appendTelemetry(edge, o, old)
        /\ second = IF transition THEN appendTelemetry(first, t, <<>>) ELSE first
        /\ edge' = second /\ ids' = second.made[Len(second.made)].id /\ Len(second.made) <= MaxSeq
        /\ dropped' = dropped \cup Covered(second)
        /\ UNCHANGED <<backup, hub, sessionVars, faults, reported>>
  BY DEF CommitEdgeCheck, Created
<1>1. PICK o, t, first, second :
        /\ o = [id |-> ids + 1, obs |-> TRUE] /\ t = [id |-> ids + 2, obs |-> FALSE]
        /\ first = appendTelemetry(edge, o, old)
        /\ second = IF transition THEN appendTelemetry(first, t, <<>>) ELSE first
        /\ edge' = second /\ ids' = second.made[Len(second.made)].id /\ Len(second.made) <= MaxSeq
        /\ dropped' = dropped \cup Covered(second)
        /\ UNCHANGED <<backup, hub, sessionVars, faults, reported>>
  BY <1>a
<1>2. o \in Event /\ t \in Event /\ o.id = ids + 1 /\ t.id = ids + 2
  BY <1>0, <1>1 DEF Event
<1>3. Len(old) \in Nat /\ \A i \in 1..Len(old) : old[i] \in (edge.acked + 1)..Len(edge.made)
  BY <1>0, ExpiredRows, Parameters
<1>4. Appended(edge, first, o)
  BY <1>0, <1>1, <1>2, <1>3, AppendEvent, Parameters
<1>5. /\ QueueOK(first) /\ Produces(edge, first)
      /\ Len(first.made) = Len(edge.made) + 1 /\ first.made[Len(edge.made) + 1] = o
  BY <1>0, <1>2, <1>4, AppendedProduces DEF Appended
<1>6. CASE transition
  <2>1. PICK none : /\ none = <<>> /\ Len(none) \in Nat
                    /\ \A i \in 1..Len(none) : none[i] \in (first.acked + 1)..Len(first.made)
    OBVIOUS
  <2>2. second = appendTelemetry(first, t, none)
    BY <1>1, <1>6, <2>1
  <2>3. Appended(first, second, t)
    BY <1>2, <1>5, <2>1, <2>2, AppendEvent, Parameters
  <2>4. Produces(first, second) /\ Len(second.made) = Len(first.made) + 1 /\ second.made[Len(first.made) + 1] = t
    BY <1>2, <1>5, <2>3, AppendedProduces
  <2>5. /\ Len(second.made) = Len(edge.made) + 2 /\ second.made[Len(edge.made) + 2] = t
        /\ second.made[Len(edge.made) + 1] = o
    <3>1. \A s \in 1..Len(first.made) : second.made[s] = first.made[s]
      BY <2>4 DEF Produces
    <3>2. Len(edge.made) + 1 \in 1..Len(first.made)
      BY <1>0, <1>5
    <3>3. QED BY <1>0, <1>5, <2>4, <3>1, <3>2
  <2>6. ids' = ids + 2
    BY <1>1, <1>2, <2>5
  <2>7. Counted(edge, ids, second, ids')
    <3>1. \A s \in (Len(edge.made) + 1)..Len(second.made) :
            \/ s = Len(edge.made) + 1 /\ s - Len(edge.made) = 1
            \/ s = Len(edge.made) + 2 /\ s - Len(edge.made) = 2
      BY <1>0, <2>5
    <3>2. Len(second.made) - Len(edge.made) = 2
      BY <1>0, <2>5
    <3>3. \A s \in (Len(edge.made) + 1)..Len(second.made) : second.made[s].id = ids + (s - Len(edge.made))
      BY <1>2, <2>5, <3>1
    <3>4. QED BY <2>6, <3>2, <3>3 DEF Counted
  <2>8. Produces(edge, second)
    BY <1>0, <1>5, <2>4, ProducesTwice
  <2>9. QED BY <1>0, <1>1, <2>6, <2>7, <2>8 DEF Records
<1>7. CASE ~ transition
  <2>1. edge' = first /\ ids' = ids + 1
    BY <1>1, <1>2, <1>5, <1>7
  <2>2. Counted(edge, ids, first, ids')
    <3>1. \A s \in (Len(edge.made) + 1)..Len(first.made) : s = Len(edge.made) + 1 /\ s - Len(edge.made) = 1
      BY <1>0, <1>5
    <3>2. Len(first.made) - Len(edge.made) = 1
      BY <1>0, <1>5
    <3>3. QED BY <1>2, <1>5, <2>1, <3>1, <3>2 DEF Counted
  <2>3. QED BY <1>0, <1>1, <1>5, <2>1, <2>2 DEF Records
<1>8. QED BY <1>6, <1>7

\* RecordOutcome records one critical event.
LEMMA OutcomeRecords == ASSUME ReplayInv, RecordOutcome PROVE Records
<1>0. QueueOK(edge) /\ ids \in Nat /\ Len(edge.made) \in Nat /\ MaxSeq \in Nat
  BY Parameters DEF ReplayInv, Stores, QueueOK, QueueShape
<1>a. PICK old \in Expired(edge) : \E t :
        /\ t = [id |-> ids + 1, obs |-> FALSE] /\ edge' = appendTelemetry(edge, t, old)
        /\ Len(edge.made) < MaxSeq
        /\ ids' = ids + 1 /\ dropped' = dropped \cup Covered(edge')
        /\ UNCHANGED <<backup, hub, sessionVars, faults, reported>>
  BY DEF RecordOutcome, Created
<1>1. PICK t :
        /\ t = [id |-> ids + 1, obs |-> FALSE] /\ edge' = appendTelemetry(edge, t, old)
        /\ Len(edge.made) < MaxSeq
        /\ ids' = ids + 1 /\ dropped' = dropped \cup Covered(edge')
        /\ UNCHANGED <<backup, hub, sessionVars, faults, reported>>
  BY <1>a
<1>2. t \in Event /\ t.id = ids + 1
  BY <1>0, <1>1 DEF Event
<1>3. Len(old) \in Nat /\ \A i \in 1..Len(old) : old[i] \in (edge.acked + 1)..Len(edge.made)
  BY <1>0, ExpiredRows, Parameters
<1>4. Appended(edge, edge', t)
  BY <1>0, <1>1, <1>2, <1>3, AppendEvent, Parameters
<1>5. Produces(edge, edge') /\ Len(edge'.made) = Len(edge.made) + 1 /\ edge'.made[Len(edge.made) + 1] = t
  BY <1>0, <1>2, <1>4, AppendedProduces
<1>6. Counted(edge, ids, edge', ids')
  <2>1. \A s \in (Len(edge.made) + 1)..Len(edge'.made) : s = Len(edge.made) + 1 /\ s - Len(edge.made) = 1
    BY <1>0, <1>5
  <2>2. Len(edge'.made) - Len(edge.made) = 1
    BY <1>0, <1>5
  <2>3. QED BY <1>1, <1>2, <1>5, <2>1, <2>2 DEF Counted
<1>7. QED BY <1>0, <1>1, <1>5, <1>6 DEF Records

\* SweepRetention records nothing and evicts.
LEMMA SweepRecords == ASSUME ReplayInv, SweepRetention PROVE Records
<1>0. QueueOK(edge) /\ ids \in Nat /\ Len(edge.made) \in Nat
  BY DEF ReplayInv, Stores, QueueOK, QueueShape
<1>1. PICK old \in Expired(edge) :
        /\ edge' = retainTelemetry(edge, FALSE, 0, old) /\ dropped' = dropped \cup Covered(edge')
        /\ UNCHANGED <<backup, hub, sessionVars, ids, faults, reported>>
  BY DEF SweepRetention
<1>2. Len(old) \in Nat /\ \A i \in 1..Len(old) : old[i] \in (edge.acked + 1)..Len(edge.made)
  BY <1>0, ExpiredRows, Parameters
<1>3. Retained(edge, edge')
  BY <1>0, <1>1, <1>2, Retain, Parameters
<1>4. Produces(edge, edge') /\ edge'.made = edge.made
  BY <1>0, <1>3, RetainedProduces DEF Retained
<1>5. Counted(edge, ids, edge', ids')
  <2>1. (Len(edge.made) + 1)..Len(edge'.made) = {} /\ Len(edge'.made) - Len(edge.made) = 0 /\ ids + 0 = ids
    BY <1>0, <1>4
  <2>2. ids' = ids + (Len(edge'.made) - Len(edge.made))
    BY <1>1, <2>1
  <2>3. QED BY <2>1, <2>2 DEF Counted
<1>6. QED BY <1>0, <1>1, <1>4, <1>5 DEF Records

\* The three of them.
LEMMA RecordStep ==
  ASSUME ReplayInv, CommitEdgeCheck \/ RecordOutcome \/ SweepRetention
  PROVE  Records /\ ReplayInv'
  BY CheckRecords, OutcomeRecords, SweepRecords, EdgeProduces

-----------------------------------------------------------------------------
(* Sessions and pumps *)

\* The frames on the wire stay as they are.
LEMMA FramesKept ==
  ASSUME ReplayInv, UNCHANGED <<toHub, hub>>
  PROVE  /\ toHub' \in Seq(Frame \cup StateFrame)
         /\ \A i \in DOMAIN toHub' : toHub'[i].kind # "state" =>
              FrameOK(toHub'[i]) /\ toHub'[i].first <= hub'.cursor + 1
  BY DEF ReplayInv, Wire

\* Sessions begin, end and report health.
LEMMA SessionStep ==
  ASSUME ReplayInv, Connect \/ EdgeLoses \/ HubLoses \/ HubHealth \/ TakeBackup \/ RestoreBackup
  PROVE  ReplayInv'
<1>0. Stores /\ Wire /\ Pumping /\ Answered
  BY DEF ReplayInv
<1>1. CASE Connect
  <2>1. /\ edgeUp' = TRUE /\ toHub' = <<>> /\ toEdge' = <<>> /\ pump' = FreshPump
        /\ edge.acked <= hub.cursor /\ UNCHANGED <<edge, backup, hub, ids, dropped, reported>>
        /\ edge.acked \in Nat /\ hub.cursor \in Nat
    BY <1>0, <1>1 DEF Connect, historyVars, Stores, HubOK, HubShape, QueueOK, QueueShape
  <2>2. Stores'
    BY <1>0, <2>1, StoresSame
  <2>3. Wire' /\ Answered'
    BY <2>1 DEF Wire, Answered
  <2>4. Pumping'
    BY <2>1, FreshFields DEF Pumping
  <2>5. QED BY <2>2, <2>3, <2>4 DEF ReplayInv
<1>2. CASE EdgeLoses
  <2>1. EdgeClosed /\ UNCHANGED <<edge, backup, hub, ids, dropped, reported, toHub>>
    BY <1>2 DEF EdgeLoses
  <2>2. Stores'
    BY <1>0, <2>1, StoresSame
  <2>3. QED BY <2>1, <2>2, FramesKept, Closes
<1>3. CASE HubLoses
  <2>1. toHub' = <<>> /\ UNCHANGED <<edge, backup, hub, edgeUp, toEdge, pump, ids, dropped, reported>>
    BY <1>3 DEF HubLoses
  <2>2. CASE edgeUp
    BY <1>0, <2>1, <2>2, SameBatch DEF Pumping
  <2>3. CASE ~ edgeUp
    <3>1. Stores'
      BY <1>0, <2>1, StoresSame
    <3>2. QED BY <1>0, <2>1, <2>3, <3>1 DEF ReplayInv, Wire, Answered, Pumping, Inflight
  <2>4. QED BY <2>2, <2>3
<1>4. CASE HubHealth
  <2>1. /\ edgeUp /\ edgeUp' /\ pump' = [pump EXCEPT !.ready = ~ ingestFailed]
        /\ UNCHANGED <<edge, backup, hub, toHub, toEdge, ids, dropped, reported>>
    BY <1>4 DEF HubHealth, historyVars
  <2>2. PICK b : b = (~ ingestFailed) /\ pump' = [pump EXCEPT !.ready = b]
    BY <2>1, Zenon
  <2>3. /\ PumpShape(pump') /\ pump'.inflight = pump.inflight /\ pump'.sent = pump.sent
        /\ pump'.completed = pump.completed
    BY <1>0, <2>2 DEF Pumping, PumpShape
  <2>4. QED BY <2>1, <2>3, SameBatch
<1>5. CASE TakeBackup
  <2>1. backup' = edge /\ UNCHANGED <<edge, hub, edgeUp, toHub, toEdge, pump, ids, dropped, reported>>
    BY <1>5 DEF TakeBackup, sessionVars, historyVars
  <2>2. Stores'
    BY <1>0, <2>1 DEF Stores, Told, LossKnown
  <2>3. QED BY <1>0, <2>1, <2>2 DEF ReplayInv, Wire, Pumping, Inflight, Answered, Replay, IsAck,
                                    OldFrameOf, CurFrame, OldAck, CurAck
<1>6. CASE RestoreBackup
  <2>1. edge' = backup /\ EdgeClosed /\ UNCHANGED <<backup, hub, toHub, ids, dropped, reported>>
    BY <1>6 DEF RestoreBackup
  <2>2. Stores'
    BY <1>0, <2>1 DEF Stores, Told, LossKnown
  <2>3. QED BY <2>1, <2>2, FramesKept, Closes
<1>7. QED BY <1>1, <1>2, <1>3, <1>4, <1>5, <1>6

\* Snapshots are asked for and sent.
LEMMA StatePumpStep ==
  ASSUME ReplayInv, SendSnapshot \/ SnapshotApplied \/ SnapshotInterval
  PROVE  ReplayInv'
<1>0. Stores /\ Wire /\ Pumping /\ Answered
  BY DEF ReplayInv
<1>1. CASE SendSnapshot
  <2>1. PICK frame, s, state :
          /\ s = LastObservation(edge) /\ state = IF s = 0 THEN NoState ELSE [seq |-> s, event |-> edge.made[s]]
          /\ frame = [kind |-> "state", state |-> state, created |-> Created(edge)]
          /\ toHub' = IF hubUp THEN Append(toHub, frame) ELSE toHub
    BY <1>1 DEF SendSnapshot
  <2>2. frame \in StateFrame
    <3>1. edge.made \in Seq(Event) /\ Len(edge.made) \in Nat
      BY <1>0 DEF Stores, QueueOK, QueueShape
    <3>2. PICK S : S = {0} \cup {x \in 1..Created(edge) : edge.made[x].obs}
      OBVIOUS
    <3>3. S \in SUBSET Nat /\ S # {} /\ \A x \in S : x <= Len(edge.made)
      BY <3>1, <3>2 DEF Created
    <3>4. s \in S
      BY <2>1, <3>1, <3>2, <3>3, MaxOf DEF LastObservation
    <3>5. s \in Nat /\ (s # 0 => s \in 1..Len(edge.made))
      BY <3>2, <3>3, <3>4 DEF Created
    <3>6. CASE s = 0
      <4>1. state \in State
        BY <2>1, <3>6 DEF NoState, State, Event
      <4>2. QED BY <2>1, <3>1, <4>1 DEF StateFrame, Created
    <3>7. CASE s # 0
      <4>1. edge.made[s] \in Event
        BY <3>1, <3>5, <3>7
      <4>2. state \in State
        BY <2>1, <3>5, <3>7, <4>1 DEF State
      <4>3. QED BY <2>1, <3>1, <4>2 DEF StateFrame, Created
    <3>8. QED BY <3>6, <3>7
  <2>3. /\ edgeUp /\ edgeUp' /\ UNCHANGED <<edge, backup, hub, toEdge, ids, dropped, reported>>
        /\ pump' = [pump EXCEPT !.snap = "sent"]
    BY <1>1 DEF SendSnapshot, historyVars
  <2>4. /\ PumpShape(pump') /\ pump'.inflight = pump.inflight /\ pump'.sent = pump.sent
        /\ pump'.completed = pump.completed
    BY <1>0, <2>3 DEF Pumping, PumpShape
  <2>5. QED BY <2>1, <2>2, <2>3, <2>4, SameBatch
<1>2. CASE SnapshotApplied
  <2>1. /\ edgeUp /\ edgeUp' /\ UNCHANGED <<edge, backup, hub, toHub, ids, dropped, reported>>
        /\ toEdge # <<>> /\ toEdge' = Tail(toEdge)
        /\ pump' = [pump EXCEPT !.snap = "idle", !.pending = FALSE]
    BY <1>2 DEF SnapshotApplied, historyVars
  <2>2. /\ PumpShape(pump') /\ pump'.inflight = pump.inflight /\ pump'.sent = pump.sent
        /\ pump'.completed = pump.completed
    BY <1>0, <2>1 DEF Pumping, PumpShape
  <2>3. QED BY <2>1, <2>2, SameBatch
<1>3. CASE SnapshotInterval
  <2>1. /\ edgeUp /\ edgeUp' /\ UNCHANGED <<edge, backup, hub, toHub, toEdge, ids, dropped, reported>>
        /\ pump' = [pump EXCEPT !.snap = "due"]
    BY <1>3 DEF SnapshotInterval, historyVars
  <2>2. /\ PumpShape(pump') /\ pump'.inflight = pump.inflight /\ pump'.sent = pump.sent
        /\ pump'.completed = pump.completed
    BY <1>0, <2>1 DEF Pumping, PumpShape
  <2>3. QED BY <2>1, <2>2, SameBatch
<1>4. QED BY <1>1, <1>2, <1>3

\* What the pump reads.
LEMMA BatchRead ==
  ASSUME QueueOK(edge), LossKnown(edge), NEW f \in ReadReplayBatch(edge)
  PROVE  Inflight(f)
<1>0. /\ edge.made \in Seq(Event) /\ edge.acked \in Nat /\ Len(edge.made) \in Nat /\ edge.acked <= Len(edge.made)
      /\ edge.rows \subseteq (edge.acked + 1)..Len(edge.made) /\ edge.rows \subseteq Nat
      /\ \A g \in edge.gaps : g.from \in Nat /\ g.through \in Nat /\ edge.acked < g.from
                              /\ g.from <= g.through /\ g.through <= Len(edge.made)
  BY DEF QueueOK, QueueShape, GapsApart, Span
<1> DEFINE from == edge.acked + 1
           here == {g \in edge.gaps : g.from <= from /\ from <= g.through}
           runs == {n \in from..Min({Created(edge), edge.acked + BatchMax}) : from..n \subseteq edge.rows}
<1>1. CASE from <= Created(edge) /\ here # {}
  <2>1. ReadReplayBatch(edge) = {buildReplayGapFrame(edge, g) : g \in here}
    BY <1>0, <1>1 DEF ReadReplayBatch, Created
  <2>2. PICK g \in here : f = buildReplayGapFrame(edge, g)
    BY <2>1
  <2>3. f.kind = "gap" /\ f.first = from /\ f.last = g.through /\ f.events = <<>> /\ f \in Frame
    BY <1>0, <2>2 DEF buildReplayGapFrame, Frame
  <2>4. FrameOK(f)
    BY <1>0, <2>2, <2>3 DEF FrameOK
  <2>5. \A s \in f.first..f.last : edge.made[s].id \in dropped
    <3> TAKE s \in f.first..f.last
    <3>1. s \in 1..Len(edge.made) /\ g.from <= s /\ s <= g.through
      BY <1>0, <2>2, <2>3
    <3>2. Covers(edge.gaps, s)
      BY <2>2, <3>1 DEF Covers
    <3>3. QED BY <3>1, <3>2 DEF LossKnown
  <2>6. QED BY <1>0, <2>2, <2>3, <2>4, <2>5 DEF Inflight
<1>2. CASE from <= Created(edge) /\ here = {}
  <2>1. PICK n : n = Max({edge.acked} \cup runs) /\ n # edge.acked /\
          f = [kind |-> "batch", first |-> from, last |-> n, events |-> SubSeq(edge.made, from, n)]
    BY <1>0, <1>2 DEF ReadReplayBatch, Created
  <2>2. n \in Nat /\ from <= n /\ n <= Len(edge.made)
    <3>1. \A x \in runs : from..x \subseteq edge.rows /\ x \in Nat /\ from <= x
      BY <1>0
    <3>2. \A x \in runs : x <= Len(edge.made)
      BY <1>0, <3>1
    <3>3. PICK S : S = {edge.acked} \cup runs
      OBVIOUS
    <3>4. S \in SUBSET Nat /\ S # {} /\ \A x \in S : x <= Len(edge.made)
      BY <1>0, <3>1, <3>2, <3>3
    <3>5. Max(S) \in S
      BY <1>0, <3>4, MaxOf
    <3>6. n \in runs
      BY <2>1, <3>3, <3>5
    <3>7. QED BY <3>1, <3>2, <3>6
  <2>3. PICK m \in Nat : m = from /\ m \in 1..Len(edge.made) /\ n \in m..Len(edge.made)
    BY <1>0, <2>2
  <2>4. /\ SubSeq(edge.made, from, n) \in Seq(Event) /\ Len(SubSeq(edge.made, from, n)) = n - from + 1
        /\ \A i \in 1..(n - from + 1) : SubSeq(edge.made, from, n)[i] = edge.made[from + i - 1]
    <3>1. /\ SubSeq(edge.made, m, n) \in Seq(Event) /\ Len(SubSeq(edge.made, m, n)) = n - m + 1
          /\ \A i \in 1..(n - m + 1) : SubSeq(edge.made, m, n)[i] = edge.made[m + i - 1]
      BY <1>0, <2>2, <2>3
    <3>2. QED BY <2>3, <3>1
  <2>5. PICK ev \in Seq(Event) : ev = SubSeq(edge.made, from, n)
    BY <2>4
  <2>6. f.kind = "batch" /\ f.first = from /\ f.last = n /\ f.events = ev /\ f \in Frame
    <3>1. f = [kind |-> "batch", first |-> m, last |-> n, events |-> ev]
      BY <2>1, <2>3, <2>5
    <3>2. QED BY <2>2, <2>3, <3>1 DEF Frame
  <2>7. FrameOK(f)
    BY <1>0, <2>2, <2>4, <2>5, <2>6 DEF FrameOK
  <2>8. \A s \in f.first..f.last : EventAt(f, s) = edge.made[s]
    <3> TAKE s \in f.first..f.last
    <3>1. s \in Nat /\ m <= s /\ s <= n
      BY <2>2, <2>3, <2>6
    <3>2. s - m + 1 \in 1..(n - m + 1) /\ m + (s - m + 1) - 1 = s
      BY <2>2, <2>3, <3>1
    <3>3. PICK i : i = s - m + 1
      OBVIOUS
    <3>4. ev[i] = edge.made[m + i - 1]
      BY <2>3, <2>4, <2>5, <3>2, <3>3
    <3>5. QED BY <2>3, <2>6, <3>2, <3>3, <3>4 DEF EventAt
  <2>9. QED BY <1>0, <2>2, <2>6, <2>7, <2>8 DEF Inflight
<1>3. from <= Created(edge)
  BY <1>0 DEF ReadReplayBatch, Created
<1>4. QED BY <1>1, <1>2, <1>3

\* The next batch is read.
LEMMA ReadStep == ASSUME ReplayInv, PumpRead PROVE ReplayInv'
<1>0. Stores /\ Wire /\ Pumping /\ Answered /\ edgeUp /\ pump.inflight = NoFrame
  BY DEF ReplayInv, PumpRead
<1>1. UNCHANGED <<edge, backup, hub, hubUp, toHub, ids, dropped, reported>>
  BY DEF PumpRead, historyVars
<1>2. Stores'
  BY <1>0, <1>1, StoresSame
<1>3. CASE MissingSequence(edge)
  <2>1. pump' = FreshPump /\ edgeUp' = FALSE /\ toEdge' = <<>>
    BY <1>3 DEF PumpRead
  <2>2. QED BY <1>1, <1>2, <2>1, FramesKept, Closes DEF EdgeClosed
<1>4. CASE ~ MissingSequence(edge)
  <2>1. PICK f \in ReadReplayBatch(edge) : pump' = [pump EXCEPT !.inflight = f, !.sent = FALSE, !.retry = FALSE]
    BY <1>4 DEF PumpRead
  <2>2. edgeUp' = TRUE /\ toEdge' = toEdge
    BY <1>4 DEF PumpRead
  <2>3. PumpShape(pump') /\ pump'.inflight = f /\ pump'.sent = FALSE /\ pump'.completed = pump.completed
    BY <1>0, <2>1 DEF Pumping, PumpShape
  <2>4. Inflight(f)
    BY <1>0, BatchRead DEF Stores
  <2>5. Wire'
    BY <1>0, <1>1, <2>2 DEF Wire
  <2>6. Pumping'
    BY <1>0, <1>1, <2>2, <2>3, <2>4 DEF Pumping, Inflight
  <2>7. /\ \A x : OldFrameOf(x)' <=> OldFrameOf(x)
        /\ \A x : ~ CurFrame(x)' /\ ~ CurFrame(x)
        /\ \A x : OldAck(x)' <=> OldAck(x)
        /\ \A x : ~ CurAck(x)' /\ ~ CurAck(x)
    BY <1>0, <1>1, <2>3 DEF OldFrameOf, CurFrame, OldAck, CurAck
  <2>8. Answered'
    BY <1>0, <1>1, <2>2, <2>7 DEF Answered, Replay, IsAck
  <2>9. QED BY <1>2, <2>5, <2>6, <2>8 DEF ReplayInv
<1>5. QED BY <1>3, <1>4

\* It is sent, or sent again.
LEMMA SendStep == ASSUME ReplayInv, PumpSend PROVE ReplayInv'
<1>0. Stores /\ Wire /\ Pumping /\ Answered /\ edgeUp /\ edgeUp' /\ pump.inflight # NoFrame
  BY DEF ReplayInv, PumpSend
<1>1. /\ UNCHANGED <<edge, backup, hub, hubUp, toEdge, ids, dropped, reported>> /\ pump' = [pump EXCEPT !.sent = TRUE]
      /\ toHub' = IF hubUp THEN Append(toHub, pump.inflight) ELSE toHub
  BY DEF PumpSend, historyVars
<1>2. Stores'
  BY <1>0, <1>1, StoresSame
<1>3. PumpShape(pump') /\ pump'.inflight = pump.inflight /\ pump'.sent = TRUE /\ pump'.completed = pump.completed
  BY <1>0, <1>1 DEF Pumping, PumpShape
<1>4. PICK f : f = pump.inflight /\ FrameOK(f) /\ f \in Frame /\ f.first = edge.acked + 1 /\ f.kind # "state"
  BY <1>0, FrameIsSome DEF Pumping, Inflight, FrameOK
<1>5. /\ toHub \in Seq(Frame \cup StateFrame) /\ toHub' \in Seq(Frame \cup StateFrame)
      /\ \A i \in DOMAIN toHub' : (i \in DOMAIN toHub /\ toHub'[i] = toHub[i]) \/ toHub'[i] = f
      /\ \A i \in DOMAIN toHub', j \in DOMAIN toHub' :
           i < j /\ j \in DOMAIN toHub => i \in DOMAIN toHub /\ toHub'[i] = toHub[i]
  BY <1>0, <1>1, <1>4 DEF Wire
<1>6. f.first <= hub.cursor + 1
  BY <1>0, <1>4 DEF Pumping, Stores, HubOK, HubShape, QueueOK, QueueShape
<1>7. Wire'
  BY <1>0, <1>1, <1>4, <1>5, <1>6 DEF Wire
<1>8. Pumping'
  BY <1>0, <1>1, <1>3 DEF Pumping, Inflight
<1>9. /\ \A x : OldFrameOf(x)' <=> OldFrameOf(x)
      /\ \A x : CurFrame(x)' <=> x = f
      /\ \A x : CurFrame(x) => x = f
      /\ \A x : OldAck(x)' <=> OldAck(x)
      /\ \A x : CurAck(x) => CurAck(x)'
      /\ \A x : OldAck(x) => ~ CurAck(x)'
      /\ \A x : OldFrameOf(x) => x # f
  <2>1. \A x : OldAck(x) => x.last <= edge.acked
    BY <1>0, Apart
  <2>2. \A x : CurAck(x)' => x.last = f.last
    BY <1>1, <1>3, <1>4, OutcomeFields DEF CurAck
  <2>3. f.last \in Nat /\ edge.acked \in Nat /\ edge.acked < f.last
    BY <1>0, <1>4 DEF Stores, QueueOK, QueueShape, FrameOK, Frame
  <2>4. \A x : OldFrameOf(x) => x.last <= edge.acked
    BY <1>0, Apart
  <2>5. \A x : OldAck(x) => ~ CurAck(x)'
    BY <2>1, <2>2, <2>3
  <2>6. QED BY <1>0, <1>1, <1>3, <1>4, <2>3, <2>4, <2>5 DEF OldFrameOf, CurFrame, OldAck, CurAck
<1>10. ASSUME NEW i \in DOMAIN toEdge, IsAck(i), CurAck(toEdge[i])' PROVE CurAck(toEdge[i])
  <2>1. PICK x : x = toEdge[i]
    OBVIOUS
  <2>2. CurAck(x)'
    BY <1>1, <1>10, <2>1 DEF CurAck
  <2>3. OldAck(x) \/ CurAck(x)
    BY <1>0, <1>10, <2>1 DEF Answered
  <2>4. QED BY <1>9, <2>1, <2>2, <2>3
<1>11. /\ \A i \in DOMAIN toHub' : toHub'[i].kind # "state" => OldFrameOf(toHub'[i]) \/ toHub'[i] = f
       /\ \A i, j \in DOMAIN toHub' :
            i < j /\ toHub'[i].kind # "state" /\ toHub'[j].kind # "state" /\ toHub'[i] = f => toHub'[j] = f
       /\ \A i \in DOMAIN toEdge, j \in DOMAIN toHub' :
            IsAck(i) /\ toHub'[j].kind # "state" /\ CurAck(toEdge[i]) => toHub'[j] = f
  <2>1. \A i \in DOMAIN toHub' : toHub'[i].kind # "state" => OldFrameOf(toHub'[i]) \/ toHub'[i] = f
    BY <1>0, <1>5, <1>9 DEF Answered, Replay
  <2>2. ASSUME NEW i \in DOMAIN toHub', NEW j \in DOMAIN toHub', i < j, toHub'[i].kind # "state",
               toHub'[j].kind # "state", toHub'[i] = f, toHub'[j] # f
        PROVE  FALSE
    <3>1. j \in DOMAIN toHub /\ toHub'[j] = toHub[j]
      BY <1>5, <2>2
    <3>2. i \in DOMAIN toHub /\ toHub[i] = f
      BY <1>5, <2>2, <3>1
    <3>3. Replay(i) /\ Replay(j) /\ CurFrame(toHub[i])
      BY <1>0, <1>9, <2>2, <3>1, <3>2 DEF Answered, Replay
    <3>4. CurFrame(toHub[j])
      BY <1>0, <2>2, <3>1, <3>2, <3>3 DEF Answered
    <3>5. QED BY <1>9, <2>2, <3>1, <3>4
  <2>3. ASSUME NEW i \in DOMAIN toEdge, NEW j \in DOMAIN toHub', IsAck(i), toHub'[j].kind # "state",
               CurAck(toEdge[i]), toHub'[j] # f
        PROVE  FALSE
    <3>1. j \in DOMAIN toHub /\ toHub'[j] = toHub[j] /\ Replay(j)
      BY <1>5, <2>3 DEF Replay
    <3>2. CurFrame(toHub[j])
      BY <1>0, <2>3, <3>1 DEF Answered
    <3>3. QED BY <1>9, <2>3, <3>1, <3>2
  <2>4. QED BY <2>1, <2>2, <2>3
<1>12. /\ \A i \in DOMAIN toEdge : IsAck(i) => OldAck(toEdge[i]) \/ CurAck(toEdge[i])
       /\ \A i, j \in DOMAIN toEdge : i < j /\ IsAck(i) /\ IsAck(j) /\ CurAck(toEdge[i]) => CurAck(toEdge[j])
  BY <1>0 DEF Answered
<1>16. Answered'
  BY <1>1, <1>9, <1>10, <1>11, <1>12 DEF Answered, Replay, IsAck
<1>17. QED BY <1>2, <1>7, <1>8, <1>16 DEF ReplayInv

\* A retry is invited.
LEMMA RetryStep == ASSUME ReplayInv, PumpRetry PROVE ReplayInv'
<1>0. Stores /\ Wire /\ Pumping /\ Answered /\ edgeUp
  BY DEF ReplayInv, PumpRetry
<1>1. UNCHANGED <<edge, backup, hub, hubUp, toHub, ids, dropped, reported>> /\ toEdge # <<>>
  BY DEF PumpRetry, historyVars
<1>2. CASE pump' = [pump EXCEPT !.retry = TRUE] /\ toEdge' = Tail(toEdge) /\ UNCHANGED edgeUp
  <2>1. /\ PumpShape(pump') /\ pump'.inflight = pump.inflight /\ pump'.sent = pump.sent
        /\ pump'.completed = pump.completed
    BY <1>0, <1>2 DEF Pumping, PumpShape
  <2>2. edgeUp'
    BY <1>0, <1>2
  <2>3. QED BY <1>0, <1>1, <1>2, <2>1, <2>2, SameBatch
<1>3. CASE EdgeClosed
  <2>1. Stores'
    BY <1>0, <1>1, StoresSame
  <2>2. QED BY <1>1, <1>3, <2>1, FramesKept, Closes
<1>4. QED BY <1>2, <1>3 DEF PumpRetry

\* An acknowledged sequence is settled at the hub, or the answer said it was reused.
LEMMA AnswerTells ==
  ASSUME Stores, NEW f, Inflight(f), f.last <= hub.cursor, NEW rejected, rejected = Rejections(hub, f),
         NEW s \in (edge.acked + 1)..f.last
  PROVE  \/ s \in DOMAIN hub.receipts /\ hub.receipts[s].event = edge.made[s]
         \/ Covers(hub.gaps, s)
         \/ [seq |-> s, code |-> "reused"] \in rejected
         \/ s \in DOMAIN hub.receipts /\ edge.made[s].id \in dropped
<1>1. /\ edge.acked \in Nat /\ f.first = edge.acked + 1 /\ f.last \in Nat /\ f.first \in Nat /\ s \in Nat
      /\ edge.acked < s /\ s <= f.last /\ hub.cursor \in Nat /\ FrameOK(f) /\ f.kind \in {"batch", "gap"}
  <2>1. QueueOK(edge) /\ HubShape(hub) /\ FrameOK(f) /\ f.first = edge.acked + 1
    BY DEF Stores, HubOK, Inflight
  <2>2. edge.acked \in Nat /\ hub.cursor \in Nat
    BY <2>1, QueueFields, HubFields
  <2>3. f.kind \in {"batch", "gap"} /\ f.first \in Nat /\ f.last \in Nat
    BY <2>1, FrameFields
  <2>4. QED BY <2>1, <2>2, <2>3
<1>2. s \in DOMAIN hub.receipts \/ Covers(hub.gaps, s)
  BY <1>1 DEF Stores, HubOK
<1>3. CASE f.kind = "gap"
  BY <1>1, <1>2, <1>3 DEF Inflight
<1>4. CASE f.kind = "batch"
  <2>1. s \in Sequences(f) /\ EventAt(f, s) = edge.made[s]
    BY <1>1, <1>4 DEF Sequences, Inflight
  <2>2. SUFFICES ASSUME s \in DOMAIN hub.receipts, hub.receipts[s].event # edge.made[s]
                 PROVE  [seq |-> s, code |-> "reused"] \in rejected
    BY <1>2
  <2>3. Rejects(hub, f, s) /\ Code(hub, f, s) = "reused"
    BY <1>1, <2>1, <2>2 DEF Rejects, Code
  <2>4. QED BY <1>1, <2>1, <2>3, Outcomes
<1>5. QED BY <1>1, <1>3, <1>4

\* An answer to a batch already completed is ignored.
LEMMA DuplicateIgnored ==
  ASSUME Stores, Pumping, NEW ack, OldAck(ack)
  PROVE  Ignores(ack) /\ ~ Commits(ack)
<1>1. ack.last <= edge.acked /\ edge.acked \in Nat
  BY Apart
<1>2. pump.inflight # NoFrame => pump.inflight.last \in Nat /\ edge.acked < pump.inflight.last
  BY <1>1 DEF Pumping, Inflight, FrameOK, Frame
<1>3. ~ Answers(ack)
  BY <1>1, <1>2 DEF Answers
<1>4. QED BY <1>3 DEF Ignores, ProvenDuplicate, OldAck, Commits

\* An answer to the batch in flight is committed.
LEMMA AnswerCommits ==
  ASSUME Stores, Pumping, NEW ack, CurAck(ack)
  PROVE  /\ Commits(ack) /\ pump.inflight # NoFrame /\ Inflight(pump.inflight)
         /\ ack.last = pump.inflight.last /\ ack.rejected = Rejections(hub, pump.inflight)
         /\ pump.inflight.last <= hub.cursor /\ Outcome(ack) = OutcomeOf(hub, pump.inflight)
         /\ pump.inflight.last \in edge.acked..Len(edge.made)
<1>1. PICK f : f = pump.inflight /\ Inflight(f) /\ FrameOK(f) /\ pump.inflight # NoFrame
  BY DEF CurAck, Pumping, Inflight
<1>2. /\ pump.sent /\ f.last <= hub.cursor /\ Outcome(ack) = OutcomeOf(hub, f)
      /\ ack.last = f.last /\ ack.count = Len(f.events) /\ ack.rejected = Rejections(hub, f)
  BY <1>1, OutcomeFields DEF CurAck
<1>3. /\ f.last \in edge.acked..Len(edge.made) /\ QueueOK(edge) /\ hub.cursor \in Nat
  <2>1. QueueOK(edge) /\ HubShape(hub) /\ f.first = edge.acked + 1 /\ f.last <= Len(edge.made)
    BY <1>1 DEF Stores, HubOK, Inflight
  <2>2. f.first \in Nat /\ f.last \in Nat /\ f.first <= f.last
    BY <1>1, FrameFields
  <2>3. QED BY <2>1, <2>2, QueueFields, HubFields
<1>4. ACKAccounted(edge, f.last)
  BY <1>3, Acknowledge
<1>5. \A r \in ack.rejected : r.seq >= f.first /\ r.seq <= f.last
  BY <1>1, <1>2, <1>3, RejectionsType
<1>6. Commits(ack)
  BY <1>1, <1>2, <1>4, <1>5 DEF Commits, Answers
<1>7. QED BY <1>1, <1>2, <1>3, <1>6

\* An answer arrives: the batch is acknowledged and pruned, or was before.
LEMMA AckStep == ASSUME ReplayInv, PumpACK PROVE ReplayInv'
<1>0. Stores /\ Wire /\ Pumping /\ Answered /\ edgeUp /\ toEdge # <<>> /\ toEdge \in Seq(Answer)
  BY DEF ReplayInv, PumpACK, Wire
<1>1. PICK ack, reused : 
        /\ ack = Head(toEdge) /\ ack.kind = "ack" /\ reused = {r.seq : r \in {x \in ack.rejected : x.code = "reused"}}
        /\ edge' = IF Commits(ack) THEN CommitReplayACK(edge, ack.last) ELSE edge
        /\ reported' = IF Commits(ack) THEN reported \cup {edge.made[s].id : s \in reused} ELSE reported
        /\ pump' = IF Commits(ack)
                   THEN [pump EXCEPT !.completed = Outcome(ack), !.inflight = NoFrame,
                                     !.sent = FALSE, !.retry = FALSE]
                   ELSE IF Ignores(ack) THEN pump ELSE FreshPump
        /\ edgeUp' = (Commits(ack) \/ Ignores(ack))
        /\ toEdge' = IF edgeUp' THEN Tail(toEdge) ELSE <<>>
  BY DEF PumpACK
<1>2. UNCHANGED <<backup, hub, hubUp, toHub, ids, dropped>>
  BY DEF PumpACK
<1>3. 1 \in DOMAIN toEdge /\ ack = toEdge[1] /\ IsAck(1)
  BY <1>0, <1>1 DEF IsAck
<1>4. OldAck(ack) \/ CurAck(ack)
  BY <1>0, <1>3 DEF Answered
<1>5. CASE OldAck(ack)
  <2>2. Ignores(ack) /\ ~ Commits(ack)
    BY <1>0, <1>5, DuplicateIgnored
  <2>3. edgeUp' /\ pump' = pump /\ UNCHANGED <<edge, reported>> /\ toEdge' = Tail(toEdge)
    BY <1>1, <2>2
  <2>4. PumpShape(pump')
    BY <1>0, <2>3 DEF Pumping
  <2>5. QED BY <1>0, <1>2, <2>3, <2>4, SameBatch
<1>6. CASE CurAck(ack)
  <2>1. PICK f : /\ f = pump.inflight /\ Inflight(f) /\ Commits(ack) /\ ack.last = f.last
                 /\ ack.rejected = Rejections(hub, f) /\ f.last <= hub.cursor
                 /\ Outcome(ack) = OutcomeOf(hub, f) /\ f.last \in edge.acked..Len(edge.made)
    BY <1>0, <1>6, AnswerCommits
  <2>2. /\ f.last \in Nat /\ f.first \in Nat /\ edge.acked \in Nat /\ f.first = edge.acked + 1 /\ f.first <= f.last
        /\ QueueOK(edge) /\ hub.cursor \in Nat
    BY <1>0, <2>1 DEF Stores, QueueOK, QueueShape, Inflight, FrameOK, Frame, HubOK, HubShape
  <2>3. /\ QueueOK(CommitReplayACK(edge, f.last))
        /\ CommitReplayACK(edge, f.last).made = edge.made /\ CommitReplayACK(edge, f.last).acked = f.last
        /\ \A x \in Nat : Covers(CommitReplayACK(edge, f.last).gaps, x) => Covers(edge.gaps, x)
    BY <2>1, <2>2, Acknowledge
  <2>8. /\ edge' = CommitReplayACK(edge, f.last) /\ reported' = reported \cup {edge.made[s].id : s \in reused}
        /\ pump' = [pump EXCEPT !.completed = Outcome(ack), !.inflight = NoFrame, !.sent = FALSE, !.retry = FALSE]
        /\ edgeUp' = TRUE /\ toEdge' = Tail(toEdge)
    BY <1>1, <2>1
  <2>9. /\ QueueOK(edge') /\ edge'.made = edge.made /\ edge'.acked = f.last
        /\ \A x \in Nat : Covers(edge'.gaps, x) => Covers(edge.gaps, x)
    BY <2>3, <2>8
  <2>10. PumpShape(pump') /\ pump'.inflight = NoFrame /\ pump'.completed = Outcome(ack)
    BY <1>0, <2>8 DEF Pumping, PumpShape
  <2>11. Told(edge)'
    <3> SUFFICES ASSUME NEW s \in 1..f.last
                 PROVE  \/ s \in DOMAIN hub.receipts /\ hub.receipts[s].event = edge.made[s]
                        \/ Covers(hub.gaps, s)
                        \/ edge.made[s].id \in reported'
                        \/ s \in DOMAIN hub.receipts /\ edge.made[s].id \in dropped
      BY <1>2, <2>9 DEF Told
    <3>1. CASE s <= edge.acked
      BY <1>0, <2>3, <2>8, <3>1 DEF Stores, Told
    <3>2. CASE edge.acked < s
      <4>1. s \in (edge.acked + 1)..f.last
        BY <2>2, <3>2
      <4>2. [seq |-> s, code |-> "reused"] \in ack.rejected => s \in reused
        BY <1>1
      <4>3. s \in reused => edge.made[s].id \in reported'
        BY <2>8
      <4>4. PICK rejected : rejected = ack.rejected
        OBVIOUS
      <4>5. QED BY <1>0, <2>1, <2>2, <4>1, <4>2, <4>3, <4>4, AnswerTells
    <3>3. QED BY <2>2, <3>1, <3>2
  <2>12. Stores'
    <3>1. Told(backup)' /\ LossKnown(backup)'
      BY <1>0, <1>2, <2>8 DEF Stores, Told, LossKnown
    <3>2. LossKnown(edge)'
      BY <1>0, <1>2, <2>9 DEF Stores, LossKnown
    <3>3. QED BY <1>0, <1>2, <2>9, <2>11, <3>1, <3>2 DEF Stores
  <2>13. Wire'
    BY <1>0, <1>2, <2>8 DEF Wire
  <2>14. Pumping'
    <3>1. pump'.completed.last = f.last
      BY <2>1, <2>10 DEF OutcomeOf
    <3>2. QED BY <1>2, <2>1, <2>2, <2>8, <2>9, <2>10, <3>1 DEF Pumping
  <2>15. /\ \A x : x = f => OldFrameOf(x)'
         /\ \A x : Outcome(x) = OutcomeOf(hub, f) => OldAck(x)'
         /\ \A x : ~ CurFrame(x)' /\ ~ CurAck(x)'
    <3>1. Outcome(ack) # NoFrame
      BY OutcomeIsSome
    <3>2. QED BY <1>2, <2>1, <2>10, <3>1 DEF OldFrameOf, CurFrame, OldAck, CurAck
  <2>16. \A j \in DOMAIN toHub : Replay(j) => toHub[j] = f
    BY <1>0, <1>3, <1>6, <2>1 DEF Answered, CurFrame
  <2>17. \A j \in DOMAIN toEdge : IsAck(j) => Outcome(toEdge[j]) = OutcomeOf(hub, f)
    <3>1. \A j \in DOMAIN toEdge : j = 1 \/ 1 < j
      BY <1>0
    <3>2. \A j \in DOMAIN toEdge : IsAck(j) => CurAck(toEdge[j])
      BY <1>0, <1>3, <1>6, <3>1 DEF Answered
    <3>3. QED BY <2>1, <3>2 DEF CurAck
  <2>18. \A i \in DOMAIN toEdge' : i \in Nat /\ i + 1 \in DOMAIN toEdge /\ toEdge'[i] = toEdge[i + 1]
    BY <1>0, <2>8
  <2>19. Answered'
    BY <1>2, <2>15, <2>16, <2>17, <2>18 DEF Answered, Replay, IsAck
  <2>20. QED BY <2>12, <2>13, <2>14, <2>19 DEF ReplayInv
<1>7. QED BY <1>4, <1>5, <1>6

-----------------------------------------------------------------------------
(* The hub *)

\* What the hub puts on the wire for a frame f.
Replied(f) ==
  \/ UNCHANGED toEdge
  \/ \E a \in Answer : /\ edgeUp /\ toEdge' = Append(toEdge, a)
                       /\ \/ a.kind = "retry"
                          \/ /\ a.kind = "ack" /\ hub' = IngestReplayBatch(hub, f)
                             /\ Outcome(a) = OutcomeOf(hub, f)

\* The hub takes a replay frame, writes it or fails to, and answers or does not.
LEMMA HubTakes ==
  ASSUME ReplayInv, toHub # <<>>, NEW f, f = Head(toHub), f.kind # "state",
         hub' = hub \/ hub' = IngestReplayBatch(hub, f), toHub' = Tail(toHub), Replied(f),
         UNCHANGED <<edge, backup, edgeUp, pump, ids, dropped, reported>>
  PROVE  ReplayInv'
<1>0. /\ Stores /\ Wire /\ Pumping /\ Answered /\ toHub \in Seq(Frame \cup StateFrame) /\ toEdge \in Seq(Answer)
      /\ HubOK(hub) /\ edge.acked \in Nat
  BY DEF ReplayInv, Wire, Stores, QueueOK, QueueShape
<1>1. /\ 1 \in DOMAIN toHub /\ f = toHub[1] /\ toHub' \in Seq(Frame \cup StateFrame)
      /\ \A i \in DOMAIN toHub' : i \in Nat /\ i + 1 \in DOMAIN toHub /\ 1 < i + 1 /\ toHub'[i] = toHub[i + 1]
  BY <1>0
<1>2. FrameOK(f) /\ f.first <= hub.cursor + 1 /\ Replay(1)
  BY <1>0, <1>1 DEF Wire, Replay
<1>3. /\ HubOK(hub') /\ Grown(hub, hub') /\ hub.cursor <= hub'.cursor /\ hub.cursor \in Nat /\ hub'.cursor \in Nat
      /\ Rejections(hub', f) = Rejections(hub, f)
      /\ hub' = IngestReplayBatch(hub, f) => f.last <= hub'.cursor
  <2>1. CASE hub' = IngestReplayBatch(hub, f)
    <3>1. PICK r : r = hub'
      OBVIOUS
    <3>2. HubShape(r) /\ Ingested(hub, r, f)
      BY <1>0, <1>2, <2>1, <3>1, IngestRecord
    <3>3. HubOK(r) /\ Grown(hub, r) /\ f.last <= r.cursor
      BY <1>0, <1>2, <3>2, IngestSettles
    <3>4. Rejections(r, f) = Rejections(hub, f)
      BY <1>0, <1>2, <3>2, SameOutcome
    <3>5. QED BY <1>0, <3>1, <3>3, <3>4 DEF Grown, HubOK, HubShape
  <2>2. CASE hub' = hub /\ hub' # IngestReplayBatch(hub, f)
    BY <1>0, <2>2 DEF Grown, HubOK, HubShape
  <2>3. QED BY <2>1, <2>2
<1>4. Stores'
  BY <1>0, <1>3, StoresGrow
<1>5. /\ toEdge' \in Seq(Answer)
      /\ edgeUp \/ toEdge' = toEdge
      /\ \A i \in DOMAIN toEdge : i \in DOMAIN toEdge' /\ toEdge'[i] = toEdge[i]
      /\ \A i \in DOMAIN toEdge' :
           \/ i \in DOMAIN toEdge
           \/ toEdge'[i].kind = "retry"
           \/ /\ hub' = IngestReplayBatch(hub, f) /\ Outcome(toEdge'[i]) = OutcomeOf(hub, f)
              /\ \A j \in DOMAIN toEdge' : j \in DOMAIN toEdge \/ j = i
      /\ \A i, j \in DOMAIN toEdge' : i < j /\ j \in DOMAIN toEdge => i \in DOMAIN toEdge
      /\ \A i, j \in DOMAIN toEdge' : i < j => i \in DOMAIN toEdge
  <2>1. CASE toEdge' = toEdge
    BY <1>0, <2>1
  <2>2. ASSUME NEW a \in Answer, edgeUp, toEdge' = Append(toEdge, a)
        PROVE  /\ toEdge' \in Seq(Answer) /\ edgeUp
               /\ \A i \in DOMAIN toEdge : i \in DOMAIN toEdge' /\ toEdge'[i] = toEdge[i]
               /\ \A i \in DOMAIN toEdge' : i \in DOMAIN toEdge \/ toEdge'[i] = a
               /\ \A i, j \in DOMAIN toEdge' : j \in DOMAIN toEdge \/ i \in DOMAIN toEdge \/ i = j
               /\ \A i, j \in DOMAIN toEdge' : i < j => i \in DOMAIN toEdge
    BY <1>0, <2>2
  <2>3. CASE toEdge' # toEdge
    <3>1. PICK a \in Answer : /\ edgeUp /\ toEdge' = Append(toEdge, a)
                              /\ \/ a.kind = "retry"
                                 \/ /\ a.kind = "ack" /\ hub' = IngestReplayBatch(hub, f)
                                    /\ Outcome(a) = OutcomeOf(hub, f)
      BY <2>3 DEF Replied
    <3>2. /\ toEdge' \in Seq(Answer) /\ edgeUp
          /\ \A i \in DOMAIN toEdge : i \in DOMAIN toEdge' /\ toEdge'[i] = toEdge[i]
          /\ \A i \in DOMAIN toEdge' : i \in DOMAIN toEdge \/ toEdge'[i] = a
          /\ \A i, j \in DOMAIN toEdge' : j \in DOMAIN toEdge \/ i \in DOMAIN toEdge \/ i = j
          /\ \A i, j \in DOMAIN toEdge' : i < j => i \in DOMAIN toEdge
      BY <2>2, <3>1
    <3>3. QED BY <3>1, <3>2
  <2>4. QED BY <2>1, <2>3
<1>6. Wire'
  <2>1. ASSUME NEW i \in DOMAIN toHub', toHub'[i].kind # "state"
        PROVE  FrameOK(toHub'[i]) /\ toHub'[i].first <= hub'.cursor + 1
    <3>1. PICK x : x = toHub'[i] /\ x = toHub[i + 1] /\ i + 1 \in DOMAIN toHub
      BY <1>1
    <3>2. FrameOK(x) /\ x.first <= hub.cursor + 1 /\ x.first \in Nat
      BY <1>0, <2>1, <3>1 DEF Wire, FrameOK, Frame
    <3>3. QED BY <1>3, <3>1, <3>2
  <2>2. QED BY <1>1, <1>5, <2>1 DEF Wire
<1>7. Pumping'
  BY <1>0, <1>3, <1>5 DEF Pumping, Inflight
<1>8. CASE ~ edgeUp
  <2>1. Answered'
    BY <1>8 DEF Answered
  <2>2. QED BY <1>4, <1>6, <1>7, <2>1 DEF ReplayInv
<1>9. /\ \A x : OldAck(x)' <=> OldAck(x)
      /\ \A x : CurFrame(x)' <=> CurFrame(x)
      /\ \A x : OldFrameOf(x) => x.last <= edge.acked
      /\ \A x : CurFrame(x) => edge.acked < x.last /\ x.last \in Nat
      /\ \A x : OldAck(x) => x.last <= edge.acked
      /\ \A x : CurAck(x)' => x.last \in Nat /\ edge.acked < x.last
  <2>1. Stores' /\ Pumping' /\ edge' = edge
    BY <1>4, <1>7
  <2>2. \A x : CurAck(x)' => x.last \in Nat /\ edge.acked < x.last
    <3>1. pump.inflight # NoFrame => pump.inflight.last \in Nat /\ edge.acked < pump.inflight.last
      BY <1>0 DEF Pumping, Inflight, FrameOK, Frame
    <3>2. \A x : CurAck(x)' => pump.inflight # NoFrame /\ x.last = pump.inflight.last
      BY <2>1, OutcomeFields DEF CurAck
    <3>3. QED BY <3>1, <3>2
  <2>3. QED BY <1>0, <2>2, Apart DEF OldAck, CurFrame
<1>10. CASE edgeUp /\ OldFrameOf(f)
  <2>1. hub' = hub
    BY <1>0, <1>2, <1>10, OldFrame DEF OldFrameOf
  <2>2. /\ \A x : OldFrameOf(x)' <=> OldFrameOf(x)
        /\ \A x : CurAck(x)' <=> CurAck(x)
    BY <2>1 DEF OldFrameOf, CurAck
  <2>3. \A i \in DOMAIN toEdge : IsAck(i) => ~ CurAck(toEdge[i]) /\ OldAck(toEdge[i])
    <3>1. ~ CurFrame(f)
      BY <1>0, <1>9, <1>10
    <3>2. QED BY <1>0, <1>1, <1>2, <1>10, <3>1 DEF Answered
  <2>4. \A x : Outcome(x) = OutcomeOf(hub, f) => OldAck(x)
    BY <1>10 DEF OldFrameOf, OldAck
  <2>5. \A i \in DOMAIN toEdge' : toEdge'[i].kind = "ack" => OldAck(toEdge'[i])
    BY <1>5, <2>3, <2>4 DEF IsAck
  <2>6. \A x : OldAck(x) => ~ CurAck(x)'
    BY <1>0, <1>9
  <2>7. Answered'
    BY <1>0, <1>1, <1>9, <1>10, <2>2, <2>5, <2>6 DEF Answered, Replay, IsAck
  <2>8. QED BY <1>4, <1>6, <1>7, <2>7 DEF ReplayInv
<1>11. CASE edgeUp /\ CurFrame(f)
  <2>1. \A i \in DOMAIN toHub' : toHub'[i].kind # "state" => CurFrame(toHub'[i])
    BY <1>0, <1>1, <1>2, <1>11 DEF Answered, Replay
  <2>2. /\ \A x : CurAck(x) => CurAck(x)'
        /\ \A x : hub' = IngestReplayBatch(hub, f) /\ Outcome(x) = OutcomeOf(hub, f) => CurAck(x)'
    <3>1. f = pump.inflight /\ pump.inflight # NoFrame /\ pump.sent /\ f.last \in Nat
      BY <1>9, <1>11 DEF CurFrame
    <3>2. OutcomeOf(hub', f) = OutcomeOf(hub, f)
      BY <1>3 DEF OutcomeOf
    <3>3. QED BY <1>3, <3>1, <3>2 DEF CurAck
  <2>3. \A x : OldAck(x) => ~ CurAck(x)'
    BY <1>0, <1>9
  <2>4. \A i \in DOMAIN toEdge' :
          toEdge'[i].kind = "ack" => OldAck(toEdge'[i]) \/ CurAck(toEdge'[i]) \/ i \notin DOMAIN toEdge
    BY <1>0, <1>5, <1>11 DEF Answered, IsAck
  <2>5. \A i \in DOMAIN toEdge' :
          toEdge'[i].kind = "ack" /\ i \notin DOMAIN toEdge => \A x : x = toEdge'[i] => CurAck(x)'
    BY <1>5, <2>2
  <2>6. \A i, j \in DOMAIN toEdge : i < j /\ IsAck(i) /\ IsAck(j) /\ CurAck(toEdge[i]) => CurAck(toEdge[j])
    BY <1>0, <1>11 DEF Answered
  <2>7. Answered'
    BY <1>5, <1>9, <2>1, <2>2, <2>3, <2>4, <2>5, <2>6 DEF Answered, Replay, IsAck
  <2>8. QED BY <1>4, <1>6, <1>7, <2>7 DEF ReplayInv
<1>12. QED BY <1>0, <1>1, <1>2, <1>8, <1>10, <1>11 DEF Answered

\* The ACK the hub writes carries the outcome of the frame.
LEMMA AckShape ==
  ASSUME HubOK(hub), NEW f, FrameOK(f), NEW a,
         a = [kind |-> "ack", last |-> f.last, count |-> Len(f.events), rejected |-> Rejections(hub, f)]
  PROVE  a \in Answer /\ a.kind = "ack" /\ Outcome(a) = OutcomeOf(hub, f)
<1>1. hub.cursor \in Nat /\ f.last \in Nat /\ Len(f.events) \in Nat
  BY DEF HubOK, HubShape, FrameOK, Frame
<1>2. Rejections(hub, f) \subseteq [seq : Nat, code : Codes]
  BY <1>1, RejectionsType
<1>3. QED BY <1>1, <1>2 DEF Answer, Outcome, OutcomeOf

\* The retry it invites is at a cursor.
LEMMA RetryShape ==
  ASSUME NEW h, HubOK(h), NEW f, FrameOK(f)
  PROVE  RetryReply(h, f) \in Answer /\ RetryReply(h, f).kind = "retry"
<1>1. h.cursor \in Nat /\ f.last \in Nat
  BY DEF HubOK, HubShape, FrameOK, Frame
<1>2. PICK S : S = {h.cursor, f.last}
  OBVIOUS
<1>3. Min(S) \in Nat
  <2>1. S \in SUBSET Nat /\ S # {}
    BY <1>1, <1>2
  <2>2. Min(S) \in S
    BY <2>1, MinOf
  <2>3. QED BY <2>1, <2>2
<1>4. RetryReply(h, f) = [kind |-> "retry", cursor |-> Min(S)]
  BY <1>2 DEF RetryReply
<1>5. QED BY <1>3, <1>4 DEF Answer

\* The frame the hub takes can be reconciled.
LEMMA HeadFrame ==
  ASSUME ReplayInv, toHub # <<>>, NEW f, f = Head(toHub), f.kind # "state"
  PROVE  FrameOK(f) /\ f.first <= hub.cursor + 1 /\ HubOK(hub) /\ ~ Unreconciled(hub, f)
<1>1. FrameOK(f) /\ f.first <= hub.cursor + 1 /\ HubOK(hub)
  BY DEF ReplayInv, Wire, Stores
<1>2. QED BY <1>1, Reconciled

\* HubIngest.
LEMMA IngestStep == ASSUME ReplayInv, HubIngest PROVE ReplayInv'
<1>1. PICK f, ack :
        /\ f = Head(toHub) /\ f.kind \in {"batch", "gap"}
        /\ ack = [kind |-> "ack", last |-> f.last, count |-> Len(f.events), rejected |-> Rejections(hub, f)]
        /\ hub' = IF Unreconciled(hub, f) THEN hub ELSE IngestReplayBatch(hub, f)
        /\ hubUp' = ~ Unreconciled(hub, f)
        /\ toHub' = IF hubUp' THEN Tail(toHub) ELSE <<>>
        /\ toEdge' = IF hubUp' /\ edgeUp THEN Append(toEdge, ack) ELSE toEdge
  BY DEF HubIngest
<1>2. toHub # <<>> /\ UNCHANGED <<edge, backup, edgeUp, pump, ids, dropped, reported>>
  BY DEF HubIngest, historyVars
<1>3. FrameOK(f) /\ HubOK(hub) /\ ~ Unreconciled(hub, f) /\ f.kind # "state"
  BY <1>1, <1>2, HeadFrame
<1>4. /\ hub' = IngestReplayBatch(hub, f) /\ toHub' = Tail(toHub)
      /\ toEdge' = IF edgeUp THEN Append(toEdge, ack) ELSE toEdge
  BY <1>1, <1>3
<1>5. ack \in Answer /\ ack.kind = "ack" /\ Outcome(ack) = OutcomeOf(hub, f)
  BY <1>1, <1>3, AckShape
<1>6. Replied(f)
  BY <1>4, <1>5 DEF Replied
<1>7. QED BY <1>1, <1>2, <1>3, <1>4, <1>6, HubTakes

\* HubIngestFails.
LEMMA IngestFailsStep == ASSUME ReplayInv, HubIngestFails PROVE ReplayInv'
<1>1. PICK f, a :
        /\ f = Head(toHub) /\ f.kind \in {"batch", "gap"} /\ a = RetryReply(hub', f)
        /\ hub' = hub \/ hub' = IngestReplayBatch(hub, f)
        /\ toEdge' = IF edgeUp THEN Append(toEdge, a) ELSE toEdge
  BY DEF HubIngestFails, Reply
<1>2. toHub # <<>> /\ toHub' = Tail(toHub) /\ UNCHANGED <<edge, backup, edgeUp, pump, ids, dropped, reported>>
  BY DEF HubIngestFails
<1>3. FrameOK(f) /\ HubOK(hub) /\ f.first <= hub.cursor + 1 /\ f.kind # "state"
  BY <1>1, <1>2, HeadFrame
<1>4. PICK h : h = hub'
  OBVIOUS
<1>5. HubOK(h)
  <2>1. CASE h = IngestReplayBatch(hub, f)
    BY <1>3, <2>1, IngestRecord, IngestSettles
  <2>2. QED BY <1>1, <1>3, <1>4, <2>1
<1>6. a \in Answer /\ a.kind = "retry"
  BY <1>1, <1>3, <1>4, <1>5, RetryShape
<1>7. Replied(f)
  BY <1>1, <1>6 DEF Replied
<1>8. QED BY <1>1, <1>2, <1>3, <1>7, HubTakes

\* What is left after a snapshot: its state taken, or found ahead of the clock.
AfterSnapshot(h, f) == {ApplyCurrentSnapshot(h, f), [h EXCEPT !.snapSeq = f.created]}

\* A snapshot leaves the ledger alone.
LEMMA SnapshotKeepsLedger ==
  ASSUME HubOK(hub), NEW f \in StateFrame, NEW r, r \in AfterSnapshot(hub, f)
  PROVE  /\ HubOK(r) /\ r.cursor = hub.cursor /\ r.receipts = hub.receipts /\ r.gaps = hub.gaps
         /\ Grown(hub, r)
         /\ r.state = hub.state \/ r.state = f.state \/ r.state = NoState
<1>1. /\ hub = [cursor |-> hub.cursor, receipts |-> hub.receipts, gaps |-> hub.gaps,
                state |-> hub.state, snapSeq |-> hub.snapSeq, missing |-> hub.missing]
      /\ f.state \in State /\ f.created \in Nat
  BY DEF HubOK, HubShape, StateFrame
<1>2. NoState \in State
  BY DEF NoState, State, Event
<1>3. /\ r = [cursor |-> hub.cursor, receipts |-> hub.receipts, gaps |-> hub.gaps,
              state |-> r.state, snapSeq |-> f.created, missing |-> r.missing]
      /\ r.state = hub.state \/ r.state = f.state \/ r.state = NoState
      /\ r.missing \in {hub.missing, 0, f.created}
  BY <1>1 DEF AfterSnapshot, ApplyCurrentSnapshot
<1>4. HubShape(r)
  BY <1>1, <1>2, <1>3 DEF HubOK, HubShape
<1>5. QED BY <1>3, <1>4 DEF HubOK, Grown, HubShape

\* HubSnapshot.
LEMMA SnapshotStep == ASSUME ReplayInv, HubSnapshot PROVE ReplayInv'
<1>0. /\ Stores /\ Wire /\ Pumping /\ Answered /\ toHub \in Seq(Frame \cup StateFrame) /\ toEdge \in Seq(Answer)
      /\ HubOK(hub) /\ toHub # <<>> /\ UNCHANGED <<edge, backup, edgeUp, pump, ids, dropped, reported>>
  BY DEF ReplayInv, Wire, Stores, HubSnapshot, historyVars
<1>1. CASE UNCHANGED <<hub, toEdge>> /\ toHub' = <<>>
  <2>1. Stores'
    BY <1>0, <1>1, StoresSame
  <2>2. Wire' /\ Pumping'
    BY <1>0, <1>1 DEF Wire, Pumping, Inflight
  <2>3. Answered'
    <3>1. /\ \A x : OldAck(x)' <=> OldAck(x)
          /\ \A x : CurAck(x)' <=> CurAck(x)
      BY <1>0, <1>1 DEF OldAck, CurAck
    <3>2. QED BY <1>0, <1>1, <3>1 DEF Answered, IsAck
  <2>4. QED BY <2>1, <2>2, <2>3 DEF ReplayInv
<1>2. CASE UNCHANGED hubUp
  <2>1. PICK f, a : /\ f = Head(toHub) /\ f.kind = "state" /\ a = [kind |-> "applied"]
                    /\ hub' \in AfterSnapshot(hub, f) /\ toHub' = Tail(toHub)
                    /\ toEdge' = IF edgeUp THEN Append(toEdge, a) ELSE toEdge
    BY <1>2 DEF HubSnapshot, Reply, AfterSnapshot, SnapshotAhead
  <2>2. f \in StateFrame /\ a \in Answer
    <3>1. f \in Frame \cup StateFrame
      BY <1>0, <2>1
    <3>2. f \notin Frame
      BY <2>1 DEF Frame
    <3>3. QED BY <2>1, <3>1, <3>2 DEF Answer
  <2>3. /\ HubOK(hub') /\ hub'.cursor = hub.cursor /\ hub'.receipts = hub.receipts
        /\ Grown(hub, hub')
    BY <1>0, <2>1, <2>2, SnapshotKeepsLedger
  <2>4. Stores'
    BY <1>0, <2>3, StoresGrow
  <2>5. /\ toHub' \in Seq(Frame \cup StateFrame)
        /\ \A i \in DOMAIN toHub' : i \in Nat /\ i + 1 \in DOMAIN toHub /\ toHub'[i] = toHub[i + 1]
    BY <1>0, <2>1
  <2>6. /\ toEdge' \in Seq(Answer)
        /\ edgeUp \/ toEdge' = toEdge
        /\ \A i \in DOMAIN toEdge' : toEdge'[i].kind = "ack" => i \in DOMAIN toEdge /\ toEdge'[i] = toEdge[i]
    <3>1. CASE edgeUp
      <4>1. toEdge' = Append(toEdge, a) /\ a.kind # "ack"
        BY <2>1, <3>1
      <4>2. QED BY <1>0, <2>2, <4>1, <3>1
    <3>2. CASE ~ edgeUp
      BY <1>0, <2>1, <3>2
    <3>3. QED BY <3>1, <3>2
  <2>7. Wire' /\ Pumping'
    <3>1. Wire'
      BY <1>0, <2>3, <2>5, <2>6 DEF Wire
    <3>2. Pumping'
      BY <1>0, <2>3, <2>6 DEF Pumping, Inflight
    <3>3. QED BY <3>1, <3>2
  <2>8. \A x : OutcomeOf(hub, x)' = OutcomeOf(hub, x)
    BY <2>3 DEF OutcomeOf, Rejections, Fresh
  <2>9. /\ \A x : OldAck(x)' <=> OldAck(x)
        /\ \A x : CurAck(x)' <=> CurAck(x)
        /\ \A x : CurFrame(x)' <=> CurFrame(x)
        /\ \A x : OldFrameOf(x)' <=> OldFrameOf(x)
    BY <1>0, <2>3, <2>8 DEF OldAck, CurAck, CurFrame, OldFrameOf
  <2>10. Answered'
    BY <1>0, <2>5, <2>6, <2>9 DEF Answered, Replay, IsAck
  <2>11. QED BY <2>4, <2>7, <2>10 DEF ReplayInv
<1>3. QED BY <1>1, <1>2 DEF HubSnapshot

-----------------------------------------------------------------------------
(* Every step, and the theorems *)

\* The invariant holds at the start,
LEMMA ReplayStart == ASSUME Init PROVE ReplayInv
<1>0. /\ edge = [made |-> <<>>, acked |-> 0, rows |-> {}, gaps |-> {}] /\ backup = edge
      /\ hub = [cursor |-> 0, receipts |-> [s \in {} |-> NoFrame], gaps |-> {},
                state |-> NoState, snapSeq |-> 0, missing |-> 0]
      /\ edgeUp = FALSE /\ toHub = <<>> /\ toEdge = <<>> /\ pump = FreshPump /\ ids = 0
  BY DEF Init
<1>1. QueueOK(edge) /\ QueueOK(backup)
  <2>1. edge.made = <<>> /\ Len(edge.made) = 0 /\ edge.acked = 0 /\ edge.rows = {} /\ edge.gaps = {}
    BY <1>0
  <2>2. QueueShape(edge)
    BY <1>0 DEF QueueShape
  <2>3. QED BY <1>0, <2>1, <2>2 DEF QueueOK, GapsApart
<1>2. HubOK(hub)
  <2>1. NoState \in State
    BY DEF NoState, State, Event
  <2>2. /\ hub.cursor = 0 /\ DOMAIN hub.receipts = {} /\ hub.gaps = {} /\ hub.state = NoState
        /\ hub.snapSeq = 0 /\ hub.missing = 0 /\ hub.receipts = [s \in {} |-> NoFrame]
    BY <1>0
  <2>3. hub.receipts = [s \in DOMAIN hub.receipts |-> hub.receipts[s]]
    BY <2>2
  <2>4. HubShape(hub)
    BY <1>0, <2>1, <2>2, <2>3 DEF HubShape
  <2>5. QED BY <2>2, <2>4 DEF HubOK, GapsApart
<1>3. Stores
  BY <1>0, <1>1, <1>2 DEF Stores, Told, LossKnown, Covers
<1>4. Wire /\ Answered
  BY <1>0 DEF Wire, Answered
<1>5. Pumping
  BY <1>0, FreshFields DEF Pumping
<1>6. QED BY <1>3, <1>4, <1>5 DEF ReplayInv

\* and every step keeps it.
LEMMA ReplayStep == ASSUME ReplayInv, [Next]_vars PROVE ReplayInv'
<1>1. CASE EdgeNext
  BY <1>1, RecordStep, ReadStep, SendStep, AckStep, RetryStep, StatePumpStep DEF EdgeNext
<1>2. CASE HubNext
  BY <1>2, IngestStep, IngestFailsStep, SnapshotStep DEF HubNext
<1>3. CASE Connect \/ EdgeLoses \/ HubLoses \/ HubHealth \/ TakeBackup \/ RestoreBackup
  BY <1>3, SessionStep
<1>4. CASE UNCHANGED vars
  <2>1. UNCHANGED <<edge, backup, hub, edgeUp, toHub, toEdge, pump, ids, dropped, reported>>
    BY <1>4 DEF vars, sessionVars, historyVars
  <2>2. Stores'
    BY <2>1, StoresSame DEF ReplayInv
  <2>3. Wire' /\ Pumping'
    BY <2>1 DEF ReplayInv, Wire, Pumping, Inflight
  <2>4. /\ \A x : OldAck(x)' <=> OldAck(x)
        /\ \A x : CurAck(x)' <=> CurAck(x)
        /\ \A x : CurFrame(x)' <=> CurFrame(x)
        /\ \A x : OldFrameOf(x)' <=> OldFrameOf(x)
    BY <2>1 DEF OldAck, CurAck, CurFrame, OldFrameOf
  <2>5. Answered'
    BY <2>1, <2>4 DEF ReplayInv, Answered, Replay, IsAck
  <2>6. QED BY <2>2, <2>3, <2>5 DEF ReplayInv
<1>5. QED BY <1>1, <1>2, <1>3, <1>4 DEF Next

\* Gaps that are apart cover a sequence once, or not at all.
LEMMA CoveredOnce ==
  ASSUME NEW gaps, NEW low \in Nat, NEW high \in Nat, GapsApart(gaps, low, high), NEW s \in Nat
  PROVE  LET covering == {g \in gaps : g.from <= s /\ s <= g.through}
         IN /\ Covers(gaps, s) => Cardinality(covering) = 1
            /\ ~ Covers(gaps, s) => covering = {}
            /\ s <= low \/ high < s => covering = {}
<1> DEFINE covering == {g \in gaps : g.from <= s /\ s <= g.through}
<1>1. \A g \in gaps : g.from \in Nat /\ g.through \in Nat /\ low < g.from /\ g.from <= g.through /\ g.through <= high
  BY DEF GapsApart, Span
<1>2. ASSUME Covers(gaps, s) PROVE Cardinality(covering) = 1
  <2>1. PICK g \in gaps : g.from <= s /\ s <= g.through
    BY <1>2 DEF Covers
  <2>2. \A h \in covering : h = g
    BY <1>1, <2>1 DEF GapsApart
  <2>3. covering = {g}
    BY <2>1, <2>2
  <2>4. QED BY <2>3, FS_Singleton
<1>3. ASSUME s <= low \/ high < s, NEW g \in covering PROVE FALSE
  BY <1>1, <1>3
<1>4. QED BY <1>2, <1>3 DEF Covers

\* It says that every event is accounted for,
LEMMA Accounts == ASSUME ReplayInv PROVE EveryEventAccounted
<1>0. QueueOK(edge) /\ HubOK(hub) /\ Told(edge) /\ MaxSeq \in Nat
  BY Parameters DEF ReplayInv, Stores
<1>1. /\ edge.acked \in Nat /\ Len(edge.made) \in Nat /\ GapsApart(edge.gaps, edge.acked, Len(edge.made))
      /\ edge.rows \subseteq (edge.acked + 1)..Len(edge.made)
      /\ \A s \in (edge.acked + 1)..Len(edge.made) : s \in edge.rows <=> ~ Covers(edge.gaps, s)
  BY <1>0 DEF QueueOK, QueueShape
<1>2. /\ hub.cursor \in Nat /\ GapsApart(hub.gaps, 0, hub.cursor) /\ DOMAIN hub.receipts \subseteq 1..hub.cursor
      /\ \A s \in 1..hub.cursor : s \in DOMAIN hub.receipts <=> ~ Covers(hub.gaps, s)
  BY <1>0 DEF HubOK, HubShape
<1>3. QueueAccounted
  <2> SUFFICES ASSUME NEW s \in 1..MaxSeq
               PROVE  LET covering == {g \in edge.gaps : g.from <= s /\ s <= g.through}
                      IN IF s \in (edge.acked + 1)..Len(edge.made)
                         THEN IF s \in edge.rows THEN covering = {} ELSE Cardinality(covering) = 1
                         ELSE s \notin edge.rows /\ covering = {}
    BY DEF QueueAccounted, Created
  <2> DEFINE covering == {g \in edge.gaps : g.from <= s /\ s <= g.through}
  <2>1. s \in Nat
    BY <1>0
  <2>2. /\ Covers(edge.gaps, s) => Cardinality(covering) = 1
        /\ ~ Covers(edge.gaps, s) => covering = {}
        /\ s <= edge.acked \/ Len(edge.made) < s => covering = {}
    BY <1>1, <2>1, CoveredOnce
  <2> HIDE DEF covering
  <2>3. CASE s \in (edge.acked + 1)..Len(edge.made)
    BY <1>1, <2>2, <2>3 DEF covering
  <2>4. CASE s \notin (edge.acked + 1)..Len(edge.made)
    <3>1. s <= edge.acked \/ Len(edge.made) < s
      BY <1>1, <2>1, <2>4
    <3>2. QED BY <1>1, <2>2, <2>4, <3>1 DEF covering
  <2>5. QED BY <2>3, <2>4
<1>4. HubSettledOnce
  <2> SUFFICES ASSUME NEW s \in 1..MaxSeq
               PROVE  LET covering == {g \in hub.gaps : g.from <= s /\ s <= g.through}
                      IN IF s <= hub.cursor
                         THEN IF s \in DOMAIN hub.receipts THEN covering = {} ELSE Cardinality(covering) = 1
                         ELSE s \notin DOMAIN hub.receipts /\ covering = {}
    BY DEF HubSettledOnce
  <2> DEFINE covering == {g \in hub.gaps : g.from <= s /\ s <= g.through}
  <2>1. s \in Nat /\ 0 < s
    BY <1>0
  <2>2. /\ Covers(hub.gaps, s) => Cardinality(covering) = 1
        /\ ~ Covers(hub.gaps, s) => covering = {}
        /\ hub.cursor < s => covering = {}
    BY <1>2, <2>1, CoveredOnce
  <2> HIDE DEF covering
  <2>3. QED BY <1>2, <2>1, <2>2 DEF covering
<1>5. NoSilentLoss
  BY <1>0 DEF NoSilentLoss, Told
<1>6. QED BY <1>3, <1>4, <1>5 DEF EveryEventAccounted

\* and that no replay frame and no ACK has to be refused.
LEMMA Flows == ASSUME ReplayInv PROVE ReplayNeverRefused
<1>0. Stores /\ Wire /\ Pumping /\ Answered /\ HubOK(hub) /\ QueueOK(edge) /\ toEdge \in Seq(Answer)
  BY DEF ReplayInv, Stores, Wire
<1>1. \A i \in DOMAIN toHub : toHub[i].kind # "state" => ~ Unreconciled(hub, toHub[i])
  BY <1>0, Reconciled DEF Wire
<1>2. ASSUME edgeUp, toEdge # <<>>, NEW ack, ack = Head(toEdge), ack.kind = "ack"
      PROVE  Commits(ack) \/ Ignores(ack)
  <2>1. OldAck(ack) \/ CurAck(ack)
    BY <1>0, <1>2 DEF Answered, IsAck
  <2>2. CASE OldAck(ack)
    BY <1>0, <2>2, DuplicateIgnored
  <2>3. CASE CurAck(ack)
    BY <1>0, <2>3, AnswerCommits
  <2>4. QED BY <2>1, <2>2, <2>3
<1>3. QED BY <1>1, <1>2 DEF ReplayNeverRefused

\* No event is unaccounted for, whatever mixture of eviction, gap merging, repeated
\* and lost frames, ambiguous commits, lost sessions and restored data directories
\* came before: the edge holds each sequence it owes as a row or in one gap, the hub
\* settles each sequence once, and what the edge pruned is known at the hub or was
\* reported (edge/retention.go, edge/replay.go, repository/probe_replay.go).
THEOREM EventsAccounted == Spec => []EveryEventAccounted
<1>1. Init => ReplayInv
  BY ReplayStart
<1>2. ReplayInv /\ [Next]_vars => ReplayInv'
  BY ReplayStep
<1>3. ReplayInv => EveryEventAccounted
  BY Accounts
<1>4. QED BY <1>1, <1>2, <1>3, PTL DEF Spec

\* Replay is never refused: the hub can reconcile every batch and gap on the wire,
\* and an ACK the edge reads answers the batch in flight or repeats the one completed
\* before (probe_replay.go IngestReplayBatch, probe/edge_replay.go processEvent).
\* Snapshots and retry invitations are not part of it: they may end a session.
THEOREM StreamNeverRefused == Spec => []ReplayNeverRefused
<1>1. Init => ReplayInv
  BY ReplayStart
<1>2. ReplayInv /\ [Next]_vars => ReplayInv'
  BY ReplayStep
<1>3. ReplayInv => ReplayNeverRefused
  BY Flows
<1>4. QED BY <1>1, <1>2, <1>3, PTL DEF Spec

-----------------------------------------------------------------------------
(* An edge that keeps its data directory *)

\* The events of an edge that keeps its data directory number the stream.
Numbered ==
  /\ ids = Len(edge.made) /\ Len(edge.made) <= MaxSeq
  /\ \A s \in 1..Len(edge.made) : edge.made[s].id = s

\* A frame on the wire says what the edge recorded.
FrameTrue(f) ==
  IF f.kind = "state"
  THEN /\ f.created <= Len(edge.made) /\ f.state.seq <= f.created
       /\ f.state.seq # 0 => f.state.event = edge.made[f.state.seq]
       /\ f.state.seq = 0 => \A s \in 1..f.created : ~ edge.made[s].obs
  ELSE /\ f.last <= Len(edge.made)
       /\ f.kind = "batch" => \A s \in f.first..f.last : EventAt(f, s) = edge.made[s]
       /\ f.kind = "gap" => \A s \in f.first..f.last : edge.made[s].id \in dropped

\* A receipt of an accepted observation that was not ahead of the clock.
Live(x) == x.event.obs /\ ~ x.refused /\ x.event.id \notin Ahead

\* So does the hub's ledger, and its current state is no older than it.
HubTrue(h) ==
  /\ h.cursor <= Len(edge.made) /\ h.state.seq <= Len(edge.made)
  /\ \A s \in DOMAIN h.receipts : h.receipts[s].event = edge.made[s]
  /\ \A s \in 1..h.cursor : Covers(h.gaps, s) => edge.made[s].id \in dropped
  /\ h.state.seq # 0 => h.state.event = edge.made[h.state.seq]
  /\ \A s \in DOMAIN h.receipts :
       Live(h.receipts[s]) => s <= h.state.seq \/ s <= h.missing

Mirror == Numbered /\ HubTrue(hub) /\ \A i \in DOMAIN toHub : FrameTrue(toHub[i])

\* A step that records nothing, with true frames on the wire.
LEMMA MirrorKept ==
  ASSUME Mirror, edge'.made = edge.made, UNCHANGED <<hub, ids, dropped>>,
         \A i \in DOMAIN toHub' : FrameTrue(toHub'[i])
  PROVE  Mirror'
<1>1. Numbered' /\ HubTrue(hub)'
  BY DEF Mirror, Numbered, HubTrue
<1>2. \A f : FrameTrue(f)' <=> FrameTrue(f)
  BY DEF FrameTrue
<1>3. QED BY <1>1, <1>2 DEF Mirror

\* A transaction of the recorder.
LEMMA RecordMirror == ASSUME ReplayInv, Mirror, Records PROVE Mirror'
<1>0. /\ Produces(edge, edge') /\ Counted(edge, ids, edge', ids')
      /\ Len(edge'.made) <= MaxSeq \/ edge'.made = edge.made
      /\ dropped \subseteq dropped' /\ UNCHANGED <<hub, toHub>>
  BY DEF Records, sessionVars
<1>1. /\ Len(edge.made) \in Nat /\ Len(edge'.made) \in Nat /\ Len(edge.made) <= Len(edge'.made) /\ ids \in Nat
      /\ \A s \in 1..Len(edge.made) : edge'.made[s] = edge.made[s]
      /\ HubOK(hub) /\ toHub \in Seq(Frame \cup StateFrame)
  BY <1>0 DEF ReplayInv, Stores, Wire, QueueOK, QueueShape, Produces
<1>2. Numbered'
  <2>1. ids = Len(edge.made) /\ Len(edge.made) <= MaxSeq /\ \A s \in 1..Len(edge.made) : edge.made[s].id = s
    BY DEF Mirror, Numbered
  <2>2. ids' = Len(edge'.made)
    <3>1. ids' = ids + (Len(edge'.made) - Len(edge.made))
      BY <1>0, Zenon DEF Counted
    <3>2. QED BY <1>1, <2>1, <3>1
  <2>3. \A s \in (Len(edge.made) + 1)..Len(edge'.made) : edge'.made[s].id = s
    BY <1>0, <1>1, <2>1 DEF Counted
  <2>4. \A s \in 1..Len(edge'.made) : s \in 1..Len(edge.made) \/ s \in (Len(edge.made) + 1)..Len(edge'.made)
    BY <1>1
  <2>5. \A s \in 1..Len(edge'.made) : edge'.made[s].id = s
    BY <1>1, <2>1, <2>3, <2>4
  <2>6. Len(edge'.made) <= MaxSeq
    BY <1>0, <2>1
  <2>7. QED BY <2>2, <2>5, <2>6 DEF Numbered
<1>3. HubTrue(hub)'
  <2>1. /\ hub.cursor \in Nat /\ hub.state.seq \in Nat /\ DOMAIN hub.receipts \subseteq 1..hub.cursor
    BY <1>1 DEF HubOK, HubShape, State
  <2>2. /\ hub.cursor <= Len(edge.made) /\ hub.state.seq <= Len(edge.made)
        /\ \A s \in DOMAIN hub.receipts : hub.receipts[s].event = edge.made[s]
        /\ \A s \in 1..hub.cursor : Covers(hub.gaps, s) => edge.made[s].id \in dropped
        /\ hub.state.seq # 0 => hub.state.event = edge.made[hub.state.seq]
        /\ \A s \in DOMAIN hub.receipts :
             Live(hub.receipts[s]) => s <= hub.state.seq \/ s <= hub.missing
    BY DEF Mirror, HubTrue
  <2>3. \A s \in 1..hub.cursor : edge'.made[s] = edge.made[s]
    BY <1>1, <2>1, <2>2
  <2>4. hub.state.seq # 0 => edge'.made[hub.state.seq] = edge.made[hub.state.seq]
    BY <1>1, <2>1, <2>2
  <2>5. hub.cursor <= Len(edge'.made) /\ hub.state.seq <= Len(edge'.made)
    BY <1>1, <2>1, <2>2
  <2>6. QED BY <1>0, <2>1, <2>2, <2>3, <2>4, <2>5 DEF HubTrue
<1>4. ASSUME NEW f \in Frame \cup StateFrame, FrameTrue(f), f.kind # "state" => FrameOK(f) PROVE FrameTrue(f)'
  <2>1. CASE f.kind = "state"
    <3>1. f \in StateFrame
      BY <2>1 DEF Frame
    <3>2. f.created \in Nat /\ f.state.seq \in Nat
      BY <3>1 DEF StateFrame, State
    <3>3. /\ f.created <= Len(edge.made) /\ f.state.seq <= f.created
          /\ f.state.seq # 0 => f.state.event = edge.made[f.state.seq]
          /\ f.state.seq = 0 => \A s \in 1..f.created : ~ edge.made[s].obs
      BY <1>4, <2>1 DEF FrameTrue
    <3>4. f.created <= Len(edge'.made)
      BY <1>1, <3>2, <3>3
    <3>5. \A s \in 1..f.created : edge'.made[s] = edge.made[s]
      BY <1>1, <3>2, <3>3
    <3>6. f.state.seq # 0 => edge'.made[f.state.seq] = edge.made[f.state.seq]
      BY <3>2, <3>3, <3>5
    <3>7. QED BY <2>1, <3>3, <3>4, <3>5, <3>6 DEF FrameTrue
  <2>2. CASE f.kind # "state"
    <3>1. f.first \in Nat /\ f.last \in Nat /\ 0 < f.first
      BY <1>4, <2>2 DEF FrameOK, Frame
    <3>2. \A s \in f.first..f.last : f.last <= Len(edge.made) => s \in 1..Len(edge.made)
      BY <1>1, <3>1
    <3>3. /\ f.last <= Len(edge.made)
          /\ f.kind = "batch" => \A s \in f.first..f.last : EventAt(f, s) = edge.made[s]
          /\ f.kind = "gap" => \A s \in f.first..f.last : edge.made[s].id \in dropped
      BY <1>4, <2>2 DEF FrameTrue
    <3>4. f.last <= Len(edge'.made)
      BY <1>1, <3>1, <3>3
    <3>5. \A s \in f.first..f.last : edge'.made[s] = edge.made[s]
      BY <1>1, <3>2, <3>3
    <3>6. QED BY <1>0, <2>2, <3>3, <3>4, <3>5 DEF FrameTrue
  <2>3. QED BY <2>1, <2>2
<1>5. \A i \in DOMAIN toHub : FrameTrue(toHub[i]) /\ toHub[i] \in Frame \cup StateFrame
                              /\ (toHub[i].kind # "state" => FrameOK(toHub[i]))
  BY <1>1 DEF Mirror, ReplayInv, Wire
<1>6. ASSUME NEW i \in DOMAIN toHub PROVE FrameTrue(toHub[i])'
  <2>1. PICK f : f = toHub[i]
    OBVIOUS
  <2>2. FrameTrue(f)'
    BY <1>4, <1>5, <2>1
  <2>3. f = toHub'[i]
    BY <1>0, <2>1
  <2>4. QED BY <2>2, <2>3 DEF FrameTrue
<1>7. QED BY <1>0, <1>2, <1>3, <1>6 DEF Mirror

\* A true frame leaves a true ledger and a current state no older than it.
LEMMA IngestMirror ==
  ASSUME QueueOK(edge), NEW h, HubOK(h), HubTrue(h), NEW f, FrameOK(f), FrameTrue(f), f.first <= h.cursor + 1,
         NEW r, r = IngestReplayBatch(h, f)
  PROVE  HubTrue(r)
<1>0. HubShape(r) /\ Ingested(h, r, f) /\ Refreshed(h, r, f)
  BY IngestRecord
<1>1. /\ Len(edge.made) \in Nat /\ f.first \in Nat /\ f.last \in Nat /\ 0 < f.first /\ f.first <= f.last
      /\ h.cursor \in Nat /\ h.state.seq \in Nat /\ h.missing \in Nat /\ r.state.seq \in Nat
      /\ DOMAIN h.receipts \subseteq 1..h.cursor /\ f.kind # "state"
  <2>1. HubShape(h)
    BY DEF HubOK
  <2>2. f.kind # "state"
    BY FrameFields
  <2>3. QED BY <1>0, <2>1, <2>2, QueueFields, FrameFields, HubFields
<1>2. /\ h.cursor <= Len(edge.made) /\ h.state.seq <= Len(edge.made)
      /\ \A s \in DOMAIN h.receipts : h.receipts[s].event = edge.made[s]
      /\ \A s \in 1..h.cursor : Covers(h.gaps, s) => edge.made[s].id \in dropped
      /\ h.state.seq # 0 => h.state.event = edge.made[h.state.seq]
      /\ \A s \in DOMAIN h.receipts :
           Live(h.receipts[s]) => s <= h.state.seq \/ s <= h.missing
  BY DEF HubTrue
<1>3. /\ f.last <= Len(edge.made)
      /\ f.kind = "batch" => \A s \in f.first..f.last : EventAt(f, s) = edge.made[s]
      /\ f.kind = "gap" => \A s \in f.first..f.last : edge.made[s].id \in dropped
  BY <1>1 DEF FrameTrue
<1>4. /\ r.cursor = IF h.cursor <= f.last THEN f.last ELSE h.cursor
      /\ DOMAIN r.receipts = DOMAIN h.receipts \cup Fresh(h, f)
      /\ \A s \in DOMAIN h.receipts : r.receipts[s] = h.receipts[s]
      /\ \A s \in Fresh(h, f) : r.receipts[s].event = EventAt(f, s)
      /\ \A s \in Fresh(h, f) : r.receipts[s].refused <=> ~ AuthorizeEvent(EventAt(f, s))
      /\ r.gaps = h.gaps \cup (IF f.kind = "gap" /\ f.last > h.cursor
                               THEN {[from |-> h.cursor + 1, through |-> f.last]} ELSE {})
  BY <1>0 DEF Ingested
<1>5. \A s \in Fresh(h, f) : /\ s \in Nat /\ s > h.cursor /\ s \in f.first..f.last /\ f.kind = "batch"
                             /\ EventAt(f, s) = edge.made[s] /\ s <= Len(edge.made)
  BY <1>1, <1>3, EventOf DEF Fresh
<1>6. r.cursor <= Len(edge.made)
  BY <1>1, <1>2, <1>3, <1>4
<1>7. \A s \in DOMAIN r.receipts : r.receipts[s].event = edge.made[s]
  BY <1>2, <1>4, <1>5
<1>8. ASSUME NEW s \in 1..r.cursor, Covers(r.gaps, s) PROVE edge.made[s].id \in dropped
  <2>1. PICK g \in r.gaps : g.from <= s /\ s <= g.through
    BY <1>8 DEF Covers
  <2>2. CASE g \in h.gaps
    <3>1. g.through \in Nat /\ g.through <= h.cursor /\ Covers(h.gaps, s)
      BY <2>1, <2>2 DEF HubOK, GapsApart, Span, Covers
    <3>2. s \in 1..h.cursor
      BY <1>1, <1>4, <2>1, <3>1
    <3>3. QED BY <1>2, <3>1, <3>2
  <2>3. CASE g \notin h.gaps
    <3>1. f.kind = "gap" /\ g = [from |-> h.cursor + 1, through |-> f.last]
      BY <1>4, <2>3
    <3>2. s \in f.first..f.last
      BY <1>1, <1>4, <2>1, <3>1
    <3>3. QED BY <1>3, <3>1, <3>2
  <2>4. QED BY <2>2, <2>3
<1>9. CASE Newer(h, f) = {} /\ r.state = h.state /\ r.missing = h.missing
  <2>1. ASSUME NEW s \in DOMAIN r.receipts, Live(r.receipts[s])
        PROVE  s <= h.state.seq \/ s <= h.missing
    <3>1. CASE s \in DOMAIN h.receipts
      BY <1>2, <1>4, <2>1, <3>1
    <3>2. CASE s \in Fresh(h, f)
      <4>1. /\ AuthorizeEvent(EventAt(f, s)) /\ EventAt(f, s).obs
            /\ EventAt(f, s).id \notin Ahead /\ s \notin Newer(h, f)
        BY <1>4, <1>9, <2>1, <3>2 DEF Live
      <4>2. ~ (s > h.state.seq /\ s > h.missing)
        BY <3>2, <4>1 DEF Newer
      <4>3. QED BY <1>1, <1>5, <3>2, <4>2
    <3>3. QED BY <1>4, <2>1, <3>1, <3>2
  <2>2. QED BY <1>2, <1>6, <1>7, <1>8, <1>9, <2>1 DEF HubTrue
<1>10. CASE ~ (Newer(h, f) = {} /\ r.state = h.state /\ r.missing = h.missing)
  <2>1. PICK m \in Newer(h, f) : /\ \A s \in Newer(h, f) : s <= m
                                 /\ r.state = [seq |-> m, event |-> EventAt(f, m)] /\ r.missing = 0
    BY <1>0, <1>10 DEF Refreshed
  <2>2. m \in Fresh(h, f) /\ m > h.state.seq /\ m > h.missing /\ r.state.seq = m /\ r.state.event = EventAt(f, m)
    BY <2>1 DEF Newer
  <2>3. ASSUME NEW s \in DOMAIN r.receipts, Live(r.receipts[s])
        PROVE  s <= m
    <3>1. CASE s \in DOMAIN h.receipts
      <4>1. s <= h.state.seq \/ s <= h.missing
        BY <1>2, <1>4, <2>3, <3>1
      <4>2. s \in Nat /\ m \in Nat
        BY <1>1, <1>5, <2>2, <3>1
      <4>3. QED BY <1>1, <2>2, <4>1, <4>2
    <3>2. CASE s \in Fresh(h, f)
      <4>1. /\ AuthorizeEvent(EventAt(f, s)) /\ EventAt(f, s).obs
            /\ EventAt(f, s).id \notin Ahead
        BY <1>4, <2>3, <3>2 DEF Live
      <4>2. s \in Newer(h, f) \/ ~ (s > h.state.seq /\ s > h.missing)
        BY <3>2, <4>1 DEF Newer
      <4>3. s \in Nat /\ m \in Nat
        BY <1>5, <2>2, <3>2
      <4>4. QED BY <1>1, <2>1, <2>2, <4>2, <4>3
    <3>3. QED BY <1>4, <2>3, <3>1, <3>2
  <2>4. QED BY <1>5, <1>6, <1>7, <1>8, <2>2, <2>3 DEF HubTrue
<1>11. QED BY <1>9, <1>10

\* So does a true snapshot, which may be ahead of the ledger.
LEMMA SnapshotMirror ==
  ASSUME QueueOK(edge), HubOK(hub), HubTrue(hub), NEW f \in StateFrame, FrameTrue(f),
         NEW r, r \in AfterSnapshot(hub, f)
  PROVE  HubTrue(r)
<1>1. /\ Len(edge.made) \in Nat /\ hub.cursor \in Nat /\ hub.state.seq \in Nat /\ hub.missing \in Nat
      /\ f.created \in Nat /\ f.state.seq \in Nat /\ f.kind = "state"
      /\ DOMAIN hub.receipts \subseteq 1..hub.cursor
      /\ hub = [cursor |-> hub.cursor, receipts |-> hub.receipts, gaps |-> hub.gaps,
                state |-> hub.state, snapSeq |-> hub.snapSeq, missing |-> hub.missing]
  BY DEF QueueOK, QueueShape, HubOK, HubShape, State, StateFrame
<1>2. /\ hub.cursor <= Len(edge.made) /\ hub.state.seq <= Len(edge.made)
      /\ \A s \in DOMAIN hub.receipts : hub.receipts[s].event = edge.made[s]
      /\ \A s \in 1..hub.cursor : Covers(hub.gaps, s) => edge.made[s].id \in dropped
      /\ hub.state.seq # 0 => hub.state.event = edge.made[hub.state.seq]
      /\ \A s \in DOMAIN hub.receipts :
           Live(hub.receipts[s]) => s <= hub.state.seq \/ s <= hub.missing
  BY DEF HubTrue
<1>3. /\ f.created <= Len(edge.made) /\ f.state.seq <= f.created
      /\ f.state.seq # 0 => f.state.event = edge.made[f.state.seq]
      /\ f.state.seq = 0 => \A s \in 1..f.created : ~ edge.made[s].obs
  BY <1>1 DEF FrameTrue
<1>4. r.cursor = hub.cursor /\ r.receipts = hub.receipts /\ r.gaps = hub.gaps
  BY SnapshotKeepsLedger
<1>5. CASE r.state = hub.state /\ r.missing = hub.missing
  BY <1>2, <1>4, <1>5 DEF HubTrue
<1>a. CASE r = [hub EXCEPT !.snapSeq = f.created]
  <2>1. r.state = hub.state /\ r.missing = hub.missing
    BY <1>1, <1>a
  <2>2. QED BY <1>5, <2>1
<1>b. SUFFICES ASSUME r = ApplyCurrentSnapshot(hub, f) PROVE HubTrue(r)
  BY <1>a DEF AfterSnapshot
<1>6. CASE f.state.seq = 0 /\ ~ (hub.state.seq > f.created \/ hub.missing > f.created)
  <2>1. r.state = NoState /\ NoState.seq = 0
    BY <1>1, <1>b, <1>6 DEF ApplyCurrentSnapshot, NoState
  <2>2. ASSUME NEW s \in DOMAIN hub.receipts, Live(hub.receipts[s])
        PROVE  FALSE
    <3>1. s \in Nat /\ 0 < s /\ edge.made[s].obs
      BY <1>1, <1>2, <2>2 DEF Live
    <3>2. s <= hub.state.seq \/ s <= hub.missing
      BY <1>2, <2>2
    <3>3. s \in 1..f.created
      BY <1>1, <1>6, <3>1, <3>2
    <3>4. QED BY <1>3, <1>6, <3>1, <3>3
  <2>3. QED BY <1>1, <1>2, <1>4, <2>1, <2>2 DEF HubTrue
<1>7. CASE f.state.seq # 0 /\ ~ Outdated(hub, f)
  <2>1. r.state = f.state /\ r.missing = 0
    BY <1>1, <1>b, <1>7 DEF ApplyCurrentSnapshot
  <2>2. hub.missing < f.state.seq /\ hub.state.seq <= f.state.seq
    BY <1>1, <1>7 DEF Outdated
  <2>3. \A s \in DOMAIN hub.receipts :
          Live(hub.receipts[s]) => s <= f.state.seq
    BY <1>1, <1>2, <2>2
  <2>4. f.state.seq <= Len(edge.made)
    BY <1>1, <1>3
  <2>5. QED BY <1>2, <1>3, <1>4, <2>1, <2>3, <2>4 DEF HubTrue
<1>8. CASE /\ ~ (f.state.seq = 0 /\ ~ (hub.state.seq > f.created \/ hub.missing > f.created))
           /\ ~ (f.state.seq # 0 /\ ~ Outdated(hub, f))
  <2>1. r = [hub EXCEPT !.snapSeq = f.created]
    BY <1>b, <1>8 DEF ApplyCurrentSnapshot
  <2>2. r.state = hub.state /\ r.missing = hub.missing
    BY <1>1, <2>1
  <2>3. QED BY <1>5, <2>2
<1>9. QED BY <1>6, <1>7, <1>8

\* The snapshot the edge sends is true.
LEMMA SnapshotTrue ==
  ASSUME QueueOK(edge), NEW s, s = LastObservation(edge),
         NEW state, state = IF s = 0 THEN NoState ELSE [seq |-> s, event |-> edge.made[s]],
         NEW f, f = [kind |-> "state", state |-> state, created |-> Created(edge)]
  PROVE  FrameTrue(f)
<1>1. Len(edge.made) \in Nat
  BY DEF QueueOK, QueueShape
<1>2. PICK S : S = {0} \cup {x \in 1..Created(edge) : edge.made[x].obs}
  OBVIOUS
<1>3. S \in SUBSET Nat /\ S # {} /\ \A x \in S : x <= Len(edge.made)
  BY <1>1, <1>2 DEF Created
<1>4. s \in S /\ \A x \in S : x <= s
  BY <1>1, <1>2, <1>3, MaxOf DEF LastObservation
<1>5. f.kind = "state" /\ f.created = Len(edge.made) /\ f.state = state /\ s \in Nat /\ s <= Len(edge.made)
  BY <1>3, <1>4 DEF Created
<1>6. CASE s = 0
  <2>1. f.state.seq = 0
    BY <1>5, <1>6 DEF NoState
  <2>2. \A x \in 1..Len(edge.made) : ~ edge.made[x].obs
    BY <1>1, <1>2, <1>4, <1>6 DEF Created
  <2>3. QED BY <1>1, <1>5, <2>1, <2>2 DEF FrameTrue
<1>7. CASE s # 0
  <2>1. f.state.seq = s /\ f.state.event = edge.made[s]
    BY <1>5, <1>7
  <2>2. QED BY <1>5, <1>7, <2>1 DEF FrameTrue
<1>8. QED BY <1>6, <1>7

\* At the start there is nothing to be wrong about.
LEMMA MirrorStart == ASSUME Init PROVE Mirror
<1>0. /\ edge = [made |-> <<>>, acked |-> 0, rows |-> {}, gaps |-> {}]
      /\ hub = [cursor |-> 0, receipts |-> [s \in {} |-> NoFrame], gaps |-> {},
                state |-> NoState, snapSeq |-> 0, missing |-> 0]
      /\ toHub = <<>> /\ ids = 0
  BY DEF Init
<1>1. Len(edge.made) = 0 /\ hub.cursor = 0 /\ hub.state.seq = 0 /\ DOMAIN hub.receipts = {}
  BY <1>0 DEF NoState
<1>2. Numbered /\ HubTrue(hub)
  BY <1>0, <1>1, Parameters DEF Numbered, HubTrue
<1>3. QED BY <1>0, <1>2 DEF Mirror

\* The pumps and the sessions move no event.
LEMMA PumpMovesNothing ==
  ASSUME ReplayInv,
         \/ PumpRead \/ PumpSend \/ PumpACK \/ PumpRetry
         \/ SendSnapshot \/ SnapshotApplied \/ SnapshotInterval
         \/ Connect \/ EdgeLoses \/ HubLoses \/ HubHealth
  PROVE  edge'.made = edge.made /\ UNCHANGED <<backup, hub, ids, dropped>>
<1>0. QueueOK(edge)
  BY DEF ReplayInv, Stores
<1>1. UNCHANGED <<backup, hub, ids, dropped>>
  BY DEF PumpRead, PumpSend, PumpACK, PumpRetry, SendSnapshot, SnapshotApplied, SnapshotInterval,
         Connect, EdgeLoses, HubLoses, HubHealth, historyVars
<1>2. edge'.made = edge.made
  <2>1. CASE PumpACK
    <3>1. PICK last : edge' = edge \/ edge' = CommitReplayACK(edge, last)
      BY <2>1 DEF PumpACK
    <3>2. edge \in [made : Seq(Event), acked : Nat, rows : SUBSET Nat, gaps : SUBSET Span]
      BY <1>0 DEF QueueOK, QueueShape
    <3>3. QED BY <3>1, <3>2 DEF CommitReplayACK
  <2>2. CASE ~ PumpACK
    BY <2>2 DEF PumpRead, PumpSend, PumpRetry, SendSnapshot, SnapshotApplied, SnapshotInterval,
                Connect, EdgeLoses, HubLoses, HubHealth
  <2>3. QED BY <2>1, <2>2
<1>3. QED BY <1>1, <1>2

\* What they send says what the edge recorded.
LEMMA PumpMirror ==
  ASSUME ReplayInv, Mirror,
         \/ PumpRead \/ PumpSend \/ PumpACK \/ PumpRetry
         \/ SendSnapshot \/ SnapshotApplied \/ SnapshotInterval
         \/ Connect \/ EdgeLoses \/ HubLoses \/ HubHealth
  PROVE  Mirror' /\ edge'.made = edge.made /\ UNCHANGED <<hub, ids, dropped>>
<1>0. /\ Wire /\ Pumping /\ QueueOK(edge) /\ toHub \in Seq(Frame \cup StateFrame)
      /\ \A i \in DOMAIN toHub : FrameTrue(toHub[i])
  BY DEF ReplayInv, Stores, Wire, Mirror
<1>1. edge'.made = edge.made /\ UNCHANGED <<hub, ids, dropped>>
  BY PumpMovesNothing
<1>3. \A i \in DOMAIN toHub' : FrameTrue(toHub'[i])
  <2>1. CASE PumpSend
    <3>1. PICK f : f = pump.inflight /\ Inflight(f) /\ (toHub' = toHub \/ toHub' = Append(toHub, f))
      BY <1>0, <2>1 DEF PumpSend, Pumping
    <3>2. FrameTrue(f)
      BY <3>1, FrameIsSome DEF Inflight, FrameTrue
    <3>3. QED BY <1>0, <3>1, <3>2
  <2>2. CASE SendSnapshot
    <3>1. PICK f, s, state :
            /\ s = LastObservation(edge) /\ state = IF s = 0 THEN NoState ELSE [seq |-> s, event |-> edge.made[s]]
            /\ f = [kind |-> "state", state |-> state, created |-> Created(edge)]
            /\ toHub' = toHub \/ toHub' = Append(toHub, f)
      BY <2>2 DEF SendSnapshot
    <3>2. FrameTrue(f)
      BY <1>0, <3>1, SnapshotTrue
    <3>3. QED BY <1>0, <3>1, <3>2
  <2>3. CASE toHub' = toHub \/ toHub' = <<>>
    BY <1>0, <2>3
  <2>4. PumpSend \/ SendSnapshot \/ toHub' = toHub \/ toHub' = <<>>
    BY DEF PumpRead, PumpACK, PumpRetry, SnapshotApplied, SnapshotInterval,
           Connect, EdgeLoses, HubLoses, HubHealth
  <2>5. QED BY <2>1, <2>2, <2>3, <2>4
<1>4. QED BY <1>1, <1>3, MirrorKept

\* What the hub does with the frame at the head of the wire.
LEMMA HubMirror ==
  ASSUME ReplayInv, Mirror, HubNext
  PROVE  /\ Mirror' /\ UNCHANGED <<edge, ids, dropped>>
         /\ \/ hub' = hub
            \/ \E f : FrameOK(f) /\ f.first <= hub.cursor + 1 /\ FrameTrue(f) /\ hub' = IngestReplayBatch(hub, f)
            \/ \E f \in StateFrame : FrameTrue(f) /\ hub' \in AfterSnapshot(hub, f)
<1>0. /\ QueueOK(edge) /\ HubOK(hub) /\ toHub \in Seq(Frame \cup StateFrame) /\ toHub # <<>>
      /\ \A i \in DOMAIN toHub : FrameTrue(toHub[i])
      /\ HubTrue(hub) /\ Numbered /\ UNCHANGED <<edge, ids, dropped>>
  BY DEF ReplayInv, Stores, Wire, Mirror, HubNext, HubIngest, HubIngestFails, HubSnapshot, historyVars
<1>1. PICK f : f = Head(toHub) /\ FrameTrue(f) /\ f \in Frame \cup StateFrame
  BY <1>0
<1>2. \/ hub' = hub
      \/ FrameOK(f) /\ f.first <= hub.cursor + 1 /\ hub' = IngestReplayBatch(hub, f)
      \/ f \in StateFrame /\ hub' \in AfterSnapshot(hub, f)
  <2>1. CASE HubIngest \/ HubIngestFails
    <3>1. f.kind # "state" /\ (hub' = hub \/ hub' = IngestReplayBatch(hub, f))
      BY <1>1, <2>1 DEF HubIngest, HubIngestFails
    <3>2. QED BY <1>0, <1>1, <3>1, HeadFrame
  <2>2. CASE HubSnapshot
    <3>1. f.kind = "state" /\ (hub' = hub \/ hub' \in AfterSnapshot(hub, f))
      BY <1>1, <2>2 DEF HubSnapshot, AfterSnapshot, SnapshotAhead
    <3>2. QED BY <1>1, <3>1 DEF Frame
  <2>3. QED BY <2>1, <2>2 DEF HubNext
<1>3. HubTrue(hub')
  BY <1>0, <1>1, <1>2, IngestMirror, SnapshotMirror
<1>4. HubTrue(hub)'
  BY <1>0, <1>3 DEF HubTrue
<1>5. \A i \in DOMAIN toHub' : FrameTrue(toHub'[i])
  <2>1. toHub' = Tail(toHub) \/ toHub' = <<>>
    BY DEF HubNext, HubIngest, HubIngestFails, HubSnapshot
  <2>2. QED BY <1>0, <2>1
<1>6. \A x : FrameTrue(x)' <=> FrameTrue(x)
  BY <1>0 DEF FrameTrue
<1>7. Numbered'
  BY <1>0 DEF Numbered
<1>8. QED BY <1>0, <1>1, <1>2, <1>4, <1>5, <1>6, <1>7 DEF Mirror

\* Every step of an edge that is not restored.
LEMMA MirrorStep == ASSUME ~ Restores, ReplayInv, Mirror, [Next]_vars PROVE Mirror'
<1>1. CASE CommitEdgeCheck \/ RecordOutcome \/ SweepRetention
  BY <1>1, RecordStep, RecordMirror
<1>2. CASE \/ PumpRead \/ PumpSend \/ PumpACK \/ PumpRetry
           \/ SendSnapshot \/ SnapshotApplied \/ SnapshotInterval
           \/ Connect \/ EdgeLoses \/ HubLoses \/ HubHealth
  BY <1>2, PumpMirror
<1>3. CASE HubNext
  BY <1>3, HubMirror
<1>4. CASE UNCHANGED vars
  <2>1. UNCHANGED <<edge, hub, toHub, ids, dropped>>
    BY <1>4 DEF vars, sessionVars, historyVars
  <2>2. QED BY <2>1, MirrorKept DEF Mirror
<1>5. ~ TakeBackup /\ ~ RestoreBackup
  BY DEF TakeBackup, RestoreBackup
<1>6. QED BY <1>1, <1>2, <1>3, <1>4, <1>5 DEF Next, EdgeNext

\* What the mirror says of the current state.
LEMMA StateFollows == ASSUME ReplayInv, Mirror PROVE StateFollowsHistory
<1>0. HubOK(hub) /\ HubTrue(hub)
  BY DEF ReplayInv, Stores, Mirror
<1>1. /\ hub.state.seq \in Nat /\ hub.missing \in Nat /\ hub.cursor \in Nat
      /\ DOMAIN hub.receipts \subseteq 1..hub.cursor
  BY <1>0 DEF HubOK, HubShape, State
<1>2. PICK m : m = Max({hub.state.seq, hub.missing})
  OBVIOUS
<1>3. m = IF hub.state.seq <= hub.missing THEN hub.missing ELSE hub.state.seq
  BY <1>1, <1>2, MaxOfTwo
<1>4. \A s \in DOMAIN hub.receipts : Live(hub.receipts[s]) => s <= m
  BY <1>0, <1>1, <1>3 DEF HubTrue
<1>5. hub.state.seq \in DOMAIN hub.receipts => hub.receipts[hub.state.seq].event = hub.state.event
  BY <1>0, <1>1 DEF HubTrue
<1>6. QED BY <1>2, <1>4, <1>5 DEF StateFollowsHistory, Live

\* The copy of the data directory holds no more than was ever numbered; while it
\* holds all of it, it and the edge hold the same events.
BackupIsPast ==
  /\ Len(edge.made) <= ids /\ Len(backup.made) <= ids
  /\ Len(backup.made) = ids =>
       Len(edge.made) = ids /\ \A s \in 1..ids : backup.made[s] = edge.made[s]

\* An edge that lost no event to a restored copy is mirrored.
KeptInv == BackupIsPast /\ (ids = Len(edge.made) => Mirror)

\* Sequences of the same events are the same.
LEMMA SameEvents ==
  ASSUME NEW a \in Seq(Event), NEW b \in Seq(Event), Len(a) = Len(b), \A s \in 1..Len(a) : a[s] = b[s]
  PROVE  a = b
OBVIOUS

\* What the stores say of the two directories.
LEMMA Directories ==
  ASSUME ReplayInv
  PROVE  /\ edge.made \in Seq(Event) /\ backup.made \in Seq(Event) /\ ids \in Nat
         /\ Len(edge.made) \in Nat /\ Len(backup.made) \in Nat
BY DEF ReplayInv, Stores, QueueOK, QueueShape

\* A step that moves no event of either directory.
LEMMA KeptUnmoved ==
  ASSUME KeptInv, edge'.made = edge.made, backup'.made = backup.made, UNCHANGED ids,
         Mirror => Mirror'
  PROVE  KeptInv'
BY DEF KeptInv, BackupIsPast

\* Every step, the operator's copies included.
LEMMA KeptStep == ASSUME ReplayInv, KeptInv, [Next]_vars PROVE KeptInv'
<1>0. /\ edge.made \in Seq(Event) /\ backup.made \in Seq(Event) /\ ids \in Nat
      /\ Len(edge.made) \in Nat /\ Len(backup.made) \in Nat
  BY Directories
<1>1. CASE CommitEdgeCheck \/ RecordOutcome \/ SweepRetention
  <2>1. Records
    BY <1>1, RecordStep
  <2>2. /\ ids' = ids + (Len(edge'.made) - Len(edge.made)) /\ Len(edge.made) <= Len(edge'.made)
        /\ \A s \in 1..Len(edge.made) : edge'.made[s] = edge.made[s]
        /\ UNCHANGED backup
    BY <2>1, Zenon DEF Records, Produces, Counted
  <2>3. Len(edge'.made) \in Nat
    BY <2>1 DEF Records, Produces, QueueOK, QueueShape
  <2>n. PICK m \in Nat, n \in Nat, b \in Nat, x \in Nat :
          m = Len(edge.made) /\ n = Len(edge'.made) /\ b = Len(backup.made) /\ x = ids
    BY <1>0, <2>3
  <2>a. m <= n /\ ids' = x + (n - m) /\ Len(backup'.made) = b
    BY <2>2, <2>n
  <2>p. m <= x /\ b <= x /\ (b = x => m = x /\ \A s \in 1..x : backup.made[s] = edge.made[s])
    BY <2>n DEF KeptInv, BackupIsPast
  <2>4. BackupIsPast'
    <3>1. n <= x + (n - m) /\ b <= x + (n - m)
      BY <2>a, <2>p
    <3>2. b = x + (n - m) => n = m /\ b = x /\ m = x
      BY <2>a, <2>p
    <3>3. Len(edge'.made) <= ids' /\ Len(backup'.made) <= ids'
      BY <2>n, <2>a, <3>1
    <3>4. ASSUME Len(backup'.made) = ids'
          PROVE  Len(edge'.made) = ids' /\ \A s \in 1..ids' : backup'.made[s] = edge'.made[s]
      <4>1. n = m /\ b = x /\ m = x
        BY <2>a, <3>2, <3>4
      <4>2. ids' = x
        BY <2>a, <4>1
      <4>3. QED BY <2>2, <2>n, <2>p, <4>1, <4>2
    <3>5. QED BY <3>3, <3>4 DEF BackupIsPast
  <2>5. ids' = Len(edge'.made) => Mirror
    <3>1. x + (n - m) = n => x = m
      OBVIOUS
    <3>2. x = m => Mirror
      BY <2>n DEF KeptInv
    <3>3. QED BY <2>n, <2>a, <3>1, <3>2
  <2>6. QED BY <2>1, <2>4, <2>5, RecordMirror DEF KeptInv
<1>2. CASE \/ PumpRead \/ PumpSend \/ PumpACK \/ PumpRetry
           \/ SendSnapshot \/ SnapshotApplied \/ SnapshotInterval
           \/ Connect \/ EdgeLoses \/ HubLoses \/ HubHealth
  <2>1. edge'.made = edge.made /\ UNCHANGED <<backup, ids>>
    BY <1>2, PumpMovesNothing
  <2>2. Mirror => Mirror'
    BY <1>2, PumpMirror
  <2>3. QED BY <2>1, <2>2, KeptUnmoved
<1>3. CASE HubNext
  <2>1. UNCHANGED <<edge, backup, ids>>
    BY <1>3 DEF HubNext, HubIngest, HubIngestFails, HubSnapshot, historyVars
  <2>2. Mirror => Mirror'
    BY <1>3, HubMirror
  <2>3. QED BY <2>1, <2>2, KeptUnmoved
<1>4. CASE TakeBackup
  <2>1. backup' = edge /\ UNCHANGED <<edge, hub, toHub, ids, dropped>>
    BY <1>4 DEF TakeBackup, sessionVars, historyVars
  <2>2. Mirror => Mirror'
    <3>1. ASSUME Mirror PROVE Mirror'
      <4>1. \A i \in DOMAIN toHub' : FrameTrue(toHub'[i])
        BY <2>1, <3>1 DEF Mirror
      <4>2. QED BY <2>1, <3>1, <4>1, MirrorKept
    <3>2. QED BY <3>1
  <2>3. QED BY <1>0, <2>1, <2>2 DEF KeptInv, BackupIsPast
<1>5. CASE RestoreBackup
  <2>1. edge' = backup /\ UNCHANGED <<backup, hub, toHub, ids, dropped>>
    BY <1>5 DEF RestoreBackup
  <2>2. BackupIsPast'
    BY <1>0, <2>1 DEF KeptInv, BackupIsPast
  <2>3. ASSUME ids' = Len(edge'.made) PROVE Mirror'
    <3>1. Len(backup.made) = Len(edge.made) /\ ids = Len(edge.made) /\ \A s \in 1..Len(backup.made) : backup.made[s] = edge.made[s]
      BY <1>0, <2>1, <2>3 DEF KeptInv, BackupIsPast
    <3>2. edge'.made = edge.made
      BY <1>0, <2>1, <3>1, SameEvents
    <3>3. Mirror
      BY <3>1 DEF KeptInv
    <3>4. \A i \in DOMAIN toHub' : FrameTrue(toHub'[i])
      BY <2>1, <3>3 DEF Mirror
    <3>5. QED BY <2>1, <3>2, <3>3, <3>4, MirrorKept
  <2>4. QED BY <2>2, <2>3 DEF KeptInv
<1>6. CASE UNCHANGED vars
  <2>1. UNCHANGED <<edge, backup, hub, toHub, ids, dropped>>
    BY <1>6 DEF vars, sessionVars, historyVars
  <2>2. Mirror => Mirror'
    <3>1. ASSUME Mirror PROVE Mirror'
      <4>1. \A i \in DOMAIN toHub' : FrameTrue(toHub'[i])
        BY <2>1, <3>1 DEF Mirror
      <4>2. QED BY <2>1, <3>1, <4>1, MirrorKept
    <3>2. QED BY <3>1
  <2>3. QED BY <2>1, <2>2, KeptUnmoved
<1>7. QED BY <1>1, <1>2, <1>3, <1>4, <1>5, <1>6 DEF Next, EdgeNext

\* SteadyStateFollowsHistory: until a restored copy takes an event back, the hub's
\* current state is at least as new as every observation it accepted that was not
\* ahead of its clock, although snapshots overtake replay, replay repeats what a
\* snapshot showed, and states ahead of the clock are passed over
\* (probe_current_state.go, updateCurrentProbeState).
THEOREM StateKeepsUp == Spec => []SteadyStateFollowsHistory
<1>1. Init => ReplayInv /\ KeptInv
  <2> SUFFICES ASSUME Init PROVE ReplayInv /\ KeptInv
    OBVIOUS
  <2>1. Len(edge.made) = 0 /\ Len(backup.made) = 0 /\ ids = 0
    BY DEF Init
  <2>2. BackupIsPast
    BY <2>1 DEF BackupIsPast
  <2>3. QED BY <2>2, ReplayStart, MirrorStart DEF KeptInv
<1>2. (ReplayInv /\ KeptInv) /\ [Next]_vars => (ReplayInv /\ KeptInv)'
  BY ReplayStep, KeptStep
<1>3. ReplayInv /\ KeptInv => SteadyStateFollowsHistory
  BY StateFollows DEF KeptInv, SteadyStateFollowsHistory, Created
<1>4. QED BY <1>1, <1>2, <1>3, PTL DEF Spec

-----------------------------------------------------------------------------
(* The refinement of ReplayedStream *)

Lost == {s \in 1..Created(edge) : edge.made[s].id \in dropped}

Stream == INSTANCE ReplayedStream WITH
  made <- Created(edge), fate <- Fates, released <- edge.acked, dropped <- Lost

\* The hub has settled what its cursor passed.
LEMMA SettledTo ==
  ASSUME ReplayInv, Mirror
  PROVE  /\ Stream!settled = hub.cursor /\ DOMAIN Fates = 1..hub.cursor
         /\ hub.cursor \in Nat /\ hub.cursor <= Created(edge) /\ Created(edge) \in Nat
         /\ Created(edge) <= MaxSeq /\ MaxSeq \in Nat
<1>1. /\ hub.cursor \in Nat /\ hub.cursor <= Created(edge) /\ Created(edge) \in Nat
      /\ Created(edge) <= MaxSeq /\ MaxSeq \in Nat
  BY Parameters DEF ReplayInv, Stores, HubOK, HubShape, QueueOK, QueueShape, Mirror, HubTrue, Numbered, Created
<1>2. DOMAIN Fates = 1..hub.cursor
  BY DEF Fates
<1>3. \A n \in 0..MaxSeq : 1..hub.cursor = 1..n => n = hub.cursor
  <2> SUFFICES ASSUME NEW n \in 0..MaxSeq, 1..hub.cursor = 1..n PROVE n = hub.cursor
    OBVIOUS
  <2>1. n \in Nat
    BY <1>1
  <2>2. n < hub.cursor => hub.cursor \in 1..n
    BY <1>1, <2>1
  <2>3. hub.cursor < n => n \in 1..hub.cursor
    BY <1>1, <2>1
  <2>4. QED BY <1>1, <2>1, <2>2, <2>3
<1>4. Stream!settled = hub.cursor
  BY <1>1, <1>2, <1>3 DEF Stream!settled
<1>5. QED BY <1>1, <1>2, <1>4

\* The ledger and what the edge still owes do not move.
LEMMA StreamStutters ==
  ASSUME edge'.made = edge.made, edge'.acked = edge.acked, dropped' = dropped,
         hub'.cursor = hub.cursor, hub'.receipts = hub.receipts
  PROVE  UNCHANGED Stream!streamVars
<1>1. Fates' = Fates
  BY DEF Fates
<1>2. Lost' = Lost /\ Created(edge)' = Created(edge)
  BY DEF Lost, Created
<1>3. QED BY <1>1, <1>2 DEF Stream!streamVars

\* A transaction of the recorder is a Produce.
LEMMA RecordsProduce ==
  ASSUME ReplayInv, Mirror, Records, Mirror'
  PROVE  Stream!Produce
<1>0. /\ Produces(edge, edge') /\ dropped' = dropped \cup Covered(edge') /\ UNCHANGED hub
  BY DEF Records
<1>1. /\ Len(edge.made) \in Nat /\ Len(edge'.made) \in Nat /\ Len(edge.made) <= Len(edge'.made)
      /\ edge.acked \in Nat /\ edge.acked <= Len(edge.made) /\ edge'.acked = edge.acked
      /\ \A s \in 1..Len(edge.made) : edge'.made[s] = edge.made[s]
      /\ Len(edge'.made) <= MaxSeq /\ MaxSeq \in Nat
      /\ \A g \in edge'.gaps : g.from \in Nat /\ g.through \in Nat /\ edge.acked < g.from
  BY <1>0, Parameters DEF ReplayInv, Stores, QueueOK, QueueShape, Produces, Mirror, Numbered, GapsApart, Span
<1>2. Created(edge)' \in Created(edge)..MaxSeq
  BY <1>1 DEF Created
<1>3. PICK d : d = Lost' \ Lost
  OBVIOUS
<1>4. Lost \subseteq Lost'
  BY <1>0, <1>1 DEF Lost, Created
<1>5. d \subseteq (edge.acked + 1)..Created(edge)'
  <2> SUFFICES ASSUME NEW s \in d PROVE s \in (edge.acked + 1)..Len(edge'.made)
    BY DEF Created
  <2>1. s \in 1..Len(edge'.made) /\ edge'.made[s].id \in dropped' /\ s \notin Lost
    BY <1>3 DEF Lost, Created
  <2>2. s \in Nat
    BY <1>1, <2>1
  <2>3. CASE edge'.made[s].id \in dropped
    <3>1. ~ (s <= Len(edge.made))
      BY <1>1, <2>1, <2>2, <2>3 DEF Lost, Created
    <3>2. QED BY <1>1, <2>1, <2>2, <3>1
  <2>4. CASE edge'.made[s].id \in Covered(edge')
    <3>1. PICK x \in 1..Len(edge'.made) : Covers(edge'.gaps, x) /\ edge'.made[s].id = edge'.made[x].id
      BY <2>4 DEF Covered, Created
    <3>2. x = s
      BY <2>1, <3>1 DEF Mirror, Numbered
    <3>3. PICK g \in edge'.gaps : g.from <= s
      BY <3>1, <3>2 DEF Covers
    <3>4. QED BY <1>1, <2>1, <2>2, <3>3
  <2>5. QED BY <1>0, <2>1, <2>3, <2>4
<1>6. d \subseteq 1..MaxSeq
  BY <1>1, <1>5 DEF Created
<1>7. Lost' = Lost \cup d
  BY <1>3, <1>4
<1>8. Fates' = Fates /\ edge'.acked = edge.acked
  BY <1>0, <1>1 DEF Fates
<1>9. QED BY <1>2, <1>5, <1>6, <1>7, <1>8 DEF Stream!Produce

\* A frame that is not a repetition is a Settle.
LEMMA IngestSettlesStream ==
  ASSUME ReplayInv, Mirror, UNCHANGED <<edge, dropped>>, Mirror', NEW f, FrameOK(f), f.first <= hub.cursor + 1,
         hub' = IngestReplayBatch(hub, f), hub' # hub
  PROVE  Stream!Settle
<1>0. HubOK(hub) /\ edge.acked \in Nat
  BY DEF ReplayInv, Stores, QueueOK, QueueShape
<1>1. PICK r : r = hub' /\ HubShape(r) /\ Ingested(hub, r, f) /\ HubOK(r) /\ HubTrue(r)'
  <2>1. PICK r : r = hub'
    OBVIOUS
  <2>2. HubTrue(r)'
    BY <2>1 DEF Mirror, HubTrue
  <2>3. QED BY <1>0, <2>1, <2>2, IngestRecord, IngestSettles
<1>2. f.last \in Nat /\ hub.cursor \in Nat /\ hub.cursor < f.last
  <2>1. f.last \in Nat /\ hub.cursor \in Nat
    BY <1>0 DEF FrameOK, Frame, HubOK, HubShape
  <2>2. ~ (f.last <= hub.cursor)
    BY <1>0, OldFrame
  <2>3. QED BY <2>1, <2>2
<1>3. /\ r.cursor = f.last
      /\ DOMAIN r.receipts = DOMAIN hub.receipts \cup Fresh(hub, f)
      /\ \A s \in DOMAIN hub.receipts : r.receipts[s] = hub.receipts[s]
      /\ \A s \in Fresh(hub, f) : s > hub.cursor
  BY <1>1, <1>2 DEF Ingested, Fresh
<1>4. /\ Stream!settled = hub.cursor /\ Created(edge) \in Nat /\ Created(edge) <= MaxSeq
      /\ DOMAIN Fates = 1..hub.cursor
  BY SettledTo
<1>5. f.last <= Created(edge)
  BY <1>1, <1>3 DEF HubTrue, Created
<1>6. f.last \in (Stream!settled + 1)..Created(edge)
  BY <1>2, <1>4, <1>5
<1>7. Fates' = [s \in 1..f.last |-> IF s \notin DOMAIN r.receipts THEN "lost"
                                    ELSE IF r.receipts[s].refused THEN "refused" ELSE "stored"]
  BY <1>1, <1>3 DEF Fates
<1>8. Fates' \in [1..f.last -> Stream!Fate]
  BY <1>7 DEF Stream!Fate
<1>9. \A s \in 1..Stream!settled : Fates'[s] = Fates[s]
  <2> SUFFICES ASSUME NEW s \in 1..hub.cursor PROVE Fates'[s] = Fates[s]
    BY <1>4
  <2>1. s \in 1..f.last /\ s \notin Fresh(hub, f) /\ s \in Nat
    BY <1>2, <1>3
  <2>2. s \in DOMAIN r.receipts <=> s \in DOMAIN hub.receipts
    BY <1>3, <2>1
  <2>3. s \in DOMAIN hub.receipts => r.receipts[s] = hub.receipts[s]
    BY <1>3
  <2>4. Fates[s] = IF s \notin DOMAIN hub.receipts THEN "lost"
                   ELSE IF hub.receipts[s].refused THEN "refused" ELSE "stored"
    BY DEF Fates
  <2>5. QED BY <1>7, <2>1, <2>2, <2>3, <2>4
<1>10. \A s \in (Stream!settled + 1)..f.last : Fates'[s] = "lost" => s \in Lost
  <2> SUFFICES ASSUME NEW s \in (hub.cursor + 1)..f.last, Fates'[s] = "lost" PROVE s \in Lost
    BY <1>4
  <2>1. s \in 1..f.last /\ s \in 1..r.cursor /\ s \in 1..Created(edge)
    BY <1>2, <1>3, <1>4, <1>5
  <2>2. s \notin DOMAIN r.receipts
    BY <1>7, <2>1
  <2>3. Covers(r.gaps, s)
    BY <1>1, <2>1, <2>2 DEF HubOK
  <2>4. edge.made[s].id \in dropped
    BY <1>1, <2>1, <2>3 DEF HubTrue
  <2>5. QED BY <2>1, <2>4 DEF Lost
<1>11. Created(edge)' = Created(edge) /\ Lost' = Lost /\ edge'.acked = edge.acked
  BY DEF Created, Lost
<1>12. QED BY <1>6, <1>8, <1>9, <1>10, <1>11 DEF Stream!Settle

\* An ACK is a Release, or repeats one.
LEMMA AckReleases ==
  ASSUME ReplayInv, ReplayInv', Mirror, PumpACK
  PROVE  Stream!Release \/ UNCHANGED Stream!streamVars
<1>0. /\ Stores /\ Pumping /\ Answered /\ QueueOK(edge) /\ edge'.made = edge.made /\ UNCHANGED <<hub, dropped>>
      /\ edgeUp /\ toEdge # <<>> /\ toEdge \in Seq(Answer) /\ edge.acked \in Nat
  <2>1. edge'.made = edge.made /\ UNCHANGED <<hub, dropped>>
    BY PumpMirror
  <2>2. QED BY <2>1 DEF ReplayInv, Stores, Wire, PumpACK, QueueOK, QueueShape
<1>1. PICK ack : /\ ack = Head(toEdge) /\ ack.kind = "ack"
                 /\ edge' = IF Commits(ack) THEN CommitReplayACK(edge, ack.last) ELSE edge
  BY DEF PumpACK
<1>2. CASE ~ Commits(ack)
  BY <1>0, <1>1, <1>2, StreamStutters
<1>3. CASE Commits(ack)
  <2>1. OldAck(ack) \/ CurAck(ack)
    BY <1>0, <1>1 DEF Answered, IsAck
  <2>2. CurAck(ack)
    BY <1>0, <1>3, <2>1, DuplicateIgnored
  <2>3. PICK f : /\ f = pump.inflight /\ Inflight(f) /\ ack.last = f.last /\ f.last <= hub.cursor
                 /\ f.last \in edge.acked..Len(edge.made)
    BY <1>0, <2>2, AnswerCommits
  <2>4. edge'.acked = f.last
    BY <1>0, <1>1, <1>3, <2>3, Acknowledge
  <2>5. f.last \in Nat /\ edge.acked < f.last
    BY <1>0, <2>3 DEF Inflight, FrameOK, Frame
  <2>6. edge'.acked \in (edge.acked + 1)..Stream!settled
    <3>1. Stream!settled = hub.cursor /\ hub.cursor \in Nat
      BY SettledTo
    <3>2. QED BY <1>0, <2>3, <2>4, <2>5, <3>1
  <2>7. Created(edge)' = Created(edge) /\ Lost' = Lost /\ Fates' = Fates
    BY <1>0 DEF Created, Lost, Fates
  <2>8. QED BY <2>6, <2>7 DEF Stream!Release
<1>4. QED BY <1>2, <1>3

\* Every step of the detailed specification is one of the stream, or none.
LEMMA StreamStep ==
  ASSUME ~ Restores, ReplayInv, Mirror, [Next]_vars
  PROVE  [Stream!StreamNext]_(Stream!streamVars)
<1>0. ReplayInv' /\ Mirror'
  BY ReplayStep, MirrorStep
<1>1. CASE CommitEdgeCheck \/ RecordOutcome \/ SweepRetention
  BY <1>0, <1>1, RecordStep, RecordsProduce DEF Stream!StreamNext
<1>2. CASE PumpACK
  BY <1>0, <1>2, AckReleases DEF Stream!StreamNext
<1>3. CASE \/ PumpRead \/ PumpSend \/ PumpRetry
           \/ SendSnapshot \/ SnapshotApplied \/ SnapshotInterval
           \/ Connect \/ EdgeLoses \/ HubLoses \/ HubHealth
  <2>1. edge' = edge /\ UNCHANGED <<hub, dropped>>
    BY <1>3 DEF PumpRead, PumpSend, PumpRetry, SendSnapshot, SnapshotApplied, SnapshotInterval,
                Connect, EdgeLoses, HubLoses, HubHealth, historyVars
  <2>2. UNCHANGED Stream!streamVars
    BY <2>1, StreamStutters
  <2>3. QED BY <2>2
<1>4. CASE HubNext
  <2>1. /\ UNCHANGED <<edge, dropped>>
        /\ \/ hub' = hub
           \/ \E f : FrameOK(f) /\ f.first <= hub.cursor + 1 /\ FrameTrue(f) /\ hub' = IngestReplayBatch(hub, f)
           \/ \E f \in StateFrame : FrameTrue(f) /\ hub' \in AfterSnapshot(hub, f)
    BY <1>4, HubMirror
  <2>2. CASE hub' = hub
    BY <2>1, <2>2, StreamStutters
  <2>3. ASSUME NEW f, FrameOK(f), f.first <= hub.cursor + 1, hub' = IngestReplayBatch(hub, f), hub' # hub
        PROVE  Stream!Settle
    BY <1>0, <2>1, <2>3, IngestSettlesStream
  <2>4. ASSUME NEW f \in StateFrame, hub' \in AfterSnapshot(hub, f)
        PROVE  UNCHANGED Stream!streamVars
    <3>1. hub'.cursor = hub.cursor /\ hub'.receipts = hub.receipts
      BY <2>4, SnapshotKeepsLedger DEF ReplayInv, Stores
    <3>2. QED BY <2>1, <3>1, StreamStutters
  <2>5. QED BY <2>1, <2>2, <2>3, <2>4 DEF Stream!StreamNext
<1>5. CASE UNCHANGED vars
  <2>1. edge' = edge /\ UNCHANGED <<hub, dropped>>
    BY <1>5 DEF vars, historyVars
  <2>2. QED BY <2>1, StreamStutters
<1>6. ~ TakeBackup /\ ~ RestoreBackup
  BY DEF TakeBackup, RestoreBackup
<1>7. QED BY <1>1, <1>2, <1>3, <1>4, <1>5, <1>6 DEF Next, EdgeNext

\* It starts as the stream does.
LEMMA StreamStart == ASSUME Init PROVE Stream!StreamInit
<1>1. /\ edge = [made |-> <<>>, acked |-> 0, rows |-> {}, gaps |-> {}]
      /\ hub.cursor = 0
  BY DEF Init
<1>2. Created(edge) = 0 /\ edge.acked = 0
  BY <1>1 DEF Created
<1>3. Lost = {}
  BY <1>2 DEF Lost
<1>4. Fates = [s \in {} |-> "lost"]
  <2>1. 1..hub.cursor = {}
    BY <1>1
  <2>2. QED BY <2>1 DEF Fates
<1>5. QED BY <1>2, <1>3, <1>4 DEF Stream!StreamInit

\* An edge that keeps its data directory, its hub and whatever connects them
\* implement the abstract stream: events settle in source order and once, only a
\* dropped event is written off, and the edge forgets an event only after the hub
\* settled it.
THEOREM ImplementsStream == ASSUME ~ Restores PROVE Spec => Stream!StreamSpec
<1>1. Init => Stream!StreamInit
  BY StreamStart
<1>2. Init => ReplayInv /\ Mirror
  BY ReplayStart, MirrorStart
<1>3. (ReplayInv /\ Mirror) /\ [Next]_vars => (ReplayInv /\ Mirror)'
  BY ReplayStep, MirrorStep
<1>4. (ReplayInv /\ Mirror) /\ [Next]_vars => [Stream!StreamNext]_(Stream!streamVars)
  BY StreamStep
<1>5. QED BY <1>1, <1>2, <1>3, <1>4, PTL DEF Spec, Stream!StreamSpec
=============================================================================
