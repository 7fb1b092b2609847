------------------------- MODULE DirectPagingProofs -------------------------
(***************************************************************************)
(* Proofs about the pages that leave without the outbox, and the folders   *)
(* they are sent for.                                                      *)
(*                                                                         *)
(* GroupAlert, for any folders, monitors, finite set of workers, settings  *)
(* and numbers of changes and faults: the pages of a folder alternate,     *)
(* tell its recorded status, and are lost only to faults.  Nothing is      *)
(* assumed of what the workers read.  The status read of a folder of any   *)
(* size says what its children justify.                                    *)
(*                                                                         *)
(* NotificationDispatcher, for any numbers of outages, intervals and       *)
(* faults: a monitor has one open alert whoever records it, and an owner   *)
(* that records alone pages as often as intervals and faults explain.      *)
(*                                                                         *)
(* MonitorGroups, for any tree of folders: the policy a monitor inherits   *)
(* is the one of the contract, and edits close no cycle of parents.        *)
(***************************************************************************)
EXTENDS GroupAlert, FolderStatus, MonitorGroups, NotificationDispatcher,
        FiniteSetTheorems, SequenceTheorems, TLAPS

\* What a worker carries through an evaluation.
Evaluation(v) ==
  \/ v = Idle
  \/ v = [at |-> "list", monitor |-> v.monitor]
  \/ v = [at |-> "load", chain |-> v.chain, prev |-> v.prev]
  \/ \E a \in {"read", "send"} :
       v = [at |-> a, chain |-> v.chain, prev |-> v.prev, got |-> v.got, read |-> v.read]

Shapes ==
  /\ work = [w \in Workers |-> work[w]]
  /\ \A w \in Workers : Evaluation(work[w])
  /\ last = [f \in Folders |-> last[f]]
  /\ pages \in [Folders -> Seq({"UP", "DOWN"})]
  /\ sent \in [Folders -> Nat] /\ faults \in Nat

\* A folder is recorded DOWN exactly while its pages are odd in number.
DownIsOdd == \A f \in Folders : last[f] = "DOWN" <=> Len(pages[f]) % 2 = 1

PagesInv ==
  /\ Shapes
  /\ PagesAlternate
  /\ DownIsOdd
  /\ LossNeedsFault

-----------------------------------------------------------------------------

\* Senders of a folder are finitely many.
LEMMA SendersFinite ==
  ASSUME NEW f
  PROVE  IsFiniteSet(Sending(f)) /\ Cardinality(Sending(f)) \in Nat
<1>1. Sending(f) \subseteq Workers
  BY DEF Sending
<1>2. IsFiniteSet(Sending(f))
  BY <1>1, FS_Subset, GroupAlertAssumption
<1>3. QED BY <1>2, FS_CardinalityType

\* One more page keeps the pages alternating.
Alternates(p) == \A i \in 1..Len(p) : p[i] = IF i % 2 = 1 THEN "DOWN" ELSE "UP"
LEMMA OnePage ==
  ASSUME NEW p \in Seq({"UP", "DOWN"}), NEW s \in {"UP", "DOWN"},
         Alternates(p),
         s = "DOWN" <=> Len(p) % 2 = 0, NEW q, q = Append(p, s)
  PROVE  /\ q \in Seq({"UP", "DOWN"}) /\ Len(q) = Len(p) + 1 /\ Alternates(q)
         /\ s = "DOWN" <=> Len(q) % 2 = 1
<1>1. Len(p) \in Nat
  OBVIOUS
<1>3. q \in Seq({"UP", "DOWN"}) /\ Len(q) = Len(p) + 1 /\ q[Len(p) + 1] = s
      /\ \A i \in 1..Len(p) : q[i] = p[i]
  OBVIOUS
<1>4. (Len(p) % 2 = 0 \/ Len(p) % 2 = 1) /\ (Len(p) % 2 = 0 <=> (Len(p) + 1) % 2 = 1)
  BY <1>1
<1>5. \A i \in 1..Len(q) : i \in 1..Len(p) \/ i = Len(p) + 1
  BY <1>1, <1>3
<1>6. \A i \in 1..Len(q) : q[i] = IF i % 2 = 1 THEN "DOWN" ELSE "UP"
  <2>1. q[Len(p) + 1] = IF (Len(p) + 1) % 2 = 1 THEN "DOWN" ELSE "UP"
    BY <1>3, <1>4
  <2>2. QED BY <1>3, <1>5, <2>1 DEF Alternates
<1>7. s = "DOWN" <=> Len(q) % 2 = 1
  BY <1>3, <1>4
<1>8. QED BY <1>3, <1>6, <1>7 DEF Alternates

\* Pages, sent pages and senders of a folder that do not change.
LEMMA SameSenders ==
  ASSUME Shapes, NEW w \in Workers, NEW v, Evaluation(v), work' = [work EXCEPT ![w] = v]
  PROVE  /\ work' = [u \in Workers |-> work'[u]] /\ \A u \in Workers : Evaluation(work'[u])
         /\ \A f : w \notin Sending(f) /\ v.at # "send" => Sending(f)' = Sending(f)
         /\ \A f : v.at # "send" => Sending(f)' = Sending(f) \ {w}
         /\ \A f : v.at = "send" /\ Head(v.chain) = f => Sending(f)' = Sending(f) \cup {w}
         /\ \A f : w \notin Sending(f) /\ Head(v.chain) # f => Sending(f)' = Sending(f)
<1>1. \A u \in Workers : work'[u] = IF u = w THEN v ELSE work[u]
  BY DEF Shapes
<1>2. work' = [u \in Workers |-> work'[u]]
  BY DEF Shapes
<1>3. \A u \in Workers : Evaluation(work'[u])
  <2>1. SUFFICES ASSUME NEW u \in Workers, NEW x, x = work'[u] PROVE Evaluation(x)
    OBVIOUS
  <2>2. CASE u = w
    BY <1>1, <2>1, <2>2
  <2>3. CASE u # w
    BY <1>1, <2>1, <2>3 DEF Shapes
  <2>4. QED BY <2>2, <2>3
<1>4. ASSUME NEW f
      PROVE  /\ w \notin Sending(f) /\ v.at # "send" => Sending(f)' = Sending(f)
             /\ v.at # "send" => Sending(f)' = Sending(f) \ {w}
             /\ v.at = "send" /\ Head(v.chain) = f => Sending(f)' = Sending(f) \cup {w}
             /\ w \notin Sending(f) /\ Head(v.chain) # f => Sending(f)' = Sending(f)
  <2>1. \A u : u \in Sending(f)' <=> u \in Workers /\ work'[u].at = "send" /\ Head(work'[u].chain) = f
    BY DEF Sending
  <2>2. \A u : u \in Sending(f) <=> u \in Workers /\ work[u].at = "send" /\ Head(work[u].chain) = f
    BY DEF Sending
  <2>3. ASSUME w \notin Sending(f), v.at # "send" PROVE Sending(f)' = Sending(f)
    <3>1. \A u : u \in Sending(f)' <=> u \in Sending(f)
      BY <1>1, <2>1, <2>2, <2>3
    <3>2. QED BY <3>1
  <2>4. ASSUME v.at # "send" PROVE Sending(f)' = Sending(f) \ {w}
    <3>1. \A u : u \in Sending(f)' <=> u \in Sending(f) \ {w}
      BY <1>1, <2>1, <2>2, <2>4
    <3>2. QED BY <3>1
  <2>5. ASSUME v.at = "send", Head(v.chain) = f PROVE Sending(f)' = Sending(f) \cup {w}
    <3>1. \A u : u \in Sending(f)' <=> u \in Sending(f) \cup {w}
      BY <1>1, <2>1, <2>2, <2>5
    <3>2. QED BY <3>1
  <2>6. ASSUME w \notin Sending(f), Head(v.chain) # f PROVE Sending(f)' = Sending(f)
    <3>1. \A u : u \in Sending(f)' <=> u \in Sending(f)
      BY <1>1, <2>1, <2>2, <2>6
    <3>2. QED BY <3>1
  <2>7. QED BY <2>3, <2>4, <2>5, <2>6
<1>5. QED BY <1>2, <1>3, <1>4

\* A worker that neither sends nor begins to leaves the pages as they are.
LEMMA QuietWorker ==
  ASSUME PagesInv, NEW w \in Workers, NEW v, Evaluation(v), work' = [work EXCEPT ![w] = v],
         work[w].at # "send", v.at # "send", UNCHANGED <<pages, sent>>,
         last' = [f \in Folders |-> last'[f]], \A f \in Folders : last'[f] = "DOWN" <=> last[f] = "DOWN",
         faults' = faults \/ faults' = faults + 1
  PROVE  PagesInv'
<1>1. Shapes
  BY DEF PagesInv
<1>2. /\ work' = [u \in Workers |-> work'[u]] /\ \A u \in Workers : Evaluation(work'[u])
      /\ \A f : Sending(f)' = Sending(f)
  <2>1. \A f : w \notin Sending(f)
    BY DEF Sending
  <2>2. QED BY <1>1, <2>1, SameSenders
<1>3. Shapes'
  BY <1>1, <1>2 DEF Shapes
<1>4. PagesAlternate' /\ DownIsOdd'
  BY DEF PagesInv, PagesAlternate, DownIsOdd
<1>5. LossNeedsFault'
  <2>1. SUFFICES ASSUME NEW f \in Folders
                 PROVE  LET gone == Len(pages[f]) - sent[f] - Cardinality(Sending(f)')
                        IN 0 <= gone /\ gone <= faults'
    BY DEF LossNeedsFault
  <2>2. Len(pages[f]) \in Nat /\ sent[f] \in Nat /\ faults \in Nat /\ Cardinality(Sending(f)) \in Nat
    BY <1>1, SendersFinite DEF Shapes
  <2>3. LET gone == Len(pages[f]) - sent[f] - Cardinality(Sending(f)) IN 0 <= gone /\ gone <= faults
    BY DEF PagesInv, LossNeedsFault
  <2>4. Sending(f)' = Sending(f)
    BY <1>2
  <2>5. QED BY <2>2, <2>3, <2>4
<1>6. QED BY <1>3, <1>4, <1>5 DEF PagesInv

\* How many pages of a folder are gone.
LEMMA Accounted ==
  ASSUME PagesInv, NEW f \in Folders
  PROVE  /\ Len(pages[f]) \in Nat /\ sent[f] \in Nat /\ faults \in Nat
         /\ Cardinality(Sending(f)) \in Nat /\ IsFiniteSet(Sending(f))
         /\ 0 <= Len(pages[f]) - sent[f] - Cardinality(Sending(f))
         /\ Len(pages[f]) - sent[f] - Cardinality(Sending(f)) <= faults
<1>1. Len(pages[f]) \in Nat /\ sent[f] \in Nat /\ faults \in Nat
  BY DEF PagesInv, Shapes
<1>2. QED BY <1>1, SendersFinite DEF PagesInv, LossNeedsFault

\* A sender has handed over its page, or lost it to a fault.
LEMMA SenderLeaves ==
  ASSUME PagesInv, NEW w \in Workers, NEW v, Evaluation(v), work' = [work EXCEPT ![w] = v],
         work[w].at = "send", v.at # "send", UNCHANGED <<last, pages>>,
         \/ sent' = [sent EXCEPT ![Head(work[w].chain)] = @ + 1] /\ faults' = faults
         \/ sent' = sent /\ faults' = faults + 1
  PROVE  PagesInv'
<1>1. Shapes
  BY DEF PagesInv
<1>2. PICK h : h = Head(work[w].chain)
  OBVIOUS
<1>3. /\ work' = [u \in Workers |-> work'[u]] /\ \A u \in Workers : Evaluation(work'[u])
      /\ \A f : Sending(f)' = Sending(f) \ {w}
      /\ \A f : f # h => Sending(f)' = Sending(f)
  <2>1. \A f : f # h => w \notin Sending(f)
    BY <1>2 DEF Sending
  <2>2. QED BY <1>1, <2>1, SameSenders
<1>4. w \in Sending(h)
  BY <1>2 DEF Sending
<1>5. sent' \in [Folders -> Nat] /\ faults' \in Nat
  <2>1. CASE h \in Folders
    BY <1>1, <1>2, <2>1 DEF Shapes
  <2>2. CASE h \notin Folders
    <3>1. sent \in [Folders -> Nat] /\ faults \in Nat
      BY <1>1 DEF Shapes
    <3>2. [sent EXCEPT ![h] = sent[h] + 1] = sent
      BY <2>2, <3>1
    <3>3. QED BY <1>2, <3>1, <3>2
  <2>3. QED BY <2>1, <2>2
<1>6. Shapes'
  BY <1>1, <1>3, <1>5 DEF Shapes
<1>7. PagesAlternate' /\ DownIsOdd'
  BY DEF PagesInv, PagesAlternate, DownIsOdd
<1>8. LossNeedsFault'
  <2>1. SUFFICES ASSUME NEW f \in Folders
                 PROVE  LET gone == Len(pages[f]) - sent'[f] - Cardinality(Sending(f)')
                        IN 0 <= gone /\ gone <= faults'
    BY DEF LossNeedsFault
  <2>2. CASE f # h
    <3>1. Sending(f)' = Sending(f) /\ sent'[f] = sent[f]
      BY <1>1, <1>2, <1>3, <2>2 DEF Shapes
    <3>2. QED BY <3>1, Accounted
  <2>3. CASE f = h
    <3>1. Cardinality(Sending(f)') = Cardinality(Sending(f)) - 1
      BY <1>3, <1>4, <2>3, FS_RemoveElement, SendersFinite
    <3>2. (sent'[f] = sent[f] + 1 /\ faults' = faults) \/ (sent'[f] = sent[f] /\ faults' = faults + 1)
      BY <1>1, <1>2, <2>3 DEF Shapes
    <3>3. QED BY <3>1, <3>2, Accounted, SMTT(30)
  <2>4. QED BY <2>2, <2>3
<1>9. QED BY <1>6, <1>7, <1>8 DEF PagesInv

\* The winner of a transition worth a page sends it.
LEMMA WinnerPages ==
  ASSUME PagesInv, NEW w \in Workers, NEW v, Evaluation(v), work' = [work EXCEPT ![w] = v],
         work[w].at # "send", v.at = "send", NEW h, h = Head(v.chain), NEW s \in {"UP", "DOWN"},
         last' = [last EXCEPT ![h] = s], pages' = [pages EXCEPT ![h] = Append(@, s)],
         s = "DOWN" <=> last[h] # "DOWN",
         UNCHANGED <<sent, faults>>
  PROVE  PagesInv'
<1>1. Shapes
  BY DEF PagesInv
<1>2. /\ work' = [u \in Workers |-> work'[u]] /\ \A u \in Workers : Evaluation(work'[u])
      /\ Sending(h)' = Sending(h) \cup {w} /\ w \notin Sending(h)
      /\ \A f : f # h => Sending(f)' = Sending(f)
  <2>1. \A f : w \notin Sending(f)
    BY DEF Sending
  <2>2. QED BY <1>1, <2>1, SameSenders
<1>3. \A f \in Folders : f # h => last'[f] = last[f] /\ pages'[f] = pages[f]
  BY <1>1 DEF Shapes
<1>4. ASSUME h \in Folders
      PROVE  /\ last'[h] = s /\ pages'[h] \in Seq({"UP", "DOWN"}) /\ Len(pages'[h]) = Len(pages[h]) + 1
             /\ \A i \in 1..Len(pages'[h]) : pages'[h][i] = IF i % 2 = 1 THEN "DOWN" ELSE "UP"
             /\ s = "DOWN" <=> Len(pages'[h]) % 2 = 1
  <2>1. PICK p \in Seq({"UP", "DOWN"}) : p = pages[h]
    BY <1>1, <1>4 DEF Shapes
  <2>2. last'[h] = s /\ pages'[h] = Append(p, s)
    BY <1>1, <1>4, <2>1 DEF Shapes
  <2>3. Alternates(p)
    BY <1>4, <2>1 DEF PagesInv, PagesAlternate, Alternates
  <2>4. s = "DOWN" <=> Len(p) % 2 = 0
    <3>1. Len(p) % 2 = 0 \/ Len(p) % 2 = 1
      OBVIOUS
    <3>2. last[h] = "DOWN" <=> Len(p) % 2 = 1
      BY <1>4, <2>1 DEF PagesInv, DownIsOdd
    <3>3. QED BY <3>1, <3>2
  <2>5. PICK q : q = Append(p, s)
    OBVIOUS
  <2>6. /\ q \in Seq({"UP", "DOWN"}) /\ Len(q) = Len(p) + 1 /\ Alternates(q)
        /\ s = "DOWN" <=> Len(q) % 2 = 1
    BY <2>3, <2>4, <2>5, OnePage
  <2>7. QED BY <2>1, <2>2, <2>5, <2>6 DEF Alternates
<1>5. Shapes'
  <2>1. last' = [f \in Folders |-> last'[f]]
    BY <1>1 DEF Shapes
  <2>2. pages' \in [Folders -> Seq({"UP", "DOWN"})]
    <3>1. pages' = [f \in Folders |-> pages'[f]]
      BY <1>1 DEF Shapes
    <3>2. \A f \in Folders : pages'[f] \in Seq({"UP", "DOWN"})
      BY <1>1, <1>3, <1>4 DEF Shapes
    <3>3. QED BY <3>1, <3>2
  <2>3. QED BY <1>1, <1>2, <2>1, <2>2 DEF Shapes
<1>6. PagesAlternate' /\ DownIsOdd'
  <2>1. ASSUME NEW f \in Folders
        PROVE  /\ \A i \in 1..Len(pages'[f]) : pages'[f][i] = IF i % 2 = 1 THEN "DOWN" ELSE "UP"
               /\ last'[f] = "DOWN" <=> Len(pages'[f]) % 2 = 1
    <3>1. CASE f # h
      <4>1. last'[f] = last[f] /\ pages'[f] = pages[f]
        BY <1>3, <3>1
      <4>2. /\ \A i \in 1..Len(pages[f]) : pages[f][i] = IF i % 2 = 1 THEN "DOWN" ELSE "UP"
            /\ last[f] = "DOWN" <=> Len(pages[f]) % 2 = 1
        BY DEF PagesInv, PagesAlternate, DownIsOdd
      <4>3. QED BY <4>1, <4>2
    <3>2. CASE f = h
      BY <1>4, <3>2
    <3>3. QED BY <3>1, <3>2
  <2>2. QED BY <2>1 DEF PagesAlternate, DownIsOdd
<1>7. LossNeedsFault'
  <2>1. SUFFICES ASSUME NEW f \in Folders
                 PROVE  LET gone == Len(pages'[f]) - sent[f] - Cardinality(Sending(f)')
                        IN 0 <= gone /\ gone <= faults
    BY DEF LossNeedsFault
  <2>2. CASE f # h
    <3>1. Sending(f)' = Sending(f) /\ pages'[f] = pages[f]
      BY <1>2, <1>3, <2>2
    <3>2. QED BY <3>1, Accounted
  <2>3. CASE f = h
    <3>1. Cardinality(Sending(f)') = Cardinality(Sending(f)) + 1
      BY <1>2, <2>3, FS_AddElement, SendersFinite
    <3>2. Len(pages'[f]) = Len(pages[f]) + 1
      BY <1>4, <2>3
    <3>3. QED BY <3>1, <3>2, Accounted, SMTT(30)
  <2>4. QED BY <2>2, <2>3
<1>8. QED BY <1>5, <1>6, <1>7 DEF PagesInv

\* Where a worker goes next.
LEMMA OnwardShape ==
  ASSUME Shapes, NEW w \in Workers, work[w].at \in {"read", "send"}
  PROVE  /\ Evaluation(Onward(w)) /\ Onward(w).at # "send"
         /\ Evaluation([work[w] EXCEPT !.at = "send"])
         /\ [work[w] EXCEPT !.at = "send"].at = "send"
         /\ [work[w] EXCEPT !.at = "send"].chain = work[w].chain
<1>1. PICK x : x = work[w]
  OBVIOUS
<1>2. PICK a \in {"read", "send"} :
        x = [at |-> a, chain |-> x.chain, prev |-> x.prev, got |-> x.got, read |-> x.read]
  <2>1. Evaluation(x)
    BY <1>1 DEF Shapes
  <2>2. x # Idle /\ x # [at |-> "list", monitor |-> x.monitor]
        /\ x # [at |-> "load", chain |-> x.chain, prev |-> x.prev]
    BY <1>1 DEF Idle
  <2>3. QED BY <2>1, <2>2 DEF Evaluation
<1>3. Evaluation(Idle) /\ Idle.at = "idle"
  BY DEF Evaluation, Idle
<1>4. PICK c : c = Tail(x.chain)
  OBVIOUS
<1>5. PICK y : y = [at |-> "read", chain |-> c, prev |-> x.prev, got |-> x.got, read |-> x.read]
  OBVIOUS
<1>6. Evaluation(y) /\ y.at = "read"
  BY <1>5 DEF Evaluation
<1>7. [x EXCEPT !.at = "read", !.chain = Tail(@)] = y
  <2>1. [x EXCEPT !.at = "read", !.chain = Tail(@)] = [x EXCEPT !.at = "read", !.chain = c]
    BY <1>2, <1>4
  <2>2. [x EXCEPT !.at = "read", !.chain = c] = y
    <3>1. PICK ch, p, g, d : x = [at |-> a, chain |-> ch, prev |-> p, got |-> g, read |-> d]
      BY <1>2
    <3>2. PICK z : z = [x EXCEPT !.at = "read"]
      OBVIOUS
    <3>3. z = [at |-> "read", chain |-> ch, prev |-> p, got |-> g, read |-> d]
      BY <3>1, <3>2
    <3>4. y = [at |-> "read", chain |-> c, prev |-> p, got |-> g, read |-> d]
      BY <1>5, <3>1
    <3>5. [z EXCEPT !.chain = c] = y
      BY <3>3, <3>4
    <3>6. QED BY <3>2, <3>5
  <2>3. QED BY <2>1, <2>2
<1>8. Evaluation(Onward(w)) /\ Onward(w).at # "send"
  BY <1>1, <1>3, <1>6, <1>7 DEF Onward
<1>9. PICK z : z = [at |-> "send", chain |-> x.chain, prev |-> x.prev, got |-> x.got, read |-> x.read]
  OBVIOUS
<1>10. Evaluation(z) /\ z.at = "send" /\ z.chain = x.chain
  BY <1>9 DEF Evaluation
<1>11. [x EXCEPT !.at = "send"] = z
  BY <1>2, <1>9
<1>12. QED BY <1>1, <1>8, <1>10, <1>11

LEMMA PagesStep == PagesInv /\ [Next]_vars => PagesInv'
<1> SUFFICES ASSUME PagesInv, [Next]_vars PROVE PagesInv'
  OBVIOUS
<1>0. Shapes /\ last = [f \in Folders |-> last[f]] /\ Evaluation(Idle) /\ Idle.at = "idle"
  BY DEF PagesInv, Shapes, Evaluation, Idle
<1>q. ASSUME NEW w \in Workers, NEW v, Evaluation(v), work' = [work EXCEPT ![w] = v],
             work[w].at # "send", v.at # "send", UNCHANGED <<last, pages, sent>>,
             faults' = faults \/ faults' = faults + 1
      PROVE  PagesInv'
  BY <1>0, <1>q, QuietWorker
<1>1. ASSUME NEW w \in Workers, NEW m \in Monitors, NEW s \in Reported, Record(w, m, s) PROVE PagesInv'
  <2>1. PICK v : v = [at |-> "list", monitor |-> m]
    OBVIOUS
  <2>2. Evaluation(v) /\ v.at = "list"
    BY <2>1 DEF Evaluation
  <2>3. work' = [work EXCEPT ![w] = v] /\ work[w].at # "send" /\ UNCHANGED <<last, pages, sent, faults>>
    BY <1>0, <1>1, <2>1 DEF Record
  <2>4. QED BY <1>q, <2>2, <2>3
<1>2. ASSUME NEW w \in Workers, ListAll(w) PROVE PagesInv'
  <2>1. PICK c : c = ancestorsOf(Home[work[w].monitor])
    OBVIOUS
  <2>2. PICK v : v = IF c = << >> THEN Idle ELSE [at |-> "load", chain |-> c, prev |-> last]
    OBVIOUS
  <2>3. Evaluation(v) /\ v.at # "send"
    BY <1>0, <2>2 DEF Evaluation
  <2>4. work' = [work EXCEPT ![w] = v] /\ work[w].at # "send" /\ UNCHANGED <<last, pages, sent, faults>>
    BY <1>2, <2>1, <2>2 DEF ListAll
  <2>5. QED BY <1>q, <2>3, <2>4
<1>3. ASSUME NEW w \in Workers, loadMonitors(w) PROVE PagesInv'
  <2>1. PICK v : v = [at |-> "read", chain |-> work[w].chain, prev |-> work[w].prev, got |-> Remote,
                      read |-> [m \in Monitors |-> IF m \in Remote THEN latest[m] ELSE NoStatus]]
    OBVIOUS
  <2>2. Evaluation(v) /\ v.at = "read"
    BY <2>1 DEF Evaluation
  <2>3. PICK u : u = IF Len(work[w].chain) = 1 THEN Idle
                     ELSE [at |-> "load", chain |-> Tail(work[w].chain), prev |-> work[w].prev]
    OBVIOUS
  <2>4. Evaluation(u) /\ u.at # "send"
    BY <1>0, <2>3 DEF Evaluation
  <2>5. /\ work[w].at # "send" /\ UNCHANGED <<last, pages, sent>>
        /\ \/ work' = [work EXCEPT ![w] = v] /\ faults' = faults
           \/ work' = [work EXCEPT ![w] = u] /\ faults' = faults + 1
    BY <1>3, <2>1, <2>3 DEF loadMonitors, Fails
  <2>6. QED BY <1>q, <2>2, <2>4, <2>5
<1>4. ASSUME NEW w \in Workers, NEW m \in Monitors, GetLatest(w, m) PROVE PagesInv'
  <2>1. PICK x : x = work[w]
    OBVIOUS
  <2>2. x = [at |-> "read", chain |-> x.chain, prev |-> x.prev, got |-> x.got, read |-> x.read]
    <3>1. Evaluation(x) /\ x.at = "read"
      BY <1>0, <1>4, <2>1 DEF GetLatest, Shapes
    <3>2. x # Idle /\ x # [at |-> "list", monitor |-> x.monitor]
          /\ x # [at |-> "load", chain |-> x.chain, prev |-> x.prev]
      BY <3>1 DEF Idle
    <3>3. QED BY <3>1, <3>2 DEF Evaluation
  <2>3. PICK v : v = [at |-> "read", chain |-> x.chain, prev |-> x.prev, got |-> x.got \cup {m},
                      read |-> [x.read EXCEPT ![m] = latest[m]]]
    OBVIOUS
  <2>4. Evaluation(v) /\ v.at = "read"
    BY <2>3 DEF Evaluation
  <2>5. ASSUME work' = [work EXCEPT ![w].read[m] = latest[m], ![w].got = @ \cup {m}]
        PROVE  work' = [work EXCEPT ![w] = v]
    <3>1. PICK y : y = [x EXCEPT !.read[m] = latest[m]]
      OBVIOUS
    <3>2. y = [at |-> "read", chain |-> x.chain, prev |-> x.prev, got |-> x.got,
               read |-> [x.read EXCEPT ![m] = latest[m]]]
      BY <2>2, <3>1
    <3>3. v = [y EXCEPT !.got = x.got \cup {m}] /\ y.got = x.got
      BY <2>3, <3>2
    <3>4. PICK wk : wk = [work EXCEPT ![w] = y]
      OBVIOUS
    <3>5. wk[w] = y /\ wk = [work EXCEPT ![w].read[m] = latest[m]]
      BY <1>0, <2>1, <3>1, <3>4 DEF Shapes
    <3>6. work' = [wk EXCEPT ![w].got = @ \cup {m}]
      BY <2>5, <3>5
    <3>7. work' = [wk EXCEPT ![w] = v]
      BY <3>3, <3>5, <3>6
    <3>8. QED BY <3>4, <3>7
  <2>6. PICK u : u = [at |-> "read", chain |-> x.chain, prev |-> x.prev, got |-> x.got \cup {m},
                      read |-> x.read]
    OBVIOUS
  <2>7. Evaluation(u) /\ u.at = "read"
    BY <2>6 DEF Evaluation
  <2>8. ASSUME work' = [work EXCEPT ![w].got = @ \cup {m}]
        PROVE  work' = [work EXCEPT ![w] = u]
    <3>1. u = [x EXCEPT !.got = x.got \cup {m}]
      BY <2>2, <2>6
    <3>2. QED BY <2>1, <2>8, <3>1
  <2>9. /\ work[w].at # "send" /\ UNCHANGED <<last, pages, sent>>
        /\ \/ work' = [work EXCEPT ![w].read[m] = latest[m], ![w].got = @ \cup {m}] /\ faults' = faults
           \/ work' = [work EXCEPT ![w].got = @ \cup {m}] /\ faults' = faults + 1
    BY <1>4 DEF GetLatest, Fails
  <2>10. QED BY <1>q, <2>4, <2>5, <2>7, <2>8, <2>9
<1>5. ASSUME NEW w \in Workers, claimAndAlert(w) PROVE PagesInv'
  <2>1. work[w].at = "read" /\ UNCHANGED <<sent, faults>>
    BY <1>5 DEF claimAndAlert
  <2>2. PICK h : h = Head(work[w].chain)
    OBVIOUS
  <2>3. PICK prev : prev = work[w].prev[h]
    OBVIOUS
  <2>4. PICK s : s = resolve(work[w].read)[h]
    OBVIOUS
  <2>5. PICK won \in BOOLEAN : won = (s \notin {NoStatus, prev} /\ ~Holds(prev, s) /\ ClaimStatusTransition(h, prev))
    OBVIOUS
  <2>6. PICK page \in BOOLEAN : page = (won /\ groupTransitionAlerts(prev, s))
    OBVIOUS
  <2>7. /\ last' = IF won THEN [last EXCEPT ![h] = s] ELSE last
        /\ pages' = IF page THEN [pages EXCEPT ![h] = Append(@, s)] ELSE pages
        /\ work' = [work EXCEPT ![w] = IF page THEN [@ EXCEPT !.at = "send"] ELSE Onward(w)]
    BY <1>5, <2>2, <2>3, <2>4, <2>5, <2>6 DEF claimAndAlert
  <2>8. CASE page
    <3>1. /\ s \in {"UP", "DOWN"} /\ won
          /\ s = "DOWN" <=> last[h] # "DOWN"
      BY <2>5, <2>6, <2>8 DEF groupTransitionAlerts, ClaimStatusTransition
    <3>2. PICK v : v = [work[w] EXCEPT !.at = "send"]
      OBVIOUS
    <3>3. Evaluation(v) /\ v.at = "send" /\ h = Head(v.chain)
      BY <1>0, <2>1, <2>2, <3>2, OnwardShape
    <3>4. work' = [work EXCEPT ![w] = v] /\ last' = [last EXCEPT ![h] = s]
          /\ pages' = [pages EXCEPT ![h] = Append(@, s)]
      BY <2>7, <2>8, <3>1, <3>2
    <3>5. QED BY <2>1, <3>1, <3>3, <3>4, WinnerPages
  <2>9. CASE ~page
    <3>1. PICK v : v = Onward(w)
      OBVIOUS
    <3>2. Evaluation(v) /\ v.at # "send"
      BY <1>0, <2>1, <3>1, OnwardShape
    <3>3. work' = [work EXCEPT ![w] = v] /\ UNCHANGED pages
      BY <2>7, <2>9, <3>1
    <3>4. last' = [f \in Folders |-> last'[f]]
      BY <1>0, <2>7
    <3>5. won => s # "DOWN" /\ last[h] # "DOWN"
      BY <2>5, <2>6, <2>9 DEF groupTransitionAlerts, ClaimStatusTransition, Holds
    <3>6. \A f \in Folders : last'[f] = "DOWN" <=> last[f] = "DOWN"
      BY <1>0, <2>7, <3>5
    <3>7. QED BY <2>1, <3>2, <3>3, <3>4, <3>6, QuietWorker
  <2>10. QED BY <2>8, <2>9
<1>6. ASSUME NEW w \in Workers, NotifyGroup(w) PROVE PagesInv'
  <2>1. PICK v : v = Onward(w)
    OBVIOUS
  <2>2. Evaluation(v) /\ v.at # "send" /\ work[w].at = "send"
    BY <1>0, <1>6, <2>1, OnwardShape DEF NotifyGroup
  <2>3. /\ work' = [work EXCEPT ![w] = v] /\ UNCHANGED <<last, pages>>
        /\ \/ sent' = [sent EXCEPT ![Head(work[w].chain)] = @ + 1] /\ faults' = faults
           \/ sent' = sent /\ faults' = faults + 1
    BY <1>6, <2>1 DEF NotifyGroup, Fails
  <2>4. QED BY <2>2, <2>3, SenderLeaves
<1>7. ASSUME NEW w \in Workers, Abandon(w) PROVE PagesInv'
  <2>1. work' = [work EXCEPT ![w] = Idle] /\ UNCHANGED <<last, pages, sent>> /\ faults' = faults + 1
    BY <1>7 DEF Abandon, Fails
  <2>2. CASE work[w].at = "send"
    BY <1>0, <2>1, <2>2, SenderLeaves
  <2>3. CASE work[w].at # "send"
    BY <1>0, <1>q, <2>1, <2>3
  <2>4. QED BY <2>2, <2>3
<1>8. CASE UNCHANGED vars
  BY <1>8, ZenonT(40) DEF vars, PagesInv, Shapes, PagesAlternate, DownIsOdd, LossNeedsFault, Sending
<1>9. QED BY <1>1, <1>2, <1>3, <1>4, <1>5, <1>6, <1>7, <1>8 DEF Next, Evaluate

\* The pages of every folder alternate, are odd in number while it is recorded
\* DOWN, and are all accounted for, in every reachable state.
THEOREM PagesInvariant == Spec => []PagesInv
<1>1. Init => PagesInv
  <2> SUFFICES ASSUME Init PROVE PagesInv
    OBVIOUS
  <2>1. Idle.at = "idle" /\ Evaluation(Idle)
    BY DEF Idle, Evaluation
  <2>2. \A w \in Workers : work[w] = Idle
    BY DEF Init
  <2>3. \A f \in Folders : Len(pages[f]) = 0 /\ sent[f] = 0 /\ Sending(f) = {} /\ last[f] = NoStatus
    BY <2>1, <2>2 DEF Init, Sending
  <2>4. Shapes
    BY <2>1, <2>2 DEF Init, Shapes
  <2>5. PagesAlternate /\ DownIsOdd
    <3>1. 0 % 2 = 0 /\ 1..0 = {} /\ NoStatus # "DOWN"
      BY DEF NoStatus
    <3>2. ASSUME NEW f \in Folders
          PROVE  (\A i \in 1..Len(pages[f]) : pages[f][i] = IF i % 2 = 1 THEN "DOWN" ELSE "UP")
                 /\ (last[f] = "DOWN" <=> Len(pages[f]) % 2 = 1)
      <4>1. 1..Len(pages[f]) = {} /\ Len(pages[f]) % 2 = 0 /\ last[f] # "DOWN"
        BY <2>3, <3>1
      <4>2. \A i \in {} : pages[f][i] = IF i % 2 = 1 THEN "DOWN" ELSE "UP"
        OBVIOUS
      <4>3. last[f] = "DOWN" <=> Len(pages[f]) % 2 = 1
        <5>1. Len(pages[f]) % 2 # 1
          BY <4>1, 0 # 1
        <5>2. QED BY <4>1, <5>1
      <4>4. QED BY <4>1, <4>2, <4>3
    <3>3. QED BY <3>2 DEF PagesAlternate, DownIsOdd
  <2>6. LossNeedsFault
    BY <2>3, FS_EmptySet DEF LossNeedsFault, Init
  <2>7. QED BY <2>4, <2>5, <2>6 DEF PagesInv
<1>2. QED BY <1>1, PagesStep, PTL DEF Spec

\* PagesTellStatus whatever stale statuses the workers read, in whatever order:
\* the compare-and-set on last_status and the hold on a confirmed DOWN are
\* enough (claimAndAlert, NotifyGroup).
THEOREM PagesTell == Spec => []PagesTellStatus
<1>1. PagesInv => PagesTellStatus
  <2> SUFFICES ASSUME PagesInv PROVE RecordedDownWasPaged
    BY DEF PagesInv, PagesTellStatus
  <2>1. SUFFICES ASSUME NEW f \in Folders
                 PROVE  last[f] = "DOWN" <=> (pages[f] # << >> /\ pages[f][Len(pages[f])] = "DOWN")
    BY DEF RecordedDownWasPaged
  <2>2. PICK p \in Seq({"UP", "DOWN"}) : p = pages[f]
    BY DEF PagesInv, Shapes
  <2>3. /\ \A i \in 1..Len(p) : p[i] = IF i % 2 = 1 THEN "DOWN" ELSE "UP"
        /\ last[f] = "DOWN" <=> Len(p) % 2 = 1
    BY <2>2 DEF PagesInv, PagesAlternate, DownIsOdd
  <2>4. Len(p) \in Nat /\ (p = << >> <=> Len(p) = 0)
    OBVIOUS
  <2>5. CASE Len(p) = 0
    <3>1. Len(p) % 2 = 0
      BY <2>5
    <3>2. QED BY <2>2, <2>3, <2>4, <2>5, <3>1
  <2>6. CASE Len(p) # 0
    <3>1. Len(p) \in 1..Len(p)
      BY <2>4, <2>6
    <3>2. p[Len(p)] = IF Len(p) % 2 = 1 THEN "DOWN" ELSE "UP"
      BY <2>3, <3>1
    <3>3. QED BY <2>2, <2>3, <2>4, <2>6, <3>2
  <2>7. QED BY <2>5, <2>6
<1>2. QED BY <1>1, PagesInvariant, PTL
-----------------------------------------------------------------------------
(* Rollups. *)

\* The children of one status, and their number.
LEMMA Counted ==
  ASSUME NEW ch, IsFiniteSet(DOMAIN ch), NEW s
  PROVE  /\ IsFiniteSet({c \in DOMAIN ch : ch[c] = s}) /\ In(ch, s) \in Nat
         /\ In(ch, s) > 0 <=> \E c \in DOMAIN ch : ch[c] = s
<1>1. PICK S : S = {c \in DOMAIN ch : ch[c] = s}
  OBVIOUS
<1>2. IsFiniteSet(S) /\ Cardinality(S) \in Nat
  BY <1>1, FS_Subset, FS_CardinalityType
<1>3. Cardinality(S) = 0 <=> S = {}
  BY <1>2, FS_EmptySet
<1>4. In(ch, s) = Cardinality(S)
  BY <1>1 DEF In
<1>5. QED BY <1>1, <1>2, <1>3, <1>4

\* The active children are those out of maintenance.
LEMMA ActiveCounted ==
  ASSUME NEW ch, IsFiniteSet(DOMAIN ch)
  PROVE  /\ Active(ch) = Cardinality(DOMAIN ch \ {c \in DOMAIN ch : ch[c] = "MAINTENANCE"})
         /\ Active(ch) \in Nat
<1>1. PICK D, S : D = DOMAIN ch /\ S = {c \in DOMAIN ch : ch[c] = "MAINTENANCE"}
  OBVIOUS
<1>2. IsFiniteSet(D \ S) /\ Cardinality(D \ S) = Cardinality(D) - Cardinality(D \cap S)
  BY <1>1, FS_Difference
<1>3. D \cap S = S
  BY <1>1
<1>4. Cardinality(D \ S) \in Nat
  BY <1>2, FS_CardinalityType
<1>5. Active(ch) = Cardinality(D) - Cardinality(S)
  BY <1>1 DEF Active, In
<1>6. QED BY <1>1, <1>2, <1>3, <1>4, <1>5

\* RollupJustified for folders of any size under any settings: no count or
\* percentage, negative or beyond the folder, makes a dead folder look alive,
\* one with unknown members look healthy, or a child in maintenance count
\* (MonitorGroup.Rollup, tallyStatuses).
THEOREM RollupSound ==
  ASSUME NEW g \in Settings, NEW ch, IsFiniteSet(DOMAIN ch), \A c \in DOMAIN ch : ch[c] \in Statuses
  PROVE  RollupJustified(g, ch)
<1>1. PICK out : out = {c \in DOMAIN ch : ch[c] = "MAINTENANCE"}
  OBVIOUS
<1>2. Active(ch) = Cardinality(DOMAIN ch \ out) /\ Active(ch) \in Nat
  BY <1>1, ActiveCounted
<1>3. MaintenanceIsInvisible(g, ch)
  <2>1. PICK rest : rest = [c \in DOMAIN ch \ out |-> ch[c]]
    OBVIOUS
  <2>2. SUFFICES ASSUME DOMAIN rest # {} PROVE Rollup(g, rest) = Rollup(g, ch)
    BY <1>1, <2>1 DEF MaintenanceIsInvisible
  <2>3. DOMAIN rest = DOMAIN ch \ out /\ \A c \in DOMAIN rest : rest[c] = ch[c]
    BY <2>1
  <2>4. IsFiniteSet(DOMAIN rest)
    BY <2>3, FS_Difference
  <2>5. DOMAIN rest \ {c \in DOMAIN rest : rest[c] = "MAINTENANCE"} = DOMAIN ch \ out
    BY <1>1, <2>3
  <2>6. Active(rest) = Active(ch)
    BY <1>2, <2>4, <2>5, ActiveCounted
  <2>7. ASSUME NEW s \in Statuses, s # "MAINTENANCE" PROVE In(rest, s) = In(ch, s)
    <3>1. {c \in DOMAIN rest : rest[c] = s} = {c \in DOMAIN ch : ch[c] = s}
      BY <1>1, <2>3, <2>7
    <3>2. QED BY <3>1 DEF In
  <2>8. In(rest, "DOWN") = In(ch, "DOWN") /\ In(rest, "UP") = In(ch, "UP") /\ In(rest, "UNKNOWN") = In(ch, "UNKNOWN")
    BY <2>7 DEF Statuses
  <2>9. Reaches(g, rest) <=> Reaches(g, ch)
    BY <2>6, <2>8 DEF Reaches
  <2>10. trips(g, rest) <=> trips(g, ch)
    BY <2>6, <2>8, <2>9 DEF trips
  <2>11. DOMAIN ch # {}
    BY <2>2, <2>3
  <2>12. QED BY <2>2, <2>6, <2>8, <2>10, <2>11 DEF Rollup
<1>4. UnknownNeverLooksHealthy(g, ch)
  <2>1. SUFFICES ASSUME \E c \in DOMAIN ch : ch[c] = "UNKNOWN", Rollup(g, ch) = "UP"
                 PROVE  g.condition = "all_down" /\ \E c \in DOMAIN ch : ch[c] = "UP"
    BY DEF UnknownNeverLooksHealthy
  <2>2. In(ch, "UNKNOWN") > 0 /\ (In(ch, "UP") > 0 => \E c \in DOMAIN ch : ch[c] = "UP")
    BY <2>1, Counted
  <2>3. g.condition = "all_down" /\ In(ch, "UP") > 0
    BY <2>1, <2>2 DEF Rollup, NoStatus
  <2>4. QED BY <2>2, <2>3
<1>5. DeadFolderIsDown(g, ch)
  <2>1. SUFFICES ASSUME g.condition # "ignore", Active(ch) > 0,
                        \A c \in DOMAIN ch : ch[c] \in {"DOWN", "MAINTENANCE"}
                 PROVE  Rollup(g, ch) = "DOWN"
    BY DEF DeadFolderIsDown
  <2>2. DOMAIN ch \ out = {c \in DOMAIN ch : ch[c] = "DOWN"}
    BY <1>1, <2>1
  <2>3. In(ch, "DOWN") = Active(ch)
    BY <1>2, <2>2 DEF In
  <2>4. trips(g, ch)
    BY <2>3 DEF trips
  <2>5. DOMAIN ch # {}
    <3>1. ASSUME DOMAIN ch = {} PROVE FALSE
      <4>1. DOMAIN ch \ out = {}
        BY <3>1
      <4>2. Active(ch) = 0
        BY <1>2, <4>1, FS_EmptySet
      <4>3. QED BY <2>1, <4>2
    <3>2. QED BY <3>1
  <2>6. QED BY <1>2, <2>1, <2>4, <2>5 DEF Rollup
<1>6. QED BY <1>3, <1>4, <1>5 DEF RollupJustified

\* RollupIsSound for any thresholds and numbers of children.
THEOREM FolderStatusSound == RollupSpec => []RollupIsSound
<1> DEFINE FolderTypes == settings \in Settings /\ children \in Seq(Statuses)
<1>1. RollupInit => FolderTypes
  <2> SUFFICES ASSUME RollupInit PROVE FolderTypes
    OBVIOUS
  <2>1. settings \in [condition : Conditions, threshold : Thresholds, percent : BOOLEAN]
    BY DEF RollupInit
  <2>2. settings \in Settings
    BY <2>1, FolderAssumption DEF Settings
  <2>3. QED BY <2>2 DEF RollupInit
<1>2. FolderTypes /\ [RollupNext]_rollupVars => FolderTypes'
  BY DEF RollupNext, AddChild, ChangeChild, rollupVars
<1>3. FolderTypes => RollupIsSound
  <2> SUFFICES ASSUME FolderTypes PROVE RollupJustified(settings, children)
    BY DEF RollupIsSound
  <2>1. DOMAIN children = 1..Len(children) /\ Len(children) \in Nat
    OBVIOUS
  <2>2. IsFiniteSet(DOMAIN children)
    BY <2>1, FS_Interval
  <2>3. \A c \in DOMAIN children : children[c] \in Statuses
    OBVIOUS
  <2>4. QED BY <2>2, <2>3, RollupSound
<1>4. QED BY <1>1, <1>2, <1>3, PTL DEF RollupSpec

-----------------------------------------------------------------------------
(* The page of a monitor without the outbox (NotificationDispatcher).      *)

\* No two alerts of the monitor are open.
OneOpenRow ==
  \A i, k \in DOMAIN alerts : alerts[i].status # "resolved" /\ alerts[k].status # "resolved" => i = k

RowsInv == Tables /\ OneOpenRow

\* One row of the table is rewritten.
LEMMA RowRewritten ==
  ASSUME alerts \in Seq(Alert), NEW i \in DOMAIN alerts, NEW a \in Alert,
         alerts' = [alerts EXCEPT ![i] = a]
  PROVE  /\ alerts' \in Seq(Alert) /\ Len(alerts') = Len(alerts) /\ DOMAIN alerts' = DOMAIN alerts
         /\ alerts'[i] = a
         /\ \A k \in DOMAIN alerts : k # i => alerts'[k] = alerts[k]
         /\ \A k \in DOMAIN alerts : alerts[k] \in Alert
<1>1. i \in 1..Len(alerts)
  OBVIOUS
<1>2. QED BY <1>1, ExceptSeq

\* A row is added for a failure of a monitor without an open alert.
LEMMA RowAdded ==
  ASSUME alerts \in Seq(Alert), NEW a \in Alert, alerts' = Append(alerts, a)
  PROVE  /\ alerts' \in Seq(Alert) /\ Len(alerts') = Len(alerts) + 1
         /\ DOMAIN alerts' = DOMAIN alerts \cup {Len(alerts) + 1}
         /\ Len(alerts) + 1 \notin DOMAIN alerts
         /\ alerts'[Len(alerts) + 1] = a
         /\ \A k \in DOMAIN alerts : alerts'[k] = alerts[k]
         /\ \A k \in DOMAIN alerts : alerts[k] \in Alert
OBVIOUS

\* An outage lapses: the rows keep what they are but for the count.
LEMMA RowsLapsed ==
  ASSUME alerts \in Seq(Alert), alerts' = Lapsed
  PROVE  /\ alerts' \in Seq(Alert) /\ Len(alerts') = Len(alerts) /\ DOMAIN alerts' = DOMAIN alerts
         /\ \A k \in DOMAIN alerts :
              /\ alerts'[k].status = alerts[k].status /\ alerts'[k].initial = alerts[k].initial
              /\ alerts'[k].pages = alerts[k].pages /\ alerts'[k].late = alerts[k].late
              /\ alerts'[k].lapses = IF k \in Open THEN alerts[k].lapses + 1 ELSE alerts[k].lapses
<1>1. PICK n \in Nat : n = Len(alerts) /\ DOMAIN alerts = 1..n
  OBVIOUS
<1>2. ASSUME NEW k \in 1..n
      PROVE  /\ alerts'[k] \in Alert
             /\ alerts'[k].status = alerts[k].status /\ alerts'[k].initial = alerts[k].initial
             /\ alerts'[k].pages = alerts[k].pages /\ alerts'[k].late = alerts[k].late
             /\ alerts'[k].lapses = IF k \in Open THEN alerts[k].lapses + 1 ELSE alerts[k].lapses
  <2>1. PICK a \in Alert : a = alerts[k]
    BY <1>1
  <2>2. PICK l \in Nat : l = a.lapses + 1
    BY DEF Alert
  <2>3. PICK b : b = [a EXCEPT !.lapses = l]
    OBVIOUS
  <2>4. /\ b \in Alert /\ b.status = a.status /\ b.initial = a.initial
        /\ b.pages = a.pages /\ b.late = a.late /\ b.lapses = a.lapses + 1
    BY <2>2, <2>3 DEF Alert
  <2>5. alerts'[k] = IF k \in Open THEN b ELSE a
    BY <1>1, <2>1, <2>2, <2>3 DEF Lapsed
  <2>6. CASE k \in Open
    BY <2>1, <2>4, <2>5, <2>6
  <2>7. CASE k \notin Open
    BY <2>1, <2>5, <2>7
  <2>8. QED BY <2>6, <2>7
<1>3. alerts' = [i \in 1..n |-> alerts'[i]] /\ DOMAIN alerts' = 1..n
  BY <1>1 DEF Lapsed
<1>4. alerts' \in [1..n -> Alert]
  BY <1>2, <1>3
<1>5. alerts' \in Seq(Alert) /\ Len(alerts') = n
  BY <1>3, <1>4
<1>6. QED BY <1>1, <1>2, <1>3, <1>5

\* The open alert, when there is one.
LEMMA OpenRow ==
  ASSUME RowsInv, Open # {}
  PROVE  /\ OpenId \in Open /\ OpenId \in DOMAIN alerts
         /\ \A i \in Open : i = OpenId
BY DEF RowsInv, OneOpenRow, Open, OpenId

\* What a recorder does next keeps the shape of its job.
LEMMA JobMoves ==
  ASSUME RowsInv, NEW r \in Recorders, NEW v \in Job, job' = [job EXCEPT ![r] = v],
         v.alert <= Len(alerts'), Len(alerts') >= Len(alerts), Len(alerts') \in Nat
  PROVE  /\ job' \in [Recorders -> Job]
         /\ \A q \in Recorders : job'[q].alert \in 0..Len(alerts')
         /\ job'[r] = v
         /\ \A q \in Recorders : q # r => job'[q] = job[q]
<1>1. job \in [Recorders -> Job] /\ Len(alerts) \in Nat /\ \A q \in Recorders : job[q].alert \in 0..Len(alerts)
  BY DEF RowsInv, Tables
<1>2. job' \in [Recorders -> Job] /\ job'[r] = v /\ \A q \in Recorders : q # r => job'[q] = job[q]
  BY <1>1
<1>3. v.alert \in Nat
  BY DEF Job
<1>4. QED BY <1>1, <1>2, <1>3

\* How a step may change the table: not at all, in one row that is not reopened,
\* by a first open row, or by the lapse of an outage.
RowsMove ==
  \/ UNCHANGED alerts
  \/ \E i \in DOMAIN alerts, a \in Alert :
       /\ alerts' = [alerts EXCEPT ![i] = a]
       /\ a.status # "resolved" => alerts[i].status # "resolved"
  \/ \E a \in Alert : Open = {} /\ alerts' = Append(alerts, a)
  \/ alerts' = Lapsed

\* Such a change keeps the rows and one open alert among them.
LEMMA RowsKept ==
  ASSUME RowsInv, RowsMove
  PROVE  alerts' \in Seq(Alert) /\ OneOpenRow' /\ Len(alerts') \in Nat /\ Len(alerts') >= Len(alerts)
<1>0. alerts \in Seq(Alert) /\ OneOpenRow /\ Len(alerts) \in Nat
  BY DEF RowsInv, Tables
<1>1. CASE UNCHANGED alerts
  BY <1>0, <1>1 DEF OneOpenRow
<1>2. ASSUME NEW i \in DOMAIN alerts, NEW a \in Alert, alerts' = [alerts EXCEPT ![i] = a],
             a.status # "resolved" => alerts[i].status # "resolved"
      PROVE  alerts' \in Seq(Alert) /\ OneOpenRow' /\ Len(alerts') = Len(alerts)
  BY <1>0, <1>2, RowRewritten DEF OneOpenRow
<1>3. ASSUME NEW a \in Alert, Open = {}, alerts' = Append(alerts, a)
      PROVE  alerts' \in Seq(Alert) /\ OneOpenRow' /\ Len(alerts') = Len(alerts) + 1
  <2>1. \A k \in DOMAIN alerts : alerts[k].status = "resolved"
    BY <1>3 DEF Open
  <2>2. QED BY <1>0, <1>3, <2>1, RowAdded DEF OneOpenRow
<1>4. CASE alerts' = Lapsed
  BY <1>0, <1>4, RowsLapsed DEF OneOpenRow
<1>5. QED BY <1>0, <1>1, <1>2, <1>3, <1>4 DEF RowsMove

\* Rows stay, and a resolved one stays resolved.
LEMMA RowsGrow ==
  ASSUME RowsInv, RowsMove
  PROVE  /\ DOMAIN alerts \subseteq DOMAIN alerts'
         /\ \A k \in DOMAIN alerts : alerts[k].status = "resolved" => alerts'[k].status = "resolved"
<1>0. alerts \in Seq(Alert)
  BY DEF RowsInv, Tables
<1>1. CASE UNCHANGED alerts
  BY <1>1
<1>2. ASSUME NEW i \in DOMAIN alerts, NEW a \in Alert, alerts' = [alerts EXCEPT ![i] = a],
             a.status # "resolved" => alerts[i].status # "resolved"
      PROVE  /\ DOMAIN alerts \subseteq DOMAIN alerts'
             /\ \A k \in DOMAIN alerts : alerts[k].status = "resolved" => alerts'[k].status = "resolved"
  BY <1>0, <1>2, RowRewritten
<1>3. ASSUME NEW a \in Alert, alerts' = Append(alerts, a)
      PROVE  DOMAIN alerts \subseteq DOMAIN alerts' /\ \A k \in DOMAIN alerts : alerts'[k] = alerts[k]
  BY <1>0, <1>3, RowAdded
<1>4. CASE alerts' = Lapsed
  BY <1>0, <1>4, RowsLapsed
<1>5. QED BY <1>1, <1>2, <1>3, <1>4 DEF RowsMove

\* A step of a recorder.
LEMMA RecorderMoves ==
  ASSUME RowsInv, RowsMove, NEW r \in Recorders, NEW v \in Job, job' = [job EXCEPT ![r] = v],
         v.alert <= Len(alerts'), status' \in Status, maint' \in BOOLEAN,
         throttle' \in {"none", "within", "past"}, elapses' \in 0..MaxElapses, failures' \in 0..MaxFailures
  PROVE  RowsInv'
BY RowsKept, JobMoves DEF RowsInv, Tables

\* Where a recorder is after a step: job'[r] field by field.
Went(r, pc, i) ==
  /\ job'[r].pc = pc /\ job'[r].alert = i
  /\ job'[r].cur = job[r].cur /\ job'[r].prev = job[r].prev

Pcs == {"idle", "dispatch", "reserve", "open", "create", "reread", "send", "mark", "find",
        "resolve", "recover", "forget", "pending", "again", "acked", "resend"}

\* The fields of a job.
LEMMA JobFields ==
  ASSUME NEW v \in Job
  PROVE  /\ v.pc \in Pcs /\ v.cur \in Status /\ v.prev \in Status /\ v.alert \in Nat
         /\ NoJob \in Job /\ NoJob.pc = "idle" /\ NoJob.alert = 0
BY DEF Job, NoJob, Status, Pcs

\* The job a recorder goes on with.
LEMMA JobGoes ==
  ASSUME NEW v \in Job, NEW pc \in Pcs, NEW w, w = [v EXCEPT !.pc = pc]
  PROVE  w \in Job /\ w.pc = pc /\ w.alert = v.alert /\ w.cur = v.cur /\ w.prev = v.prev
BY DEF Job, Pcs

\* A recorder that goes on, or returns, keeps the table's invariant.
LEMMA Gone ==
  ASSUME RowsInv, RowsMove, NEW r \in Recorders, NEW pc \in Pcs,
         status' \in Status, maint' \in BOOLEAN,
         throttle' \in {"none", "within", "past"}, elapses' \in 0..MaxElapses, failures' \in 0..MaxFailures
  PROVE  /\ Goto(r, pc) => RowsInv' /\ Went(r, pc, job[r].alert)
         /\ \A i \in 0..Len(alerts') : GotoWith(r, pc, i) => RowsInv' /\ Went(r, pc, i)
         /\ Return(r) => RowsInv' /\ job'[r] = NoJob
<1>0. /\ job[r] \in Job /\ job[r].alert \in 0..Len(alerts) /\ Len(alerts) \in Nat
      /\ Len(alerts') \in Nat /\ Len(alerts') >= Len(alerts) /\ job \in [Recorders -> Job]
  BY RowsKept DEF RowsInv, Tables
<1>1. ASSUME Goto(r, pc) PROVE RowsInv' /\ Went(r, pc, job[r].alert)
  <2>1. PICK v : v = [job[r] EXCEPT !.pc = pc]
    OBVIOUS
  <2>2. /\ v \in Job /\ v.pc = pc /\ v.alert = job[r].alert
        /\ v.cur = job[r].cur /\ v.prev = job[r].prev
    BY <1>0, <2>1, JobGoes
  <2>3. job' = [job EXCEPT ![r] = v]
    BY <1>1, <2>1 DEF Goto
  <2>4. job'[r] = v /\ v.alert <= Len(alerts')
    BY <1>0, <2>2, <2>3
  <2>5. RowsInv'
    BY <2>2, <2>3, <2>4, RecorderMoves
  <2>6. QED BY <2>2, <2>4, <2>5 DEF Went
<1>2. ASSUME NEW i \in 0..Len(alerts'), GotoWith(r, pc, i) PROVE RowsInv' /\ Went(r, pc, i)
  <2>1. PICK v : v = [job[r] EXCEPT !.pc = pc, !.alert = i]
    OBVIOUS
  <2>0. i \in Nat /\ i <= Len(alerts')
    BY <1>0
  <2>2. /\ v \in Job /\ v.pc = pc /\ v.alert = i
        /\ v.cur = job[r].cur /\ v.prev = job[r].prev
    BY <1>0, <2>0, <2>1 DEF Job, Pcs
  <2>3. job' = [job EXCEPT ![r] = v]
    BY <1>2, <2>1 DEF GotoWith
  <2>4. job'[r] = v /\ v.alert <= Len(alerts')
    BY <1>0, <2>0, <2>2, <2>3
  <2>5. RowsInv'
    BY <2>2, <2>3, <2>4, RecorderMoves
  <2>6. QED BY <2>2, <2>4, <2>5 DEF Went
<1>3. ASSUME Return(r) PROVE RowsInv' /\ job'[r] = NoJob
  <2>1. NoJob \in Job /\ NoJob.alert = 0
    BY DEF NoJob, Job, Status
  <2>2. job' = [job EXCEPT ![r] = NoJob] /\ NoJob.alert <= Len(alerts')
    BY <1>0, <1>3, <2>1 DEF Return
  <2>3. RowsInv'
    BY <2>1, <2>2, RecorderMoves
  <2>4. QED BY <1>0, <2>2, <2>3
<1>4. QED BY <1>1, <1>2, <1>3

\* The rows an action writes.
LEMMA RowsWritten ==
  ASSUME RowsInv, PageCap \in Nat, NEW i \in DOMAIN alerts
  PROVE  /\ [alerts[i] EXCEPT !.initial = TRUE] \in Alert
         /\ \A s \in {"firing", "acked", "resolved"} : [alerts[i] EXCEPT !.status = s] \in Alert
         /\ \A p, l \in 0..PageCap : [alerts[i] EXCEPT !.pages = p, !.late = l] \in Alert
         /\ [alerts[i] EXCEPT !.initial = TRUE].status = alerts[i].status
         /\ \A s \in {"firing", "acked", "resolved"} : [alerts[i] EXCEPT !.status = s].status = s
         /\ alerts[i] \in Alert
<1>1. alerts[i] \in Alert
  BY DEF RowsInv, Tables
<1>2. QED BY <1>1 DEF Alert

\* A page of the alert a recorder carries.
PageOf(r, a) ==
  LET old == alerts[job[r].alert] IN
  /\ alerts' = [alerts EXCEPT ![job[r].alert] = a]
  /\ a.status = old.status /\ a.initial = old.initial /\ a.lapses = old.lapses
  /\ a.pages \in Nat /\ a.pages <= old.pages + 1
  /\ a.late \in Nat /\ a.late <= (IF old.status = "acked" THEN old.late + 1 ELSE old.late)

\* Dispatch counts one page, and a late one if the alert was acknowledged.
LEMMA PageSent ==
  ASSUME RowsInv, NEW r \in Recorders, job[r].alert \in DOMAIN alerts,
         job[r].alert # 0, Dispatch(r)
  PROVE  \E a \in Alert : PageOf(r, a)
<1>1. PICK old \in Alert : old = alerts[job[r].alert]
  BY DEF RowsInv, Tables
<1>2. /\ old.pages \in 0..PageCap /\ old.late \in 0..PageCap /\ PageCap \in Nat
      /\ old.status \in {"firing", "acked", "resolved"} /\ old.initial \in BOOLEAN
  BY <1>1, DispatcherAssumption DEF Alert
<1>3. PICK p \in 0..PageCap : p = OneMore(old.pages)
  BY <1>2 DEF OneMore
<1>4. PICK l \in 0..PageCap : l = IF old.status = "acked" THEN OneMore(old.late) ELSE old.late
  BY <1>2 DEF OneMore
<1>5. PICK a : a = AfterPage(old)
  OBVIOUS
<1>6. a = [old EXCEPT !.pages = p, !.late = l]
  BY <1>1, <1>3, <1>4, <1>5 DEF Alert, AfterPage
<1>7. /\ a \in Alert /\ a.status = old.status /\ a.initial = old.initial /\ a.lapses = old.lapses
      /\ a.pages = p /\ a.late = l
  BY <1>1, <1>6 DEF Alert
<1>8. alerts' = [alerts EXCEPT ![job[r].alert] = a]
  BY <1>1, <1>5 DEF Dispatch
<1>9. p <= old.pages + 1 /\ l <= (IF old.status = "acked" THEN old.late + 1 ELSE old.late)
  BY <1>2, <1>3, <1>4 DEF OneMore
<1>10. PageOf(r, a)
  BY <1>1, <1>2, <1>7, <1>8, <1>9 DEF PageOf
<1>11. QED BY <1>7, <1>10

\* Every step keeps the types, leaves at most one alert open and removes no row.
LEMMA RowsStep ==
  ASSUME RowsInv, [DispatchNext]_dispatchVars
  PROVE  RowsInv' /\ RowsMove
<1> USE DEF At
<1>0. /\ alerts \in Seq(Alert) /\ Len(alerts) \in Nat /\ OneOpenRow
      /\ status \in Status /\ maint \in BOOLEAN /\ throttle \in {"none", "within", "past"}
      /\ elapses \in 0..MaxElapses /\ failures \in 0..MaxFailures
      /\ job \in [Recorders -> Job] /\ \A q \in Recorders : job[q].alert \in 0..Len(alerts)
      /\ MaxAlerts \in Nat /\ MaxElapses \in Nat /\ PageCap \in Nat /\ MaxFailures \in Nat
  BY DispatcherAssumption DEF RowsInv, Tables
<1>s. UNCHANGED alerts => RowsMove
  BY DEF RowsMove
<1>o. /\ Open # {} => OpenId \in 0..Len(alerts)
      /\ Open = {} => OpenId = 0 /\ 0 \in 0..Len(alerts)
  <2>1. Open # {} => OpenId \in DOMAIN alerts
    BY OpenRow
  <2>2. QED BY <1>0, <2>1 DEF OpenId
<1>1. ASSUME NEW r \in Recorders, RecordHeartbeat(r) PROVE RowsInv' /\ RowsMove
  <2>1. PICK s \in {"UP", "DOWN", "PENDING", "MAINTENANCE"} :
          /\ status' = s /\ alerts' \in {Lapsed, alerts}
          /\ job' = [job EXCEPT ![r] = [pc |-> "dispatch", cur |-> s, prev |-> status, alert |-> 0]]
    BY <1>1 DEF RecordHeartbeat
  <2>2. PICK v : v = [pc |-> "dispatch", cur |-> s, prev |-> status, alert |-> 0]
    OBVIOUS
  <2>3. v \in Job /\ v.alert = 0
    BY <1>0, <2>2 DEF Job, Status
  <2>4. RowsMove
    BY <2>1 DEF RowsMove
  <2>5. /\ UNCHANGED <<maint, throttle, elapses, failures>> /\ v.alert <= Len(alerts')
        /\ status' \in Status
    <3>1. Len(alerts') \in Nat
      BY <2>4, RowsKept
    <3>2. QED BY <1>1, <2>1, <2>3, <3>1 DEF RecordHeartbeat, Status
  <2>6. QED BY <1>0, <2>1, <2>2, <2>3, <2>4, <2>5, RecorderMoves
<1>2. ASSUME NEW r \in Recorders, OnHeartbeat(r) PROVE RowsInv' /\ RowsMove
  <2>1. UNCHANGED <<status, maint, alerts, throttle, elapses, failures>>
    BY <1>2 DEF OnHeartbeat
  <2>2. PICK pc \in Pcs : pc = Branch(job[r].cur, job[r].prev)
    BY DEF Branch, Pcs
  <2>3. Return(r) \/ Goto(r, pc)
    BY <1>2, <2>2 DEF OnHeartbeat
  <2>4. QED BY <1>0, <1>s, <2>1, <2>3, Gone
<1>3. ASSUME NEW r \in Recorders, ReserveAttempt(r) PROVE RowsInv' /\ RowsMove
  <2>1. UNCHANGED <<status, maint, alerts, elapses, failures>> /\ throttle' = "within"
    BY <1>3 DEF ReserveAttempt
  <2>2. \E pc \in Pcs : Goto(r, pc)
    BY <1>3 DEF ReserveAttempt, Pcs
  <2>3. QED BY <1>0, <1>s, <2>1, <2>2, Gone
<1>4. ASSUME NEW r \in Recorders, OpenOnDown(r) PROVE RowsInv' /\ RowsMove
  <2>0. UNCHANGED <<status, maint, throttle, elapses, failures>> /\ {"send", "create", "reread"} \subseteq Pcs
    BY <1>4 DEF OpenOnDown, LookUpOpen, CreateAlert, RereadOpen, Pcs
  <2>1. CASE UNCHANGED alerts /\ \E pc \in Pcs : Goto(r, pc) \/ GotoWith(r, pc, OpenId)
    BY <1>0, <1>o, <1>s, <2>0, <2>1, Gone
  <2>2. CASE Open = {} /\ GotoWith(r, "send", Len(alerts) + 1) /\ alerts' = Append(alerts, NewAlert)
    <3>1. PICK a \in Alert : a = NewAlert
      <4>1. 0 \in 0..PageCap
        BY DispatcherAssumption
      <4>2. QED BY <4>1 DEF Alert, NewAlert
    <3>2. RowsMove
      BY <2>2, <3>1 DEF RowsMove
    <3>3. Len(alerts') = Len(alerts) + 1
      BY <1>0, <2>2, <3>1, RowAdded
    <3>4. Len(alerts) + 1 \in 0..Len(alerts')
      BY <1>0, <3>3
    <3>5. QED BY <1>0, <2>0, <2>2, <3>2, <3>4, Gone
  <2>3. CASE LookUpOpen(r)
    BY <2>0, <2>1, <2>3 DEF LookUpOpen
  <2>4. CASE CreateAlert(r)
    BY <2>0, <2>1, <2>2, <2>4 DEF CreateAlert
  <2>5. CASE RereadOpen(r)
    BY <2>0, <2>1, <2>5 DEF RereadOpen
  <2>6. QED BY <1>4, <2>3, <2>4, <2>5 DEF OpenOnDown
<1>5. ASSUME NEW r \in Recorders, Dispatch(r) PROVE RowsInv' /\ RowsMove
  <2>0. UNCHANGED <<status, maint, throttle, elapses, failures>> /\ "mark" \in Pcs
    BY <1>5 DEF Dispatch, Pcs
  <2>1. CASE job[r].alert = 0
    BY <1>0, <1>5, <1>s, <2>0, <2>1, Gone DEF Dispatch
  <2>2. CASE job[r].alert # 0
    <3>1. job[r].alert \in DOMAIN alerts
      BY <1>0, <2>2
    <3>2. PICK a \in Alert : PageOf(r, a)
      BY <1>5, <3>1, <2>2, PageSent
    <3>5. RowsMove
      BY <3>1, <3>2 DEF RowsMove, PageOf
    <3>6. Goto(r, "mark")
      BY <1>5, <2>2 DEF Dispatch
    <3>7. QED BY <1>0, <2>0, <3>5, <3>6, Gone
  <2>3. QED BY <2>1, <2>2
<1>6. ASSUME NEW r \in Recorders, MarkInitialNotified(r) PROVE RowsInv' /\ RowsMove
  <2>1. ASSUME job[r].alert \in DOMAIN alerts PROVE RowsMove
    <3>1. PICK i \in DOMAIN alerts : i = job[r].alert
      BY <2>1
    <3>2. PICK a : a = [alerts[i] EXCEPT !.initial = TRUE]
      OBVIOUS
    <3>3. a \in Alert /\ a.status = alerts[i].status
      BY <1>0, <3>2, RowsWritten
    <3>4. alerts' = [alerts EXCEPT ![i] = a]
      BY <1>6, <3>1, <3>2 DEF MarkInitialNotified
    <3>5. QED BY <3>3, <3>4 DEF RowsMove
  <2>2. ASSUME job[r].alert \notin DOMAIN alerts PROVE RowsMove
    <3>1. alerts' = [alerts EXCEPT ![job[r].alert].initial = TRUE]
      BY <1>6 DEF MarkInitialNotified
    <3>2. QED BY <1>0, <1>s, <2>2, <3>1
  <2>3. RowsMove
    BY <2>1, <2>2
  <2>4. QED BY <1>0, <1>6, <2>3, Gone DEF MarkInitialNotified, Pcs
<1>7. ASSUME NEW r \in Recorders, FindOpen(r) PROVE RowsInv' /\ RowsMove
  <2>1. PICK pc \in Pcs : pc = IF Open = {} THEN "recover" ELSE "resolve"
    BY DEF Pcs
  <2>2. PICK i \in 0..Len(alerts) : i = OpenId
    BY <1>o
  <2>3. GotoWith(r, pc, i) /\ UNCHANGED <<status, maint, alerts, throttle, elapses, failures>>
    BY <1>7, <2>1, <2>2 DEF FindOpen
  <2>4. QED BY <1>0, <1>s, <2>3, Gone
<1>8. ASSUME NEW r \in Recorders, ResolveOpen(r) PROVE RowsInv' /\ RowsMove
  <2>1. ASSUME job[r].alert \in Open PROVE RowsMove
    <3>1. PICK i \in DOMAIN alerts : i = job[r].alert
      BY <2>1 DEF Open
    <3>2. PICK a : a = [alerts[i] EXCEPT !.status = "resolved"]
      OBVIOUS
    <3>3. a \in Alert /\ a.status = "resolved"
      BY <1>0, <3>2, RowsWritten
    <3>4. alerts' = [alerts EXCEPT ![i] = a]
      BY <1>8, <2>1, <3>1, <3>2 DEF ResolveOpen
    <3>5. QED BY <3>3, <3>4 DEF RowsMove
  <2>2. RowsMove
    BY <1>8, <1>s, <2>1 DEF ResolveOpen
  <2>3. /\ throttle' \in {"none", "within", "past"} /\ Goto(r, "recover")
        /\ UNCHANGED <<status, maint, elapses, failures>>
    BY <1>0, <1>8 DEF ResolveOpen
  <2>4. QED BY <1>0, <2>2, <2>3, Gone DEF Pcs
<1>9. ASSUME NEW r \in Recorders, DispatchRecovery(r) PROVE RowsInv' /\ RowsMove
  BY <1>0, <1>9, <1>s, Gone DEF DispatchRecovery, Pcs
<1>10. ASSUME NEW r \in Recorders, Forget(r) PROVE RowsInv' /\ RowsMove
  BY <1>0, <1>10, <1>s, Gone DEF Forget, Pcs
<1>11. ASSUME NEW r \in Recorders, SendLostInitial(r) PROVE RowsInv' /\ RowsMove
  <2>1. UNCHANGED <<status, maint, alerts, throttle, elapses, failures>> /\ {"again", "acked"} \subseteq Pcs
    BY <1>11 DEF SendLostInitial, Pcs
  <2>2. CASE GotoWith(r, "again", OpenId)
    BY <1>0, <1>o, <1>s, <2>1, <2>2, Gone
  <2>3. CASE Goto(r, "acked")
    BY <1>0, <1>s, <2>1, <2>3, Gone
  <2>4. QED BY <1>11, <2>2, <2>3 DEF SendLostInitial
<1>12. ASSUME NEW r \in Recorders, CheckAcked(r) PROVE RowsInv' /\ RowsMove
  BY <1>0, <1>12, <1>s, Gone DEF CheckAcked, Pcs
<1>13. ASSUME NEW r \in Recorders, ReserveResend(r) PROVE RowsInv' /\ RowsMove
  BY <1>0, <1>13, <1>s, Gone DEF ReserveResend, Pcs
<1>14. ASSUME NEW r \in Recorders, QueryFails(r) PROVE RowsInv' /\ RowsMove
  <2>1. UNCHANGED <<status, maint, alerts, throttle, elapses>> /\ failures' \in 0..MaxFailures
    BY <1>0, <1>14 DEF QueryFails
  <2>2. PICK pc \in Pcs : Goto(r, pc) \/ GotoWith(r, pc, 0)
    BY <1>14 DEF QueryFails, Branch, Pcs
  <2>3. QED BY <1>0, <1>o, <1>s, <2>1, <2>2, Gone
<1>15. ASSUME NEW r \in Recorders, Crash(r) PROVE RowsInv' /\ RowsMove
  <2>1. UNCHANGED <<status, maint, alerts, throttle, elapses>> /\ failures' \in 0..MaxFailures
    BY <1>0, <1>15 DEF Crash
  <2>2. QED BY <1>0, <1>15, <1>s, <2>1, Gone DEF Crash, Pcs
<1>16. CASE IntervalPasses
  BY <1>0, <1>s, <1>16 DEF IntervalPasses, RowsInv, OneOpenRow, Tables
<1>17. CASE Acknowledge
  <2>1. PICK i \in DOMAIN alerts : /\ alerts[i].status = "firing"
                                   /\ alerts' = [alerts EXCEPT ![i].status = "acked"]
    BY <1>17 DEF Acknowledge, Open
  <2>2. PICK a : a = [alerts[i] EXCEPT !.status = "acked"]
    OBVIOUS
  <2>3. a \in Alert
    BY <1>0, <2>2, RowsWritten
  <2>4. RowsMove
    BY <2>1, <2>2, <2>3 DEF RowsMove
  <2>5. alerts' = [alerts EXCEPT ![i] = a] /\ UNCHANGED <<status, maint, throttle, job, elapses, failures>>
    BY <1>17, <2>1, <2>2 DEF Acknowledge
  <2>6. QED BY <1>0, <2>3, <2>4, <2>5, RowsKept, RowRewritten DEF RowsInv, Tables
<1>18. CASE ToggleMaintenance
  BY <1>0, <1>s, <1>18 DEF ToggleMaintenance, RowsInv, OneOpenRow, Tables
<1>19. CASE UNCHANGED dispatchVars
  BY <1>0, <1>s, <1>19 DEF dispatchVars, RowsInv, OneOpenRow, Tables
<1>20. QED
  BY <1>1, <1>2, <1>3, <1>4, <1>5, <1>6, <1>7, <1>8, <1>9, <1>10, <1>11, <1>12, <1>13, <1>14, <1>15,
     <1>16, <1>17, <1>18, <1>19 DEF DispatchNext, Step

\* The table is sound in every reachable state.
LEMMA RowsInvariant ==
  DispatchSpec => []RowsInv
<1>1. DispatchInit => RowsInv
  <2> SUFFICES ASSUME DispatchInit PROVE RowsInv
    OBVIOUS
  <2>1. alerts \in Seq(Alert) /\ Len(alerts) = 0 /\ DOMAIN alerts = {}
    BY DEF DispatchInit
  <2>2. job \in [Recorders -> Job] /\ \A r \in Recorders : job[r].alert = 0
    BY JobFields DEF DispatchInit, NoJob, Job, Status
  <2>3. /\ status \in Status /\ maint \in BOOLEAN /\ throttle \in {"none", "within", "past"}
        /\ elapses \in 0..MaxElapses /\ failures \in 0..MaxFailures
    <3>1. MaxElapses \in Nat /\ MaxFailures \in Nat
      BY DispatcherAssumption
    <3>2. elapses \in 0..MaxElapses /\ failures \in 0..MaxFailures
      BY <3>1 DEF DispatchInit
    <3>3. maint \in BOOLEAN
      BY Zenon DEF DispatchInit
    <3>4. QED BY <3>2, <3>3 DEF DispatchInit, Status
  <2>4. \A r \in Recorders : job[r].alert \in 0..Len(alerts)
    BY <2>1, <2>2
  <2>5. QED BY <2>1, <2>2, <2>3, <2>4 DEF RowsInv, OneOpenRow, Tables
<1>2. RowsInv /\ [DispatchNext]_dispatchVars => RowsInv'
  BY RowsStep
<1>3. QED BY <1>1, <1>2, PTL DEF DispatchSpec

\* A recorder that lost the race has a row to read, one that sends the lost first
\* page carries its alert, and one that sends without an alert has a reason to.
Answered(r) ==
  /\ At(r, "reread") => DOMAIN alerts # {}
  /\ At(r, "again") => job[r].alert # 0
  /\ At(r, "send") /\ job[r].alert = 0 => failures > 0 \/ Ended

AnswersInv == RowsInv /\ \A r \in Recorders : Answered(r)

\* What others do takes no reason away.
LEMMA ReasonsStay ==
  ASSUME RowsInv, RowsMove, failures \in Nat, failures' = failures \/ failures' = failures + 1
  PROVE  /\ Ended => Ended'
         /\ \A q \in Recorders : Answered(q) /\ job'[q] = job[q] => Answered(q)'
<1>1. Ended => Ended'
  BY RowsGrow DEF Ended
<1>2. ASSUME NEW q \in Recorders, Answered(q), job'[q] = job[q] PROVE Answered(q)'
  BY <1>1, <1>2, RowsGrow DEF Answered, At
<1>3. QED BY <1>1, <1>2

\* A recorder that goes to none of the three places has nothing to answer for.
LEMMA NothingAsked ==
  ASSUME NEW r, ~At(r, "reread")', ~At(r, "again")', ~At(r, "send")' \/ job'[r].alert # 0
  PROVE  Answered(r)'
BY DEF Answered

LEMMA AnswersStep ==
  ASSUME AnswersInv, [DispatchNext]_dispatchVars
  PROVE  AnswersInv'
<1>0. /\ RowsInv /\ RowsInv' /\ RowsMove /\ job \in [Recorders -> Job] /\ failures \in Nat
      /\ 0 \notin DOMAIN alerts /\ Len(alerts) \in Nat
      /\ \A r \in Recorders : job[r].alert \in 0..Len(alerts)
  <2>1. RowsInv /\ RowsInv' /\ RowsMove
    BY RowsStep DEF AnswersInv
  <2>2. MaxFailures \in Nat
    BY DispatcherAssumption
  <2>3. QED BY <2>1, <2>2 DEF RowsInv, Tables
<1>i. Open # {} => OpenId # 0 /\ OpenId \in DOMAIN alerts
  BY <1>0, OpenRow
<1>m. ASSUME NEW r \in Recorders, NEW v, job' = [job EXCEPT ![r] = v], Answered(r)',
             failures' = failures \/ failures' = failures + 1
      PROVE  AnswersInv'
  BY <1>0, <1>m, ReasonsStay DEF AnswersInv
<1>q. ASSUME UNCHANGED <<job, failures>> PROVE AnswersInv'
  BY <1>0, <1>q, ReasonsStay DEF AnswersInv
<1>g. ASSUME NEW r \in Recorders, NEW pc
      PROVE  /\ Goto(r, pc) => /\ job'[r].pc = pc /\ job'[r].alert = job[r].alert
                               /\ \E v : job' = [job EXCEPT ![r] = v]
             /\ \A i : GotoWith(r, pc, i) => /\ job'[r].pc = pc /\ job'[r].alert = i
                                             /\ \E v : job' = [job EXCEPT ![r] = v]
             /\ Return(r) => job'[r] = NoJob /\ \E v : job' = [job EXCEPT ![r] = v]
  <2>1. job[r] \in Job
    BY <1>0
  <2>2. ASSUME Goto(r, pc)
        PROVE  /\ job'[r].pc = pc /\ job'[r].alert = job[r].alert
               /\ \E v : job' = [job EXCEPT ![r] = v]
    BY <1>0, <2>1, <2>2 DEF Goto, Job
  <2>3. ASSUME NEW i, GotoWith(r, pc, i)
        PROVE  /\ job'[r].pc = pc /\ job'[r].alert = i
               /\ \E v : job' = [job EXCEPT ![r] = v]
    BY <1>0, <2>1, <2>3 DEF GotoWith, Job
  <2>4. QED BY <1>0, <2>2, <2>3 DEF Return
<1>r. ASSUME NEW r \in Recorders, Return(r), failures' = failures \/ failures' = failures + 1
      PROVE  AnswersInv'
  <2>1. Answered(r)'
    BY <1>g, <1>r, NothingAsked DEF NoJob, At
  <2>2. QED BY <1>g, <1>m, <1>r, <2>1
<1>p. ASSUME NEW r \in Recorders, NEW pc \in Pcs \ {"reread", "again", "send"}, NEW i,
             Goto(r, pc) \/ GotoWith(r, pc, i), failures' = failures \/ failures' = failures + 1
      PROVE  AnswersInv'
  <2>1. Answered(r)'
    BY <1>g, <1>p, NothingAsked DEF At
  <2>2. QED BY <1>g, <1>m, <1>p, <2>1
<1>1. ASSUME NEW r \in Recorders, RecordHeartbeat(r) PROVE AnswersInv'
  <2>0. PICK s : job' = [job EXCEPT ![r] =
                           [pc |-> "dispatch", cur |-> s, prev |-> status, alert |-> 0]]
    BY <1>1, Zenon DEF RecordHeartbeat
  <2>1. PICK v : job' = [job EXCEPT ![r] = v] /\ v.pc = "dispatch"
    <3>1. PICK v : v = [pc |-> "dispatch", cur |-> s, prev |-> status, alert |-> 0]
      OBVIOUS
    <3>2. v.pc = "dispatch"
      BY <3>1
    <3>3. QED BY <2>0, <3>1, <3>2, Zenon
  <2>2. Answered(r)' /\ failures' = failures
    BY <1>0, <1>1, <2>1, NothingAsked DEF At, RecordHeartbeat
  <2>3. QED BY <1>m, <2>1, <2>2
<1>2. ASSUME NEW r \in Recorders, OnHeartbeat(r) PROVE AnswersInv'
  <2>1. PICK pc : pc = Branch(job[r].cur, job[r].prev) /\ pc \in Pcs \ {"reread", "again", "send"}
    BY DEF Branch, Pcs
  <2>2. (Return(r) \/ Goto(r, pc)) /\ failures' = failures
    BY <1>2, <2>1 DEF OnHeartbeat
  <2>3. QED BY <1>p, <1>r, <2>1, <2>2
<1>3. ASSUME NEW r \in Recorders, ReserveAttempt(r) PROVE AnswersInv'
  <2>1. CASE Goto(r, "open")
    BY <1>3, <1>p, <2>1 DEF ReserveAttempt, Pcs
  <2>2. CASE At(r, "again") /\ Goto(r, "send")
    <3>1. job'[r].alert # 0 /\ job'[r].pc = "send"
      BY <1>g, <2>2 DEF AnswersInv, Answered
    <3>2. Answered(r)'
      BY <3>1, NothingAsked DEF At
    <3>3. QED BY <1>3, <1>g, <1>m, <2>2, <3>2 DEF ReserveAttempt
  <2>3. QED BY <1>3, <2>1, <2>2 DEF ReserveAttempt
<1>4. ASSUME NEW r \in Recorders, LookUpOpen(r) PROVE AnswersInv'
  <2>1. CASE Open = {}
    BY <1>4, <1>p, <2>1 DEF LookUpOpen, Pcs
  <2>2. CASE Open # {}
    <3>1. GotoWith(r, "send", OpenId) /\ failures' = failures
      BY <1>4, <2>2 DEF LookUpOpen
    <3>2. Answered(r)'
      BY <1>g, <1>i, <2>2, <3>1, NothingAsked DEF At
    <3>3. QED BY <1>g, <1>m, <3>1, <3>2
  <2>3. QED BY <2>1, <2>2
<1>5. ASSUME NEW r \in Recorders, CreateAlert(r) PROVE AnswersInv'
  <2>1. CASE GotoWith(r, "send", Len(alerts) + 1)
    <3>0. PICK n : n = Len(alerts) + 1 /\ n # 0
      BY <1>0
    <3>1. job'[r].pc = "send" /\ job'[r].alert = n
      <4>1. GotoWith(r, "send", n)
        BY <2>1, <3>0
      <4>2. QED BY <1>g, <4>1, Zenon
    <3>2. Answered(r)'
      BY <3>0, <3>1, NothingAsked DEF At
    <3>3. QED BY <1>5, <1>g, <1>m, <2>1, <3>2, Zenon DEF CreateAlert
  <2>2. CASE Open # {} /\ Goto(r, "reread")
    <3>1. job'[r].pc = "reread" /\ DOMAIN alerts' # {}
      BY <1>0, <1>g, <1>i, <2>2, RowsGrow
    <3>2. Answered(r)'
      BY <3>1 DEF Answered, At
    <3>3. QED BY <1>5, <1>g, <1>m, <2>2, <3>2 DEF CreateAlert
  <2>3. QED BY <1>5, <2>1, <2>2 DEF CreateAlert
<1>6. ASSUME NEW r \in Recorders, RereadOpen(r) PROVE AnswersInv'
  <2>1. GotoWith(r, "send", OpenId) /\ UNCHANGED <<alerts, failures>>
    BY <1>6 DEF RereadOpen
  <2>2. Open = {} => Ended'
    <3>1. DOMAIN alerts # {}
      BY <1>6 DEF RereadOpen, AnswersInv, Answered
    <3>2. QED BY <2>1, <3>1 DEF Open, Ended
  <2>3. job'[r].pc = "send" /\ job'[r].alert = OpenId
    BY <1>g, <2>1
  <2>4. Answered(r)'
    BY <1>i, <2>2, <2>3 DEF Answered, At
  <2>5. QED BY <1>g, <1>m, <2>1, <2>4
<1>7. ASSUME NEW r \in Recorders, Dispatch(r) PROVE AnswersInv'
  BY <1>7, <1>p, <1>r DEF Dispatch, Pcs
<1>8. ASSUME NEW r \in Recorders, MarkInitialNotified(r) PROVE AnswersInv'
  BY <1>8, <1>r DEF MarkInitialNotified
<1>9. ASSUME NEW r \in Recorders, FindOpen(r) PROVE AnswersInv'
  <2>1. PICK pc : /\ pc = (IF Open = {} THEN "recover" ELSE "resolve")
                  /\ pc \in Pcs \ {"reread", "again", "send"}
    BY DEF Pcs
  <2>2. QED BY <1>9, <1>p, <2>1 DEF FindOpen
<1>10. ASSUME NEW r \in Recorders, ResolveOpen(r) PROVE AnswersInv'
  BY <1>10, <1>p DEF ResolveOpen, Pcs
<1>11. ASSUME NEW r \in Recorders, DispatchRecovery(r) PROVE AnswersInv'
  BY <1>11, <1>p DEF DispatchRecovery, Pcs
<1>12. ASSUME NEW r \in Recorders, Forget(r) PROVE AnswersInv'
  BY <1>12, <1>r DEF Forget
<1>13. ASSUME NEW r \in Recorders, SendLostInitial(r) PROVE AnswersInv'
  <2>1. CASE Goto(r, "acked")
    BY <1>13, <1>p, <2>1 DEF SendLostInitial, Pcs
  <2>2. CASE Open # {} /\ GotoWith(r, "again", OpenId)
    <3>1. job'[r].pc = "again" /\ job'[r].alert # 0
      BY <1>g, <1>i, <2>2
    <3>2. Answered(r)'
      BY <3>1 DEF Answered, At
    <3>3. QED BY <1>13, <1>g, <1>m, <2>2, <3>2 DEF SendLostInitial
  <2>3. QED BY <1>13, <2>1, <2>2 DEF SendLostInitial
<1>14. ASSUME NEW r \in Recorders, CheckAcked(r) PROVE AnswersInv'
  BY <1>14, <1>p, <1>r DEF CheckAcked, Pcs
<1>15. ASSUME NEW r \in Recorders, ReserveResend(r) PROVE AnswersInv'
  BY <1>15, <1>p, <1>r DEF ReserveResend, Pcs
<1>16. ASSUME NEW r \in Recorders, QueryFails(r) PROVE AnswersInv'
  <2>0. failures' = failures + 1
    BY <1>16 DEF QueryFails
  <2>1. CASE GotoWith(r, "send", 0)
    <3>0. PICK n : n = 0
      OBVIOUS
    <3>1. job'[r].pc = "send"
      BY <1>g, <2>1, <3>0, Zenon
    <3>2. failures' > 0
      BY <1>0, <2>0
    <3>3. Answered(r)'
      BY <3>1, <3>2 DEF Answered, At
    <3>4. QED BY <1>g, <1>m, <2>0, <2>1, <3>3, Zenon
  <2>2. PICK pc : pc = Branch(job[r].cur, job[r].prev) /\ pc \in Pcs \ {"reread", "again", "send"}
    BY DEF Branch, Pcs
  <2>3. CASE Goto(r, pc) \/ Goto(r, "acked") \/ Goto(r, "resend") \/ GotoWith(r, "recover", 0)
    <3>1. {"acked", "resend", "recover"} \subseteq Pcs \ {"reread", "again", "send"}
      BY DEF Pcs
    <3>2. QED BY <1>p, <2>0, <2>2, <2>3, <3>1
  <2>4. QED BY <1>16, <2>1, <2>2, <2>3 DEF QueryFails
<1>17. ASSUME NEW r \in Recorders, Crash(r) PROVE AnswersInv'
  BY <1>17, <1>r DEF Crash
<1>18. CASE IntervalPasses \/ Acknowledge \/ ToggleMaintenance \/ UNCHANGED dispatchVars
  BY <1>18, <1>q DEF IntervalPasses, Acknowledge, ToggleMaintenance, dispatchVars
<1>19. QED
  BY <1>1, <1>2, <1>3, <1>4, <1>5, <1>6, <1>7, <1>8, <1>9, <1>10, <1>11, <1>12, <1>13, <1>14, <1>15,
     <1>16, <1>17, <1>18 DEF DispatchNext, Step, OpenOnDown

\* OpenRaceRecovered for any number of recorders, windows and faults: the lookup and
\* the insert of OpenOnDown are two transactions, the unique open_monitor_id refuses
\* the second insert, and whoever is refused finds the winner's row or, when it was
\* resolved meanwhile, pages without one.
THEOREM OneAlert == DispatchSpec => []OpenRaceRecovered
<1>1. AnswersInv => OpenRaceRecovered
  BY DEF AnswersInv, Answered, RowsInv, OneOpenRow, OpenRaceRecovered, Open
<1>2. DispatchInit /\ RowsInv => AnswersInv
  BY DEF DispatchInit, AnswersInv, Answered, At, NoJob
<1>3. AnswersInv /\ [DispatchNext]_dispatchVars => AnswersInv'
  BY AnswersStep
<1>4. QED BY <1>1, <1>2, <1>3, RowsInvariant, PTL DEF DispatchSpec

-----------------------------------------------------------------------------
(* Recorders come one after the other, as the checks of the owner do, and  *)
(* no window covers the monitor.  At most one of them, o, is at work.      *)

stage(o) == job[o].pc
One(b) == IF b THEN 1 ELSE 0

\* A failure recorded now would be announced, although an alert may be open: only
\* a fault or a lapse leaves one open here.
Stray(o) ==
  \/ /\ status # "DOWN" /\ stage(o) \notin {"find", "resolve"}
     /\ ~(stage(o) = "dispatch" /\ job[o].prev = "DOWN" /\ status = "UP")
  \/ status = "DOWN" /\ (stage(o) = "reserve" \/ (stage(o) = "dispatch" /\ job[o].prev # "DOWN"))

\* The ways an open alert i can gain a page: another announcement or a resend, one
\* that has passed the throttle, and a first page that was not marked.
MayPage(o) == throttle # "within" \/ Stray(o)
Leaving(o, i) == stage(o) = "open" \/ (stage(o) = "send" /\ job[o].alert = i)
Unmarked(o, i) == ~alerts[i].initial /\ ~(stage(o) \in {"send", "mark"} /\ job[o].alert = i)

\* A page of alert i that has passed the check of its acknowledgement.
PastCheck(o, i) == stage(o) \in {"resend", "open", "again"} \/ (stage(o) = "send" /\ job[o].alert = i)

\* What the owner's place in OnHeartbeat says of the rows.
Place(o) ==
  /\ maint = FALSE
  /\ stage(o) # "idle" => job[o].cur = status
  /\ stage(o) = "dispatch" /\ job[o].prev = "DOWN" => status \in {"UP", "DOWN", "PENDING"}
  /\ stage(o) \in {"reserve", "open", "create", "send", "mark", "pending", "again", "acked", "resend"} => status = "DOWN"
  /\ stage(o) \in {"find", "resolve", "recover", "forget"} => status = "UP"
  /\ stage(o) \in {"open", "create"} => throttle # "none"
  /\ stage(o) = "create" => Open = {}
  /\ stage(o) # "reread"
  /\ throttle = "past" => elapses >= 1
  /\ stage(o) = "again" => job[o].alert \in Open /\ ~alerts[job[o].alert].initial
  /\ stage(o) = "mark" => job[o].alert # 0
  /\ stage(o) \in {"send", "mark"} /\ job[o].alert # 0 => job[o].alert \in Open
  /\ stage(o) = "resolve" => job[o].alert \in Open

\* Without a fault the open alert follows the status through OnHeartbeat, unless its
\* outage lapsed.
Follows(o) == failures = 0 =>
  /\ stage(o) = "idle" =>
       /\ status = "DOWN" => Open # {}
       /\ \A i \in Open : status = "DOWN" \/ alerts[i].lapses > 0
  /\ stage(o) = "dispatch" =>
       /\ job[o].prev = "DOWN" => Open # {}
       /\ \A i \in Open : (job[o].prev = "DOWN" /\ status # "PENDING") \/ alerts[i].lapses > 0
  /\ stage(o) = "send" => job[o].alert # 0
  /\ stage(o) \in {"find", "resolve", "pending", "again", "acked", "resend"} => Open # {}
  /\ stage(o) \in {"recover", "forget"} => Open = {}

\* Pages sent and pages that may follow without another interval, fault or lapse.
Paid(o) == \A i \in DOMAIN alerts :
  /\ alerts[i].pages <= 1 + elapses + failures + alerts[i].lapses
  /\ i \in Open => alerts[i].pages + One(MayPage(o)) + One(Leaving(o, i)) + One(Unmarked(o, i))
                    <= 1 + elapses + failures + alerts[i].lapses

Late(o) == \A i \in DOMAIN alerts :
  /\ alerts[i].late <= 1 + failures + alerts[i].lapses
  /\ alerts[i].status = "firing" => alerts[i].late = 0
  /\ alerts[i].status = "acked" => alerts[i].late + One(PastCheck(o, i)) + One(Stray(o))
                                    <= 1 + failures + alerts[i].lapses

Account(o) == Place(o) /\ Follows(o) /\ Paid(o) /\ Late(o)

\* What the steps have in common.
LEMMA OwnerTypes ==
  ASSUME NEW o \in Recorders, RowsInv
  PROVE  /\ stage(o) \in Pcs /\ job[o].cur \in Status /\ job[o].prev \in Status
         /\ job[o].alert \in Nat /\ status \in Status /\ throttle \in {"none", "within", "past"}
         /\ elapses \in Nat /\ failures \in Nat
         /\ \A i \in DOMAIN alerts : /\ alerts[i].pages \in Nat /\ alerts[i].late \in Nat
                                     /\ alerts[i].lapses \in Nat
                                     /\ alerts[i].status \in {"firing", "acked", "resolved"}
                                     /\ alerts[i].initial \in BOOLEAN
         /\ 0 \notin DOMAIN alerts /\ Open \subseteq DOMAIN alerts
<1>0. /\ alerts \in Seq(Alert) /\ job \in [Recorders -> Job] /\ status \in Status
      /\ throttle \in {"none", "within", "past"} /\ elapses \in 0..MaxElapses /\ failures \in 0..MaxFailures
  BY DEF RowsInv, Tables
<1>2. job[o] \in Job
  BY <1>0
<1>3. MaxElapses \in Nat /\ MaxFailures \in Nat /\ PageCap \in Nat
  BY DispatcherAssumption
<1>4. elapses \in Nat /\ failures \in Nat
  BY <1>0, <1>3
<1>5. \A i \in DOMAIN alerts : alerts[i] \in Alert
  BY <1>0
<1>6. \A i \in DOMAIN alerts : /\ alerts[i].pages \in Nat /\ alerts[i].late \in Nat
                               /\ alerts[i].lapses \in Nat
                               /\ alerts[i].status \in {"firing", "acked", "resolved"}
                               /\ alerts[i].initial \in BOOLEAN
  BY <1>3, <1>5 DEF Alert
<1>7. 0 \notin DOMAIN alerts /\ Open \subseteq DOMAIN alerts
  BY <1>0 DEF Open
<1>8. stage(o) \in Pcs /\ job[o].cur \in Status /\ job[o].prev \in Status /\ job[o].alert \in Nat
  BY <1>2, JobFields DEF stage
<1>9. QED BY <1>0, <1>4, <1>6, <1>7, <1>8

\* Where the owner goes, when the rows stay as they are.
LEMMA OwnerGoes ==
  ASSUME NEW o \in Recorders, RowsInv, UNCHANGED alerts, NEW p \in Pcs,
         status' \in Status, maint' \in BOOLEAN,
         throttle' \in {"none", "within", "past"}, elapses' \in 0..MaxElapses, failures' \in 0..MaxFailures
  PROVE  /\ Goto(o, p) => RowsInv' /\ Went(o, p, job[o].alert)
         /\ \A i \in 0..Len(alerts) : GotoWith(o, p, i) => RowsInv' /\ Went(o, p, i)
         /\ Return(o) => RowsInv' /\ job'[o] = NoJob
<1>1. RowsMove
  BY DEF RowsMove
<1>2. QED BY <1>1, Gone

\* The switch of OnHeartbeat.
LEMMA Branches ==
  ASSUME NEW c, NEW p
  PROVE  /\ Branch(c, p) \in Pcs
         /\ c = "DOWN" /\ p # "DOWN" => Branch(c, p) = "reserve"
         /\ c = "UP" /\ p = "DOWN" => Branch(c, p) = "find"
         /\ c = "DOWN" /\ p = "DOWN" => Branch(c, p) = "pending"
         /\ c \notin {"UP", "DOWN"} \/ (c = "UP" /\ p # "DOWN") => Branch(c, p) = "idle"
BY DEF Branch, Pcs

\* What happens while o is the only one at work.
OwnerActs(o) ==
  \/ RecordHeartbeat(o) \/ Step(o) \/ QueryFails(o) \/ Crash(o)
  \/ IntervalPasses \/ Acknowledge \/ UNCHANGED dispatchVars

\* Every such step keeps the account of the pages.
LEMMA OwnerStep ==
  ASSUME NEW o \in Recorders, RowsInv, RowsInv', Account(o), OwnerActs(o)
  PROVE  Account(o)'
<1> USE DEF At
<1>0. RowsInv /\ Place(o) /\ Follows(o) /\ Paid(o) /\ Late(o)
  BY DEF Account
<1>t. /\ o \in Recorders
      /\ stage(o) \in Pcs /\ job[o].cur \in Status /\ job[o].prev \in Status
      /\ job[o].alert \in Nat /\ status \in Status /\ throttle \in {"none", "within", "past"}
      /\ elapses \in Nat /\ failures \in Nat
      /\ \A i \in DOMAIN alerts :
           alerts[i].pages \in Nat /\ alerts[i].late \in Nat /\ alerts[i].lapses \in Nat
      /\ 0 \notin DOMAIN alerts /\ Open \subseteq DOMAIN alerts
  BY <1>0, OwnerTypes
<1>n. /\ status' \in Status /\ maint' \in BOOLEAN /\ throttle' \in {"none", "within", "past"}
      /\ elapses' \in 0..MaxElapses /\ failures' \in 0..MaxFailures
  BY DEF RowsInv, Tables
<1>j. job \in [Recorders -> Job] /\ job[o].alert \in 0..Len(alerts)
  BY <1>0, <1>t DEF RowsInv, Tables
<1>m. ~maint
  BY <1>0, Zenon DEF Place
<1>a. \A i \in DOMAIN alerts : alerts[i].status = "acked" => i \in Open
  BY DEF Open
<1>o. UNCHANGED alerts => UNCHANGED Open
  BY DEF Open
<1>i. Open # {} => /\ OpenId \in Open /\ OpenId \in 0..Len(alerts)
                          /\ \A i \in Open : i = OpenId
  BY <1>0, <1>t, OpenRow DEF RowsInv, Tables
<1>1. CASE RecordHeartbeat(o) /\ UNCHANGED alerts
  <2>1. /\ UNCHANGED <<maint, alerts, throttle, elapses, failures>> /\ stage(o) = "idle"
        /\ stage(o)' = "dispatch" /\ job'[o].cur = status' /\ job'[o].prev = status /\ job'[o].alert = 0
        /\ status' \in {"UP", "DOWN", "PENDING"}
    BY <1>1, <1>j, <1>m, <1>t DEF RecordHeartbeat, stage
  <2>2. status' = "PENDING" /\ status = "DOWN" => Open = {}
    <3>1. SUFFICES ASSUME status' = "PENDING", status = "DOWN", NEW i \in Open PROVE FALSE
      OBVIOUS
    <3>2. alerts' = Lapsed
      BY <1>1, <3>1 DEF RecordHeartbeat
    <3>3. alerts'[i].lapses = alerts[i].lapses + 1
      BY <1>0, <1>t, <3>1, <3>2, RowsLapsed DEF RowsInv, Tables
    <3>4. QED BY <1>1, <1>t, <3>1, <3>3
  <2>6. Place(o)' /\ Follows(o)'
    BY <1>0, <1>t, <1>o, <2>1, <2>2 DEF Place, Follows, Pcs
  <2>7. Paid(o)'
    BY <1>0, <1>t, <1>o, <2>1, <2>2 DEF Place, Paid, MayPage, Stray, Leaving, Unmarked, One
  <2>8. Late(o)'
    BY <1>0, <1>a, <1>t, <1>o, <2>1, <2>2 DEF Place, Late, Stray, PastCheck, One
  <2>9. QED BY <2>6, <2>7, <2>8 DEF Account
<1>l. CASE RecordHeartbeat(o) /\ alerts' # alerts
  <2>1. /\ UNCHANGED <<maint, throttle, elapses, failures>> /\ stage(o) = "idle"
        /\ stage(o)' = "dispatch" /\ job'[o].cur = status' /\ job'[o].prev = status /\ job'[o].alert = 0
        /\ status' = "PENDING" /\ status = "DOWN" /\ alerts' = Lapsed
    BY <1>l, <1>j, <1>m, <1>t DEF RecordHeartbeat, stage
  <2>2. /\ DOMAIN alerts' = DOMAIN alerts
        /\ \A k \in DOMAIN alerts :
             /\ alerts'[k].status = alerts[k].status /\ alerts'[k].initial = alerts[k].initial
             /\ alerts'[k].pages = alerts[k].pages /\ alerts'[k].late = alerts[k].late
             /\ alerts'[k].lapses = IF k \in Open THEN alerts[k].lapses + 1 ELSE alerts[k].lapses
    BY <1>0, <2>1, RowsLapsed DEF RowsInv, Tables
  <2>o. Open' = Open
    BY <2>2 DEF Open
  <2>6. Place(o)' /\ Follows(o)'
    BY <1>0, <1>t, <2>1, <2>2, <2>o DEF Place, Follows, Pcs
  <2>7. Paid(o)'
    BY <1>0, <1>t, <2>1, <2>2, <2>o DEF Place, Paid, MayPage, Stray, Leaving, Unmarked, One
  <2>8. Late(o)'
    BY <1>0, <1>a, <1>t, <2>1, <2>2, <2>o DEF Place, Late, Stray, PastCheck, One
  <2>9. QED BY <2>6, <2>7, <2>8 DEF Account
<1>2. CASE OnHeartbeat(o)
  <2>1. UNCHANGED <<status, maint, alerts, throttle, elapses, failures>> /\ stage(o) = "dispatch"
    BY <1>2 DEF OnHeartbeat, stage
  <2>2. PICK p \in Pcs : p = Branch(job[o].cur, job[o].prev)
    BY Branches
  <2>3. \/ Return(o) /\ p = "idle"
        \/ Goto(o, p) /\ p # "idle"
    BY <1>2, <1>m, <2>2, Zenon DEF OnHeartbeat
  <2>4. /\ stage(o)' = p
        /\ p # "idle" => job'[o].cur = job[o].cur /\ job'[o].prev = job[o].prev
    BY <1>0, <1>n, <2>1, <2>3, OwnerGoes DEF Went, stage, NoJob
  <2>5. /\ job[o].cur = "DOWN" /\ job[o].prev # "DOWN" => p = "reserve"
        /\ job[o].cur = "UP" /\ job[o].prev = "DOWN" => p = "find"
        /\ job[o].cur = "DOWN" /\ job[o].prev = "DOWN" => p = "pending"
        /\ job[o].cur \notin {"UP", "DOWN"} \/ (job[o].cur = "UP" /\ job[o].prev # "DOWN") => p = "idle"
    BY <2>2, Branches
  <2>6. Place(o)' /\ Follows(o)'
    BY <1>0, <1>t, <1>o, <2>1, <2>4, <2>5 DEF Place, Follows, Pcs
  <2>7. Paid(o)'
    BY <1>0, <1>t, <1>o, <2>1, <2>4, <2>5 DEF Place, Paid, MayPage, Stray, Leaving, Unmarked, One
  <2>8. Late(o)'
    BY <1>0, <1>t, <1>o, <2>1, <2>4, <2>5 DEF Place, Late, Stray, PastCheck, One
  <2>9. QED BY <2>6, <2>7, <2>8 DEF Account
<1>3. CASE ReserveAttempt(o)
  <2>1. UNCHANGED <<status, maint, alerts, elapses, failures>> /\ throttle' = "within"
    BY <1>3 DEF ReserveAttempt
  <2>2. PICK p \in Pcs : /\ Goto(o, p)
                         /\ (stage(o) = "reserve" /\ p = "open") \/ (stage(o) = "again" /\ p = "send")
    BY <1>3 DEF ReserveAttempt, Pcs, stage
  <2>3. /\ stage(o)' = p /\ job'[o].cur = job[o].cur /\ job'[o].prev = job[o].prev
        /\ job'[o].alert = job[o].alert
    BY <1>0, <1>n, <2>1, <2>2, OwnerGoes DEF Went, stage
  <2>6. Place(o)' /\ Follows(o)'
    BY <1>0, <1>t, <1>o, <2>1, <2>2, <2>3 DEF Place, Follows, Pcs
  <2>7. Paid(o)'
    BY <1>0, <1>t, <1>o, <2>1, <2>2, <2>3 DEF Place, Paid, MayPage, Stray, Leaving, Unmarked, One
  <2>8. Late(o)'
    BY <1>0, <1>t, <1>o, <2>1, <2>2, <2>3 DEF Place, Late, Stray, PastCheck, One
  <2>9. QED BY <2>6, <2>7, <2>8 DEF Account
<1>4. CASE LookUpOpen(o) /\ Open # {}
  <2>1. /\ UNCHANGED <<status, maint, alerts, throttle, elapses, failures>> /\ stage(o) = "open"
        /\ GotoWith(o, "send", OpenId) /\ "send" \in Pcs
    BY <1>4 DEF LookUpOpen, stage, Pcs
  <2>2. /\ stage(o)' = "send" /\ job'[o].cur = job[o].cur /\ job'[o].prev = job[o].prev
        /\ job'[o].alert = OpenId
    BY <1>0, <1>4, <1>i, <1>n, <2>1, OwnerGoes DEF Went, stage
  <2>6. Place(o)' /\ Follows(o)'
    BY <1>0, <1>t, <1>o, <1>4, <1>i, <2>1, <2>2 DEF Place, Follows, Pcs
  <2>7. Paid(o)'
    BY <1>0, <1>t, <1>o, <1>4, <1>i, <2>1, <2>2, SMTT(60) DEF Place, Paid, MayPage, Stray, Leaving, Unmarked, One
  <2>8. Late(o)'
    BY <1>0, <1>t, <1>o, <1>4, <1>i, <2>1, <2>2 DEF Place, Late, Stray, PastCheck, One
  <2>9. QED BY <2>6, <2>7, <2>8 DEF Account
<1>c. CASE LookUpOpen(o) /\ Open = {}
  <2>1. /\ UNCHANGED <<status, maint, alerts, throttle, elapses, failures>> /\ stage(o) = "open"
        /\ Goto(o, "create") /\ "create" \in Pcs
    BY <1>c DEF LookUpOpen, stage, Pcs
  <2>2. stage(o)' = "create" /\ job'[o].cur = job[o].cur /\ job'[o].prev = job[o].prev
    BY <1>0, <1>n, <2>1, OwnerGoes DEF Went, stage
  <2>6. Place(o)' /\ Follows(o)'
    BY <1>0, <1>t, <1>o, <1>c, <2>1, <2>2 DEF Place, Follows, Pcs
  <2>7. Paid(o)'
    BY <1>0, <1>t, <1>o, <1>c, <2>1, <2>2 DEF Place, Paid, MayPage, Stray, Leaving, Unmarked, One
  <2>8. Late(o)'
    BY <1>0, <1>a, <1>t, <1>o, <1>c, <2>1, <2>2 DEF Place, Late, Stray, PastCheck, One
  <2>9. QED BY <2>6, <2>7, <2>8 DEF Account
<1>e. CASE RereadOpen(o)
  BY <1>0, <1>e DEF RereadOpen, Place, stage
<1>5. CASE CreateAlert(o)
  <2>0. Open = {}
    BY <1>0, <1>5 DEF CreateAlert, Place, stage
  <2>1. PICK a : a = NewAlert
    OBVIOUS
  <2>2. /\ UNCHANGED <<status, maint, throttle, elapses, failures>> /\ stage(o) = "create" /\ "send" \in Pcs
        /\ GotoWith(o, "send", Len(alerts) + 1) /\ alerts' = Append(alerts, a)
    BY <1>5, <2>0, <2>1 DEF CreateAlert, stage, Pcs
  <2>3. a \in Alert /\ a.status = "firing" /\ a.pages = 0 /\ a.late = 0 /\ a.lapses = 0
    BY <2>1, DispatcherAssumption DEF Alert, NewAlert
  <2>4. /\ DOMAIN alerts' = DOMAIN alerts \cup {Len(alerts) + 1} /\ Len(alerts') = Len(alerts) + 1
        /\ alerts'[Len(alerts) + 1] = a /\ \A k \in DOMAIN alerts : alerts'[k] = alerts[k]
    BY <1>0, <2>2, <2>3, RowAdded DEF RowsInv, Tables
  <2>5. /\ stage(o)' = "send" /\ job'[o].cur = job[o].cur /\ job'[o].prev = job[o].prev
        /\ job'[o].alert = Len(alerts) + 1 /\ Len(alerts) \in Nat
    <3>1. RowsMove
      BY <2>0, <2>2, <2>3 DEF RowsMove
    <3>2. Len(alerts) + 1 \in 0..Len(alerts') /\ Len(alerts) \in Nat
      BY <1>0, <2>4 DEF RowsInv, Tables
    <3>3. QED BY <1>0, <1>n, <1>t, <2>2, <3>1, <3>2, Gone DEF Went, stage
  <2>o. Open' = {Len(alerts) + 1} /\ \A k \in DOMAIN alerts : k \notin Open' /\ alerts[k].status = "resolved"
    BY <2>0, <2>3, <2>4, <2>5 DEF Open
  <2>6. Place(o)' /\ Follows(o)'
    BY <1>0, <1>t, <2>0, <2>2, <2>3, <2>4, <2>5, <2>o DEF Place, Follows, Pcs
  <2>7. Paid(o)'
    BY <1>0, <1>t, <2>0, <2>2, <2>3, <2>4, <2>5, <2>o DEF Place, Paid, MayPage, Stray, Leaving, Unmarked, One
  <2>8. Late(o)'
    BY <1>0, <1>t, <2>0, <2>2, <2>3, <2>4, <2>5, <2>o DEF Place, Late, Stray, PastCheck, One
  <2>9. QED BY <2>6, <2>7, <2>8 DEF Account
<1>6. CASE Dispatch(o) /\ job[o].alert = 0
  <2>1. /\ UNCHANGED <<status, maint, alerts, throttle, elapses, failures>> /\ stage(o) = "send"
        /\ Return(o) /\ "idle" \in Pcs
    BY <1>6 DEF Dispatch, stage, Pcs
  <2>2. stage(o)' = "idle" /\ job'[o].alert = 0
    BY <1>0, <1>n, <2>1, OwnerGoes DEF NoJob, stage
  <2>6. Place(o)' /\ Follows(o)'
    BY <1>0, <1>t, <1>o, <1>6, <2>1, <2>2 DEF Place, Follows, Pcs
  <2>7. Paid(o)'
    BY <1>0, <1>t, <1>o, <1>6, <2>1, <2>2 DEF Place, Paid, MayPage, Stray, Leaving, Unmarked, One
  <2>8. Late(o)'
    BY <1>0, <1>t, <1>o, <1>6, <2>1, <2>2 DEF Place, Late, Stray, PastCheck, One
  <2>9. QED BY <2>6, <2>7, <2>8 DEF Account
<1>7. CASE Dispatch(o) /\ job[o].alert # 0
  <2>0. stage(o) = "send" /\ UNCHANGED <<status, maint, throttle, elapses, failures>> /\ Goto(o, "mark")
    BY <1>7 DEF Dispatch, stage
  <2>1. PICK i \in DOMAIN alerts : i = job[o].alert /\ i \in Open
    BY <1>0, <1>t, <1>7, <2>0 DEF Place
  <2>2. PICK a \in Alert : PageOf(o, a)
    BY <1>0, <1>t, <1>7, <2>1, PageSent
  <2>3. /\ alerts' = [alerts EXCEPT ![i] = a]
        /\ a.status = alerts[i].status /\ a.initial = alerts[i].initial /\ a.lapses = alerts[i].lapses
        /\ a.pages \in Nat /\ a.pages <= alerts[i].pages + 1
        /\ a.late \in Nat /\ a.late <= (IF alerts[i].status = "acked" THEN alerts[i].late + 1 ELSE alerts[i].late)
    BY <2>1, <2>2 DEF PageOf
  <2>4. /\ DOMAIN alerts' = DOMAIN alerts /\ alerts'[i] = a
        /\ \A k \in DOMAIN alerts : k # i => alerts'[k] = alerts[k]
    BY <1>0, <2>3, RowRewritten DEF RowsInv, Tables
  <2>5. /\ stage(o)' = "mark" /\ job'[o].cur = job[o].cur /\ job'[o].prev = job[o].prev
        /\ job'[o].alert = i
    <3>1. RowsMove /\ "mark" \in Pcs
      BY <2>3 DEF RowsMove, Pcs
    <3>2. QED BY <1>0, <1>n, <1>t, <2>0, <2>1, <3>1, Gone DEF Went, stage
  <2>o. Open' = Open /\ \A k \in Open : k = i
    BY <1>i, <2>1, <2>3, <2>4 DEF Open
  <2>6. Place(o)' /\ Follows(o)'
    BY <1>0, <1>t, <1>7, <2>0, <2>1, <2>3, <2>4, <2>5, <2>o DEF Place, Follows, Pcs
  <2>7. Paid(o)'
    BY <1>0, <1>t, <1>7, <2>0, <2>1, <2>3, <2>4, <2>5, <2>o DEF Place, Paid, MayPage, Stray, Leaving, Unmarked, One
  <2>8. Late(o)'
    BY <1>0, <1>t, <1>7, <2>0, <2>1, <2>3, <2>4, <2>5, <2>o DEF Place, Late, Stray, PastCheck, One
  <2>9. QED BY <2>6, <2>7, <2>8 DEF Account
<1>8. CASE MarkInitialNotified(o)
  <2>0. stage(o) = "mark" /\ UNCHANGED <<status, maint, throttle, elapses, failures>> /\ Return(o)
    BY <1>8 DEF MarkInitialNotified, stage
  <2>1. PICK i \in DOMAIN alerts : i = job[o].alert /\ i \in Open
    BY <1>0, <1>t, <1>8, <2>0 DEF Place
  <2>2. PICK a : a = [alerts[i] EXCEPT !.initial = TRUE]
    OBVIOUS
  <2>3. /\ a \in Alert /\ a.status = alerts[i].status /\ a.initial
        /\ a.pages = alerts[i].pages /\ a.late = alerts[i].late /\ a.lapses = alerts[i].lapses
    <3>1. alerts[i] \in Alert
      BY <1>0 DEF RowsInv, Tables
    <3>2. QED BY <2>2, <3>1 DEF Alert
  <2>4. alerts' = [alerts EXCEPT ![i] = a]
    BY <1>8, <2>1, <2>2 DEF MarkInitialNotified
  <2>5. /\ DOMAIN alerts' = DOMAIN alerts /\ alerts'[i] = a
        /\ \A k \in DOMAIN alerts : k # i => alerts'[k] = alerts[k]
    BY <1>0, <2>3, <2>4, RowRewritten DEF RowsInv, Tables
  <2>s. stage(o)' = "idle" /\ job'[o].alert = 0
    <3>1. RowsMove /\ "idle" \in Pcs
      BY <2>3, <2>4 DEF RowsMove, Pcs
    <3>2. QED BY <1>0, <1>n, <1>t, <2>0, <2>1, <3>1, Gone DEF NoJob, stage
  <2>o. Open' = Open /\ \A k \in Open : k = i
    BY <1>i, <2>1, <2>3, <2>5 DEF Open
  <2>6. Place(o)' /\ Follows(o)'
    BY <1>0, <1>t, <1>8, <2>0, <2>1, <2>3, <2>5, <2>s, <2>o DEF Place, Follows, Pcs
  <2>7. Paid(o)'
    BY <1>0, <1>t, <1>8, <2>0, <2>1, <2>3, <2>5, <2>s, <2>o DEF Place, Paid, MayPage, Stray, Leaving, Unmarked, One
  <2>8. Late(o)'
    BY <1>0, <1>t, <1>8, <2>0, <2>1, <2>3, <2>5, <2>s, <2>o DEF Place, Late, Stray, PastCheck, One
  <2>9. QED BY <2>6, <2>7, <2>8 DEF Account
<1>9. CASE FindOpen(o)
  <2>1. UNCHANGED <<status, maint, alerts, throttle, elapses, failures>> /\ stage(o) = "find"
    BY <1>9 DEF FindOpen, stage
  <2>2. PICK p \in Pcs : p = IF Open = {} THEN "recover" ELSE "resolve"
    BY DEF Pcs
  <2>3. PICK i \in 0..Len(alerts) : i = OpenId
    BY <1>i, <1>j DEF OpenId
  <2>4. GotoWith(o, p, i)
    BY <1>9, <2>2, <2>3 DEF FindOpen
  <2>5. stage(o)' = p /\ job'[o].cur = job[o].cur /\ job'[o].prev = job[o].prev /\ job'[o].alert = i
    BY <1>0, <1>n, <2>1, <2>4, OwnerGoes DEF Went, stage
  <2>6. Place(o)' /\ Follows(o)'
    BY <1>0, <1>t, <1>o, <1>a, <1>i, <2>1, <2>2, <2>3, <2>5 DEF Place, Follows, Pcs
  <2>7. Paid(o)'
    BY <1>0, <1>t, <1>o, <1>a, <1>i, <2>1, <2>2, <2>3, <2>5 DEF Place, Paid, MayPage, Stray, Leaving, Unmarked, One
  <2>8. Late(o)'
    BY <1>0, <1>t, <1>o, <1>a, <1>i, <2>1, <2>2, <2>3, <2>5 DEF Place, Late, Stray, PastCheck, One
  <2>9. QED BY <2>6, <2>7, <2>8 DEF Account
<1>10. CASE ResolveOpen(o)
  <2>0. stage(o) = "resolve" /\ UNCHANGED <<status, maint, elapses, failures>> /\ Goto(o, "recover")
    BY <1>10 DEF ResolveOpen, stage
  <2>1. PICK i \in DOMAIN alerts : i = job[o].alert /\ i \in Open
    BY <1>0, <1>t, <1>10, <2>0 DEF Place
  <2>2. PICK a : a = [alerts[i] EXCEPT !.status = "resolved"]
    OBVIOUS
  <2>3. /\ a \in Alert /\ a.status = "resolved"
        /\ a.pages = alerts[i].pages /\ a.late = alerts[i].late /\ a.lapses = alerts[i].lapses
    <3>1. alerts[i] \in Alert
      BY <1>0 DEF RowsInv, Tables
    <3>2. QED BY <2>2, <3>1 DEF Alert
  <2>4. alerts' = [alerts EXCEPT ![i] = a] /\ throttle' = "none"
    BY <1>10, <2>1, <2>2 DEF ResolveOpen
  <2>5. /\ DOMAIN alerts' = DOMAIN alerts /\ alerts'[i] = a
        /\ \A k \in DOMAIN alerts : k # i => alerts'[k] = alerts[k]
    BY <1>0, <2>3, <2>4, RowRewritten DEF RowsInv, Tables
  <2>s. /\ stage(o)' = "recover" /\ job'[o].cur = job[o].cur /\ job'[o].prev = job[o].prev
        /\ job'[o].alert = job[o].alert
    <3>1. RowsMove /\ "recover" \in Pcs
      BY <2>3, <2>4 DEF RowsMove, Pcs
    <3>2. QED BY <1>0, <1>n, <1>t, <2>0, <2>1, <3>1, Gone DEF Went, stage
  <2>o. /\ Open' = {}
        /\ \A k \in DOMAIN alerts : k # i => alerts[k].status = "resolved"
    <3>1. \A k \in DOMAIN alerts : k # i => alerts[k].status = "resolved"
      BY <1>i, <2>1 DEF Open
    <3>2. QED BY <2>3, <2>5, <3>1 DEF Open
  <2>6. Place(o)' /\ Follows(o)'
    BY <1>0, <1>t, <2>0, <2>1, <2>3, <2>4, <2>5, <2>s, <2>o DEF Place, Follows, Pcs
  <2>7. Paid(o)'
    BY <1>0, <1>t, <2>0, <2>1, <2>3, <2>4, <2>5, <2>s, <2>o DEF Place, Paid, MayPage, Stray, Leaving, Unmarked, One
  <2>8. Late(o)'
    BY <1>0, <1>t, <2>0, <2>1, <2>3, <2>4, <2>5, <2>s, <2>o DEF Place, Late, Stray, PastCheck, One
  <2>9. QED BY <2>6, <2>7, <2>8 DEF Account
<1>11. CASE DispatchRecovery(o)
  <2>1. /\ UNCHANGED <<status, maint, alerts, throttle, elapses, failures>> /\ stage(o) = "recover"
        /\ Goto(o, "forget") /\ "forget" \in Pcs
    BY <1>11 DEF DispatchRecovery, stage, Pcs
  <2>2. stage(o)' = "forget" /\ job'[o].cur = job[o].cur /\ job'[o].prev = job[o].prev
    BY <1>0, <1>n, <2>1, OwnerGoes DEF Went, stage
  <2>6. Place(o)' /\ Follows(o)'
    BY <1>0, <1>t, <1>o, <2>1, <2>2 DEF Place, Follows, Pcs
  <2>7. Paid(o)'
    BY <1>0, <1>t, <1>o, <2>1, <2>2 DEF Place, Paid, MayPage, Stray, Leaving, Unmarked, One
  <2>8. Late(o)'
    BY <1>0, <1>t, <1>o, <2>1, <2>2 DEF Place, Late, Stray, PastCheck, One
  <2>9. QED BY <2>6, <2>7, <2>8 DEF Account
<1>12. CASE Forget(o)
  <2>1. /\ UNCHANGED <<status, maint, alerts, elapses, failures>> /\ throttle' = "none" /\ stage(o) = "forget"
        /\ Return(o) /\ "idle" \in Pcs
    BY <1>12 DEF Forget, stage, Pcs
  <2>2. stage(o)' = "idle" /\ job'[o].alert = 0
    BY <1>0, <1>n, <2>1, OwnerGoes DEF NoJob, stage
  <2>6. Place(o)' /\ Follows(o)'
    BY <1>0, <1>t, <1>o, <2>1, <2>2 DEF Place, Follows, Pcs
  <2>7. Paid(o)'
    BY <1>0, <1>t, <1>o, <2>1, <2>2 DEF Place, Paid, MayPage, Stray, Leaving, Unmarked, One
  <2>8. Late(o)'
    BY <1>0, <1>t, <1>o, <2>1, <2>2 DEF Place, Late, Stray, PastCheck, One
  <2>9. QED BY <2>6, <2>7, <2>8 DEF Account
<1>13. CASE SendLostInitial(o)
  <2>1. /\ UNCHANGED <<status, maint, alerts, throttle, elapses, failures>> /\ stage(o) = "pending"
        /\ {"again", "acked"} \subseteq Pcs
    BY <1>13 DEF SendLostInitial, stage, Pcs
  <2>2. \/ /\ stage(o)' = "again" /\ job'[o].alert = OpenId
           /\ Open # {} /\ ~alerts[OpenId].initial /\ alerts[OpenId].status = "firing"
        \/ stage(o)' = "acked"
    <3>1. CASE \E i \in Open : PendingInitial(i)
      <4>1. Open # {} /\ ~alerts[OpenId].initial /\ alerts[OpenId].status = "firing"
        BY <1>i, <3>1 DEF PendingInitial
      <4>2. GotoWith(o, "again", OpenId) /\ OpenId \in 0..Len(alerts)
        BY <1>i, <1>13, <3>1, <4>1 DEF SendLostInitial
      <4>3. QED BY <1>0, <1>n, <2>1, <4>1, <4>2, OwnerGoes DEF Went, stage
    <3>2. CASE ~\E i \in Open : PendingInitial(i)
      <4>1. Goto(o, "acked")
        BY <1>13, <3>2 DEF SendLostInitial
      <4>2. QED BY <1>0, <1>n, <2>1, <4>1, OwnerGoes DEF Went, stage
    <3>3. QED BY <3>1, <3>2
  <2>3. job'[o].cur = job[o].cur
    <3>1. CASE Goto(o, "acked")
      BY <1>0, <1>n, <2>1, <3>1, OwnerGoes DEF Went
    <3>2. CASE GotoWith(o, "again", OpenId)
      BY <1>j, <3>2, <1>t DEF GotoWith, Job
    <3>3. QED BY <1>13, <3>1, <3>2 DEF SendLostInitial
  <2>6. Place(o)' /\ Follows(o)'
    BY <1>0, <1>t, <1>o, <1>a, <1>i, <2>1, <2>2, <2>3 DEF Place, Follows, Pcs
  <2>7. Paid(o)'
    BY <1>0, <1>t, <1>o, <1>a, <1>i, <2>1, <2>2, <2>3 DEF Place, Paid, MayPage, Stray, Leaving, Unmarked, One
  <2>8. Late(o)'
    BY <1>0, <1>t, <1>o, <1>a, <1>i, <2>1, <2>2, <2>3 DEF Place, Late, Stray, PastCheck, One
  <2>9. QED BY <2>6, <2>7, <2>8 DEF Account
<1>14. CASE CheckAcked(o)
  <2>1. /\ UNCHANGED <<status, maint, alerts, throttle, elapses, failures>> /\ stage(o) = "acked"
        /\ {"idle", "resend"} \subseteq Pcs
    BY <1>14 DEF CheckAcked, stage, Pcs
  <2>2. \/ stage(o)' = "idle"
        \/ /\ stage(o)' = "resend" /\ job'[o].cur = job[o].cur
           /\ \A i \in Open : alerts[i].status # "acked"
    <3>1. CASE Return(o)
      BY <1>0, <1>n, <2>1, <3>1, OwnerGoes DEF NoJob, stage
    <3>2. CASE Goto(o, "resend") /\ ~\E i \in Open : alerts[i].status = "acked"
      BY <1>0, <1>n, <2>1, <3>2, OwnerGoes DEF Went, stage
    <3>3. QED BY <1>14, <3>1, <3>2 DEF CheckAcked
  <2>6. Place(o)' /\ Follows(o)'
    BY <1>0, <1>t, <1>o, <1>a, <2>1, <2>2 DEF Place, Follows, Pcs
  <2>7. Paid(o)'
    BY <1>0, <1>t, <1>o, <1>a, <2>1, <2>2 DEF Place, Paid, MayPage, Stray, Leaving, Unmarked, One
  <2>8. Late(o)'
    BY <1>0, <1>t, <1>o, <1>a, <2>1, <2>2 DEF Place, Late, Stray, PastCheck, One
  <2>9. QED BY <2>6, <2>7, <2>8 DEF Account
<1>15. CASE ReserveResend(o)
  <2>1. /\ UNCHANGED <<status, maint, alerts, elapses, failures>> /\ stage(o) = "resend"
        /\ {"idle", "open"} \subseteq Pcs
    BY <1>15 DEF ReserveResend, stage, Pcs
  <2>2. \/ stage(o)' = "idle" /\ throttle' = throttle
        \/ /\ stage(o)' = "open" /\ job'[o].cur = job[o].cur
           /\ throttle # "within" /\ throttle' = "within"
    <3>1. CASE Return(o) /\ UNCHANGED throttle
      BY <1>0, <1>n, <2>1, <3>1, OwnerGoes DEF NoJob, stage
    <3>2. CASE Goto(o, "open") /\ throttle # "within" /\ throttle' = "within"
      BY <1>0, <1>n, <2>1, <3>2, OwnerGoes DEF Went, stage
    <3>3. QED BY <1>15, <3>1, <3>2 DEF ReserveResend
  <2>6. Place(o)' /\ Follows(o)'
    BY <1>0, <1>t, <1>o, <2>1, <2>2 DEF Place, Follows, Pcs
  <2>7. Paid(o)'
    BY <1>0, <1>t, <1>o, <2>1, <2>2 DEF Place, Paid, MayPage, Stray, Leaving, Unmarked, One
  <2>8. Late(o)'
    BY <1>0, <1>t, <1>o, <2>1, <2>2 DEF Place, Late, Stray, PastCheck, One
  <2>9. QED BY <2>6, <2>7, <2>8 DEF Account
<1>16. CASE Crash(o)
  <2>1. /\ UNCHANGED <<status, maint, alerts, throttle, elapses>> /\ failures' = failures + 1
        /\ Return(o) /\ "idle" \in Pcs
    BY <1>16 DEF Crash, Pcs
  <2>2. stage(o)' = "idle" /\ job'[o].alert = 0
    BY <1>0, <1>n, <2>1, OwnerGoes DEF NoJob, stage
  <2>6. Place(o)' /\ Follows(o)'
    BY <1>0, <1>t, <1>o, <2>1, <2>2 DEF Place, Follows, Pcs
  <2>7. Paid(o)'
    BY <1>0, <1>t, <1>o, <2>1, <2>2 DEF Place, Paid, MayPage, Stray, Leaving, Unmarked, One
  <2>8. Late(o)'
    BY <1>0, <1>t, <1>o, <2>1, <2>2 DEF Place, Late, Stray, PastCheck, One
  <2>9. QED BY <2>6, <2>7, <2>8 DEF Account
<1>17. CASE QueryFails(o)
  <2>1. UNCHANGED <<status, maint, alerts, throttle, elapses>> /\ failures' = failures + 1
    BY <1>17 DEF QueryFails
  <2>2. PICK p \in Pcs, q \in Pcs :
          /\ q = Branch(job[o].cur, job[o].prev)
          /\ \/ stage(o) = "dispatch" /\ p = q /\ q # "idle" /\ Goto(o, p)
             \/ stage(o) \in {"open", "create", "reread"} /\ p = "send" /\ GotoWith(o, p, 0)
             \/ stage(o) \in {"find", "resolve"} /\ p = "recover" /\ GotoWith(o, p, 0)
             \/ stage(o) = "pending" /\ p = "acked" /\ Goto(o, p)
             \/ stage(o) = "acked" /\ p = "resend" /\ Goto(o, p)
    <3>1. PICK q \in Pcs : q = Branch(job[o].cur, job[o].prev)
      BY Branches
    <3>2. {"send", "recover", "acked", "resend"} \subseteq Pcs
      BY DEF Pcs
    <3>3. QED BY <1>17, <3>1, <3>2 DEF QueryFails, stage
  <2>3. /\ job[o].cur = "DOWN" /\ job[o].prev # "DOWN" => q = "reserve"
        /\ job[o].cur = "UP" /\ job[o].prev = "DOWN" => q = "find"
        /\ job[o].cur = "DOWN" /\ job[o].prev = "DOWN" => q = "pending"
        /\ job[o].cur \notin {"UP", "DOWN"} \/ (job[o].cur = "UP" /\ job[o].prev # "DOWN") => q = "idle"
    BY <2>2, Branches
  <2>4. /\ stage(o)' = p /\ job'[o].cur = job[o].cur /\ job'[o].prev = job[o].prev
        /\ stage(o) \in {"open", "create", "reread"} => job'[o].alert = 0
    <3>1. CASE Goto(o, p) /\ stage(o) \notin {"open", "create", "reread"}
      BY <1>0, <1>n, <2>1, <3>1, OwnerGoes DEF Went, stage
    <3>2. CASE GotoWith(o, p, 0)
      <4>1. 0 \in 0..Len(alerts)
        BY <1>j
      <4>2. QED BY <1>0, <1>n, <2>1, <3>2, <4>1, OwnerGoes DEF Went, stage
    <3>3. QED BY <2>2, <3>1, <3>2
  <2>6. Place(o)' /\ Follows(o)'
    BY <1>0, <1>t, <1>o, <1>a, <2>1, <2>2, <2>3, <2>4 DEF Place, Follows, Pcs
  <2>7. Paid(o)'
    BY <1>0, <1>t, <1>o, <1>a, <2>1, <2>2, <2>3, <2>4 DEF Place, Paid, MayPage, Stray, Leaving, Unmarked, One
  <2>8. Late(o)'
    BY <1>0, <1>t, <1>o, <1>a, <2>1, <2>2, <2>3, <2>4 DEF Place, Late, Stray, PastCheck, One
  <2>9. QED BY <2>6, <2>7, <2>8 DEF Account
<1>18. CASE IntervalPasses
  <2>1. /\ UNCHANGED <<status, maint, alerts, job, failures>> /\ stage(o)' = stage(o)
        /\ throttle = "within" /\ throttle' = "past" /\ elapses' = elapses + 1
    BY <1>18 DEF IntervalPasses, stage
  <2>6. Place(o)' /\ Follows(o)'
    BY <1>0, <1>t, <1>o, <2>1 DEF Place, Follows, Pcs
  <2>7. Paid(o)'
    BY <1>0, <1>t, <1>o, <2>1 DEF Place, Paid, MayPage, Stray, Leaving, Unmarked, One
  <2>8. Late(o)'
    BY <1>0, <1>t, <1>o, <2>1 DEF Place, Late, Stray, PastCheck, One
  <2>9. QED BY <2>6, <2>7, <2>8 DEF Account
<1>19. CASE Acknowledge
  <2>1. PICK i \in DOMAIN alerts :
          i \in Open /\ alerts[i].status = "firing" /\ alerts' = [alerts EXCEPT ![i].status = "acked"]
    BY <1>19 DEF Acknowledge, Open
  <2>2. PICK a : a = [alerts[i] EXCEPT !.status = "acked"]
    OBVIOUS
  <2>3. /\ a \in Alert /\ a.status = "acked" /\ a.initial = alerts[i].initial
        /\ a.pages = alerts[i].pages /\ a.late = alerts[i].late /\ a.lapses = alerts[i].lapses
    <3>1. alerts[i] \in Alert
      BY <1>0 DEF RowsInv, Tables
    <3>2. QED BY <2>2, <3>1 DEF Alert
  <2>4. /\ alerts' = [alerts EXCEPT ![i] = a] /\ stage(o)' = stage(o)
        /\ UNCHANGED <<status, maint, throttle, job, elapses, failures>>
    BY <1>19, <2>1, <2>2 DEF Acknowledge, stage
  <2>5. /\ DOMAIN alerts' = DOMAIN alerts /\ alerts'[i] = a
        /\ \A k \in DOMAIN alerts : k # i => alerts'[k] = alerts[k]
    BY <1>0, <2>3, <2>4, RowRewritten DEF RowsInv, Tables
  <2>o. Open' = Open /\ \A k \in Open : k = i
    BY <1>i, <2>1, <2>3, <2>5 DEF Open
  <2>6. Place(o)' /\ Follows(o)'
    BY <1>0, <1>t, <2>1, <2>3, <2>4, <2>5, <2>o DEF Place, Follows, Pcs
  <2>7. Paid(o)'
    BY <1>0, <1>t, <2>1, <2>3, <2>4, <2>5, <2>o DEF Place, Paid, MayPage, Stray, Leaving, Unmarked, One
  <2>s. /\ Stray(o)' <=> Stray(o)
        /\ \A k \in DOMAIN alerts : PastCheck(o, k)' <=> PastCheck(o, k)
    BY <2>4 DEF Stray, PastCheck
  <2>n. \A k \in DOMAIN alerts : ~(Stray(o) /\ PastCheck(o, k))
    BY <1>0, <1>t DEF Place, Stray, PastCheck
  <2>8. Late(o)'
    <3>1. ASSUME NEW k \in DOMAIN alerts, k # i
          PROVE  /\ alerts'[k].late <= 1 + failures + alerts'[k].lapses
                 /\ alerts'[k].status = "firing" => alerts'[k].late = 0
                 /\ alerts'[k].status = "acked" =>
                      alerts'[k].late + One(PastCheck(o, k)) + One(Stray(o)) <= 1 + failures + alerts'[k].lapses
      BY <1>0, <2>5, <3>1 DEF Late
    <3>2. /\ a.late = 0 /\ One(PastCheck(o, i)) + One(Stray(o)) <= 1
          /\ One(PastCheck(o, i)) \in {0, 1} /\ One(Stray(o)) \in {0, 1}
      BY <1>0, <2>1, <2>3, <2>n DEF Late, One
    <3>3. One(Stray(o)') = One(Stray(o)) /\ \A k \in DOMAIN alerts : One(PastCheck(o, k)') = One(PastCheck(o, k))
      BY <2>s DEF One
    <3>4. /\ alerts'[i].late = 0 /\ alerts'[i].status = "acked"
          /\ alerts'[i].lapses \in Nat
          /\ alerts'[i].late + One(PastCheck(o, i)') + One(Stray(o)') <= 1 + failures + alerts'[i].lapses
      BY <1>t, <2>3, <2>5, <3>2, <3>3
    <3>5. \A k \in DOMAIN alerts' :
            /\ alerts'[k].late <= 1 + failures' + alerts'[k].lapses
            /\ alerts'[k].status = "firing" => alerts'[k].late = 0
            /\ alerts'[k].status = "acked" =>
                 alerts'[k].late + One(PastCheck(o, k)') + One(Stray(o)') <= 1 + failures' + alerts'[k].lapses
      BY <1>t, <2>4, <2>5, <3>1, <3>3, <3>4
    <3>6. QED BY <3>5 DEF Late, One
  <2>9. QED BY <2>6, <2>7, <2>8 DEF Account
<1>20. CASE UNCHANGED dispatchVars
  <2>1. UNCHANGED <<status, maint, alerts, throttle, job, elapses, failures>> /\ stage(o)' = stage(o)
    BY <1>20 DEF dispatchVars, stage
  <2>2. Place(o)' /\ Follows(o)'
    BY <1>0, <1>o, <2>1 DEF Place, Follows
  <2>3. Paid(o)'
    BY <1>0, <1>t, <1>o, <2>1 DEF Paid, MayPage, Stray, Leaving, Unmarked, One
  <2>4. Late(o)'
    BY <1>0, <1>t, <1>o, <2>1 DEF Late, Stray, PastCheck, One
  <2>5. QED BY <2>2, <2>3, <2>4 DEF Account
<1>21. QED
  BY <1>1, <1>l, <1>2, <1>3, <1>4, <1>c, <1>e, <1>5, <1>6, <1>7, <1>8, <1>9, <1>10, <1>11, <1>12, <1>13,
     <1>14, <1>15, <1>16, <1>17, <1>18, <1>19, <1>20 DEF OwnerActs, Step, OpenOnDown

\* Nobody but o is at work.
Quiet(o) == \A r \in Recorders : r # o => At(r, "idle")

OwnerInv == RowsInv /\ (alone => \E o \in Recorders : Quiet(o) /\ Account(o))

\* A recorder at rest says nothing of the rows: the next one takes the account over.
LEMMA HandedOver ==
  ASSUME NEW o \in Recorders, NEW r \in Recorders, At(o, "idle"), At(r, "idle"), Account(o)
  PROVE  Account(r)
<1>1. stage(o) = "idle" /\ stage(r) = "idle" /\ Place(o) /\ Follows(o) /\ Paid(o) /\ Late(o)
  BY DEF At, stage, Account
<1>2. Place(r) /\ Follows(r)
  BY <1>1 DEF Place, Follows
<1>3. Stray(r) <=> Stray(o)
  BY <1>1 DEF Stray
<1>4. MayPage(r) <=> MayPage(o)
  BY <1>3 DEF MayPage
<1>5. \A i \in DOMAIN alerts : /\ Leaving(r, i) <=> Leaving(o, i)
                               /\ Unmarked(r, i) <=> Unmarked(o, i)
                               /\ PastCheck(r, i) <=> PastCheck(o, i)
  BY <1>1 DEF Leaving, Unmarked, PastCheck
<1>6. Paid(r)
  BY <1>1, <1>4, <1>5 DEF Paid, One
<1>7. Late(r)
  BY <1>1, <1>3, <1>5 DEF Late, One
<1>8. QED BY <1>2, <1>6, <1>7 DEF Account

\* The steps of o leave the others where they are.
LEMMA OthersRest ==
  ASSUME NEW o \in Recorders, RowsInv, Quiet(o), OwnerActs(o)
  PROVE  Quiet(o)'
<1>0. job \in [Recorders -> Job]
  BY DEF RowsInv, Tables
<1>1. SUFFICES ASSUME NEW r \in Recorders, r # o PROVE job'[r] = job[r]
  BY DEF Quiet, At
<1>2. CASE UNCHANGED job
  BY <1>2
<1>3. ASSUME NEW v, job' = [job EXCEPT ![o] = v] PROVE job'[r] = job[r]
  BY <1>0, <1>1, <1>3
<1>4. CASE RecordHeartbeat(o)
  BY <1>3, <1>4 DEF RecordHeartbeat
<1>5. ASSUME NEW p, NEW i, Goto(o, p) \/ GotoWith(o, p, i) \/ Return(o) PROVE job'[r] = job[r]
  BY <1>3, <1>5 DEF Goto, GotoWith, Return
<1>6. CASE Step(o)
  BY <1>5, <1>6 DEF Step, OnHeartbeat, ReserveAttempt, OpenOnDown, LookUpOpen, CreateAlert, RereadOpen, Dispatch,
     MarkInitialNotified, FindOpen, ResolveOpen, DispatchRecovery, Forget, SendLostInitial, CheckAcked, ReserveResend
<1>7. CASE QueryFails(o) \/ Crash(o)
  BY <1>5, <1>7 DEF QueryFails, Crash
<1>8. QED
  BY <1>2, <1>4, <1>6, <1>7 DEF OwnerActs, IntervalPasses, Acknowledge, dispatchVars

\* A recorder at rest can only start.
LEMMA Starts ==
  ASSUME NEW r \in Recorders, At(r, "idle")
  PROVE  ~Step(r) /\ ~QueryFails(r) /\ ~Crash(r)
BY DEF At, Step, OnHeartbeat, ReserveAttempt, OpenOnDown, LookUpOpen, CreateAlert, RereadOpen, Dispatch,
   MarkInitialNotified, FindOpen, ResolveOpen,
   DispatchRecovery, Forget, SendLostInitial, CheckAcked, ReserveResend, QueryFails, Crash

\* Only a start and a window touch the history of working alone.
LEMMA AloneKept ==
  ASSUME [DispatchNext]_dispatchVars
  PROVE  (\E r \in Recorders : RecordHeartbeat(r)) \/ ToggleMaintenance \/ UNCHANGED alone
<1>1. \A r \in Recorders : Step(r) => UNCHANGED alone
  BY DEF Step, OnHeartbeat, ReserveAttempt, OpenOnDown, LookUpOpen, CreateAlert, RereadOpen, Dispatch,
   MarkInitialNotified, FindOpen, ResolveOpen,
     DispatchRecovery, Forget, SendLostInitial, CheckAcked, ReserveResend
<1>2. \A r \in Recorders : QueryFails(r) \/ Crash(r) => UNCHANGED alone
  BY DEF QueryFails, Crash
<1>3. IntervalPasses \/ Acknowledge \/ UNCHANGED dispatchVars => UNCHANGED alone
  BY DEF IntervalPasses, Acknowledge, dispatchVars
<1>4. QED BY <1>1, <1>2, <1>3, Zenon DEF DispatchNext

\* A start beside another recorder, or a window, ends the time alone.
LEMMA StaysAlone ==
  ASSUME [DispatchNext]_dispatchVars, alone'
  PROVE  alone /\ ~ToggleMaintenance /\ \A r, q \in Recorders : RecordHeartbeat(r) => At(q, "idle")
<1>1. \A r, q \in Recorders : RecordHeartbeat(r) => alone /\ At(q, "idle")
  BY Zenon DEF RecordHeartbeat
<1>2. ~ToggleMaintenance
  BY Zenon DEF ToggleMaintenance
<1>3. alone
  BY <1>1, <1>2, AloneKept, Zenon
<1>4. QED BY <1>1, <1>2, <1>3

\* The dispatcher's rows, recorders and history keep their types.
THEOREM DispatchTypeCorrect == DispatchSpec => []DispatchTypeOK
<1>1. DispatchInit => alone \in BOOLEAN
  BY Zenon DEF DispatchInit
<1>2. alone \in BOOLEAN /\ [DispatchNext]_dispatchVars => (alone \in BOOLEAN)'
  <2> SUFFICES ASSUME alone \in BOOLEAN, [DispatchNext]_dispatchVars PROVE alone' \in BOOLEAN
    OBVIOUS
  <2>1. ASSUME NEW r \in Recorders, RecordHeartbeat(r) PROVE alone' \in BOOLEAN
    BY <2>1, Zenon DEF RecordHeartbeat
  <2>2. ToggleMaintenance \/ UNCHANGED alone => alone' \in BOOLEAN
    BY Zenon DEF ToggleMaintenance
  <2>3. QED BY <2>1, <2>2, AloneKept, Zenon
<1>3. RowsInv /\ alone \in BOOLEAN => DispatchTypeOK
  BY DEF RowsInv, DispatchTypeOK
<1>4. QED BY <1>1, <1>2, <1>3, RowsInvariant, PTL DEF DispatchSpec

\* Every step of the dispatcher keeps the account of whoever is at work.
LEMMA OwnerInvStep ==
  ASSUME OwnerInv, [DispatchNext]_dispatchVars
  PROVE  OwnerInv'
<1>1. RowsInv /\ RowsInv'
  BY RowsStep DEF OwnerInv
<1>2. ASSUME alone' PROVE \E o \in Recorders : Quiet(o)' /\ Account(o)'
  <2>1. alone /\ ~ToggleMaintenance /\ \A r, q \in Recorders : RecordHeartbeat(r) => At(q, "idle")
    BY <1>2, StaysAlone
  <2>2. PICK o \in Recorders : Quiet(o) /\ Account(o)
    BY <2>1, Zenon DEF OwnerInv
  <2>3. CASE OwnerActs(o)
    BY <1>1, <2>2, <2>3, OwnerStep, OthersRest
  <2>4. ASSUME NEW r \in Recorders, r # o, RecordHeartbeat(r) PROVE Quiet(r)' /\ Account(r)'
    <3>1. Quiet(r) /\ OwnerActs(r) /\ At(o, "idle") /\ At(r, "idle")
      BY <2>1, <2>4 DEF Quiet, OwnerActs
    <3>2. Account(r)
      BY <2>2, <3>1, HandedOver
    <3>3. QED BY <1>1, <3>1, <3>2, OwnerStep, OthersRest
  <2>5. ASSUME NEW r \in Recorders, r # o PROVE ~Step(r) /\ ~QueryFails(r) /\ ~Crash(r)
    BY <2>2, <2>5, Starts DEF Quiet
  <2>6. OwnerActs(o) \/ \E r \in Recorders : r # o /\ RecordHeartbeat(r)
    BY <2>1, <2>5, Zenon DEF DispatchNext, OwnerActs
  <2>7. QED BY <2>3, <2>4, <2>6
<1>3. QED BY <1>1, <1>2, Zenon DEF OwnerInv

\* OwnerIsFaithful for any number of outages, intervals and faults: while recorders
\* come one after the other outside windows and nothing failed, OnHeartbeat leaves an
\* open alert while the monitor is DOWN and, but for a lapsed outage, only then; it
\* pages once and then for an interval, a fault or a lapse at most, and after an
\* acknowledgement sends only the page past its check.
THEOREM OwnerFaithful == DispatchSpec => []OwnerIsFaithful
<1>1. DispatchInit /\ RowsInv => OwnerInv
  <2> SUFFICES ASSUME DispatchInit, RowsInv PROVE OwnerInv
    OBVIOUS
  <2>1. PICK o \in Recorders : TRUE
    BY DispatcherAssumption
  <2>2. DOMAIN alerts = {} /\ Open = {} /\ stage(o) = "idle" /\ job[o].alert = 0
    BY DEF DispatchInit, Open, NoJob, stage
  <2>3. status = "NONE" /\ maint = FALSE /\ throttle = "none"
    BY DEF DispatchInit
  <2>4. Account(o)
    BY <2>2, <2>3 DEF Account, Place, Follows, Paid, Late
  <2>5. Quiet(o)
    BY DEF DispatchInit, Quiet, At, NoJob
  <2>6. QED BY <2>4, <2>5 DEF OwnerInv
<1>2. OwnerInv /\ [DispatchNext]_dispatchVars => OwnerInv'
  BY OwnerInvStep
<1>3. OwnerInv => OwnerIsFaithful
  <2> SUFFICES ASSUME OwnerInv, alone
               PROVE  AlertFollowsStatus /\ PagesAreSpaced /\ AckBoundsPaging
    BY DEF OwnerIsFaithful
  <2>1. PICK o \in Recorders : Account(o)
    BY Zenon DEF OwnerInv
  <2>2. AlertFollowsStatus
    BY <2>1 DEF Account, Follows, AlertFollowsStatus, Resting, At, stage
  <2>3. PagesAreSpaced /\ AckBoundsPaging
    BY <2>1 DEF Account, Paid, Late, PagesAreSpaced, AckBoundsPaging
  <2>4. QED BY <2>2, <2>3
<1>4. QED BY <1>1, <1>2, <1>3, RowsInvariant, PTL DEF DispatchSpec
-----------------------------------------------------------------------------
(* The folder tree *)

\* Every set of numbers that is not empty has a least one.
LEMMA LeastNat ==
  ASSUME NEW T \in SUBSET Nat, T # {}
  PROVE  \E x \in T : \A y \in T : x <= y
<1>1. PICK x \in T : \A y \in T : ~ (<<y, x>> \in OpToRel(<, Nat))
  BY NatLessThanWellFounded, WFMin
<1>2. \A y \in T : ~(y < x)
  <2> TAKE y \in T
  <2>1. x \in Nat /\ y \in Nat
    OBVIOUS
  <2>2. y < x => <<y, x>> \in OpToRel(<, Nat)
    BY <2>1 DEF OpToRel
  <2> QED BY <1>1, <2>2, Zenon
<1>3. QED BY <1>2

TreeShapes ==
  /\ parent = [g \in Stored |-> parent[g]]
  /\ edit = [e \in Editors |-> edit[e]]
  /\ TreeTypeOK

\* A set of folders that holds its own ancestors.
ClosedUp(P) == P \in SUBSET Stored /\ \A g \in P : parent[g] \in P \cup {None}

\* An accepted move: the new parent and its ancestors miss the folder.
Writing(w) ==
  /\ w = [at |-> "write", folder |-> w.folder, to |-> w.to]
  /\ w.folder \in Stored
  /\ \E P \in SUBSET Stored : w.to \in P \cup {None} /\ w.folder \notin P /\ ClosedUp(P)

\* A move under validation: the folders passed so far miss the folder, and
\* they are as many as the turns of the loop.
Walking(w) ==
  /\ w = [at |-> "walk", folder |-> w.folder, to |-> w.to, cur |-> w.cur,
          next |-> w.next, depth |-> w.depth]
  /\ w.folder \in Stored /\ w.cur \in Stored /\ w.next = parent[w.cur]
  /\ \E P \in SUBSET Stored :
       /\ w.folder \notin P /\ w.cur \notin P
       /\ w.to \in P \cup {w.cur}
       /\ \A g \in P : parent[g] \in P \cup {w.cur}
       /\ Cardinality(P) = w.depth

\* Requests that do not overlap: one of them at most is at work, on a tree
\* that is still the one it reads.
CalmEdits ==
  /\ Acyclic
  /\ \A e \in Editors : edit[e] = NoEdit \/ Writing(edit[e]) \/ Walking(edit[e])
  /\ \A e, d \in Editors : edit[e] # NoEdit /\ edit[d] # NoEdit => e = d

\* What a resolver knows of the folders it passed.
Passed(w) ==
  /\ assigned["monitor"] = None
  /\ w.folder \in Stored /\ w.seen \in SUBSET Stored
  /\ \A g \in w.seen : assigned[g] = None /\ parent[g] \in w.seen \cup {w.folder}
  /\ home \in w.seen \cup {w.folder}
  /\ \E q \in ChainsUp(Cardinality(w.seen)) :
       /\ q[Cardinality(w.seen)] = w.folder
       /\ \A i \in 0..(Cardinality(w.seen) - 1) : q[i] \in w.seen

Resolver ==
  \/ walk = NoWalk
  \/ walk = [at |-> "walk", folder |-> walk.folder, seen |-> walk.seen] /\ Passed(walk)
  \/ walk = [at |-> "done", policy |-> walk.policy] /\ ByContract(walk.policy)

TreeInv == TreeShapes /\ (calm /\ ~deep => CalmEdits) /\ Resolver

-----------------------------------------------------------------------------
\* Chains

LEMMA ChainStays ==
  ASSUME TreeShapes, NEW C, ClosedUp(C), home \in C, NEW n \in Nat, NEW q \in ChainsUp(n)
  PROVE  \A i \in 0..n : q[i] \in C
<1> DEFINE T == {i \in 0..n : q[i] \notin C}
<1>0. q \in [0..n -> Stored] /\ q[0] = home /\ \A i \in 0..(n - 1) : q[i + 1] = parent[q[i]]
  BY DEF ChainsUp
<1>1. None \notin Stored
  BY TreeAssumption DEF TreeShapes, TreeTypeOK
<1>2. SUFFICES ASSUME T # {} PROVE FALSE
  OBVIOUS
<1>3. PICK x \in T : \A y \in T : x <= y
  <2>1. T \in SUBSET Nat
    OBVIOUS
  <2>2. QED BY <1>2, <2>1, LeastNat
<1>4. x # 0 /\ x \in 0..n
  BY <1>0
<1>5. PICK j \in 0..(n - 1) : x = j + 1
  <2>1. x - 1 \in 0..(n - 1) /\ x = (x - 1) + 1
    BY <1>4
  <2>2. QED BY <2>1
<1>6. q[j] \in C
  BY <1>3, <1>5
<1>7. q[x] \in C \cup {None}
  BY <1>0, <1>5, <1>6 DEF ClosedUp
<1>8. q[x] \in Stored
  BY <1>0, <1>4
<1>9. QED BY <1>1, <1>7, <1>8

LEMMA ChainsAgree ==
  ASSUME NEW n \in Nat, NEW k \in Nat, NEW q \in ChainsUp(n), NEW r \in ChainsUp(k)
  PROVE  \A i \in 0..n : i <= k => q[i] = r[i]
<1> DEFINE T == {i \in 0..n : i <= k /\ q[i] # r[i]}
<1>0. /\ q[0] = home /\ \A i \in 0..(n - 1) : q[i + 1] = parent[q[i]]
      /\ r[0] = home /\ \A i \in 0..(k - 1) : r[i + 1] = parent[r[i]]
  BY DEF ChainsUp
<1>2. SUFFICES ASSUME T # {} PROVE FALSE
  OBVIOUS
<1>3. PICK x \in T : \A y \in T : x <= y
  <2>1. T \in SUBSET Nat
    OBVIOUS
  <2>2. QED BY <1>2, <2>1, LeastNat
<1>4. x # 0 /\ x \in 0..n /\ x <= k
  BY <1>0
<1>5. PICK j \in 0..(n - 1) : x = j + 1
  <2>1. x - 1 \in 0..(n - 1) /\ x = (x - 1) + 1
    BY <1>4
  <2>2. QED BY <2>1
<1>6. q[j] = r[j] /\ j \in 0..(k - 1)
  BY <1>3, <1>4, <1>5
<1>7. QED BY <1>0, <1>5, <1>6

-----------------------------------------------------------------------------
\* Resolving

LEMMA NothingAbove ==
  ASSUME TreeShapes, NEW C, ClosedUp(C), home \in C, \A g \in C : assigned[g] = None,
         assigned["monitor"] = None
  PROVE  ByContract(None)
<1>1. ASSUME NEW n \in Nat, NEW q \in ChainsUp(n) PROVE ~ Nearest(n, q)
  <2>1. q[n] \in C
    BY ChainStays
  <2>2. QED BY <2>1 DEF Nearest
<1>2. Cardinality(TreeFolders) \in Nat
  BY TreeAssumption, FS_CardinalityType
<1>3. 0..Cardinality(TreeFolders) \subseteq Nat
  BY <1>2
<1>4. QED BY <1>1, <1>3, Zenon DEF ByContract

LEMMA FoundAbove ==
  ASSUME TreeShapes, NEW w, Passed(w), w.folder \notin w.seen, assigned[w.folder] # None
  PROVE  ByContract(loadRunnablePolicy(assigned[w.folder]))
<1> DEFINE k == Cardinality(w.seen)
<1>1. k \in Nat /\ k <= Cardinality(TreeFolders) /\ Cardinality(TreeFolders) \in Nat
  <2>1. w.seen \in SUBSET TreeFolders
    BY DEF Passed, TreeShapes, TreeTypeOK
  <2>2. IsFiniteSet(w.seen) /\ k <= Cardinality(TreeFolders)
    BY <2>1, TreeAssumption, FS_Subset
  <2>3. QED BY <2>2, TreeAssumption, FS_CardinalityType
<1>2. PICK r \in ChainsUp(k) : r[k] = w.folder /\ \A i \in 0..(k - 1) : r[i] \in w.seen
  BY Zenon DEF Passed
<1>3. assigned["monitor"] = None /\ \A g \in w.seen : assigned[g] = None
  BY DEF Passed
<1>4. Nearest(k, r)
  BY <1>2, <1>3 DEF Nearest
<1>5. ASSUME NEW n \in Nat, NEW q \in ChainsUp(n), Nearest(n, q)
      PROVE  q[n] = w.folder
  <2> HIDE DEF k
  <2>1. \A i \in 0..n : i <= k => q[i] = r[i]
    BY <1>1, ChainsAgree
  <2>2. CASE n < k
    <3>1. n \in 0..(k - 1) /\ n \in 0..n /\ n <= k
      BY <2>2, <1>1
    <3>2. QED BY <3>1, <2>1, <1>2, <1>3, <1>5 DEF Nearest
  <2>3. CASE n = k
    BY <2>3, <2>1, <1>2
  <2>4. CASE k < n
    <3>1. k \in 0..(n - 1) /\ k \in 0..n /\ k <= k
      BY <2>4, <1>1
    <3>2. QED BY <3>1, <2>1, <1>2, <1>5 DEF Nearest
  <2>5. QED BY <2>2, <2>3, <2>4, <1>1
<1>6. k \in 0..Cardinality(TreeFolders) /\ 0..Cardinality(TreeFolders) \subseteq Nat
  BY <1>1
<1>7. QED
  <2> HIDE DEF k
  <2> QED BY <1>2, <1>3, <1>4, <1>5, <1>6, Zenon DEF ByContract

\* The state a contract is about.
LEMMA ContractFrame ==
  ASSUME parent' = parent, home' = home, assigned' = assigned, runnable' = runnable,
         NEW p, ByContract(p)
  PROVE  ByContract(p)'
<1>1. Stored' = Stored /\ (\A n : ChainsUp(n)' = ChainsUp(n))
  BY DEF Stored, ChainsUp
<1>2. QED BY <1>1 DEF ByContract, Nearest, loadRunnablePolicy

-----------------------------------------------------------------------------
\* Steps of the tree

LEMMA TreeShapesInit == EditInit \/ ChainInit => TreeShapes
<1>1. CASE EditInit
  <2>1. PICK f \in TreeFolders : parent = [g \in {f} |-> None] /\ home \in {None, f}
    BY <1>1 DEF EditInit
  <2>2. Stored = {f} /\ parent[f] = None
    BY <2>1 DEF Stored
  <2>3. edit = [e \in Editors |-> NoEdit] /\ used = Stored /\ calm = TRUE /\ deep = FALSE
        /\ assigned = [o \in Owners |-> None] /\ runnable = Policies
    BY <1>1 DEF EditInit
  <2>4. parent = [g \in Stored |-> parent[g]] /\ edit = [e \in Editors |-> edit[e]]
    BY <2>1, <2>2, <2>3
  <2>5. QED BY <2>1, <2>2, <2>3, <2>4 DEF TreeShapes, TreeTypeOK
<1>2. CASE ChainInit
  <2>1. Stored = TreeFolders
    BY <1>2 DEF ChainInit, Stored
  <2>2. QED BY <1>2, <2>1 DEF ChainInit, TreeShapes, TreeTypeOK
<1>3. QED BY <1>1, <1>2

LEMMA TreeInitInv == EditInit \/ ChainInit => TreeInv
<1> SUFFICES ASSUME EditInit \/ ChainInit PROVE TreeInv
  OBVIOUS
<1>1. TreeShapes
  BY TreeShapesInit
<1>2. Resolver
  BY DEF EditInit, ChainInit, Resolver
<1>3. ASSUME calm, ~deep PROVE CalmEdits
  <2>1. EditInit
    BY <1>3 DEF ChainInit
  <2>2. PICK f \in TreeFolders : parent = [g \in {f} |-> None]
    BY <2>1 DEF EditInit
  <2>3. Stored = {f} /\ parent[f] = None /\ None # f
    BY <2>2, TreeAssumption DEF Stored
  <2>4. Acyclic
    BY <2>3 DEF Acyclic
  <2>5. \A e \in Editors : edit[e] = NoEdit
    BY <2>1 DEF EditInit
  <2>6. QED BY <2>4, <2>5 DEF CalmEdits
<1>4. QED BY <1>1, <1>2, <1>3 DEF TreeInv

\* When all editors rest a calm tree only needs to be acyclic.
LEMMA AtRest ==
  ASSUME Acyclic', edit' = edit, NoneEditing
  PROVE  CalmEdits'
BY DEF CalmEdits, NoneEditing, NoEdit

LEMMA CreateKeeps ==
  ASSUME TreeInv, NEW f \in TreeFolders, Create(f), walk = NoWalk
  PROVE  TreeInv'
<1>1. PICK p \in ParentOfNew(f) :
         parent' = [g \in Stored \cup {f} |-> IF g = f THEN p ELSE parent[g]]
  BY DEF Create
<1>2. Stored' = Stored \cup {f} /\ f \notin Stored /\ None \notin Stored /\ f # None
  BY <1>1, TreeAssumption DEF Create, Stored, TreeInv, TreeShapes, TreeTypeOK
<1>3. p \in Stored \cup {None} /\ p # f
  BY <1>2 DEF ParentOfNew
<1>4. parent'[f] = p /\ \A g \in Stored : parent'[g] = parent[g]
  BY <1>1, <1>2
<1>5. TreeShapes'
  <2>1. parent' = [g \in Stored' |-> parent'[g]]
    BY <1>1, <1>2
  <2>2. edit' = [e \in Editors |-> edit'[e]]
    BY DEF Create, TreeInv, TreeShapes
  <2>3. calm' \in BOOLEAN
    BY Zenon DEF Create
  <2>4. QED BY <2>1, <2>2, <2>3, <1>2, <1>3, <1>4 DEF Create, TreeInv, TreeShapes, TreeTypeOK
<1>6. Resolver'
  BY DEF Create, Resolver
<1>7. ASSUME calm', ~deep' PROVE CalmEdits'
  <2>1. calm /\ NoneEditing /\ ~deep
    BY <1>7, Zenon DEF Create
  <2>2. Acyclic
    BY <1>7, <2>1 DEF TreeInv, CalmEdits
  <2>3. ASSUME NEW S \in SUBSET (Stored \cup {f}), S # {}
        PROVE  \E g \in S : parent'[g] \notin S
    <3>1. CASE S \ {f} # {}
      <4>1. PICK g \in S \ {f} : parent[g] \notin S \ {f}
        BY <3>1, <2>2 DEF Acyclic
      <4>2. parent[g] \in Stored \cup {None} /\ g \in Stored
        BY <4>1 DEF TreeInv, TreeShapes, TreeTypeOK
      <4>3. parent'[g] \notin S
        BY <4>1, <4>2, <1>2, <1>4
      <4>4. QED BY <4>3
    <3>2. CASE S = {f}
      BY <3>2, <1>3, <1>4
    <3>3. QED BY <3>1, <3>2, <2>3
  <2>4. Acyclic'
    BY <2>3, <1>2 DEF Acyclic
  <2>5. edit' = edit
    BY DEF Create
  <2>6. QED BY <2>1, <2>4, <2>5, AtRest
<1>8. QED BY <1>5, <1>6, <1>7 DEF TreeInv

LEMMA DeleteKeeps ==
  ASSUME TreeInv, NEW f \in TreeFolders, Delete(f), walk = NoWalk
  PROVE  TreeInv'
<1> DEFINE up(p) == IF Rehomed(f, p) = f THEN None ELSE Rehomed(f, p)
<1>1. parent' = [g \in Stored \ {f} |-> up(parent[g])] /\ home' = up(home) /\ f \in Stored
  BY DEF Delete
<1>2. Stored' = Stored \ {f} /\ None \notin Stored
  BY <1>1, TreeAssumption DEF Stored, TreeInv, TreeShapes, TreeTypeOK
<1>3. \A g \in Stored \ {f} : parent'[g] = up(parent[g])
  BY <1>1
<1>4. \A p \in Stored \cup {None} : up(p) \in (Stored \ {f}) \cup {None}
  <2>1. parent[f] \in Stored \cup {None}
    BY <1>1 DEF TreeInv, TreeShapes, TreeTypeOK
  <2>2. QED BY <2>1 DEF Rehomed
<1> HIDE DEF up
<1>5. TreeShapes'
  <2>1. parent' = [g \in Stored' |-> parent'[g]]
    BY <1>1, <1>2
  <2>2. edit' = [e \in Editors |-> edit'[e]]
    BY DEF Delete, TreeInv, TreeShapes
  <2>3. calm' \in BOOLEAN
    BY Zenon DEF Delete
  <2>4. \A g \in Stored' : parent'[g] \in Stored' \cup {None}
    BY <1>2, <1>3, <1>4 DEF TreeInv, TreeShapes, TreeTypeOK
  <2>5. home' \in Stored' \cup {None}
    BY <1>1, <1>2, <1>4 DEF TreeInv, TreeShapes, TreeTypeOK
  <2>6. assigned' \in [Owners -> Policies \cup {None}]
    BY DEF Delete, TreeInv, TreeShapes, TreeTypeOK
  <2>7. QED BY <2>1, <2>2, <2>3, <2>4, <2>5, <2>6, <1>2
            DEF Delete, TreeInv, TreeShapes, TreeTypeOK
<1>6. Resolver'
  BY DEF Delete, Resolver
<1>7. ASSUME calm', ~deep' PROVE CalmEdits'
  <2>1. calm /\ NoneEditing /\ ~deep
    BY <1>7, Zenon DEF Delete
  <2>2. Acyclic
    BY <1>7, <2>1 DEF TreeInv, CalmEdits
  <2>3. ASSUME NEW S \in SUBSET (Stored \ {f}), S # {}
        PROVE  \E g \in S : parent'[g] \notin S
    <3>1. PICK g \in S : parent[g] \notin S
      BY <2>2, <2>3 DEF Acyclic
    <3>2. PICK h \in S \cup {f} : parent[h] \notin S \cup {f}
      <4>1. S \cup {f} \in SUBSET Stored /\ S \cup {f} # {}
        BY <1>1
      <4>2. QED BY <4>1, <2>2 DEF Acyclic
    <3>3. CASE h \in S
      <4>1. parent'[h] = parent[h]
        BY <3>2, <3>3, <1>3 DEF up, Rehomed
      <4>2. QED BY <3>2, <3>3, <4>1
    <3>4. CASE h = f
      <4>1. None \notin S
        BY <1>2
      <4>2. parent'[g] \notin S
        BY <4>1, <3>1, <3>2, <3>4, <1>3 DEF up, Rehomed
      <4>3. QED BY <4>2
    <3>5. QED BY <3>2, <3>3, <3>4
  <2>4. Acyclic'
    BY <2>3, <1>2 DEF Acyclic
  <2>5. edit' = edit
    BY DEF Delete
  <2>6. QED BY <2>1, <2>4, <2>5, AtRest
<1>8. QED BY <1>5, <1>6, <1>7 DEF TreeInv

\* Steps of an editor that leave the tree as it is.
LEMMA EditFrame ==
  ASSUME TreeInv, walk = NoWalk, edit' = [e \in Editors |-> edit'[e]], calm' \in BOOLEAN, deep' \in BOOLEAN,
         UNCHANGED <<parent, used, home, assigned, runnable, walk>>
  PROVE  /\ TreeShapes' /\ Resolver' /\ Stored' = Stored
         /\ (Acyclic => Acyclic')
         /\ \A w : (Writing(w) => Writing(w)') /\ (Walking(w) => Walking(w)')
<1>1. Stored' = Stored
  BY DEF Stored
<1>2. TreeShapes'
  BY <1>1 DEF TreeInv, TreeShapes, TreeTypeOK
<1>3. Resolver'
  BY DEF Resolver
<1>4. Acyclic => Acyclic'
  BY <1>1 DEF Acyclic
<1>5. \A w : (Writing(w) => Writing(w)') /\ (Walking(w) => Walking(w)')
  BY <1>1, Zenon DEF Writing, Walking, ClosedUp
<1>6. QED BY <1>1, <1>2, <1>3, <1>4, <1>5

LEMMA BeginUpdateKeeps ==
  ASSUME TreeInv, NEW e \in Editors, NEW f \in TreeFolders, NEW p \in TreeFolders \cup {None},
         BeginUpdate(e, f, p), walk = NoWalk
  PROVE  TreeInv'
<1> DEFINE new == IF p = None THEN [at |-> "write", folder |-> f, to |-> p]
                  ELSE [at |-> "walk", folder |-> f, to |-> p, cur |-> p,
                        next |-> parent[p], depth |-> 0]
<1>1. edit' = [edit EXCEPT ![e] = new] /\ edit = [d \in Editors |-> edit[d]]
  BY DEF BeginUpdate, TreeInv, TreeShapes
<1>2. f \in Stored /\ p \in (Stored \cup {None}) \ {f}
  BY DEF BeginUpdate
<1>3. Writing(new) \/ Walking(new)
  <2>1. CASE p = None
    <3>1. ClosedUp({})
      BY DEF ClosedUp
    <3>2. Writing(new)
      BY <2>1, <3>1, <1>2 DEF Writing
    <3>3. QED BY <3>2
  <2>2. CASE p # None
    <3>1. Cardinality({}) = 0
      BY FS_EmptySet
    <3>2. Walking(new)
      BY <2>2, <3>1, <1>2 DEF Walking
    <3>3. QED BY <3>2
  <2>3. QED BY <2>1, <2>2
<1> HIDE DEF new
<1>4. PICK w : w = new
  OBVIOUS
<1>5. edit'[e] = w /\ (\A d \in Editors \ {e} : edit'[d] = edit[d])
      /\ edit' = [d \in Editors |-> edit'[d]]
  BY <1>1, <1>4
<1>6. /\ calm' \in BOOLEAN /\ deep' \in BOOLEAN
      /\ UNCHANGED <<parent, used, home, assigned, runnable, walk>>
  <2>1. deep \in BOOLEAN
    BY DEF TreeInv, TreeShapes, TreeTypeOK
  <2>2. QED BY <2>1, Zenon DEF BeginUpdate
<1>7. /\ TreeShapes' /\ Resolver' /\ (Acyclic => Acyclic')
      /\ (Writing(w) => Writing(w)') /\ (Walking(w) => Walking(w)')
  <2>1. /\ TreeShapes' /\ Resolver' /\ (Acyclic => Acyclic')
        /\ \A v : (Writing(v) => Writing(v)') /\ (Walking(v) => Walking(v)')
    BY <1>5, <1>6, EditFrame
  <2>2. QED BY <2>1, Zenon
<1>8. ASSUME calm', ~deep' PROVE CalmEdits'
  <2>1. calm /\ NoneEditing /\ ~deep
    BY <1>8, Zenon DEF BeginUpdate
  <2>2. Acyclic'
    BY <2>1, <1>7, <1>8 DEF TreeInv, CalmEdits
  <2>3. \A d \in Editors \ {e} : edit'[d] = NoEdit
    BY <2>1, <1>5 DEF NoneEditing
  <2>4. Writing(edit[e])' \/ Walking(edit[e])'
    BY <1>3, <1>5, <1>7, <1>4
  <2>5. QED BY <2>2, <2>3, <2>4 DEF CalmEdits, NoEdit
<1>9. QED BY <1>7, <1>8 DEF TreeInv

\* One turn of the loop of validateParent on a calm tree.
LEMMA TurnIsSound ==
  ASSUME TreeInv, Acyclic, NEW w, Walking(w), ~ Exhausted(w)
  PROVE  Walked(w) = NoEdit \/ Writing(Walked(w)) \/ Walking(Walked(w))
<1>0. /\ w = [at |-> "walk", folder |-> w.folder, to |-> w.to, cur |-> w.cur,
              next |-> w.next, depth |-> w.depth]
      /\ w.folder \in Stored /\ w.cur \in Stored /\ w.next = parent[w.cur]
  BY DEF Walking
<1>1. PICK P \in SUBSET Stored :
         /\ w.folder \notin P /\ w.cur \notin P
         /\ w.to \in P \cup {w.cur}
         /\ \A g \in P : parent[g] \in P \cup {w.cur}
         /\ Cardinality(P) = w.depth
  BY DEF Walking
<1>2. PICK Q : Q = P \cup {w.cur}
  OBVIOUS
<1>3. Q \in SUBSET Stored /\ w.to \in Q
      /\ (\A g \in Q : parent[g] \in Q \cup {w.next})
  BY <1>0, <1>1, <1>2
<1>4. /\ w.depth \in Nat /\ IsFiniteSet(Q) /\ Cardinality(Q) = w.depth + 1
  <2>1. P \in SUBSET TreeFolders
    BY DEF TreeInv, TreeShapes, TreeTypeOK
  <2>2. IsFiniteSet(P)
    BY <2>1, TreeAssumption, FS_Subset
  <2>3. QED BY <2>2, <1>1, <1>2, FS_CardinalityType, FS_AddElement
<1>5. SUFFICES ASSUME w.cur # w.folder
               PROVE  Writing(Walked(w)) \/ Walking(Walked(w))
  BY DEF Walked
<1>6. w.folder \notin Q
  BY <1>1, <1>2, <1>5
<1>7. w.next \in Stored \cup {None} /\ None \notin Stored
  BY <1>0, TreeAssumption DEF TreeInv, TreeShapes, TreeTypeOK
<1>8. CASE w.next \notin Stored
  <2>1. Walked(w) = [at |-> "write", folder |-> w.folder, to |-> w.to]
    BY <1>5, <1>8 DEF Walked, Accept
  <2>2. ClosedUp(Q)
    BY <1>3, <1>7, <1>8 DEF ClosedUp
  <2>3. Writing(Walked(w))
    BY <2>1, <2>2, <1>0, <1>3, <1>6 DEF Writing
  <2>4. QED BY <2>3
<1>9. CASE w.next \in Stored
  <2>1. ~ (w.depth + 1 >= MaxWalk)
    BY <1>5, <1>9 DEF Exhausted
  <2>2. Walked(w) = [at |-> "walk", folder |-> w.folder, to |-> w.to, cur |-> w.next,
                     next |-> parent[w.next], depth |-> w.depth + 1]
    BY <2>1, <1>5, <1>9 DEF Walked
  <2>3. w.next \notin Q
    <3>1. PICK h \in Q : parent[h] \notin Q
      BY <1>2, <1>3 DEF Acyclic
    <3>2. QED BY <3>1, <1>3
  <2>4. Walking(Walked(w))
    BY <2>2, <2>3, <1>0, <1>3, <1>4, <1>6, <1>9 DEF Walking
  <2>5. QED BY <2>4
<1>10. QED BY <1>8, <1>9

LEMMA WalkParentKeeps ==
  ASSUME TreeInv, NEW e \in Editors, WalkParent(e), walk = NoWalk
  PROVE  TreeInv'
<1>1. PICK w : w = Walked(edit[e])
  OBVIOUS
<1>2. /\ edit' = [d \in Editors |-> edit'[d]] /\ edit'[e] = w
      /\ \A d \in Editors \ {e} : edit'[d] = edit[d]
  BY <1>1 DEF WalkParent, TreeInv, TreeShapes
<1>3. /\ calm' = calm /\ calm' \in BOOLEAN /\ deep' \in BOOLEAN
      /\ UNCHANGED <<parent, used, home, assigned, runnable, walk>>
  <2>1. calm \in BOOLEAN /\ calm' = calm /\ UNCHANGED <<parent, used, home, assigned, runnable, walk>>
    BY DEF WalkParent, TreeInv, TreeShapes, TreeTypeOK
  <2>2. deep' \in BOOLEAN
    BY Zenon DEF WalkParent
  <2>3. QED BY <2>1, <2>2
<1>4. /\ TreeShapes' /\ Resolver' /\ (Acyclic => Acyclic')
      /\ (Writing(w) => Writing(w)') /\ (Walking(w) => Walking(w)')
  <2>1. /\ TreeShapes' /\ Resolver' /\ (Acyclic => Acyclic')
        /\ \A v : (Writing(v) => Writing(v)') /\ (Walking(v) => Walking(v)')
    BY <1>2, <1>3, EditFrame
  <2>2. QED BY <2>1, Zenon
<1>5. ASSUME calm', ~deep' PROVE CalmEdits'
  <2>0. ~deep /\ ~ Exhausted(edit[e])
    BY <1>5, Zenon DEF WalkParent
  <2>1. CalmEdits
    BY <1>3, <1>5, <2>0 DEF TreeInv
  <2>2. edit[e].at = "walk" /\ edit[e] # NoEdit
    BY DEF WalkParent, NoEdit
  <2>3. Walking(edit[e])
    <3>1. edit[e] = NoEdit \/ Writing(edit[e]) \/ Walking(edit[e])
      BY <2>1 DEF CalmEdits
    <3>2. Writing(edit[e]) => edit[e].at = "write"
      BY DEF Writing
    <3>3. QED BY <2>2, <3>1, <3>2
  <2>4. w = NoEdit \/ Writing(w) \/ Walking(w)
    BY <1>1, <2>0, <2>1, <2>3, TurnIsSound DEF CalmEdits
  <2>5. \A d \in Editors \ {e} : edit'[d] = NoEdit
    BY <1>2, <2>1, <2>2 DEF CalmEdits
  <2>6. edit[e]' = NoEdit \/ Writing(edit[e])' \/ Walking(edit[e])'
    BY <1>2, <1>4, <2>4
  <2>7. QED BY <2>1, <2>5, <2>6, <1>4 DEF CalmEdits, NoEdit
<1>6. QED BY <1>4, <1>5 DEF TreeInv

LEMMA WriteParentKeeps ==
  ASSUME TreeInv, NEW e \in Editors, WriteParent(e), walk = NoWalk
  PROVE  TreeInv'
<1>1. PICK w : w = edit[e]
  OBVIOUS
<1>2. /\ edit' = [d \in Editors |-> edit'[d]] /\ edit'[e] = NoEdit
      /\ \A d \in Editors \ {e} : edit'[d] = edit[d]
  BY DEF WriteParent, TreeInv, TreeShapes
<1>3. parent' = IF w.folder \in Stored /\ w.to \in Stored \cup {None}
                THEN [parent EXCEPT ![w.folder] = w.to] ELSE parent
  BY <1>1 DEF WriteParent
<1>4. parent = [g \in Stored |-> parent[g]] /\ None \notin Stored
  BY TreeAssumption DEF TreeInv, TreeShapes, TreeTypeOK
<1>5. Stored' = Stored /\ parent' = [g \in Stored |-> parent'[g]]
  BY <1>3, <1>4 DEF Stored
<1>6. \A g \in Stored : \/ parent'[g] = parent[g]
                        \/ g = w.folder /\ parent'[g] = w.to /\ w.to \in Stored \cup {None}
  BY <1>3, <1>4
<1>7. TreeShapes'
  <2>1. \A g \in Stored : parent'[g] \in Stored \cup {None}
    BY <1>6 DEF TreeInv, TreeShapes, TreeTypeOK
  <2>2. QED BY <1>2, <1>5, <2>1 DEF WriteParent, TreeInv, TreeShapes, TreeTypeOK
<1>8. Resolver'
  BY DEF WriteParent, Resolver
<1>9. ASSUME calm', ~deep' PROVE CalmEdits'
  <2>1. CalmEdits
    BY <1>9 DEF WriteParent, TreeInv
  <2>2. w.at = "write" /\ w # NoEdit
    BY <1>1 DEF WriteParent, NoEdit
  <2>3. Writing(w)
    <3>1. w = NoEdit \/ Writing(w) \/ Walking(w)
      BY <1>1, <2>1 DEF CalmEdits
    <3>2. Walking(w) => w.at = "walk"
      BY DEF Walking
    <3>3. QED BY <2>2, <3>1, <3>2
  <2>4. PICK P \in SUBSET Stored : w.to \in P \cup {None} /\ w.folder \notin P /\ ClosedUp(P)
    BY <2>3 DEF Writing
  <2>5. ASSUME NEW S \in SUBSET Stored, S # {} PROVE \E g \in S : parent'[g] \notin S
    <3>1. CASE S \cap P # {}
      <4>1. PICK g \in S \cap P : parent[g] \notin S \cap P
        BY <3>1, <2>1 DEF CalmEdits, Acyclic
      <4>2. parent'[g] = parent[g] /\ parent[g] \in P \cup {None}
        BY <2>4, <4>1, <1>6 DEF ClosedUp
      <4>3. QED BY <4>1, <4>2, <1>4
    <3>2. CASE S \cap P = {} /\ w.folder \notin S
      <4>1. PICK g \in S : parent[g] \notin S
        BY <2>5, <2>1 DEF CalmEdits, Acyclic
      <4>2. parent'[g] = parent[g]
        BY <3>2, <4>1, <1>6
      <4>3. QED BY <4>1, <4>2
    <3>3. CASE S \cap P = {} /\ w.folder \in S
      <4>1. w.folder \in Stored /\ w.to \in Stored \cup {None}
        BY <3>3, <2>4
      <4>2. parent'[w.folder] = w.to
        BY <4>1, <1>3, <1>4
      <4>3. w.to \notin S
        BY <3>3, <2>4, <1>4
      <4>4. QED BY <3>3, <4>2, <4>3
    <3>4. QED BY <3>1, <3>2, <3>3
  <2>6. Acyclic'
    BY <2>5, <1>5 DEF Acyclic
  <2>7. \A d \in Editors : edit'[d] = NoEdit
    BY <1>1, <1>2, <2>1, <2>2 DEF CalmEdits
  <2>8. QED BY <2>6, <2>7 DEF CalmEdits, NoEdit
<1>10. QED BY <1>7, <1>8, <1>9 DEF TreeInv

\* A resolver reads the tree and changes nothing of it.
LEMMA ResolveFrame ==
  ASSUME TreeInv, UNCHANGED <<parent, used, home, assigned, runnable, edit, calm, deep>>
  PROVE  TreeShapes' /\ (calm' /\ ~deep' => CalmEdits') /\ Stored' = Stored
<1>1. Stored' = Stored
  BY DEF Stored
<1>2. TreeShapes'
  BY <1>1 DEF TreeInv, TreeShapes, TreeTypeOK
<1>3. ASSUME calm', ~deep' PROVE CalmEdits'
  <2>1. CalmEdits
    BY <1>3 DEF TreeInv
  <2>2. Acyclic'
    BY <1>1, <2>1 DEF CalmEdits, Acyclic
  <2>3. ASSUME NEW e \in Editors
        PROVE  edit'[e] = NoEdit \/ Writing(edit[e])' \/ Walking(edit[e])'
    <3>1. PICK w : w = edit[e]
      OBVIOUS
    <3>2. w = NoEdit \/ Writing(w) \/ Walking(w)
      BY <3>1, <2>1 DEF CalmEdits
    <3>3. (Writing(w) => Writing(w)') /\ (Walking(w) => Walking(w)')
      BY <1>1, Zenon DEF Writing, Walking, ClosedUp
    <3>4. edit'[e] = w
      BY <3>1
    <3>5. QED BY <3>2, <3>3, <3>4
  <2>4. \A e, d \in Editors : edit'[e] # NoEdit' /\ edit'[d] # NoEdit' => e = d
    BY <2>1 DEF CalmEdits, NoEdit
  <2>5. QED BY <2>2, <2>3, <2>4 DEF CalmEdits, NoEdit
<1>4. QED BY <1>1, <1>2, <1>3

\* The answer of a resolver that is done.
LEMMA DoneKeeps ==
  ASSUME TreeInv, UNCHANGED <<parent, used, home, assigned, runnable, edit, calm, deep>>,
         NEW p, walk' = [at |-> "done", policy |-> p], ByContract(p)
  PROVE  TreeInv'
<1>1. ByContract(p)'
  BY ContractFrame
<1>2. walk'.policy = p
  OBVIOUS
<1>3. ByContract(walk.policy)'
  BY <1>1, <1>2
<1>4. Resolver'
  BY <1>2, <1>3 DEF Resolver
<1>5. QED BY <1>4, ResolveFrame DEF TreeInv

LEMMA WalkOnKeeps ==
  ASSUME TreeInv, UNCHANGED <<parent, used, home, assigned, runnable, edit, calm, deep>>,
         NEW w, walk' = w, w = [at |-> "walk", folder |-> w.folder, seen |-> w.seen], Passed(w)
  PROVE  TreeInv'
<1>1. TreeShapes' /\ (calm' /\ ~deep' => CalmEdits') /\ Stored' = Stored
  BY ResolveFrame
<1>2. \A n : ChainsUp(n)' = ChainsUp(n)
  BY <1>1 DEF ChainsUp
<1>3. Passed(w)'
  BY <1>1, <1>2, Zenon DEF Passed
<1>4. Passed(walk)' /\ walk' = [at |-> "walk", folder |-> walk'.folder, seen |-> walk'.seen]
  BY <1>3
<1>5. Resolver'
  BY <1>4 DEF Resolver
<1>6. QED BY <1>1, <1>5 DEF TreeInv

LEMMA StartResolveKeeps ==
  ASSUME TreeInv, StartResolve
  PROVE  TreeInv'
<1>0. UNCHANGED <<parent, used, home, assigned, runnable, edit, calm, deep>>
  BY DEF StartResolve
<1>1. CASE Stops("monitor")
  <2>1. PICK p : p = loadRunnablePolicy(assigned["monitor"])
    OBVIOUS
  <2>2. ByContract(p)
    BY <1>1, <2>1 DEF ByContract, Stops
  <2>3. walk' = [at |-> "done", policy |-> p]
    BY <1>1, <2>1 DEF StartResolve, Resolved
  <2>4. QED BY <1>0, <2>2, <2>3, DoneKeeps
<1>2. CASE ~ Stops("monitor") /\ home = None
  <2>1. None \notin Stored
    BY TreeAssumption DEF TreeInv, TreeShapes, TreeTypeOK
  <2>2. Cardinality(TreeFolders) \in Nat
    BY TreeAssumption, FS_CardinalityType
  <2>3. ASSUME NEW n \in 0..Cardinality(TreeFolders), NEW q \in ChainsUp(n) PROVE FALSE
    BY <1>2, <2>1, <2>2 DEF ChainsUp
  <2>4. ByContract(None)
    BY <1>2, <2>3, Zenon DEF ByContract, Stops
  <2>5. walk' = [at |-> "done", policy |-> None]
    BY <1>2 DEF StartResolve
  <2>6. QED BY <1>0, <2>4, <2>5, DoneKeeps
<1>3. CASE ~ Stops("monitor") /\ home # None
  <2>1. PICK w : w = [at |-> "walk", folder |-> home, seen |-> {}]
    OBVIOUS
  <2>2. w.folder = home /\ w.seen = {} /\ walk' = w
    BY <1>3, <2>1 DEF StartResolve
  <2>3. home \in Stored /\ assigned["monitor"] = None
    BY <1>3 DEF TreeInv, TreeShapes, TreeTypeOK, Stops
  <2>4. Cardinality({}) = 0
    BY FS_EmptySet
  <2>5. [i \in 0..0 |-> home] \in ChainsUp(0)
    BY <2>3 DEF ChainsUp
  <2>6. Passed(w)
    <3>1. \E q \in ChainsUp(0) : q[0] = home /\ \A i \in 0..(0 - 1) : q[i] \in {}
      BY <2>5
    <3>2. QED BY <2>2, <2>3, <2>4, <3>1 DEF Passed
  <2>7. QED BY <1>0, <2>1, <2>2, <2>6, WalkOnKeeps
<1>4. QED BY <1>1, <1>2, <1>3

LEMMA StepResolveKeeps ==
  ASSUME TreeInv, StepResolve
  PROVE  TreeInv'
<1>0. UNCHANGED <<parent, used, home, assigned, runnable, edit, calm, deep>>
  BY DEF StepResolve
<1>1. PICK w : w = walk
  OBVIOUS
<1>2. w = [at |-> "walk", folder |-> w.folder, seen |-> w.seen] /\ Passed(w)
  BY <1>1 DEF TreeInv, Resolver, StepResolve, NoWalk
<1>3. PICK f : f = w.folder
  OBVIOUS
<1>4. walk' = IF f \in w.seen THEN [at |-> "done", policy |-> None]
              ELSE IF Stops(f) THEN Resolved(assigned[f])
              ELSE IF f \notin Stored \/ parent[f] = None
              THEN [at |-> "done", policy |-> None]
              ELSE [at |-> "walk", folder |-> parent[f], seen |-> w.seen \cup {f}]
  BY <1>1, <1>3, Zenon DEF StepResolve, Visited
<1>5. /\ f \in Stored /\ w.seen \in SUBSET Stored /\ assigned["monitor"] = None
      /\ \A g \in w.seen : assigned[g] = None /\ parent[g] \in w.seen \cup {f}
      /\ home \in w.seen \cup {f}
  BY <1>2, <1>3 DEF Passed
<1>6. TreeShapes
  BY DEF TreeInv
<1>7. CASE f \in w.seen
  <2>1. ClosedUp(w.seen)
    BY <1>5, <1>7 DEF ClosedUp
  <2>2. home \in w.seen /\ \A g \in w.seen : assigned[g] = None
    BY <1>5, <1>7
  <2>3. ByContract(None)
    BY <1>5, <1>6, <2>1, <2>2, NothingAbove
  <2>4. walk' = [at |-> "done", policy |-> None]
    BY <1>4, <1>7
  <2>5. QED BY <1>0, <2>3, <2>4, DoneKeeps
<1>8. CASE f \notin w.seen /\ Stops(f)
  <2>1. PICK p : p = loadRunnablePolicy(assigned[f])
    OBVIOUS
  <2>2. ByContract(p)
    BY <1>2, <1>3, <1>6, <1>8, <2>1, FoundAbove DEF Stops
  <2>3. walk' = [at |-> "done", policy |-> p]
    BY <1>4, <1>8, <2>1 DEF Resolved
  <2>4. QED BY <1>0, <2>2, <2>3, DoneKeeps
<1>9. CASE f \notin w.seen /\ ~ Stops(f) /\ parent[f] = None
  <2>1. PICK C : C = w.seen \cup {f}
    OBVIOUS
  <2>2. ClosedUp(C) /\ home \in C /\ \A g \in C : assigned[g] = None
    BY <1>5, <1>9, <2>1 DEF ClosedUp, Stops
  <2>3. ByContract(None)
    BY <1>5, <1>6, <2>2, NothingAbove
  <2>4. walk' = [at |-> "done", policy |-> None]
    BY <1>4, <1>9
  <2>5. QED BY <1>0, <2>3, <2>4, DoneKeeps
<1>10. CASE f \notin w.seen /\ ~ Stops(f) /\ parent[f] # None
  <2>1. PICK v : v = [at |-> "walk", folder |-> parent[f], seen |-> w.seen \cup {f}]
    OBVIOUS
  <2>2. walk' = v /\ v.folder = parent[f] /\ v.seen = w.seen \cup {f}
    BY <1>2, <1>4, <1>5, <1>10, <2>1
  <2>3. parent[f] \in Stored
    BY <1>5, <1>6, <1>10 DEF TreeShapes, TreeTypeOK
  <2>4. PICK k : k = Cardinality(w.seen)
    OBVIOUS
  <2>5. k \in Nat /\ Cardinality(v.seen) = k + 1
    <3>1. w.seen \in SUBSET TreeFolders
      BY <1>5, <1>6 DEF TreeShapes, TreeTypeOK
    <3>2. IsFiniteSet(w.seen)
      BY <3>1, TreeAssumption, FS_Subset
    <3>3. QED BY <2>2, <2>4, <3>2, <1>10, FS_AddElement, FS_CardinalityType
  <2>6. PICK q \in ChainsUp(k) : q[k] = f /\ \A i \in 0..(k - 1) : q[i] \in w.seen
    BY <1>2, <1>3, <2>4, Zenon DEF Passed
  <2>7. PICK r : r = [i \in 0..(k + 1) |-> IF i = k + 1 THEN parent[f] ELSE q[i]]
    OBVIOUS
  <2>8. r[k + 1] = parent[f] /\ \A i \in 0..k : r[i] = q[i]
    BY <2>5, <2>7
  <2>9. r \in ChainsUp(k + 1)
    <3>1. q \in [0..k -> Stored] /\ q[0] = home /\ \A i \in 0..(k - 1) : q[i + 1] = parent[q[i]]
      BY <2>6 DEF ChainsUp
    <3>2. r \in [0..(k + 1) -> Stored]
      BY <2>3, <2>5, <2>7, <3>1
    <3>3. r[0] = home
      BY <2>5, <2>8, <3>1
    <3>4. ASSUME NEW i \in 0..k PROVE r[i + 1] = parent[r[i]]
      <4>1. CASE i = k
        BY <4>1, <2>5, <2>6, <2>8
      <4>2. CASE i # k
        <5>1. i \in 0..(k - 1) /\ i + 1 \in 0..k
          BY <4>2, <2>5
        <5>2. QED BY <5>1, <2>8, <3>1
      <4>3. QED BY <4>1, <4>2
    <3>5. (k + 1) - 1 = k
      BY <2>5
    <3>6. QED BY <3>2, <3>3, <3>4, <3>5 DEF ChainsUp
  <2>10. \A i \in 0..((k + 1) - 1) : r[i] \in v.seen
    <3>1. ASSUME NEW i \in 0..k PROVE r[i] \in w.seen \cup {f}
      <4>1. CASE i = k
        BY <4>1, <2>6, <2>8
      <4>2. CASE i # k
        <5>1. i \in 0..(k - 1)
          BY <4>2, <2>5
        <5>2. QED BY <5>1, <2>6, <2>8
      <4>3. QED BY <4>1, <4>2
    <3>2. QED BY <3>1, <2>2, <2>5
  <2>11. Passed(v)
    <3>1. \A g \in v.seen : assigned[g] = None /\ parent[g] \in v.seen \cup {v.folder}
      BY <1>5, <1>10, <2>2 DEF Stops
    <3>2. home \in v.seen \cup {v.folder} /\ v.seen \in SUBSET Stored
      BY <1>5, <2>2
    <3>3. QED BY <3>1, <3>2, <1>5, <2>2, <2>3, <2>5, <2>8, <2>9, <2>10 DEF Passed
  <2>12. v = [at |-> "walk", folder |-> v.folder, seen |-> v.seen]
    BY <2>1
  <2>13. QED BY <1>0, <2>2, <2>11, <2>12, WalkOnKeeps
<1>11. QED BY <1>7, <1>8, <1>9, <1>10

LEMMA UseResolvedKeeps ==
  ASSUME TreeInv, UseResolved
  PROVE  TreeInv'
<1>1. Resolver'
  BY DEF UseResolved, Resolver, NoWalk
<1>2. QED BY <1>1, ResolveFrame DEF UseResolved, TreeInv

\* A step that changes nothing.
LEMMA TreeStutters ==
  ASSUME TreeInv, UNCHANGED treeVars
  PROVE  TreeInv'
<1>0. UNCHANGED <<parent, used, home, assigned, runnable, edit, calm, deep>> /\ walk' = walk
  BY DEF treeVars
<1>1. CASE walk = NoWalk
  <2>1. Resolver'
    BY <1>0, <1>1 DEF Resolver, NoWalk
  <2>2. QED BY <1>0, <2>1, ResolveFrame DEF TreeInv
<1>2. CASE walk = [at |-> "walk", folder |-> walk.folder, seen |-> walk.seen] /\ Passed(walk)
  <2>1. PICK w : w = walk
    OBVIOUS
  <2>2. QED BY <1>0, <1>2, <2>1, WalkOnKeeps
<1>3. CASE walk = [at |-> "done", policy |-> walk.policy] /\ ByContract(walk.policy)
  <2>1. PICK p : p = walk.policy
    OBVIOUS
  <2>2. walk' = [at |-> "done", policy |-> p] /\ ByContract(p)
    BY <1>0, <1>3, <2>1
  <2>3. QED BY <1>0, <2>2, DoneKeeps
<1>4. QED BY <1>1, <1>2, <1>3 DEF TreeInv, Resolver

LEMMA TreeStep ==
  ASSUME TreeInv, [TreeNext]_treeVars
  PROVE  TreeInv'
<1>1. CASE walk = NoWalk /\ Editing
  <2>1. ASSUME NEW f \in TreeFolders, Create(f) PROVE TreeInv'
    BY <1>1, <2>1, CreateKeeps
  <2>2. ASSUME NEW f \in TreeFolders, Delete(f) PROVE TreeInv'
    BY <1>1, <2>2, DeleteKeeps
  <2>3. ASSUME NEW e \in Editors, NEW f \in TreeFolders, NEW p \in TreeFolders \cup {None},
               BeginUpdate(e, f, p)
        PROVE  TreeInv'
    BY <1>1, <2>3, BeginUpdateKeeps
  <2>4. ASSUME NEW e \in Editors, WalkParent(e) PROVE TreeInv'
    BY <1>1, <2>4, WalkParentKeeps
  <2>5. ASSUME NEW e \in Editors, WriteParent(e) PROVE TreeInv'
    BY <1>1, <2>5, WriteParentKeeps
  <2>6. QED BY <1>1, <2>1, <2>2, <2>3, <2>4, <2>5 DEF Editing
<1>2. CASE Resolving
  BY <1>2, StartResolveKeeps, StepResolveKeeps, UseResolvedKeeps DEF Resolving
<1>3. CASE UNCHANGED treeVars
  BY <1>3, TreeStutters
<1>4. QED BY <1>1, <1>2, <1>3 DEF TreeNext

LEMMA TreeInvariant == TreeSpec => []TreeInv
<1>1. EditInit \/ ChainInit => TreeInv
  BY TreeInitInv
<1>2. TreeInv /\ [TreeNext]_treeVars => TreeInv'
  BY TreeStep
<1>3. QED BY <1>1, <1>2, PTL DEF TreeSpec

\* The policy a monitor inherits is the one of the precedence contract on
\* every tree the table can hold, cycles included, for any folders and
\* policies (EscalationService.ResolvePolicy).
THEOREM PolicyByContract == TreeSpec => []ResolvesByContract
<1>1. TreeInv => ResolvesByContract
  BY DEF TreeInv, Resolver, NoWalk, ResolvesByContract
<1>2. QED BY <1>1, TreeInvariant, PTL

\* Besides, requests that do not overlap leave no folder its own ancestor,
\* for any number of folders and requests and any limit on the walk
\* (MonitorGroupService.validateParent).  The only accepted move that may
\* close a cycle is one whose walk used up its maxGroupWalkDepth turns with
\* folders left above it.
THEOREM TreeSound == TreeSpec => []TreeIsSound
<1>1. TreeInv => TreeIsSound
  <2>1. SUFFICES ASSUME TreeInv PROVE TreeIsSound
    OBVIOUS
  <2>2. calm /\ ~deep => Acyclic
    BY <2>1 DEF TreeInv, CalmEdits
  <2>3. walk.at = "done" => ByContract(walk.policy)
    BY <2>1 DEF TreeInv, Resolver, NoWalk
  <2>4. QED BY <2>2, <2>3 DEF TreeIsSound, ResolvesByContract
<1>2. QED BY <1>1, TreeInvariant, PTL
=============================================================================
