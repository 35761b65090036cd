----------------------- MODULE ChangeProjectionProofs -----------------------
(***************************************************************************)
(* Proofs about ChangeProjection, for any set of callers, any requests and *)
(* any length of the audit trail: the transaction implements the atomic    *)
(* MutationLog, and its safety properties.                                 *)
(***************************************************************************)
EXTENDS ChangeProjection, SequenceTheorems, WellFoundedInduction, TLAPS

-----------------------------------------------------------------------------
\* find() on the audit trail returns an entry when there is one: the first.
LEMMA FirstExists ==
    ASSUME NEW n \in Nat, NEW T \in SUBSET (1 .. n), T # {}
    PROVE  First(T) \in T /\ \A j \in T : First(T) <= j
  <1>1. \E x \in T : \A y \in T : ~(<<y, x>> \in OpToRel(<, Nat))
    <2>1. T \subseteq Nat
      OBVIOUS
    <2> QED
      BY <2>1, NatLessThanWellFounded, WFMin, Zenon
  <1>2. PICK x \in T : \A y \in T : ~(<<y, x>> \in OpToRel(<, Nat))
    BY <1>1
  <1>3. \A y \in T : x <= y
    <2> SUFFICES ASSUME NEW y \in T, ~(x <= y) PROVE FALSE
      OBVIOUS
    <2>1. x \in Nat /\ y \in Nat /\ y < x
      OBVIOUS
    <2>2. <<y, x>> \in OpToRel(<, Nat)
      BY <2>1 DEF OpToRel
    <2> QED
      BY <2>2, <1>2
  <1> QED
    BY <1>2, <1>3 DEF First

\* The bounded audit trail is the tail of what it is given.
LEMMA LastEntriesProperties ==
    ASSUME NEW S, NEW s \in Seq(S)
    PROVE  /\ LastEntries(s) \in Seq(S)
           /\ Len(LastEntries(s)) = IF Len(s) > MaxAudit THEN MaxAudit ELSE Len(s)
           /\ \A i \in 1 .. Len(LastEntries(s)) :
                 LastEntries(s)[i] = s[Len(s) - Len(LastEntries(s)) + i]
  <1> USE MaxAuditAssumption
  <1>0. Len(s) \in Nat
    BY LenProperties
  <1>1. CASE Len(s) > MaxAudit
    <2> DEFINE m == Len(s) - MaxAudit + 1
    <2>1. m \in 1 .. Len(s) + 1 /\ Len(s) \in m - 1 .. Len(s)
      BY <1>0, <1>1
    <2>2. /\ SubSeq(s, m, Len(s)) \in Seq(S)
          /\ Len(SubSeq(s, m, Len(s))) = MaxAudit
          /\ \A i \in 1 .. MaxAudit : SubSeq(s, m, Len(s))[i] = s[m + i - 1]
      BY <1>0, <1>1, <2>1, SubSeqProperties
    <2>3. LastEntries(s) = SubSeq(s, m, Len(s))
      BY <1>1 DEF LastEntries
    <2>4. \A i \in 1 .. MaxAudit : m + i - 1 = Len(s) - MaxAudit + i
      BY <1>0
    <2> QED
      BY <1>1, <2>2, <2>3, <2>4
  <1>2. CASE ~(Len(s) > MaxAudit)
    BY <1>0, <1>2 DEF LastEntries
  <1> QED
    BY <1>1, <1>2

-----------------------------------------------------------------------------
(***************************************************************************)
(* What is true of every document on disk.  The audit trail mirrors the    *)
(* end of the log, and the stored state revision bounds every projected    *)
(* one: with these the fences, which look at the trail and at the stored   *)
(* numbers, decide about the log.                                          *)
(***************************************************************************)
TrailLength(n) == IF n > MaxAudit THEN MaxAudit ELSE n

TrailMirrorsLog(d) ==
    /\ Len(d.commits) = TrailLength(Len(d.log))
    /\ \A i \in 1 .. Len(d.commits) :
          d.commits[i] = Audit(d.log[Len(d.log) - Len(d.commits) + i])

StateBound(d) == \A i \in 1 .. Len(d.log) : d.log[i].state <= d.stateRev

OncePerOp(d) ==
    \A i, j \in 1 .. Len(d.log) :
        i < j /\ d.log[i].op = d.log[j].op /\ d.log[i].op # NoOp => j - i > MaxAudit

OrderedStates(d) ==
    \A i, j \in 1 .. Len(d.log) :
        i < j /\ d.log[j].state # Undefined
        => /\ d.log[i].state <= d.log[j].state
           /\ d.log[i].state = d.log[j].state /\ d.log[j].op # NoOp => j - i > MaxAudit

GoodDoc(d) ==
    /\ d.present
    /\ d.rev = Len(d.log)
    /\ TrailMirrorsLog(d)
    /\ StateBound(d)
    /\ OncePerOp(d)
    /\ OrderedStates(d)

\* A position of the log that the audit trail covers has its entry there.
LEMMA Covered ==
    ASSUME NEW d \in Doc, TrailMirrorsLog(d),
           NEW i \in 1 .. Len(d.log), i > Len(d.log) - MaxAudit
    PROVE  \E k \in 1 .. Len(d.commits) : d.commits[k] = Audit(d.log[i])
  <1> DEFINE n == Len(d.log)
             m == Len(d.commits)
  <1>1. n \in Nat /\ m \in Nat /\ MaxAudit \in Nat
    BY LenProperties, MaxAuditAssumption DEF Doc
  <1>2. m = IF n > MaxAudit THEN MaxAudit ELSE n
    BY DEF TrailMirrorsLog, TrailLength
  <1>3. i \in 1 .. n /\ i > n - MaxAudit
    OBVIOUS
  <1>4. \A j \in 1 .. m : d.commits[j] = Audit(d.log[n - m + j])
    BY DEF TrailMirrorsLog
  <1>5. SUFFICES \E k \in 1 .. m : n - m + k = i
    BY <1>4
  <1> HIDE DEF n, m
  <1>6. i - (n - m) \in 1 .. m /\ n - m + (i - (n - m)) = i
    BY <1>1, <1>2, <1>3
  <1> QED
    BY <1>6

\* A request the fences let through.
Passes(d, r) ==
    /\ ~Replayed(d, r)
    /\ ~StaleRevision(d, r)
    /\ ~StateRegression(d, r)
    /\ ~StateConflict(d, r)
    /\ ~Wipes(d, r)

\* Only a request that passed every fence is written.
LEMMA VerdictWrite ==
    ASSUME NEW d, NEW r, Verdict(d, r) = "write"
    PROVE  Passes(d, r)
  BY DEF Verdict, Passes

\* What the fences have established about the log when a request is let through.
LEMMA FencesHold ==
    ASSUME NEW d \in Doc, GoodDoc(d), NEW r \in Requests, Passes(d, r)
    PROVE  /\ r.op # NoOp =>
                 \A i \in 1 .. Len(d.log) : i > Len(d.log) - MaxAudit => d.log[i].op # r.op
           /\ r.expected # Undefined => r.expected = Len(d.log)
           /\ r.state # Undefined => \A i \in 1 .. Len(d.log) : d.log[i].state <= r.state
           /\ r.state # Undefined /\ r.op # NoOp =>
                 \A i \in 1 .. Len(d.log) :
                    i > Len(d.log) - MaxAudit => d.log[i].state # r.state
  <1>0. /\ Len(d.log) \in Nat /\ Len(d.commits) \in Nat
        /\ \A i \in 1 .. Len(d.log) : d.log[i] \in Request
        /\ r \in Request
    BY LenProperties, ElementOfSeq, RequestsAssumption DEF Doc
  <1>1. ASSUME r.op # NoOp, NEW i \in 1 .. Len(d.log), i > Len(d.log) - MaxAudit,
               d.log[i].op = r.op
        PROVE  FALSE
    <2>1. PICK k \in 1 .. Len(d.commits) : d.commits[k] = Audit(d.log[i])
      BY <1>1, Covered DEF GoodDoc
    <2>2. k \in OpEntries(d, r)
      BY <1>1, <2>1 DEF OpEntries, Audit
    <2> QED
      BY <1>1, <2>2 DEF Passes, Replayed
  <1>2. r.expected # Undefined => r.expected = Len(d.log)
    BY DEF Passes, StaleRevision, GoodDoc
  <1>3. ASSUME r.state # Undefined, NEW i \in 1 .. Len(d.log)
        PROVE  d.log[i].state <= r.state
    <2>1. d.stateRev <= r.state
      BY <1>0, <1>3 DEF Passes, StateRegression, Doc, Request, Undefined
    <2>2. d.log[i].state <= d.stateRev
      BY DEF GoodDoc, StateBound
    <2>3. d.log[i].state \in Int /\ d.stateRev \in Int /\ r.state \in Int
      BY <1>0 DEF Doc, Request, Undefined
    <2> QED
      BY <2>1, <2>2, <2>3
  <1>4. ASSUME r.state # Undefined, r.op # NoOp, NEW i \in 1 .. Len(d.log),
               i > Len(d.log) - MaxAudit, d.log[i].state = r.state
        PROVE  FALSE
    <2>1. r.state = d.stateRev
      <3>1. d.log[i].state <= d.stateRev
        BY DEF GoodDoc, StateBound
      <3>2. ~(r.state < d.stateRev)
        BY <1>4 DEF Passes, StateRegression
      <3>3. d.stateRev \in Int /\ r.state \in Int
        BY <1>0 DEF Doc, Request, Undefined
      <3> QED
        BY <1>4, <3>1, <3>2, <3>3
    <2>2. PICK k \in 1 .. Len(d.commits) : d.commits[k] = Audit(d.log[i])
      BY <1>4, Covered DEF GoodDoc
    <2>3. k \in StateEntries(d, r)
      BY <1>4, <2>2 DEF StateEntries, Audit
    <2>4. StateEntries(d, r) \in SUBSET (1 .. Len(d.commits))
      BY DEF StateEntries
    <2>5. First(StateEntries(d, r)) \in StateEntries(d, r)
      BY <1>0, <2>3, <2>4, FirstExists
    <2>6. d.commits[First(StateEntries(d, r))].op = r.op
      BY <1>4, <2>1, <2>3 DEF Passes, StateConflict
    <2>7. First(StateEntries(d, r)) \in OpEntries(d, r)
      BY <2>4, <2>5, <2>6 DEF OpEntries
    <2> QED
      BY <1>4, <2>7 DEF Passes, Replayed
  <1> QED
    BY <1>1, <1>2, <1>3, <1>4
-----------------------------------------------------------------------------
\* The document a let-through request writes, field by field.
LEMMA NewValueFields ==
    ASSUME NEW d \in Doc, NEW r \in Requests
    PROVE  /\ NewValue(d, r) \in Doc
           /\ NewValue(d, r).present = d.present
           /\ NewValue(d, r).schema = "current"
           /\ NewValue(d, r).rev = d.rev + 1
           /\ NewValue(d, r).stateRev = IF r.state # Undefined THEN r.state ELSE d.stateRev
           /\ NewValue(d, r).commits = LastEntries(Append(d.commits, Audit(r)))
           /\ NewValue(d, r).coll = Mutated(d, r)
           /\ NewValue(d, r).log = Append(d.log, r)
  <1>1. r \in Request
    BY RequestsAssumption
  <1>2. Audit(r) \in AuditEntry
    BY <1>1 DEF Audit, AuditEntry, Request
  <1>3. d.commits \in Seq(AuditEntry) /\ d.log \in Seq(Requests)
    BY DEF Doc
  <1>4. Append(d.commits, Audit(r)) \in Seq(AuditEntry) /\ Append(d.log, r) \in Seq(Requests)
    BY <1>2, <1>3, AppendProperties
  <1>5. LastEntries(Append(d.commits, Audit(r))) \in Seq(AuditEntry)
    BY <1>4, LastEntriesProperties
  <1>6. Mutated(d, r) \in [Fields -> Nat]
    <2>1. d.coll \in [Fields -> Nat] /\ r.effect \in [Fields -> Effects]
      BY <1>1 DEF Doc, Request
    <2>2. ASSUME NEW f \in Fields
          PROVE  (CASE r.effect[f] = "keep"   -> d.coll[f]
                    [] r.effect[f] = "grow"   -> d.coll[f] + 1
                    [] r.effect[f] = "shrink" -> IF d.coll[f] = 0 THEN 0 ELSE d.coll[f] - 1
                    [] r.effect[f] = "clear"  -> 0) \in Nat
      <3>1. d.coll[f] \in Nat /\ r.effect[f] \in {"keep", "grow", "shrink", "clear"}
        BY <2>1 DEF Effects
      <3> QED
        BY <3>1
    <2> QED
      BY <2>2 DEF Mutated
  <1>7. (IF r.state # Undefined THEN r.state ELSE d.stateRev) \in Nat
    BY <1>1 DEF Request, Doc
  <1>8. d.rev + 1 \in Nat
    BY DEF Doc
  <1> QED
    BY <1>4, <1>5, <1>6, <1>7, <1>8 DEF NewValue, Doc

\* The positions of an appended log.
LEMMA AppendedLog ==
    ASSUME NEW d \in Doc, NEW r \in Requests
    PROVE  /\ Len(d.log) \in Nat
           /\ Len(Append(d.log, r)) = Len(d.log) + 1
           /\ Append(d.log, r)[Len(d.log) + 1] = r
           /\ \A i \in 1 .. Len(d.log) : Append(d.log, r)[i] = d.log[i]
  BY LenProperties, AppendProperties DEF Doc

\* The new audit trail mirrors the new log.
LEMMA NewTrail ==
    ASSUME NEW d \in Doc, NEW r \in Requests, TrailMirrorsLog(d)
    PROVE  TrailMirrorsLog(NewValue(d, r))
  <1> DEFINE n == Len(d.log)
             m == Len(d.commits)
             c2 == Append(d.commits, Audit(r))
             l2 == Append(d.log, r)
             c3 == LastEntries(c2)
             q == Len(c3)
  <1>1. /\ d.commits \in Seq(AuditEntry) /\ Audit(r) \in AuditEntry
        /\ n \in Nat /\ m \in Nat /\ MaxAudit \in Nat /\ MaxAudit > 0
    BY LenProperties, MaxAuditAssumption, RequestsAssumption
       DEF Doc, Audit, AuditEntry, Request
  <1>2. /\ c2 \in Seq(AuditEntry) /\ Len(c2) = m + 1
        /\ c2[m + 1] = Audit(r)
        /\ \A j \in 1 .. m : c2[j] = d.commits[j]
    BY <1>1, AppendProperties
  <1>3. /\ Len(l2) = n + 1
        /\ l2[n + 1] = r
        /\ \A j \in 1 .. n : l2[j] = d.log[j]
    BY AppendedLog
  <1>4. m = IF n > MaxAudit THEN MaxAudit ELSE n
    BY DEF TrailMirrorsLog, TrailLength
  <1>5. \A j \in 1 .. m : d.commits[j] = Audit(d.log[n - m + j])
    BY DEF TrailMirrorsLog
  <1>6. /\ q = IF m + 1 > MaxAudit THEN MaxAudit ELSE m + 1
        /\ \A i \in 1 .. q : c3[i] = c2[m + 1 - q + i]
    <2> HIDE DEF c2, m
    <2>1. /\ q = IF Len(c2) > MaxAudit THEN MaxAudit ELSE Len(c2)
          /\ \A i \in 1 .. q : c3[i] = c2[Len(c2) - q + i]
      BY <1>2, LastEntriesProperties, Zenon
    <2>2. Len(c2) = m + 1 /\ m \in Nat /\ MaxAudit \in Nat
      BY <1>1, <1>2
    <2> HIDE DEF c3, q
    <2>3. q = IF m + 1 > MaxAudit THEN MaxAudit ELSE m + 1
      BY <2>1, <2>2
    <2>4. ASSUME NEW i \in 1 .. q PROVE c3[i] = c2[m + 1 - q + i]
      <3>1. Len(c2) - q + i = m + 1 - q + i
        BY <2>2, <2>3
      <3> QED
        BY <2>1, <3>1, Zenon
    <2> QED
      BY <2>3, <2>4
  <1>7. NewValue(d, r).log = l2 /\ NewValue(d, r).commits = c3
    BY NewValueFields
  <1>8. SUFFICES /\ q = IF n + 1 > MaxAudit THEN MaxAudit ELSE n + 1
                 /\ \A i \in 1 .. q : c3[i] = Audit(l2[n + 1 - q + i])
    <2> DEFINE w == NewValue(d, r)
    <2>1. w.log = l2 /\ w.commits = c3 /\ Len(l2) = n + 1 /\ Len(c3) = q
      BY <1>3, <1>7
    <2>2. SUFFICES TrailMirrorsLog(w)
      OBVIOUS
    <2> HIDE DEF n, c2, l2, c3, q, w
    <2>3. Len(w.commits) = TrailLength(Len(w.log))
      BY <1>8, <2>1 DEF TrailLength
    <2>4. ASSUME NEW i \in 1 .. Len(w.commits)
          PROVE  w.commits[i] = Audit(w.log[Len(w.log) - Len(w.commits) + i])
      <3>1. i \in 1 .. q
        BY <2>1
      <3>2. c3[i] = Audit(l2[n + 1 - q + i])
        BY <1>8, <3>1, Zenon
      <3>3. n \in Nat /\ q \in Nat
        BY <1>1, <1>6
      <3>4. Len(w.log) - Len(w.commits) + i = n + 1 - q + i
        BY <2>1, <3>3
      <3> QED
        BY <2>1, <3>2, <3>4, Zenon
    <2> QED
      BY <2>3, <2>4 DEF TrailMirrorsLog
  <1> HIDE DEF n, m, c2, l2, c3, q
  <1>9. q = IF n + 1 > MaxAudit THEN MaxAudit ELSE n + 1
    BY <1>1, <1>4, <1>6
  <1>10. ASSUME NEW j \in 1 .. m + 1 PROVE c2[j] = Audit(l2[n - m + j])
    <2>1. CASE j \in 1 .. m
      <3>1. n - m + j \in 1 .. n
        BY <1>1, <1>4, <2>1
      <3> QED
        BY <1>2, <1>3, <1>5, <2>1, <3>1
    <2>2. CASE j = m + 1
      <3>1. n - m + j = n + 1
        BY <1>1, <2>2
      <3> QED
        BY <1>2, <1>3, <2>2, <3>1
    <2> QED
      BY <1>1, <2>1, <2>2
  <1>11. ASSUME NEW i \in 1 .. q PROVE c3[i] = Audit(l2[n + 1 - q + i])
    <2>1. m + 1 - q + i \in 1 .. m + 1 /\ n - m + (m + 1 - q + i) = n + 1 - q + i
      BY <1>1, <1>4, <1>6
    <2>2. c2[m + 1 - q + i] = Audit(l2[n - m + (m + 1 - q + i)])
      BY <1>10, <2>1
    <2> QED
      BY <1>6, <2>1, <2>2
  <1> QED
    BY <1>9, <1>11

\* A let-through request leads from a good document to a good document.
LEMMA NewValueGood ==
    ASSUME NEW d \in Doc, GoodDoc(d), NEW r \in Requests, Passes(d, r)
    PROVE  NewValue(d, r) \in Doc /\ GoodDoc(NewValue(d, r))
  <1> DEFINE n == Len(d.log)
             v == NewValue(d, r)
  <1>1. /\ v \in Doc /\ v.present = d.present /\ v.rev = d.rev + 1
        /\ v.stateRev = IF r.state # Undefined THEN r.state ELSE d.stateRev
        /\ v.log = Append(d.log, r)
    BY NewValueFields
  <1>2. /\ n \in Nat /\ Len(v.log) = n + 1 /\ v.log[n + 1] = r
        /\ \A i \in 1 .. n : v.log[i] = d.log[i]
    <2> HIDE DEF v
    <2> QED
      BY <1>1, AppendedLog
  <1>3. /\ r.state \in Int /\ d.stateRev \in Nat /\ MaxAudit \in Nat
        /\ \A i \in 1 .. n : d.log[i].state \in Int
    <2>1. \A i \in 1 .. n : d.log[i] \in Requests
      BY ElementOfSeq DEF Doc
    <2> QED
      BY <2>1, RequestsAssumption, MaxAuditAssumption DEF Doc, Request, Undefined
  <1>4. TrailMirrorsLog(v)
    BY NewTrail DEF GoodDoc
  <1>5. /\ d.present /\ d.rev = n
        /\ \A i \in 1 .. n : d.log[i].state <= d.stateRev
        /\ \A i, j \in 1 .. n :
              i < j /\ d.log[i].op = d.log[j].op /\ d.log[i].op # NoOp => j - i > MaxAudit
        /\ \A i, j \in 1 .. n :
              i < j /\ d.log[j].state # Undefined
              => /\ d.log[i].state <= d.log[j].state
                 /\ d.log[i].state = d.log[j].state /\ d.log[j].op # NoOp
                    => j - i > MaxAudit
    BY DEF GoodDoc, StateBound, OncePerOp, OrderedStates
  <1>6. /\ r.op # NoOp => \A i \in 1 .. n : i > n - MaxAudit => d.log[i].op # r.op
        /\ r.state # Undefined => \A i \in 1 .. n : d.log[i].state <= r.state
        /\ r.state # Undefined /\ r.op # NoOp =>
              \A i \in 1 .. n : i > n - MaxAudit => d.log[i].state # r.state
    BY FencesHold
  <1> HIDE DEF n, v
  <1>7. StateBound(v)
    <2> SUFFICES ASSUME NEW i \in 1 .. n + 1 PROVE v.log[i].state <= v.stateRev
      BY <1>2 DEF StateBound
    <2>1. CASE i \in 1 .. n
      BY <1>1, <1>2, <1>3, <1>5, <1>6, <2>1
    <2>2. CASE i = n + 1
      BY <1>1, <1>2, <1>3, <2>2 DEF Undefined
    <2> QED
      BY <1>2, <2>1, <2>2
  <1>8. OncePerOp(v)
    <2> SUFFICES ASSUME NEW i \in 1 .. n + 1, NEW j \in 1 .. n + 1,
                        i < j, v.log[i].op = v.log[j].op, v.log[i].op # NoOp
                 PROVE  j - i > MaxAudit
      BY <1>2 DEF OncePerOp
    <2>1. i \in 1 .. n /\ v.log[i] = d.log[i]
      BY <1>2
    <2>2. CASE j \in 1 .. n
      <3>1. v.log[j] = d.log[j]
        BY <1>2, <2>2
      <3> QED
        BY <1>5, <2>1, <2>2, <3>1
    <2>3. CASE j = n + 1
      <3>1. d.log[i].op = r.op /\ r.op # NoOp
        BY <1>2, <2>1, <2>3
      <3>2. ~(i > n - MaxAudit)
        BY <1>6, <2>1, <3>1
      <3> QED
        BY <1>2, <1>3, <2>3, <3>2
    <2> QED
      BY <1>2, <2>2, <2>3
  <1>9. OrderedStates(v)
    <2> SUFFICES ASSUME NEW i \in 1 .. n + 1, NEW j \in 1 .. n + 1,
                        i < j, v.log[j].state # Undefined
                 PROVE  /\ v.log[i].state <= v.log[j].state
                        /\ v.log[i].state = v.log[j].state /\ v.log[j].op # NoOp
                           => j - i > MaxAudit
      BY <1>2 DEF OrderedStates
    <2>1. i \in 1 .. n /\ v.log[i] = d.log[i]
      BY <1>2
    <2>2. CASE j \in 1 .. n
      <3>1. v.log[j] = d.log[j]
        BY <1>2, <2>2
      <3> QED
        BY <1>5, <2>1, <2>2, <3>1
    <2>3. CASE j = n + 1
      <3>1. v.log[j] = r /\ r.state # Undefined
        BY <1>2, <2>3
      <3>2. d.log[i].state <= r.state
        BY <1>6, <2>1, <3>1
      <3>3. ASSUME d.log[i].state = r.state, r.op # NoOp PROVE ~(i > n - MaxAudit)
        BY <1>6, <2>1, <3>1, <3>3
      <3> QED
        BY <1>2, <1>3, <2>1, <2>3, <3>1, <3>2, <3>3
    <2> QED
      BY <1>2, <2>2, <2>3
  <1>10. GoodDoc(v)
    BY <1>1, <1>2, <1>4, <1>5, <1>7, <1>8, <1>9 DEF GoodDoc
  <1> QED
    BY <1>1, <1>10 DEF v

-----------------------------------------------------------------------------
(***************************************************************************)
(* The inductive invariant.  A call between its lock and its release is    *)
(* the only one there; what it is about to write was derived from the      *)
(* document still on disk, by fences that still hold of it; and once it    *)
(* has written, its mutation is the last of the log.                       *)
(***************************************************************************)
Locked == {"load", "write", "readback", "after", "release"}

Placed(c) ==
    /\ pc[c] \in Locked => lock = c
    /\ pc[c] \in {"readback", "after"} => wrote[c]
    /\ pc[c] \in {"idle", "acquire", "load", "write"} => ~wrote[c] /\ outcome[c] = "none"

Phase(c) ==
    /\ Placed(c)
    /\ pc[c] = "write" => Passes(disk, req[c]) /\ value[c] = NewValue(disk, req[c])
    /\ pc[c] \in {"readback", "after"} =>
          Len(disk.log) > 0 /\ disk.log[Len(disk.log)] = req[c]

TxInv ==
    /\ TypeOK
    /\ GoodDoc(disk)
    /\ \A c \in Clients : Phase(c)
    /\ AckedSurvives
    /\ OutcomesAreTruthful

\* A change without mutations is a good document.
LEMMA NewDocGood ==
    ASSUME NEW t \in {"current", "legacy"}
    PROVE  NewDoc(t) \in Doc /\ GoodDoc(NewDoc(t)) /\ NewDoc(t).log = <<>>
  <1>1. /\ NewDoc(t).present /\ NewDoc(t).rev = 0 /\ NewDoc(t).stateRev = 0
        /\ NewDoc(t).log = <<>> /\ NewDoc(t).commits = <<>>
    BY DEF NewDoc
  <1>2. NewDoc(t) \in Doc
    BY DEF NewDoc, Doc
  <1>3. Len(<<>>) = 0
    OBVIOUS
  <1>4. TrailLength(0) = 0
    BY MaxAuditAssumption DEF TrailLength
  <1>5. TrailMirrorsLog(NewDoc(t))
    BY <1>1, <1>3, <1>4 DEF TrailMirrorsLog
  <1>6. StateBound(NewDoc(t)) /\ OncePerOp(NewDoc(t)) /\ OrderedStates(NewDoc(t))
    BY <1>1, <1>3 DEF StateBound, OncePerOp, OrderedStates
  <1> QED
    BY <1>1, <1>2, <1>3, <1>5, <1>6 DEF GoodDoc

\* The invariant holds initially ...
LEMMA InitTxInv == Init => TxInv
  <1> SUFFICES ASSUME Init PROVE TxInv
    OBVIOUS
  <1>1. disk \in Doc /\ GoodDoc(disk) /\ Blank \in Doc
    BY NewDocGood DEF Init, Blank
  <1>2. TypeOK
    BY <1>1 DEF Init, TypeOK, PC, Outcomes
  <1>3. ASSUME NEW c \in Clients PROVE Phase(c)
    BY DEF Init, Phase, Placed, Locked
  <1>4. AckedSurvives
    BY DEF Init, AckedSurvives
  <1>5. OutcomesAreTruthful
    BY DEF Init, OutcomesAreTruthful
  <1> QED
    BY <1>1, <1>2, <1>3, <1>4, <1>5 DEF TxInv

\* A replay that matches its audit entry is of a mutation in the log.
LEMMA ReplayIsInLog ==
    ASSUME NEW d \in Doc, TrailMirrorsLog(d), NEW r \in Requests,
           Replayed(d, r), ReplayMatches(d, r)
    PROVE  \E i \in 1 .. Len(d.log) : Audit(d.log[i]) = Audit(r)
  <1> DEFINE k == First(OpEntries(d, r))
             n == Len(d.log)
             m == Len(d.commits)
  <1>1. n \in Nat /\ m \in Nat /\ MaxAudit \in Nat
    BY LenProperties, MaxAuditAssumption DEF Doc
  <1>2. k \in OpEntries(d, r)
    <2>1. OpEntries(d, r) \in SUBSET (1 .. Len(d.commits)) /\ OpEntries(d, r) # {}
      BY DEF OpEntries, Replayed
    <2> QED
      BY <1>1, <2>1, FirstExists
  <1>3. k \in 1 .. m /\ d.commits[k].op = r.op
    BY <1>2 DEF OpEntries
  <1>4. d.commits[k].payload = r.payload /\ d.commits[k].state = r.state
    BY DEF ReplayMatches
  <1>5. d.commits[k] = Audit(d.log[n - m + k])
    BY <1>3 DEF TrailMirrorsLog
  <1>6. m = IF n > MaxAudit THEN MaxAudit ELSE n
    BY DEF TrailMirrorsLog, TrailLength
  <1> HIDE DEF k, n, m
  <1>7. n - m + k \in 1 .. n
    BY <1>1, <1>3, <1>6
  <1>8. Audit(d.log[n - m + k]) = Audit(r)
    BY <1>3, <1>4, <1>5 DEF Audit
  <1> QED
    BY <1>7, <1>8 DEF n

\* What a step may do to the document: nothing, or a write by the lock's holder.
LEMMA WriteStep ==
    ASSUME TxInv, NEW c \in Clients, pc[c] = "write"
    PROVE  /\ lock = c /\ req[c] \in Requests /\ Passes(disk, req[c])
           /\ value[c] = NewValue(disk, req[c])
           /\ value[c] \in Doc /\ GoodDoc(value[c])
           /\ value[c].log = Append(disk.log, req[c])
           /\ Len(disk.log) \in Nat
           /\ Len(value[c].log) = Len(disk.log) + 1
           /\ value[c].log[Len(disk.log) + 1] = req[c]
           /\ \A i \in 1 .. Len(disk.log) : value[c].log[i] = disk.log[i]
           /\ \A e \in Clients \ {c} : pc[e] \notin Locked
  <1>1. Phase(c) /\ disk \in Doc /\ GoodDoc(disk) /\ req[c] \in Requests
    BY DEF TxInv, TypeOK
  <1>2. lock = c /\ Passes(disk, req[c]) /\ value[c] = NewValue(disk, req[c])
    BY <1>1 DEF Phase, Placed, Locked
  <1>3. value[c] \in Doc /\ GoodDoc(value[c])
    BY <1>1, <1>2, NewValueGood
  <1>4. value[c].log = Append(disk.log, req[c])
    BY <1>1, <1>2, NewValueFields
  <1>5. \A e \in Clients \ {c} : pc[e] \notin Locked
    BY <1>2 DEF TxInv, Phase, Placed
  <1> QED
    BY <1>1, <1>2, <1>3, <1>4, <1>5, AppendedLog

\* Every step keeps the types.
LEMMA NextType == TypeOK /\ [Next]_txVars => TypeOK'
  <1> SUFFICES ASSUME TypeOK, [Next]_txVars PROVE TypeOK'
    OBVIOUS
  <1>0. TypeOK
    OBVIOUS
  <1>1. CASE UNCHANGED txVars
    BY <1>0, <1>1 DEF TypeOK, txVars
  <1>2. ASSUME NEW c \in Clients, NEW r \in Requests, Begin(c, r) PROVE TypeOK'
    BY <1>0, <1>2 DEF TypeOK, PC, Begin
  <1>3. ASSUME NEW c \in Clients, Receive(c) \/ Crash(c) PROVE TypeOK'
    <2>1. Blank \in Doc
      BY NewDocGood DEF Blank
    <2>2. EndCall(c) /\ disk' = disk /\ acked' = acked
      BY <1>3 DEF Receive, Crash
    <2>3. lock' \in Clients \union {Free, Orphan}
      BY <1>0, <1>3 DEF TypeOK, Receive, Crash
    <2> QED
      BY <1>0, <2>1, <2>2, <2>3 DEF TypeOK, PC, Outcomes, EndCall
  <1>4. ASSUME NEW c \in Clients, Advance(c) PROVE TypeOK'
    <2> USE <1>0 DEF TypeOK, PC, Outcomes, Finish, Return
    <2>1. CASE Acquire(c)
      BY <2>1 DEF Acquire
    <2>2. CASE ReclaimLock(c)
      BY <2>2 DEF ReclaimLock
    <2>3. CASE LockTimeout(c)
      BY <2>3 DEF LockTimeout
    <2>4. CASE LoadRefused(c)
      BY <2>4 DEF LoadRefused
    <2>5. CASE LoadFails(c)
      BY <2>5 DEF LoadFails
    <2>6. CASE LoadAndDecide(c)
      <3>1. req[c] \in Requests /\ NewValue(disk, req[c]) \in Doc
        BY <2>6, NewValueFields DEF LoadAndDecide
      <3>2. Audit(req[c]) \in AuditEntry
        BY <3>1, RequestsAssumption DEF Audit, AuditEntry, Request
      <3>3. Verdict(disk, req[c]) \in Outcomes \union {"write"}
        BY DEF Verdict
      <3> QED
        BY <2>6, <3>1, <3>2, <3>3 DEF LoadAndDecide
    <2>7. CASE Persist(c)
      BY <2>7 DEF Persist
    <2>8. CASE PersistFails(c)
      BY <2>8 DEF PersistFails
    <2>9. CASE PersistFailsLate(c)
      BY <2>9 DEF PersistFailsLate
    <2>10. CASE ReadbackFails(c)
      BY <2>10 DEF ReadbackFails
    <2>11. CASE Readback(c)
      BY <2>11 DEF Readback
    <2>12. CASE AfterCommit(c)
      <3>1. req[c] \in Requests
        BY <2>12 DEF AfterCommit
      <3>2. Audit(req[c]) \in AuditEntry
        BY <3>1, RequestsAssumption DEF Audit, AuditEntry, Request
      <3> QED
        BY <2>12, <3>2 DEF AfterCommit
    <2>13. CASE AfterCommitFails(c)
      BY <2>13 DEF AfterCommitFails
    <2>14. CASE Release(c)
      BY <2>14 DEF Release
    <2>15. CASE HookThrows(c)
      BY <2>15 DEF HookThrows
    <2> QED
      BY <1>4, <2>1, <2>2, <2>3, <2>4, <2>5, <2>6, <2>7,
         <2>8, <2>9, <2>10, <2>11, <2>12, <2>13, <2>14, <2>15 DEF Advance
  <1> QED
    BY <1>1, <1>2, <1>3, <1>4 DEF Next

\* The steps of one caller.
Step(c) == (\E r \in Requests : Begin(c, r)) \/ Advance(c) \/ Receive(c) \/ Crash(c)

\* A step leaves the other callers' variables, and their lock, alone.
LEMMA StepFrame ==
    ASSUME TypeOK, NEW c \in Clients, Placed(c), Step(c)
    PROVE  /\ \A e \in Clients \ {c} :
                 /\ pc'[e] = pc[e] /\ req'[e] = req[e] /\ value'[e] = value[e]
                 /\ outcome'[e] = outcome[e] /\ wrote'[e] = wrote[e]
                 /\ lock = e => lock' = e
           /\ disk' # disk => pc[c] = "write" /\ disk' = value[c]
  <1> USE DEF Return, Finish, EndCall
  <1>0. TypeOK /\ Placed(c)
    OBVIOUS
  <1>1. ASSUME NEW r \in Requests, Begin(c, r)
        PROVE  /\ \A e \in Clients \ {c} :
                     /\ pc'[e] = pc[e] /\ req'[e] = req[e] /\ value'[e] = value[e]
                     /\ outcome'[e] = outcome[e] /\ wrote'[e] = wrote[e]
                     /\ lock = e => lock' = e
               /\ disk' # disk => pc[c] = "write" /\ disk' = value[c]
    BY <1>0, <1>1 DEF TypeOK, Begin
  <1>2. CASE Receive(c)
    BY <1>0, <1>2 DEF TypeOK, Receive
  <1>3. CASE Crash(c)
    BY <1>0, <1>3 DEF TypeOK, Crash
  <1>4. CASE Acquire(c)
    BY <1>0, <1>4, LockAssumption DEF TypeOK, Acquire
  <1>5. CASE ReclaimLock(c)
    BY <1>0, <1>5, LockAssumption DEF TypeOK, ReclaimLock
  <1>6. CASE LockTimeout(c)
    BY <1>0, <1>6 DEF TypeOK, LockTimeout
  <1>7. CASE LoadRefused(c)
    BY <1>0, <1>7 DEF TypeOK, LoadRefused
  <1>8. CASE LoadFails(c)
    BY <1>0, <1>8 DEF TypeOK, LoadFails
  <1>9. CASE LoadAndDecide(c)
    BY <1>0, <1>9 DEF TypeOK, LoadAndDecide
  <1>10. CASE Persist(c)
    BY <1>0, <1>10 DEF TypeOK, Persist
  <1>11. CASE PersistFails(c)
    BY <1>0, <1>11 DEF TypeOK, PersistFails
  <1>12. CASE PersistFailsLate(c)
    BY <1>0, <1>12 DEF TypeOK, PersistFailsLate
  <1>13. CASE ReadbackFails(c)
    BY <1>0, <1>13 DEF TypeOK, ReadbackFails
  <1>14. CASE Readback(c)
    BY <1>0, <1>14 DEF TypeOK, Readback
  <1>15. CASE AfterCommit(c)
    BY <1>0, <1>15 DEF TypeOK, AfterCommit
  <1>16. CASE AfterCommitFails(c)
    BY <1>0, <1>16 DEF TypeOK, AfterCommitFails
  <1>17. CASE Release(c)
    BY <1>0, <1>17 DEF TypeOK, Release, Placed, Locked
  <1>18. CASE HookThrows(c)
    BY <1>0, <1>18 DEF TypeOK, HookThrows
  <1> QED
    BY <1>1, <1>2, <1>3, <1>4, <1>5, <1>6, <1>7, <1>8, <1>9,
       <1>10, <1>11, <1>12, <1>13, <1>14, <1>15, <1>16, <1>17, <1>18 DEF Step, Advance

\* The caller that steps has the lock, and the mark of its write, that its place asks for.
LEMMA StepPlaced ==
    ASSUME TypeOK, NEW c \in Clients, Placed(c), Step(c)
    PROVE  Placed(c)'
  <1> USE DEF Return, Finish, EndCall
  <1>0. TypeOK /\ Placed(c)
    OBVIOUS
  <1>1. ASSUME NEW r \in Requests, Begin(c, r) PROVE Placed(c)'
    BY <1>0, <1>1 DEF TypeOK, Begin, Placed, Locked
  <1>2. CASE Receive(c)
    BY <1>0, <1>2 DEF TypeOK, Receive, Placed, Locked
  <1>3. CASE Crash(c)
    BY <1>0, <1>3 DEF TypeOK, Crash, Placed, Locked
  <1>4. CASE Acquire(c)
    BY <1>0, <1>4 DEF TypeOK, Acquire, Placed, Locked
  <1>5. CASE ReclaimLock(c)
    BY <1>0, <1>5 DEF TypeOK, ReclaimLock, Placed, Locked
  <1>6. CASE LockTimeout(c)
    BY <1>0, <1>6 DEF TypeOK, LockTimeout, Placed, Locked
  <1>7. CASE LoadRefused(c)
    BY <1>0, <1>7 DEF TypeOK, LoadRefused, Placed, Locked
  <1>8. CASE LoadFails(c)
    BY <1>0, <1>8 DEF TypeOK, LoadFails, Placed, Locked
  <1>9. CASE LoadAndDecide(c)
    BY <1>0, <1>9 DEF TypeOK, LoadAndDecide, Placed, Locked
  <1>10. CASE Persist(c)
    BY <1>0, <1>10 DEF TypeOK, Persist, Placed, Locked
  <1>11. CASE PersistFails(c)
    BY <1>0, <1>11 DEF TypeOK, PersistFails, Placed, Locked
  <1>12. CASE PersistFailsLate(c)
    BY <1>0, <1>12 DEF TypeOK, PersistFailsLate, Placed, Locked
  <1>13. CASE ReadbackFails(c)
    BY <1>0, <1>13 DEF TypeOK, ReadbackFails, Placed, Locked
  <1>14. CASE Readback(c)
    BY <1>0, <1>14 DEF TypeOK, Readback, Placed, Locked
  <1>15. CASE AfterCommit(c)
    BY <1>0, <1>15 DEF TypeOK, AfterCommit, Placed, Locked
  <1>16. CASE AfterCommitFails(c)
    BY <1>0, <1>16 DEF TypeOK, AfterCommitFails, Placed, Locked
  <1>17. CASE Release(c)
    BY <1>0, <1>17 DEF TypeOK, Release, Placed, Locked
  <1>18. CASE HookThrows(c)
    BY <1>0, <1>18 DEF TypeOK, HookThrows, Placed, Locked
  <1> QED
    BY <1>1, <1>2, <1>3, <1>4, <1>5, <1>6, <1>7, <1>8, <1>9,
       <1>10, <1>11, <1>12, <1>13, <1>14, <1>15, <1>16, <1>17, <1>18 DEF Step, Advance

\* The other callers stay in phase: they hold nothing while this one writes.
LEMMA StepOthersPhase ==
    ASSUME TxInv, NEW c \in Clients, Step(c), NEW e \in Clients \ {c}
    PROVE  Phase(e)'
  <1>1. Phase(e)
    BY DEF TxInv
  <1>2. /\ pc'[e] = pc[e] /\ req'[e] = req[e] /\ value'[e] = value[e]
        /\ outcome'[e] = outcome[e] /\ wrote'[e] = wrote[e]
        /\ lock = e => lock' = e
        /\ disk' # disk => pc[c] = "write"
    BY StepFrame DEF TxInv, Phase
  <1>3. CASE disk' = disk
    BY <1>1, <1>2, <1>3 DEF Phase, Placed
  <1>4. CASE disk' # disk
    <2>1. pc[e] \notin Locked
      BY <1>2, <1>4, WriteStep
    <2> QED
      BY <1>1, <1>2, <2>1 DEF Phase, Placed, Locked
  <1> QED
    BY <1>3, <1>4

\* The caller that steps enters its next phase as the invariant says.
LEMMA StepOwnPhase ==
    ASSUME TxInv, NEW c \in Clients, Step(c)
    PROVE  Phase(c)'
  <1>0. TypeOK /\ Phase(c) /\ Placed(c)' /\ pc \in [Clients -> PC]
    BY StepPlaced DEF TxInv, Phase, TypeOK
  <1>1. CASE pc'[c] \notin {"write", "readback", "after"}
    BY <1>0, <1>1 DEF Phase
  <1>2. CASE LoadAndDecide(c)
    <2>1. Verdict(disk, req[c]) = "write" => Passes(disk, req[c])
      BY VerdictWrite
    <2> QED
      BY <1>0, <1>1, <1>2, <2>1 DEF TypeOK, LoadAndDecide, Finish, Phase
  <1>3. CASE Persist(c)
    <2>1. /\ Len(disk'.log) = Len(disk.log) + 1 /\ Len(disk.log) \in Nat
          /\ disk'.log[Len(disk.log) + 1] = req[c]
      BY <1>3, WriteStep DEF Persist
    <2> QED
      BY <1>0, <1>3, <2>1 DEF Persist, Phase
  <1>4. CASE Readback(c)
    BY <1>0, <1>1, <1>4 DEF Readback, Finish, Phase
  <1>5. CASE ~LoadAndDecide(c) /\ ~Persist(c) /\ ~Readback(c)
    BY <1>0, <1>1, <1>5
       DEF Step, Advance, Begin, Receive, Crash, EndCall, Acquire, ReclaimLock, LockTimeout,
           LoadRefused, LoadFails, PersistFails, PersistFailsLate, ReadbackFails,
           AfterCommit, AfterCommitFails, HookThrows, Release, Return, Finish
  <1> QED
    BY <1>2, <1>3, <1>4, <1>5

\* The document stays good, and every mutation of its log stays where it is.
LEMMA StepDoc ==
    ASSUME TxInv, NEW c \in Clients, Step(c)
    PROVE  /\ GoodDoc(disk)'
           /\ Len(disk.log) \in Nat /\ Len(disk'.log) \in Nat
           /\ Len(disk.log) <= Len(disk'.log)
           /\ \A i \in 1 .. Len(disk.log) : disk'.log[i] = disk.log[i]
  <1>0. GoodDoc(disk) /\ Len(disk.log) \in Nat
    BY LenProperties DEF TxInv, TypeOK, Doc
  <1>1. CASE disk' = disk
    <2>1. GoodDoc(disk')
      BY <1>0, <1>1
    <2>2. Len(disk.log) <= Len(disk.log)
      BY <1>0
    <2> QED
      BY <1>0, <1>1, <2>1, <2>2, Zenon
  <1>2. CASE disk' # disk
    <2>1. pc[c] = "write" /\ disk' = value[c]
      BY <1>2, StepFrame DEF TxInv, Phase
    <2>2. /\ GoodDoc(value[c]) /\ Len(value[c].log) = Len(disk.log) + 1
          /\ \A i \in 1 .. Len(disk.log) : value[c].log[i] = disk.log[i]
      BY <2>1, WriteStep
    <2>3. GoodDoc(disk')
      BY <2>1, <2>2
    <2> QED
      BY <1>0, <2>1, <2>2, <2>3
  <1> QED
    BY <1>1, <1>2

\* A success is reported only for a mutation that is in the log.
LEMMA StepAcked ==
    ASSUME TxInv, NEW c \in Clients, Step(c)
    PROVE  \/ acked' = acked
           \/ /\ disk' = disk /\ req[c] \in Requests
              /\ acked' = acked \union {Audit(req[c])}
              /\ \E i \in 1 .. Len(disk.log) : Audit(disk.log[i]) = Audit(req[c])
  <1>0. TypeOK /\ Phase(c) /\ GoodDoc(disk)
    BY DEF TxInv
  <1>1. CASE LoadAndDecide(c) /\ Verdict(disk, req[c]) = "idempotent"
    <2>1. disk \in Doc /\ req[c] \in Requests
      BY <1>0, <1>1 DEF TypeOK, LoadAndDecide
    <2>2. Replayed(disk, req[c]) /\ ReplayMatches(disk, req[c])
      BY <1>1 DEF Verdict
    <2>3. \E i \in 1 .. Len(disk.log) : Audit(disk.log[i]) = Audit(req[c])
      BY <1>0, <2>1, <2>2, ReplayIsInLog DEF GoodDoc
    <2> QED
      BY <1>1, <2>1, <2>3 DEF LoadAndDecide
  <1>2. CASE AfterCommit(c)
    <2>1. Len(disk.log) \in Nat /\ req[c] \in Requests
      BY <1>0, <1>2, LenProperties DEF TypeOK, Doc, AfterCommit
    <2>2. Len(disk.log) > 0 /\ disk.log[Len(disk.log)] = req[c]
      BY <1>0, <1>2 DEF Phase, AfterCommit
    <2>3. Len(disk.log) \in 1 .. Len(disk.log)
      BY <2>1, <2>2
    <2> QED
      BY <1>2, <2>1, <2>2, <2>3 DEF AfterCommit
  <1>3. CASE ~AfterCommit(c) /\ ~(LoadAndDecide(c) /\ Verdict(disk, req[c]) = "idempotent")
    BY <1>3 DEF Step, Advance, Begin, Receive, Crash, Acquire, ReclaimLock, LockTimeout,
                LoadRefused, LoadFails, LoadAndDecide, Persist, PersistFails,
                PersistFailsLate, ReadbackFails, Readback, AfterCommitFails, HookThrows, Release
  <1> QED
    BY <1>1, <1>2, <1>3

\* The result a step decides agrees with what the call has done to the file.
LEMMA StepTruthful ==
    ASSUME TypeOK, OutcomesAreTruthful, NEW c \in Clients, Placed(c), Step(c)
    PROVE  OutcomesAreTruthful'
  <1> DEFINE Refused == {"stale_revision", "state_regression", "state_revision_conflict",
                         "operation_conflict", "lock_timeout", "idempotent"}
             Written == {"committed", "committed_unverified"}
             True(e) == /\ outcome[e] \in Refused => ~wrote[e]
                        /\ outcome[e] \in Written => wrote[e]
  <1> USE DEF Return, Finish, EndCall
  <1>0. TypeOK /\ Placed(c) /\ True(c)
    BY DEF OutcomesAreTruthful
  <1>1. ASSUME NEW e \in Clients \ {c} PROVE True(e)'
    <2>1. outcome'[e] = outcome[e] /\ wrote'[e] = wrote[e]
      BY StepFrame
    <2>2. True(e)
      BY DEF OutcomesAreTruthful
    <2> QED
      BY <2>1, <2>2
  <1>2. True(c)'
    <2>1. ASSUME NEW r \in Requests, Begin(c, r) PROVE True(c)'
      BY <1>0, <2>1 DEF TypeOK, Begin
    <2>2. CASE Receive(c)
      BY <1>0, <2>2 DEF TypeOK, Receive
    <2>3. CASE Crash(c)
      BY <1>0, <2>3 DEF TypeOK, Crash
    <2>4. CASE Acquire(c)
      BY <1>0, <2>4 DEF TypeOK, Acquire, Placed
    <2>5. CASE ReclaimLock(c)
      BY <1>0, <2>5 DEF TypeOK, ReclaimLock, Placed
    <2>6. CASE LockTimeout(c)
      BY <1>0, <2>6 DEF TypeOK, LockTimeout, Placed
    <2>7. CASE LoadRefused(c)
      BY <1>0, <2>7 DEF TypeOK, LoadRefused, Placed
    <2>8. CASE LoadFails(c)
      BY <1>0, <2>8 DEF TypeOK, LoadFails, Placed
    <2>9. CASE LoadAndDecide(c)
      <3>1. Verdict(disk, req[c]) \notin Written
        BY DEF Verdict
      <3> QED
        BY <1>0, <2>9, <3>1 DEF TypeOK, LoadAndDecide, Placed
    <2>10. CASE Persist(c)
      BY <1>0, <2>10 DEF TypeOK, Persist, Placed
    <2>11. CASE PersistFails(c)
      BY <1>0, <2>11 DEF TypeOK, PersistFails, Placed
    <2>12. CASE PersistFailsLate(c)
      BY <1>0, <2>12 DEF TypeOK, PersistFailsLate, Placed
    <2>13. CASE ReadbackFails(c)
      BY <1>0, <2>13 DEF TypeOK, ReadbackFails, Placed
    <2>14. CASE Readback(c)
      BY <1>0, <2>14 DEF TypeOK, Readback, Placed
    <2>15. CASE AfterCommit(c)
      BY <1>0, <2>15 DEF TypeOK, AfterCommit, Placed
    <2>16. CASE AfterCommitFails(c)
      BY <1>0, <2>16 DEF TypeOK, AfterCommitFails, Placed
    <2>17. CASE Release(c)
      BY <1>0, <2>17 DEF TypeOK, Release, Placed
    <2>18. CASE HookThrows(c)
      BY <1>0, <2>18 DEF TypeOK, HookThrows, Placed
    <2> QED
      BY <2>1, <2>2, <2>3, <2>4, <2>5, <2>6, <2>7, <2>8, <2>9,
         <2>10, <2>11, <2>12, <2>13, <2>14, <2>15, <2>16, <2>17, <2>18 DEF Step, Advance
  <1> QED
    BY <1>1, <1>2 DEF OutcomesAreTruthful

\* ... and every step of every caller preserves it.
LEMMA NextTxInv == TxInv /\ [Next]_txVars => TxInv'
  <1> SUFFICES ASSUME TxInv, [Next]_txVars PROVE TxInv'
    OBVIOUS
  <1>1. TypeOK'
    BY NextType DEF TxInv
  <1>2. CASE UNCHANGED txVars
    BY <1>1, <1>2 DEF TxInv, txVars, GoodDoc, TrailMirrorsLog, StateBound, OncePerOp,
                      OrderedStates, Phase, Placed, AckedSurvives, OutcomesAreTruthful
  <1>3. ASSUME NEW c \in Clients, Step(c) PROVE TxInv'
    <2>1. \A e \in Clients : Phase(e)'
      BY <1>3, StepOwnPhase, StepOthersPhase
    <2>2. GoodDoc(disk)'
      BY <1>3, StepDoc
    <2>3. AckedSurvives'
      <3>1. \A a \in acked : \E i \in 1 .. Len(disk.log) : Audit(disk.log[i]) = a
        BY DEF TxInv, AckedSurvives
      <3>2. \A a \in acked' : \E i \in 1 .. Len(disk.log) : Audit(disk.log[i]) = a
        BY <1>3, <3>1, StepAcked
      <3>3. \A i \in 1 .. Len(disk.log) : i \in 1 .. Len(disk'.log) /\ disk'.log[i] = disk.log[i]
        BY <1>3, StepDoc
      <3> QED
        BY <3>2, <3>3 DEF AckedSurvives
    <2>4. OutcomesAreTruthful'
      BY <1>3, StepTruthful DEF TxInv, Phase
    <2> QED
      BY <1>1, <2>1, <2>2, <2>3, <2>4 DEF TxInv
  <1> QED
    BY <1>2, <1>3 DEF Next, Step

\* Lock, fences, write and readback of commitChangeProjection keep the invariant.
THEOREM TransactionInvariant == Spec => []TxInv
  BY InitTxInv, NextTxInv, PTL DEF Spec

\* Every variable keeps its type, for any callers, requests and audit length.
THEOREM TypeCorrect == Spec => []TypeOK
  <1>1. TxInv => TypeOK
    BY DEF TxInv
  <1> QED
    BY <1>1, TransactionInvariant, PTL

\* A mutation that was reported committed is in change.json for ever after.
THEOREM AckedIsDurable == Spec => []AckedSurvives
  <1>1. TxInv => AckedSurvives
    BY DEF TxInv
  <1> QED
    BY <1>1, TransactionInvariant, PTL

\* projection_revision is the number of mutations the document embodies.
THEOREM RevisionIsCount == Spec => []RevisionCountsMutations
  <1>1. TxInv => RevisionCountsMutations
    BY DEF TxInv, GoodDoc, RevisionCountsMutations
  <1> QED
    BY <1>1, TransactionInvariant, PTL

\* The replay fence lets an operation id in again only after MaxAudit other commits.
THEOREM AtMostOnce == Spec => []AtMostOnceWhileRemembered
  <1>1. TxInv => AtMostOnceWhileRemembered
    BY DEF TxInv, GoodDoc, OncePerOp, AtMostOnceWhileRemembered
  <1> QED
    BY <1>1, TransactionInvariant, PTL

\* The state fences order the projected state revisions.
THEOREM StatesOrdered == Spec => []StateRevisionsOrdered
  <1>1. TxInv => StateRevisionsOrdered
    BY DEF TxInv, GoodDoc, OrderedStates, StateRevisionsOrdered
  <1> QED
    BY <1>1, TransactionInvariant, PTL

\* A result never lies about whether the call changed change.json.
THEOREM Truthful == Spec => []OutcomesAreTruthful
  <1>1. TxInv => OutcomesAreTruthful
    BY DEF TxInv
  <1> QED
    BY <1>1, TransactionInvariant, PTL

-----------------------------------------------------------------------------
\* A step that changes the document is a write that passed every fence.
LEMMA DocChange ==
    ASSUME TxInv, NEW c \in Clients, Step(c), disk' # disk
    PROVE  /\ req[c] \in Requests /\ Passes(disk, req[c])
           /\ disk' = NewValue(disk, req[c])
           /\ ~wrote[c] /\ wrote'[c] /\ acked' = acked
  <1>1. pc[c] = "write" /\ disk' = value[c]
    BY StepFrame DEF TxInv, Phase
  <1>2. Persist(c) \/ PersistFailsLate(c)
    BY <1>1 DEF Step, Advance, Begin, Receive, Crash, Acquire, ReclaimLock, LockTimeout,
                LoadRefused, LoadFails, LoadAndDecide, PersistFails, ReadbackFails,
                Readback, AfterCommit, AfterCommitFails, HookThrows, Release
  <1>3. ~wrote[c] /\ wrote \in [Clients -> BOOLEAN]
    BY <1>1 DEF TxInv, TypeOK, Phase, Placed
  <1>4. wrote'[c] /\ acked' = acked
    BY <1>2, <1>3 DEF Persist, PersistFailsLate
  <1> QED
    BY <1>1, <1>3, <1>4, WriteStep

\* The collection-wipe guard: a write empties a populated collection only if declared.
THEOREM WipesAreDeclared == Spec => NoSilentWipe
  <1> DEFINE Declared == \A f \in Fields :
                disk.coll[f] > 0 /\ disk'.coll[f] = 0
                => \E c \in Clients : ~wrote[c] /\ wrote'[c] /\ f \in req[c].allow
  <1>1. TxInv /\ [Next]_txVars => [Declared]_txVars
    <2> SUFFICES ASSUME TxInv, NEW c \in Clients, Step(c), NEW f \in Fields,
                        disk.coll[f] > 0, disk'.coll[f] = 0
                 PROVE  ~wrote[c] /\ wrote'[c] /\ f \in req[c].allow
      BY DEF Next, Step
    <2>1. disk' # disk
      <3>1. disk.coll[f] \in Nat
        BY DEF TxInv, TypeOK, Doc
      <3> QED
        BY <3>1
    <2>2. disk'.coll = Mutated(disk, req[c])
      BY <2>1, DocChange, NewValueFields DEF TxInv, TypeOK
    <2>3. ~Wipes(disk, req[c])
      BY <2>1, DocChange DEF Passes
    <2> QED
      BY <2>1, <2>2, <2>3, DocChange DEF Wipes
  <1> QED
    BY <1>1, TransactionInvariant, PTL DEF Spec, NoSilentWipe

\* A step of a transaction is one of the atomic mutation log, or none.
LEMMA RefiningStep == TxInv /\ [Next]_txVars => [Abstract!AbstractNext]_(Abstract!avars)
  <1> SUFFICES ASSUME TxInv, [Next]_txVars
               PROVE  Abstract!AbstractNext \/ (disk'.log = disk.log /\ acked' = acked)
    BY DEF Abstract!avars
  <1>1. CASE UNCHANGED txVars
    BY <1>1 DEF txVars
  <1>2. ASSUME NEW c \in Clients, Step(c)
        PROVE  Abstract!AbstractNext \/ (disk'.log = disk.log /\ acked' = acked)
    <2> DEFINE r == req[c]
    <2>1. CASE disk' # disk
      <3>1. r \in Requests /\ Passes(disk, r) /\ disk \in Doc /\ GoodDoc(disk)
        BY <1>2, <2>1, DocChange DEF TxInv, TypeOK
      <3>2. disk'.log = Append(disk.log, r) /\ acked' = acked
        BY <1>2, <2>1, <3>1, DocChange, NewValueFields
      <3> HIDE DEF r
      <3>3. Abstract!Accept(r)
        BY <3>1, <3>2, FencesHold
           DEF Abstract!Accept, Abstract!Remembered, Abstract!Undefined, Undefined
      <3> QED
        BY <3>1, <3>3 DEF Abstract!AbstractNext
    <2>2. CASE disk' = disk /\ acked' # acked
      <3>1. /\ r \in Requests
            /\ acked' = acked \union {Audit(r)}
            /\ \E i \in 1 .. Len(disk.log) : Audit(disk.log[i]) = Audit(r)
        BY <1>2, <2>2, StepAcked
      <3> HIDE DEF r
      <3>2. Abstract!Acknowledge(r)
        BY <2>2, <3>1 DEF Abstract!Acknowledge, Abstract!Audit, Audit
      <3> QED
        BY <3>1, <3>2 DEF Abstract!AbstractNext
    <2> QED
      BY <2>1, <2>2
  <1> QED
    BY <1>1, <1>2 DEF Next, Step

(***************************************************************************)
(* The transaction implements the atomic mutation log.  A step that        *)
(* changes the document is the Accept of its request: the fences it passed *)
(* when it was loaded hold of the document it replaces.  A success is the  *)
(* Acknowledge of a mutation in the log; every other step is a stutter.    *)
(***************************************************************************)
THEOREM TransactionRefinesLog == Spec => ImplementsMutationLog
  <1>1. Init => Abstract!AbstractInit
    BY NewDocGood DEF Init, Abstract!AbstractInit
  <1> QED
    BY <1>1, RefiningStep, TransactionInvariant, PTL
       DEF Spec, ImplementsMutationLog, Abstract!AbstractSpec

-----------------------------------------------------------------------------
(***************************************************************************)
(* The use of the lock.  The invariant says that whoever is between load   *)
(* and release holds the lock; the discipline needs the converse too, that *)
(* the lock is never left with a call that is not there any more.          *)
(***************************************************************************)
HolderIsInside == lock \in Clients => pc[lock] \in Locked

\* The lock is taken free, given back or left behind by its holder, or reclaimed.
LEMMA LockChanges ==
    ASSUME TxInv, HolderIsInside, NEW c \in Clients, Step(c)
    PROVE  /\ \/ lock' = lock
              \/ lock = Free /\ lock' = c
              \/ lock = c /\ lock' \in {Free, Orphan}
              \/ lock = Orphan /\ lock' = Free
           /\ lock' = c => pc'[c] \in Locked
<1> DEFINE Change == /\ \/ lock' = lock
                        \/ lock = Free /\ lock' = c
                        \/ lock = c /\ lock' \in {Free, Orphan}
                        \/ lock = Orphan /\ lock' = Free
                     /\ lock' = c => pc'[c] \in Locked
<1>0. /\ pc \in [Clients -> PC] /\ Phase(c)
      /\ Free # c /\ Orphan # c
      /\ lock = c => pc[c] \in Locked
  BY LockAssumption DEF TxInv, TypeOK, HolderIsInside
<1> USE <1>0 DEF Locked
<1>1. ASSUME NEW r \in Requests, Begin(c, r) PROVE Change
  BY <1>1 DEF Begin
<1>2. CASE Acquire(c) \/ ReclaimLock(c) \/ LockTimeout(c)
  BY <1>2 DEF Acquire, ReclaimLock, LockTimeout, Return
<1>3. CASE LoadRefused(c) \/ LoadFails(c) \/ LoadAndDecide(c)
  BY <1>3 DEF LoadRefused, LoadFails, LoadAndDecide, Finish
<1>4. CASE Persist(c) \/ PersistFails(c) \/ PersistFailsLate(c)
  BY <1>4 DEF Persist, PersistFails, PersistFailsLate, Finish
<1>5. CASE ReadbackFails(c) \/ Readback(c)
  BY <1>5 DEF ReadbackFails, Readback, Finish
<1>6. CASE AfterCommit(c) \/ AfterCommitFails(c) \/ HookThrows(c)
  BY <1>6 DEF AfterCommit, AfterCommitFails, HookThrows, Finish
<1>7. CASE Release(c)
  BY <1>7 DEF Release, Phase, Placed
<1>8. CASE Receive(c)
  BY <1>8 DEF Receive, EndCall
<1>9. CASE Crash(c)
  BY <1>9 DEF Crash, EndCall
<1> QED
  BY <1>1, <1>2, <1>3, <1>4, <1>5, <1>6, <1>7, <1>8, <1>9 DEF Step, Advance

\* No step strands the lock.
LEMMA NextHolder == TxInv /\ HolderIsInside /\ [Next]_txVars => HolderIsInside'
<1> SUFFICES ASSUME TxInv, HolderIsInside, [Next]_txVars, lock' \in Clients
             PROVE  pc'[lock'] \in Locked
  BY DEF HolderIsInside
<1>1. ASSUME NEW c \in Clients, Step(c) PROVE pc'[lock'] \in Locked
  <2>1. CASE lock' = c
    BY <1>1, <2>1, LockChanges
  <2>2. CASE lock' # c
    <3>1. lock' = lock
      BY <1>1, <2>2, LockChanges, LockAssumption
    <3>2. pc'[lock] = pc[lock]
      BY <1>1, <2>2, <3>1, StepFrame DEF TxInv, Phase
    <3> QED
      BY <3>1, <3>2 DEF HolderIsInside
  <2> QED
    BY <2>1, <2>2
<1>2. CASE UNCHANGED txVars
  BY <1>2 DEF txVars, HolderIsInside
<1> QED
  BY <1>1, <1>2 DEF Next, Step

\* Inside is the holder, or nobody.
InsideIsHolder ==
    TxInv /\ HolderIsInside => Inside = IF lock \in Clients THEN {lock} ELSE {}

LEMMA InsideHolds == InsideIsHolder
<1> SUFFICES ASSUME TxInv, HolderIsInside
             PROVE  \A c \in Clients : pc[c] \in Locked <=> lock = c
  BY DEF InsideIsHolder, Inside, Locked
<1> QED
  BY DEF TxInv, Phase, Placed, HolderIsInside

LEMMA InsideHoldsNext == InsideIsHolder'
  BY InsideHolds, PTL

(***************************************************************************)
(* commitChangeProjection uses its lock as CrashLock describes: a call     *)
(* enters with a free lock, is alone inside, and leaves its own one free,  *)
(* or behind when its process dies.                                        *)
(***************************************************************************)
THEOREM TransactionUsesALock == Spec => ImplementsCrashLock
<1>1. Init => Lock!LockInit /\ HolderIsInside
  BY LockAssumption DEF Init, Lock!LockInit, LockState, Inside, HolderIsInside
<1>2. /\ TxInv /\ TxInv' /\ HolderIsInside /\ HolderIsInside' /\ [Next]_txVars
      => [Lock!LockStep]_(Lock!lockVars)
  <2> SUFFICES ASSUME TxInv, TxInv', HolderIsInside, HolderIsInside', [Next]_txVars
               PROVE  Lock!LockNext \/ UNCHANGED <<LockState, Inside>>
    BY DEF Lock!LockStep, Lock!lockVars
  <2>0. /\ Inside = IF lock \in Clients THEN {lock} ELSE {}
        /\ Inside' = IF lock' \in Clients THEN {lock'} ELSE {}
    BY InsideHolds, InsideHoldsNext DEF InsideIsHolder
  <2>1. CASE lock' = lock
    BY <2>0, <2>1 DEF LockState
  <2>2. ASSUME NEW c \in Clients, Step(c), lock' # lock
        PROVE  Lock!LockNext \/ UNCHANGED <<LockState, Inside>>
    <3> USE LockAssumption DEF LockState
    <3>1. CASE lock = Free /\ lock' = c
      <4>1. Lock!Take(c)
        BY <2>0, <3>1 DEF Lock!Take
      <4> QED
        BY <4>1 DEF Lock!LockNext
    <3>2. CASE lock = c /\ lock' \in {Free, Orphan}
      <4>1. Lock!Leave(c)
        BY <2>0, <3>2 DEF Lock!Leave
      <4> QED
        BY <4>1 DEF Lock!LockNext
    <3>3. CASE lock = Orphan /\ lock' = Free
      <4>1. Lock!Reclaim
        BY <2>0, <3>3 DEF Lock!Reclaim
      <4> QED
        BY <4>1 DEF Lock!LockNext
    <3> QED
      BY <2>2, <3>1, <3>2, <3>3, LockChanges
  <2> QED
    BY <2>1, <2>2 DEF Next, Step, txVars
<1> QED
  BY <1>1, <1>2, TransactionInvariant, NextHolder, PTL
     DEF Spec, ImplementsCrashLock, Lock!LockSpec
=============================================================================
