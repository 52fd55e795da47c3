------------------------- MODULE DurableOutboxProofs -------------------------
(* What DurableOutbox guarantees for every number of processes and messages. *)
EXTENDS DurableOutbox, FiniteSetTheorems, TLAPS

\* Only a cut-short append leaves a torn tail, and only that corrupts.
NoTearNoDamage == ~Tears => ~torn /\ ~corrupt

\* The cap holds in the records of every process that will not re-fold.
MemoryCapped ==
    \A p \in Procs : fresh[p] => Cardinality(QueuedIn(mem[p])) <= MaxPending

\* The inductive invariant.
IInv ==
    /\ TypeOK
    /\ NoTearNoDamage
    /\ MemoryIsTheFold
    /\ PendingCapped
    /\ MemoryCapped

-----------------------------------------------------------------------------
(* Records, events and their fold *)

\* Every event applied to a record within the attempt cap gives a record.
LEMMA FoldType ==
    ASSUME NEW rec \in Record, NEW e \in Event,
           e.kind = "attempt" => rec.attempts < MaxAttempts
    PROVE  Fold(rec, e) \in Record
<1>0. MaxAttempts \in Nat /\ HopLimit \in Nat
  BY Zenon, OutboxConstants
<1>1. CASE e.kind = "enqueued"
  BY <1>0, <1>1 DEF Fold, Record, Event, States
<1>2. CASE e.kind = "attempt"
  <2>1. Fold(rec, e) = [rec EXCEPT !.attempts = @ + 1,
                          !.state = IF e.rejected THEN "rejected" ELSE @]
    BY Zenon, <1>2 DEF Fold
  <2>2. rec.attempts + 1 \in 0 .. MaxAttempts
    BY <1>0, <1>2 DEF Record
  <2>3. (IF e.rejected THEN "rejected" ELSE rec.state) \in States
    BY Zenon DEF Record, States, Terminal
  <2> QED BY Zenon, <2>1, <2>2, <2>3 DEF Record
<1>3. CASE e.kind = "delivered"
  BY Zenon, <1>3 DEF Fold, Record, Event, States, Terminal
<1>4. CASE e.kind = "expired"
  BY Zenon, <1>4 DEF Fold, Record, Event, States, Terminal
<1> QED BY Zenon, <1>1, <1>2, <1>3, <1>4 DEF Event

LEMMA EmptyType == Empty \in [Msgs -> Record]
BY OutboxConstants DEF Empty, Absent, Record, States, Hops

LEMMA EventTypes ==
    /\ \A hop \in Hops : Enqueued(hop) \in Event
    /\ \A rejected \in BOOLEAN : Attempt(rejected) \in Event
    /\ \A hop \in Hops, by \in Nodes : Delivered(hop, by) \in Event
    /\ Expired \in Event
BY OutboxConstants DEF Enqueued, Attempt, Delivered, Expired, Event, Hops

\* The events every check of an operation lets through keep the records typed.
LEMMA ApplyType ==
    ASSUME NEW recs \in [Msgs -> Record], NEW S \in SUBSET Msgs,
           NEW evs \in [S -> Event],
           \A m \in S : FoldAccepts(m, recs[m], evs[m])
    PROVE  /\ Apply(recs, evs) \in [Msgs -> Record]
           /\ FoldAll(recs, evs) = Apply(recs, evs)
<1>1. ASSUME NEW m \in S
      PROVE  Fold(recs[m], evs[m]) \in Record
  <2>1. evs[m].kind = "attempt" => recs[m].attempts < MaxAttempts
    BY Zenon DEF FoldAccepts
  <2> QED BY Zenon, <2>1, FoldType
<1> QED BY Zenon, <1>1 DEF Apply, FoldAll

\* A fold never disturbs the type of the records, whatever the events.
LEMMA FoldAllType ==
    ASSUME NEW recs \in [Msgs -> Record], NEW S \in SUBSET Msgs,
           NEW evs \in [S -> Event]
    PROVE  FoldAll(recs, evs) \in [Msgs -> Record]
<1>1. ASSUME NEW m \in S, FoldAccepts(m, recs[m], evs[m])
      PROVE  Fold(recs[m], evs[m]) \in Record
  <2>1. evs[m].kind = "attempt" => recs[m].attempts < MaxAttempts
    BY Zenon, <1>1 DEF FoldAccepts
  <2> QED BY Zenon, <2>1, FoldType
<1> QED BY Zenon, <1>1 DEF FoldAll

\* Cardinalities are natural numbers: the sets counted are finite.
LEMMA Counts ==
    /\ \A S \in SUBSET Msgs : IsFiniteSet(S) /\ Cardinality(S) \in Nat
    /\ \A recs : Cardinality(KeptLines(recs)) \in Nat
<1>1. ASSUME NEW S \in SUBSET Msgs
      PROVE  IsFiniteSet(S) /\ Cardinality(S) \in Nat
  BY Zenon, OutboxConstants, FS_Subset, FS_CardinalityType
<1>2. ASSUME NEW recs
      PROVE  Cardinality(KeptLines(recs)) \in Nat
  <2>1. IsFiniteSet(0 .. MaxAttempts)
    BY OutboxConstants, FS_Interval
  <2>2. IsFiniteSet(Msgs \X (0 .. MaxAttempts))
    BY Zenon, <2>1, OutboxConstants, FS_Product
  <2>3. KeptLines(recs) \subseteq Msgs \X (0 .. MaxAttempts)
    BY Zenon DEF KeptLines
  <2> QED BY Zenon, <2>2, <2>3, FS_Subset, FS_CardinalityType
<1> QED BY Zenon, <1>1, <1>2

LEMMA CardinalityMonotone ==
    ASSUME NEW S \in SUBSET Msgs, NEW T \in SUBSET S
    PROVE  Cardinality(T) <= Cardinality(S)
BY Zenon, Counts, FS_Subset

-----------------------------------------------------------------------------
(* The inductive invariant *)

\* An operation that may go on works on what the journal folds to.
LEMMA RecordsAreTheFold ==
    ASSUME TypeOK, MemoryIsTheFold, NEW p \in Procs, Ready(p)
    PROVE  /\ Records(p) \in [Msgs -> Record]
           /\ ~corrupt => Records(p) = disk
BY Zenon DEF TypeOK, MemoryIsTheFold, Ready, Records

\* ... and these records are within the cap.
LEMMA RecordsCapped ==
    ASSUME IInv, NEW p \in Procs, Ready(p)
    PROVE  Cardinality(QueuedIn(Records(p))) <= MaxPending
<1>1. CASE fresh[p]
  BY Zenon, <1>1 DEF IInv, MemoryCapped, Records
<1>2. CASE ~fresh[p]
  BY Zenon, <1>2 DEF IInv, PendingCapped, Records, Ready, Loadable
<1> QED BY Zenon, <1>1, <1>2

\* An append that passed the checks of its operation keeps the invariant.
LEMMA AppendKeeps ==
    ASSUME IInv, NEW p \in Procs, Ready(p),
           NEW S \in SUBSET Msgs, NEW evs \in [S -> Event],
           \A m \in S : FoldAccepts(m, Records(p)[m], evs[m]),
           Cardinality(QueuedIn(Apply(Records(p), evs))) <= MaxPending,
           Append(p, evs), up' = up, now' = now
    PROVE  IInv'
<1>0. TypeOK /\ MemoryIsTheFold /\ NoTearNoDamage
  BY Zenon DEF IInv
<1>1. /\ Records(p) \in [Msgs -> Record]
      /\ ~corrupt => Records(p) = disk
  BY Zenon, <1>0, RecordsAreTheFold
<1>2. Apply(Records(p), evs) \in [Msgs -> Record]
  BY Zenon, <1>1, ApplyType
<1>3. DOMAIN evs = S
  BY Zenon
<1>4. mem' = [mem EXCEPT ![p] = Apply(Records(p), evs)]
  BY Zenon DEF Append
<1>5. ASSUME ~corrupt'
      PROVE  disk' = Apply(Records(p), evs)
  <2>1. ~corrupt
    BY Zenon, <1>5 DEF Append
  <2> QED BY Zenon, <1>1, <2>1, ApplyType DEF Append
<1>6. TypeOK'
  <2>1. disk' \in [Msgs -> Record]
    BY Zenon, <1>0, FoldAllType DEF TypeOK, Append
  <2>2. size' \in Nat
    BY <1>0, <1>3, Counts DEF TypeOK, Append
  <2>3. mem' \in [Procs -> [Msgs -> Record]]
    BY Zenon, <1>0, <1>2, <1>4 DEF TypeOK
  <2>4. corrupt' \in BOOLEAN /\ torn' \in BOOLEAN /\ fresh' \in [Procs -> BOOLEAN]
    BY Zenon, <1>0 DEF TypeOK, Append
  <2> QED BY Zenon, <1>0, <2>1, <2>2, <2>3, <2>4 DEF TypeOK
<1>7. NoTearNoDamage'
  <2> SUFFICES ASSUME ~Tears PROVE ~torn' /\ ~corrupt'
    BY Zenon DEF NoTearNoDamage
  <2>1. ~torn /\ ~corrupt
    BY Zenon, <1>0 DEF NoTearNoDamage
  <2>2. \A m \in S : FoldAccepts(m, disk[m], evs[m])
    BY Zenon, <1>1, <2>1
  <2> QED BY Zenon, <2>1, <2>2, <1>3 DEF Append
<1>8. \A q \in Procs : fresh'[q] => q = p
  BY Zenon DEF Append
<1>9. mem'[p] = Apply(Records(p), evs)
  BY Zenon, <1>0, <1>4 DEF TypeOK
<1>10. MemoryIsTheFold'
  BY Zenon, <1>5, <1>8, <1>9 DEF MemoryIsTheFold
<1>11. MemoryCapped'
  BY Zenon, <1>8, <1>9 DEF MemoryCapped, QueuedIn
<1>12. PendingCapped'
  BY Zenon, <1>5 DEF PendingCapped, QueuedIn
<1> QED BY Zenon, <1>6, <1>7, <1>10, <1>11, <1>12 DEF IInv

\* An event other than "enqueued" queues no further message.
LEMMA NoNewPending ==
    ASSUME NEW recs \in [Msgs -> Record], NEW S \in SUBSET Msgs,
           NEW evs \in [S -> Event], \A m \in S : evs[m].kind # "enqueued",
           \A m \in S : recs[m].state = "queued",
           Cardinality(QueuedIn(recs)) <= MaxPending
    PROVE  Cardinality(QueuedIn(Apply(recs, evs))) <= MaxPending
<1>1. QueuedIn(Apply(recs, evs)) \subseteq QueuedIn(recs)
  BY Zenon DEF QueuedIn, Apply
<1>2. QueuedIn(recs) \in SUBSET Msgs
  BY Zenon DEF QueuedIn
<1>3. Cardinality(QueuedIn(Apply(recs, evs))) <= Cardinality(QueuedIn(recs))
  BY Zenon, <1>1, <1>2, CardinalityMonotone
<1>4. /\ Cardinality(QueuedIn(recs)) \in Nat
      /\ Cardinality(QueuedIn(Apply(recs, evs))) \in Nat
  BY Zenon, <1>1, <1>2, Counts
<1> QED BY <1>3, <1>4, OutboxConstants

LEMMA EnqueueKeeps ==
    ASSUME IInv, NEW p \in Procs, NEW m \in Msgs, NEW hop \in Hops,
           Enqueue(p, m, hop)
    PROVE  IInv'
<1> DEFINE evs == [x \in {m} |-> Enqueued(hop)]
           recs == Records(p)
<1>0. TypeOK /\ MemoryIsTheFold /\ Ready(p) /\ Append(p, evs)
  BY Zenon DEF IInv, Enqueue
<1>1. recs \in [Msgs -> Record]
  BY Zenon, <1>0, RecordsAreTheFold
<1>2. evs \in [{m} -> Event] /\ {m} \in SUBSET Msgs
  BY Zenon, EventTypes
<1>3. \A x \in {m} : FoldAccepts(x, recs[x], evs[x])
  BY Zenon DEF FoldAccepts, Enqueue, Enqueued
<1>4. Cardinality(QueuedIn(Apply(recs, evs))) <= MaxPending
  <2>1. QueuedIn(Apply(recs, evs)) \subseteq QueuedIn(recs) \cup {m}
    BY Zenon DEF QueuedIn, Apply
  <2>2. IsFiniteSet(QueuedIn(recs)) /\ QueuedIn(recs) \cup {m} \in SUBSET Msgs
    BY Zenon, Counts DEF QueuedIn
  <2>3. Cardinality(QueuedIn(recs) \cup {m}) <= Cardinality(QueuedIn(recs)) + 1
    BY <2>2, FS_AddElement, Counts
  <2>4. /\ Cardinality(QueuedIn(Apply(recs, evs))) \in Nat
        /\ Cardinality(QueuedIn(recs) \cup {m}) \in Nat
        /\ Cardinality(QueuedIn(recs)) \in Nat
    BY Zenon, <2>1, <2>2, Counts
  <2>5. Cardinality(QueuedIn(recs)) < MaxPending
    BY Zenon DEF Enqueue
  <2>6. Cardinality(QueuedIn(Apply(recs, evs))) <= Cardinality(QueuedIn(recs) \cup {m})
    BY Zenon, <2>1, <2>2, CardinalityMonotone
  <2> QED BY <2>3, <2>4, <2>5, <2>6, OutboxConstants
<1>5. up' = up /\ now' = now
  BY Zenon, <1>0 DEF Enqueue, TypeOK
<1> HIDE DEF evs, recs
<1> QED BY Zenon, <1>0, <1>2, <1>3, <1>4, <1>5, AppendKeeps DEF recs

LEMMA RecordAttemptKeeps ==
    ASSUME IInv, NEW p \in Procs, NEW m \in Msgs, NEW rejected \in BOOLEAN,
           RecordAttempt(p, m, rejected)
    PROVE  IInv'
<1> DEFINE evs == [x \in {m} |-> Attempt(rejected)]
           recs == Records(p)
<1>0. TypeOK /\ MemoryIsTheFold /\ Ready(p) /\ Append(p, evs)
  BY Zenon DEF IInv, RecordAttempt
<1>1. recs \in [Msgs -> Record]
  BY Zenon, <1>0, RecordsAreTheFold
<1>2. evs \in [{m} -> Event] /\ {m} \in SUBSET Msgs
  BY Zenon, EventTypes
<1>3. \A x \in {m} : /\ FoldAccepts(x, recs[x], evs[x])
                     /\ evs[x].kind # "enqueued" /\ recs[x].state = "queued"
  BY Zenon DEF FoldAccepts, RecordAttempt, Attempt
<1>4. Cardinality(QueuedIn(recs)) <= MaxPending
  BY Zenon, <1>0, RecordsCapped
<1>5. up' = up /\ now' = now
  BY Zenon, <1>0 DEF RecordAttempt, TypeOK
<1> HIDE DEF evs
<1>6. Cardinality(QueuedIn(Apply(recs, evs))) <= MaxPending
  BY Zenon, <1>1, <1>2, <1>3, <1>4, NoNewPending
<1> QED BY Zenon, <1>0, <1>2, <1>3, <1>5, <1>6, AppendKeeps

LEMMA HandleAckKeeps ==
    ASSUME IInv, NEW p \in Procs, NEW m \in Msgs, NEW hop \in Hops, NEW by \in Nodes,
           HandleAck(p, m, hop, by)
    PROVE  IInv'
<1> DEFINE evs == [x \in {m} |-> Delivered(hop, by)]
           recs == Records(p)
<1>0. TypeOK /\ MemoryIsTheFold /\ Ready(p) /\ Append(p, evs)
  BY Zenon DEF IInv, HandleAck
<1>1. recs \in [Msgs -> Record]
  BY Zenon, <1>0, RecordsAreTheFold
<1>2. evs \in [{m} -> Event] /\ {m} \in SUBSET Msgs
  BY Zenon, EventTypes
<1>3. \A x \in {m} : /\ FoldAccepts(x, recs[x], evs[x])
                     /\ evs[x].kind # "enqueued" /\ recs[x].state = "queued"
  BY Zenon DEF FoldAccepts, HandleAck, Delivered
<1>4. Cardinality(QueuedIn(recs)) <= MaxPending
  BY Zenon, <1>0, RecordsCapped
<1>5. up' = up /\ now' = now
  BY Zenon, <1>0 DEF HandleAck, TypeOK
<1> HIDE DEF evs
<1>6. Cardinality(QueuedIn(Apply(recs, evs))) <= MaxPending
  BY Zenon, <1>1, <1>2, <1>3, <1>4, NoNewPending
<1> QED BY Zenon, <1>0, <1>2, <1>3, <1>5, <1>6, AppendKeeps

LEMMA PendingKeeps ==
    ASSUME IInv, NEW p \in Procs, Pending(p)
    PROVE  IInv'
<1> DEFINE evs == [x \in Overdue(p) |-> Expired]
           recs == Records(p)
<1>0. TypeOK /\ MemoryIsTheFold /\ Ready(p) /\ Append(p, evs)
  BY Zenon DEF IInv, Pending
<1>1. recs \in [Msgs -> Record]
  BY Zenon, <1>0, RecordsAreTheFold
<1>2. evs \in [Overdue(p) -> Event] /\ Overdue(p) \in SUBSET Msgs
  BY Zenon, EventTypes DEF Overdue, QueuedIn
<1>3. \A x \in Overdue(p) : /\ FoldAccepts(x, recs[x], evs[x])
                            /\ evs[x].kind # "enqueued" /\ recs[x].state = "queued"
  BY Zenon DEF FoldAccepts, Overdue, QueuedIn, Expired
<1>4. Cardinality(QueuedIn(recs)) <= MaxPending
  BY Zenon, <1>0, RecordsCapped
<1>5. up' = up /\ now' = now
  BY Zenon, <1>0 DEF Pending, TypeOK
<1> HIDE DEF evs
<1>6. Cardinality(QueuedIn(Apply(recs, evs))) <= MaxPending
  BY Zenon, <1>1, <1>2, <1>3, <1>4, NoNewPending
<1> QED BY Zenon, <1>0, <1>2, <1>3, <1>5, <1>6, AppendKeeps

\* An interrupted pending() leaves a prefix of the lines and no open process.
LEMMA PendingInterruptedKeeps ==
    ASSUME IInv, NEW p \in Procs, PendingInterrupted(p)
    PROVE  IInv'
<1>0. TypeOK /\ MemoryIsTheFold /\ NoTearNoDamage /\ Ready(p)
  BY Zenon DEF IInv, PendingInterrupted
<1>1. PICK S \in SUBSET Overdue(p) :
         /\ size' = size + Cardinality(S)
         /\ corrupt' = (corrupt \/ torn \/ \E m \in S : disk[m].state # "queued")
         /\ disk' = FoldAll(disk, [m \in S |-> Expired])
  BY Zenon DEF PendingInterrupted
<1>2. S \in SUBSET Msgs /\ \A m \in S : Records(p)[m].state = "queued"
  BY Zenon DEF Overdue, QueuedIn
<1> DEFINE evs == [m \in S |-> Expired]
<1>3. evs \in [S -> Event]
  BY Zenon, EventTypes
<1>4. ~corrupt => \A m \in S : disk[m].state = "queued"
  BY Zenon, <1>0, <1>2, RecordsAreTheFold
<1>5. TypeOK'
  <2>1. disk' \in [Msgs -> Record]
    BY Zenon, <1>0, <1>1, <1>2, <1>3, FoldAllType DEF TypeOK
  <2>2. size' \in Nat
    BY <1>0, <1>1, <1>2, Counts DEF TypeOK
  <2>3. corrupt' \in BOOLEAN
    BY Zenon, <1>0, <1>1 DEF TypeOK
  <2> QED BY Zenon, <1>0, <2>1, <2>2, <2>3, EmptyType DEF TypeOK, PendingInterrupted
<1>6. NoTearNoDamage'
  BY Zenon, <1>0, <1>1, <1>4 DEF NoTearNoDamage, PendingInterrupted
<1>7. MemoryIsTheFold' /\ MemoryCapped'
  BY Zenon DEF MemoryIsTheFold, MemoryCapped, PendingInterrupted
<1>8. PendingCapped'
  <2> SUFFICES ASSUME ~corrupt' PROVE Cardinality(QueuedIn(disk')) <= MaxPending
    BY Zenon DEF PendingCapped, QueuedIn
  <2>1. ~corrupt /\ Cardinality(QueuedIn(disk)) <= MaxPending
    BY Zenon, <1>1 DEF IInv, PendingCapped
  <2>2. \A m \in S : /\ FoldAccepts(m, disk[m], evs[m])
                     /\ evs[m].kind # "enqueued" /\ disk[m].state = "queued"
    BY Zenon, <1>4, <2>1 DEF FoldAccepts, Expired
  <2>3. disk \in [Msgs -> Record]
    BY Zenon, <1>0 DEF TypeOK
  <2> HIDE DEF evs
  <2>4. disk' = Apply(disk, evs)
    BY Zenon, <1>1, <1>2, <1>3, <2>2, <2>3, ApplyType DEF evs
  <2> QED BY Zenon, <1>2, <1>3, <2>1, <2>2, <2>3, <2>4, NoNewPending
<1> QED BY Zenon, <1>5, <1>6, <1>7, <1>8 DEF IInv

\* compact() replaces the journal by the queued records of its caller.
LEMMA CompactKeeps ==
    ASSUME IInv, NEW p \in Procs, Compact(p)
    PROVE  IInv'
<1> DEFINE recs == Records(p)
<1>0. TypeOK /\ MemoryIsTheFold /\ Ready(p)
  BY Zenon DEF IInv, Compact
<1>1. recs \in [Msgs -> Record]
  BY Zenon, <1>0, RecordsAreTheFold
<1>2. Kept(recs) \in [Msgs -> Record]
  BY Zenon, <1>1, EmptyType DEF Kept, Empty
<1>3. Cardinality(QueuedIn(Kept(recs))) <= MaxPending
  <2>1. QueuedIn(Kept(recs)) = QueuedIn(recs)
    BY Zenon DEF QueuedIn, Kept, Absent
  <2> QED BY Zenon, <1>0, <2>1, RecordsCapped
<1>4. /\ disk' = Kept(recs) /\ ~torn' /\ ~corrupt'
      /\ mem' = [mem EXCEPT ![p] = Kept(recs)]
      /\ fresh' = [q \in Procs |-> q = p]
      /\ UNCHANGED <<up, now>>
  BY Zenon DEF Compact
<1>5. size' \in Nat
  BY Zenon, Counts DEF Compact
<1>6. TypeOK'
  BY Zenon, <1>0, <1>2, <1>4, <1>5 DEF TypeOK, Compact
<1>7. mem'[p] = Kept(recs)
  BY Zenon, <1>0, <1>4 DEF TypeOK
<1>8. MemoryIsTheFold' /\ NoTearNoDamage'
  BY Zenon, <1>4, <1>7 DEF MemoryIsTheFold, NoTearNoDamage
<1> HIDE DEF recs
<1>9. MemoryCapped' /\ PendingCapped'
  BY Zenon, <1>3, <1>4, <1>7 DEF MemoryCapped, PendingCapped, QueuedIn
<1> QED BY Zenon, <1>6, <1>8, <1>9 DEF IInv

\* Steps that write no line: reads, refused loads, processes, the clock.
LEMMA OtherStepsKeep ==
    ASSUME IInv, NEW p \in Procs,
           Read(p) \/ LoadFails(p) \/ Start(p) \/ Crash(p) \/ Tear(p)
    PROVE  IInv'
<1>0. TypeOK /\ MemoryIsTheFold /\ NoTearNoDamage /\ PendingCapped /\ MemoryCapped
  BY Zenon DEF IInv
<1>e. Cardinality(QueuedIn(Empty)) <= MaxPending
  <2>1. QueuedIn(Empty) = {}
    BY Zenon DEF QueuedIn, Empty, Absent
  <2> QED BY <2>1, FS_EmptySet, OutboxConstants
<1>1. CASE Read(p)
  <2>1. TypeOK' /\ NoTearNoDamage' /\ MemoryIsTheFold'
    BY Zenon, <1>0, <1>1 DEF Read, TypeOK, NoTearNoDamage, MemoryIsTheFold
  <2>2. PendingCapped' /\ MemoryCapped'
    BY Zenon, <1>0, <1>1 DEF Read, Ready, Loadable, TypeOK, PendingCapped, MemoryCapped, QueuedIn
  <2> QED BY Zenon, <2>1, <2>2 DEF IInv
<1>2. CASE LoadFails(p)
  <2>0. mem' = [mem EXCEPT ![p] = Empty] /\ mem'[p] = Empty
    BY Zenon, <1>0, <1>2 DEF LoadFails, TypeOK
  <2>1. TypeOK' /\ NoTearNoDamage'
    BY <1>0, <1>2, EmptyType DEF LoadFails, TypeOK, NoTearNoDamage
  <2>2. MemoryIsTheFold'
    BY Zenon, <1>0, <1>2 DEF LoadFails, Loadable, TypeOK, MemoryIsTheFold
  <2>3. PendingCapped'
    BY Zenon, <1>0, <1>2 DEF LoadFails, PendingCapped, QueuedIn
  <2>4. MemoryCapped'
    <3> SUFFICES ASSUME NEW q \in Procs, fresh'[q]
                 PROVE  Cardinality(QueuedIn(mem'[q])) <= MaxPending
      BY Zenon DEF MemoryCapped, QueuedIn
    <3>1. CASE q = p
      BY Zenon, <1>e, <2>0, <3>1
    <3>2. CASE q # p
      BY Zenon, <1>0, <1>2, <2>0, <3>2 DEF LoadFails, MemoryCapped, TypeOK
    <3> QED BY Zenon, <3>1, <3>2
  <2> QED BY Zenon, <2>1, <2>2, <2>3, <2>4 DEF IInv
<1>3. CASE Start(p)
  <2>1. TypeOK' /\ NoTearNoDamage' /\ MemoryIsTheFold'
    BY Zenon, <1>0, <1>3 DEF Start, TypeOK, NoTearNoDamage, MemoryIsTheFold
  <2>2. PendingCapped' /\ MemoryCapped'
    BY Zenon, <1>0, <1>3 DEF Start, Loadable, TypeOK, PendingCapped, MemoryCapped, QueuedIn
  <2> QED BY Zenon, <2>1, <2>2 DEF IInv
<1>4. CASE Crash(p)
  <2>1. TypeOK' /\ NoTearNoDamage' /\ MemoryIsTheFold'
    BY Zenon, <1>0, <1>4, EmptyType DEF Crash, TypeOK, NoTearNoDamage, MemoryIsTheFold
  <2>2. PendingCapped' /\ MemoryCapped'
    BY Zenon, <1>0, <1>4 DEF Crash, TypeOK, PendingCapped, MemoryCapped, QueuedIn
  <2> QED BY Zenon, <2>1, <2>2 DEF IInv
<1>5. CASE Tear(p)
  <2>0. Records(p) \in [Msgs -> Record]
    BY Zenon, <1>0, <1>5, RecordsAreTheFold DEF Tear
  <2>1. TypeOK'
    BY <1>0, <1>5, <2>0, EmptyType DEF Tear, TypeOK
  <2>2. NoTearNoDamage' /\ MemoryIsTheFold'
    BY Zenon, <1>0, <1>5 DEF Tear, NoTearNoDamage, MemoryIsTheFold
  <2>3. PendingCapped' /\ MemoryCapped'
    BY Zenon, <1>0, <1>5 DEF Tear, PendingCapped, MemoryCapped, QueuedIn
  <2> QED BY Zenon, <2>1, <2>2, <2>3 DEF IInv
<1> QED BY Zenon, <1>1, <1>2, <1>3, <1>4, <1>5

LEMMA NextKeeps == IInv /\ [Next]_vars => IInv'
<1> SUFFICES ASSUME IInv, [Next]_vars PROVE IInv'
  BY Zenon
<1>1. CASE \E p \in Procs, m \in Msgs, hop \in Hops : Enqueue(p, m, hop)
  BY Zenon, <1>1, EnqueueKeeps
<1>2. CASE \E p \in Procs, m \in Msgs, rejected \in BOOLEAN : RecordAttempt(p, m, rejected)
  BY Zenon, <1>2, RecordAttemptKeeps
<1>3. CASE \E p \in Procs, m \in Msgs, hop \in Hops, by \in Nodes : HandleAck(p, m, hop, by)
  BY Zenon, <1>3, HandleAckKeeps
<1>4. CASE \E p \in Procs : Pending(p) \/ PendingInterrupted(p) \/ Compact(p)
  BY Zenon, <1>4, PendingKeeps, PendingInterruptedKeeps, CompactKeeps
<1>5. CASE \E p \in Procs : Read(p) \/ LoadFails(p)
  BY Zenon, <1>5, OtherStepsKeep
<1>6. CASE \E p \in Procs : Start(p) \/ Crash(p) \/ Tear(p)
  BY Zenon, <1>6, OtherStepsKeep
<1>7. CASE Tick
  <2>1. TypeOK'
    BY <1>7, OutboxConstants DEF Tick, IInv, TypeOK
  <2>2. NoTearNoDamage' /\ MemoryIsTheFold'
    BY Zenon, <1>7 DEF Tick, IInv, NoTearNoDamage, MemoryIsTheFold
  <2>3. PendingCapped' /\ MemoryCapped'
    BY Zenon, <1>7 DEF Tick, IInv, PendingCapped, MemoryCapped, QueuedIn
  <2> QED BY Zenon, <2>1, <2>2, <2>3 DEF IInv
<1>8. CASE UNCHANGED vars
  BY Zenon, <1>8 DEF vars, IInv, TypeOK, NoTearNoDamage, MemoryIsTheFold,
     PendingCapped, MemoryCapped, QueuedIn
<1> QED BY Zenon, <1>1, <1>2, <1>3, <1>4, <1>5, <1>6, <1>7, <1>8 DEF Next

LEMMA InitEstablishes == Init => IInv
<1> SUFFICES ASSUME Init PROVE IInv
  BY Zenon
<1>1. TypeOK
  <2>1. 0 \in 0 .. MaxTime
    BY OutboxConstants
  <2> QED BY Zenon, <2>1, EmptyType DEF Init, TypeOK
<1>2. NoTearNoDamage /\ MemoryIsTheFold /\ MemoryCapped
  BY Zenon DEF Init, NoTearNoDamage, MemoryIsTheFold, MemoryCapped
<1>3. QueuedIn(disk) = {}
  BY Zenon DEF Init, QueuedIn, Empty, Absent
<1>4. PendingCapped
  BY <1>3, FS_EmptySet, OutboxConstants DEF PendingCapped
<1> QED BY Zenon, <1>1, <1>2, <1>4 DEF IInv

LEMMA Invariance == Spec => []IInv
<1>1. Init => IInv
  BY Zenon, InitEstablishes
<1>2. IInv /\ [Next]_vars => IInv'
  BY Zenon, NextKeeps
<1> QED BY <1>1, <1>2, PTL DEF Spec

-----------------------------------------------------------------------------
(* Theorems *)

\* Type correctness: no interleaving of operations, crashes and cut-short
\* appends takes a record over its attempt cap or out of its states.
THEOREM OutboxTypeOK == Spec => []TypeOK
<1>1. IInv => TypeOK
  BY Zenon DEF IInv
<1> QED BY <1>1, Invariance, PTL

\* The journal written by any number of processes always loads, as long as
\* no append is cut short: _fold_event never refuses what the operations of
\* the outbox wrote.
THEOREM OutboxJournalLoads == Spec => []JournalStaysFoldable
<1>1. IInv => JournalStaysFoldable
  BY Zenon DEF IInv, NoTearNoDamage, JournalStaysFoldable
<1> QED BY <1>1, Invariance, PTL

\* Skipping the re-fold on a matching fingerprint is safe.
THEOREM OutboxMemoryIsTheFold == Spec => []MemoryIsTheFold
<1>1. IInv => MemoryIsTheFold
  BY Zenon DEF IInv
<1> QED BY <1>1, Invariance, PTL

\* The cap on pending records holds over all processes, cut-short appends
\* included.
THEOREM OutboxBoundsHold == Spec => []BoundsHold
<1>1. IInv => BoundsHold
  BY Zenon DEF IInv, BoundsHold
<1> QED BY <1>1, Invariance, PTL

\* A journal that loads stops loading only when a line is glued to a torn tail.
THEOREM OutboxOnlyGluingCorrupts == Spec => OnlyGluingCorrupts
<1>1. ASSUME IInv, ~corrupt, ~torn, NEW p \in Procs, Ready(p),
             NEW S \in SUBSET Msgs, NEW evs \in [S -> Event],
             \A m \in S : FoldAccepts(m, Records(p)[m], evs[m]), Append(p, evs)
      PROVE  ~corrupt'
  BY Zenon, <1>1, RecordsAreTheFold DEF IInv, Append
<1>2. ASSUME IInv, [Next]_vars, ~corrupt, ~torn
      PROVE  ~corrupt'
  <2>1. CASE \E p \in Procs, m \in Msgs, hop \in Hops : Enqueue(p, m, hop)
    <3>1. PICK p \in Procs, m \in Msgs, hop \in Hops : Enqueue(p, m, hop)
      BY Zenon, <2>1
    <3>2. [x \in {m} |-> Enqueued(hop)] \in [{m} -> Event] /\ {m} \in SUBSET Msgs
      BY Zenon, EventTypes
    <3>3. FoldAccepts(m, Records(p)[m], Enqueued(hop))
      BY Zenon, <3>1 DEF Enqueue, FoldAccepts, Enqueued
    <3> QED BY Zenon, <1>1, <1>2, <3>1, <3>2, <3>3 DEF Enqueue
  <2>2. CASE \E p \in Procs, m \in Msgs, rejected \in BOOLEAN : RecordAttempt(p, m, rejected)
    <3>1. PICK p \in Procs, m \in Msgs, rejected \in BOOLEAN : RecordAttempt(p, m, rejected)
      BY Zenon, <2>2
    <3>2. [x \in {m} |-> Attempt(rejected)] \in [{m} -> Event] /\ {m} \in SUBSET Msgs
      BY Zenon, EventTypes
    <3>3. FoldAccepts(m, Records(p)[m], Attempt(rejected))
      BY Zenon, <3>1 DEF RecordAttempt, FoldAccepts, Attempt
    <3> QED BY Zenon, <1>1, <1>2, <3>1, <3>2, <3>3 DEF RecordAttempt
  <2>3. CASE \E p \in Procs, m \in Msgs, hop \in Hops, by \in Nodes : HandleAck(p, m, hop, by)
    <3>1. PICK p \in Procs, m \in Msgs, hop \in Hops, by \in Nodes : HandleAck(p, m, hop, by)
      BY Zenon, <2>3
    <3>2. [x \in {m} |-> Delivered(hop, by)] \in [{m} -> Event] /\ {m} \in SUBSET Msgs
      BY Zenon, EventTypes
    <3>3. FoldAccepts(m, Records(p)[m], Delivered(hop, by))
      BY Zenon, <3>1 DEF HandleAck, FoldAccepts, Delivered
    <3> QED BY Zenon, <1>1, <1>2, <3>1, <3>2, <3>3 DEF HandleAck
  <2>4. ASSUME NEW p \in Procs, Pending(p)
        PROVE  ~corrupt'
    <3>2. /\ [x \in Overdue(p) |-> Expired] \in [Overdue(p) -> Event]
          /\ Overdue(p) \in SUBSET Msgs
      BY Zenon, EventTypes DEF Overdue, QueuedIn
    <3>3. \A m \in Overdue(p) : FoldAccepts(m, Records(p)[m], Expired)
      BY Zenon DEF Overdue, QueuedIn, FoldAccepts, Expired
    <3> QED BY Zenon, <1>1, <1>2, <2>4, <3>2, <3>3 DEF Pending
  <2>5. ASSUME NEW p \in Procs, PendingInterrupted(p)
        PROVE  ~corrupt'
    <3>1. Records(p) = disk
      BY Zenon, <1>2, <2>5, RecordsAreTheFold DEF IInv, PendingInterrupted
    <3>2. \A m \in Overdue(p) : disk[m].state = "queued"
      BY Zenon, <3>1 DEF Overdue, QueuedIn
    <3> QED BY Zenon, <1>2, <2>5, <3>2 DEF PendingInterrupted
  <2>6. CASE \E p \in Procs : \/ Compact(p) \/ Read(p) \/ LoadFails(p)
                              \/ Start(p) \/ Crash(p) \/ Tear(p)
    BY Zenon, <1>2, <2>6 DEF Compact, Read, LoadFails, Start, Crash, Tear
  <2>7. CASE Tick \/ UNCHANGED vars
    BY Zenon, <1>2, <2>7 DEF Tick, vars
  <2> QED BY Zenon, <1>2, <2>1, <2>2, <2>3, <2>4, <2>5, <2>6, <2>7 DEF Next
<1>3. IInv /\ [Next]_vars => [~corrupt /\ corrupt' => torn]_vars
  BY Zenon, <1>2
<1> QED BY <1>3, Invariance, PTL DEF Spec, OnlyGluingCorrupts

\* What a step does to the records of a journal that loads: the
\* fold of accepted events, or a compaction of exactly the journal's fold.
LEMMA DiskSteps ==
    ASSUME IInv, ~corrupt, [Next]_vars
    PROVE  \/ disk' = disk
           \/ disk' = Kept(disk)
           \/ \E S \in SUBSET Msgs : \E evs \in [S -> Event] : disk' = FoldAll(disk, evs)
<1>1. ASSUME NEW p \in Procs, NEW m \in Msgs, NEW e \in Event, Append(p, [x \in {m} |-> e])
      PROVE  \E S \in SUBSET Msgs : \E evs \in [S -> Event] : disk' = FoldAll(disk, evs)
  <2>1. [x \in {m} |-> e] \in [{m} -> Event] /\ {m} \in SUBSET Msgs
    BY Zenon
  <2> QED BY Zenon, <1>1, <2>1 DEF Append
<1>2. CASE \E p \in Procs, m \in Msgs, hop \in Hops : Enqueue(p, m, hop)
  BY Zenon, <1>1, <1>2, EventTypes DEF Enqueue
<1>3. CASE \E p \in Procs, m \in Msgs, rejected \in BOOLEAN : RecordAttempt(p, m, rejected)
  BY Zenon, <1>1, <1>3, EventTypes DEF RecordAttempt
<1>4. CASE \E p \in Procs, m \in Msgs, hop \in Hops, by \in Nodes : HandleAck(p, m, hop, by)
  BY Zenon, <1>1, <1>4, EventTypes DEF HandleAck
<1>5. ASSUME NEW p \in Procs, Pending(p)
      PROVE  \E S \in SUBSET Msgs : \E evs \in [S -> Event] : disk' = FoldAll(disk, evs)
  <2>1. /\ [x \in Overdue(p) |-> Expired] \in [Overdue(p) -> Event]
        /\ Overdue(p) \in SUBSET Msgs
    BY Zenon, EventTypes DEF Overdue, QueuedIn
  <2>2. disk' = FoldAll(disk, [x \in Overdue(p) |-> Expired])
    BY Zenon, <1>5 DEF Pending, Append
  <2> QED BY Zenon, <2>1, <2>2
<1>6. ASSUME NEW p \in Procs, PendingInterrupted(p)
      PROVE  \E S \in SUBSET Msgs : \E evs \in [S -> Event] : disk' = FoldAll(disk, evs)
  <2>1. PICK S \in SUBSET Overdue(p) : disk' = FoldAll(disk, [m \in S |-> Expired])
    BY Zenon, <1>6 DEF PendingInterrupted
  <2>2. [m \in S |-> Expired] \in [S -> Event] /\ S \in SUBSET Msgs
    BY Zenon, EventTypes DEF Overdue, QueuedIn
  <2> QED BY Zenon, <2>1, <2>2
<1>7. ASSUME NEW p \in Procs, Compact(p)
      PROVE  disk' = Kept(disk)
  <2>1. Ready(p) /\ TypeOK /\ MemoryIsTheFold /\ ~corrupt
    BY Zenon, <1>7 DEF Compact, IInv
  <2>2. Records(p) = disk
    BY Zenon, <2>1, RecordsAreTheFold
  <2> QED BY Zenon, <1>7, <2>2 DEF Compact
<1>8. CASE \E p \in Procs : Read(p) \/ LoadFails(p)
  BY Zenon, <1>8 DEF Read, LoadFails
<1>9. CASE \E p \in Procs : Start(p) \/ Crash(p) \/ Tear(p)
  BY Zenon, <1>9 DEF Start, Crash, Tear
<1>10. CASE Tick \/ UNCHANGED vars
  BY Zenon, <1>10 DEF Tick, vars
<1> QED BY Zenon, <1>2, <1>3, <1>4, <1>5, <1>6, <1>7, <1>8, <1>9, <1>10 DEF Next

\* A fold of accepted events leaves terminal records alone, and keeps every
\* queued record and the attempts it has.
LEMMA FoldKeeps ==
    ASSUME NEW recs \in [Msgs -> Record], NEW S \in SUBSET Msgs,
           NEW evs \in [S -> Event], NEW m \in Msgs
    PROVE  /\ recs[m].state \in Terminal => FoldAll(recs, evs)[m] = recs[m]
           /\ recs[m].state = "queued" =>
                 /\ FoldAll(recs, evs)[m].state # "absent"
                 /\ FoldAll(recs, evs)[m].attempts >= recs[m].attempts
<1>0. recs[m] \in Record /\ recs[m].attempts \in Nat
  BY OutboxConstants DEF Record
<1>1. CASE ~(m \in S /\ FoldAccepts(m, recs[m], evs[m]))
  BY <1>0, <1>1 DEF FoldAll
<1>2. CASE m \in S /\ FoldAccepts(m, recs[m], evs[m])
  <2>1. FoldAll(recs, evs)[m] = Fold(recs[m], evs[m])
    BY Zenon, <1>2 DEF FoldAll
  <2>2. recs[m].state \notin Terminal
    BY Zenon, <1>2 DEF FoldAccepts, Terminal
  <2>3. ASSUME recs[m].state = "queued"
        PROVE  /\ Fold(recs[m], evs[m]).state # "absent"
               /\ Fold(recs[m], evs[m]).attempts >= recs[m].attempts
    <3>1. evs[m].kind \in {"attempt", "delivered", "expired"}
      BY Zenon, <1>2, <2>3 DEF FoldAccepts
    <3>2. CASE evs[m].kind = "attempt"
      <4>1. Fold(recs[m], evs[m]) =
              [recs[m] EXCEPT !.attempts = @ + 1,
                              !.state = IF evs[m].rejected THEN "rejected" ELSE @]
        BY Zenon, <3>2 DEF Fold
      <4> QED BY <1>0, <2>3, <4>1 DEF Record
    <3>3. CASE evs[m].kind = "delivered"
      <4>1. Fold(recs[m], evs[m]) =
              [recs[m] EXCEPT !.state = "delivered", !.by = evs[m].by]
        BY Zenon, <3>3 DEF Fold
      <4> QED BY <1>0, <2>3, <4>1 DEF Record
    <3>4. CASE evs[m].kind = "expired"
      BY <1>0, <2>3, <3>4 DEF Fold, Record
    <3> QED BY Zenon, <3>1, <3>2, <3>3, <3>4
  <2> QED BY <2>1, <2>2, <2>3
<1> QED BY Zenon, <1>1, <1>2

\* As long as the journal loads no operation, of any process, drops a queued
\* record or an attempt of it; compact() included.
THEOREM OutboxQueuedNeverDropped == Spec => QueuedNeverDropped
<1>1. ASSUME IInv, [Next]_vars, NEW m \in Msgs, ~corrupt, disk[m].state = "queued"
      PROVE  disk'[m].state # "absent" /\ disk'[m].attempts >= disk[m].attempts
  <2>0. disk \in [Msgs -> Record] /\ disk[m].attempts \in Nat
    BY <1>1, OutboxConstants DEF IInv, TypeOK, Record
  <2>1. CASE disk' = disk
    BY <1>1, <2>0, <2>1
  <2>2. CASE disk' = Kept(disk)
    BY <1>1, <2>0, <2>2 DEF Kept
  <2>3. CASE \E S \in SUBSET Msgs : \E evs \in [S -> Event] : disk' = FoldAll(disk, evs)
    BY <1>1, <2>0, <2>3, FoldKeeps
  <2> QED BY Zenon, <1>1, <2>1, <2>2, <2>3, DiskSteps
<1>2. IInv /\ [Next]_vars =>
        [\A m \in Msgs : ~corrupt /\ disk[m].state = "queued" =>
            disk'[m].state # "absent" /\ disk'[m].attempts >= disk[m].attempts]_vars
  BY Zenon, <1>1
<1> QED BY <1>2, Invariance, PTL DEF Spec, QueuedNeverDropped

\* A delivered, rejected or expired record of a journal that loads never
\* changes; it can only leave, by a compaction.
THEOREM OutboxTerminalIsFinal == Spec => TerminalIsFinal
<1>1. ASSUME IInv, [Next]_vars, NEW m \in Msgs, ~corrupt, disk[m].state \in Terminal
      PROVE  disk'[m] \in {disk[m], Absent}
  <2>0. disk \in [Msgs -> Record]
    BY Zenon, <1>1 DEF IInv, TypeOK
  <2>1. CASE disk' = disk
    BY Zenon, <2>1
  <2>2. CASE disk' = Kept(disk)
    BY Zenon, <1>1, <2>2 DEF Kept, Terminal
  <2>3. CASE \E S \in SUBSET Msgs : \E evs \in [S -> Event] : disk' = FoldAll(disk, evs)
    BY <1>1, <2>0, <2>3, FoldKeeps
  <2> QED BY Zenon, <1>1, <2>1, <2>2, <2>3, DiskSteps
<1>2. IInv /\ [Next]_vars =>
        [\A m \in Msgs : ~corrupt /\ disk[m].state \in Terminal =>
            disk'[m] \in {disk[m], Absent}]_vars
  BY Zenon, <1>1
<1> QED BY <1>2, Invariance, PTL DEF Spec, TerminalIsFinal

=============================================================================
