---------------------------- MODULE CourierProofs ----------------------------
(***************************************************************************)
(* Proofs about what the carriers hold: the sprays of CourierSpray, and    *)
(* the store of one carrier, CourierStore, whose names carry the prefix    *)
(* Store! here (its corrupt, torn and held are unparsable, cut and sealed).*)
(***************************************************************************)
EXTENDS CourierSpray, Sequences, FiniteSetTheorems, TLAPS

-----------------------------------------------------------------------------
(* The inductive invariant of the sprays *)

\* The carriers with a live copy of the spray.
LiveIn(copies, id) == {c \in Carriers : copies[id][c] \in {"sealed", "held"}}

Tracked(sprays, copies) ==
    \A id \in Sprays : \A c \in LiveIn(copies, id) :
        id \in DOMAIN sprays /\ ~sprays[id].done /\ c \in sprays[id].left

\* The journal knows registered sprays only and, while it loads, every live copy.
JournalOK ==
    /\ used \in 0 .. MaxIds /\ torn \in BOOLEAN /\ corrupt \in BOOLEAN
    /\ DOMAIN journal \subseteq 1 .. used /\ journal \in [DOMAIN journal -> Spray]
    /\ Cardinality(PendingIn(journal)) <= MaxSprays
    /\ ~corrupt => Tracked(journal, copy)

\* A spray that was never registered has no copies.
CopiesOK ==
    /\ copy \in [Sprays -> [Carriers -> Copy]]
    /\ \A id \in Sprays : id > used => \A c \in Carriers : copy[id][c] = "none"

Job == [step: {"idle", "deliver", "sweep", "record"},
        id: 0 .. MaxIds, by: Carriers \cup {"none"},
        left: SUBSET Carriers, todo: SUBSET Carriers]

\* What a cancel_siblings call under way knows.  Its view of the carriers left
\* is as old as its first read, but no copy of a registered spray comes to life, so
\* the view still has every live copy; and the carrier whose drop it is about to
\* record has none.
Knows(r, copies, n) ==
    r.step # "idle" =>
        /\ r.id \in 1 .. n
        /\ r.todo \subseteq r.left
        /\ LiveIn(copies, r.id) \subseteq r.left
        /\ r.step # "sweep" => r.by \in r.left /\ r.by \notin LiveIn(copies, r.id)
        /\ r.step = "record" => r.by \notin r.todo

JobsOK ==
    /\ job \in [Procs -> Job] /\ slips \in 0 .. MaxSlips
    /\ \A p \in Procs : Knows(job[p], copy, used)

SprayInv == JournalOK /\ CopiesOK /\ JobsOK
-----------------------------------------------------------------------------
(* The journal *)

\* Pruning keeps what it keeps as it is, and every pending spray.
LEMMA PrunedFacts ==
    ASSUME NEW sprays
    PROVE  /\ DOMAIN Pruned(sprays) \subseteq DOMAIN sprays
           /\ Pruned(sprays) = [id \in DOMAIN Pruned(sprays) |-> sprays[id]]
           /\ \A id \in DOMAIN Pruned(sprays) : Pruned(sprays)[id] = sprays[id]
           /\ \A id \in DOMAIN sprays : ~sprays[id].done => id \in DOMAIN Pruned(sprays)
  BY Zenon DEF Pruned

LEMMA PendingFinite ==
    ASSUME JournalOK
    PROVE  IsFiniteSet(PendingIn(journal)) /\ Cardinality(PendingIn(journal)) \in Nat
<1>1. IsFiniteSet(1 .. used)
  <2>1. used \in Int /\ 1 \in Int  BY SprayConstants DEF JournalOK
  <2> QED  BY <2>1, FS_Interval
<1>2. PendingIn(journal) \subseteq 1 .. used  BY Zenon DEF JournalOK, PendingIn
<1> QED  BY Zenon, <1>1, <1>2, FS_Subset, FS_CardinalityType

\* A journal whose pending sprays were all pending before respects the cap.
LEMMA FewerPending ==
    ASSUME JournalOK, NEW sprays, PendingIn(sprays) \subseteq PendingIn(journal)
    PROVE  Cardinality(PendingIn(sprays)) <= MaxSprays
<1>1. /\ IsFiniteSet(PendingIn(sprays))
      /\ Cardinality(PendingIn(sprays)) <= Cardinality(PendingIn(journal))
  BY Zenon, PendingFinite, FS_Subset
<1>2. Cardinality(PendingIn(sprays)) \in Nat /\ Cardinality(PendingIn(journal)) \in Nat
  BY Zenon, <1>1, PendingFinite, FS_CardinalityType
<1> QED  BY <1>1, <1>2, SprayConstants DEF JournalOK

\* _refresh_from_disk_locked and _write_snapshot_locked, also before a torn append.
LEMMA PruneKeeps ==
    ASSUME JournalOK, journal' = Pruned(journal), torn' \in BOOLEAN, corrupt' = corrupt,
           used' = used, copy' = copy
    PROVE  JournalOK'
<1>1. PICK sprays : sprays = Pruned(journal)  BY Zenon
<1>2. /\ DOMAIN sprays \subseteq DOMAIN journal
      /\ sprays = [id \in DOMAIN sprays |-> journal[id]]
      /\ \A id \in DOMAIN sprays : sprays[id] = journal[id]
      /\ \A id \in DOMAIN journal : ~journal[id].done => id \in DOMAIN sprays
  BY <1>1, PrunedFacts, Zenon
<1>3. DOMAIN sprays \subseteq 1 .. used /\ sprays \in [DOMAIN sprays -> Spray]
  BY Zenon, <1>2 DEF JournalOK
<1>4. Cardinality(PendingIn(sprays)) <= MaxSprays
  <2>1. PendingIn(sprays) \subseteq PendingIn(journal)  BY Zenon, <1>2 DEF PendingIn
  <2> QED  BY Zenon, <2>1, FewerPending
<1>5. ~corrupt => Tracked(sprays, copy)  BY Zenon, <1>2 DEF JournalOK, Tracked
<1> QED  BY Zenon, <1>1, <1>3, <1>4, <1>5 DEF JournalOK

\* _append.
LEMMA AppendKeeps ==
    ASSUME JournalOK, NEW id \in Sprays, NEW dropped, NEW completed \in BOOLEAN,
           dropped \cap LiveIn(copy, id) = {}, completed => LiveIn(copy, id) = {},
           AppendEvent(id, dropped, completed), used' = used, copy' = copy
    PROVE  JournalOK'
<1>1. torn' \in BOOLEAN  BY Zenon DEF AppendEvent
<1>2. CASE torn \/ id \notin DOMAIN journal
  <2>1. corrupt' = TRUE /\ journal' = journal  BY Zenon, <1>2 DEF AppendEvent
  <2> QED  BY Zenon, <1>1, <2>1 DEF JournalOK
<1>3. CASE ~torn /\ id \in DOMAIN journal
  <2>1. PICK sprays : sprays =
            [journal EXCEPT ![id].left = @ \ dropped, ![id].done = @ \/ completed]
    BY Zenon
  <2>2. journal' = sprays /\ corrupt' = corrupt  BY Zenon, <1>3, <2>1 DEF AppendEvent
  <2>3. journal \in [DOMAIN journal -> Spray]  BY Zenon DEF JournalOK
  <2>4. /\ DOMAIN sprays = DOMAIN journal
        /\ \A k \in DOMAIN journal : k # id => sprays[k] = journal[k]
    BY Zenon, <2>1
  <2>5. /\ sprays[id] \in Spray
        /\ sprays[id].left = journal[id].left \ dropped
        /\ sprays[id].done = (journal[id].done \/ completed)
    BY Zenon, <1>3, <2>1, <2>3 DEF Spray
  <2>6. sprays \in [DOMAIN sprays -> Spray]
    <3>1. \A k \in DOMAIN sprays : sprays[k] \in Spray  BY Zenon, <2>3, <2>4, <2>5
    <3>2. sprays = [k \in DOMAIN sprays |-> sprays[k]]  BY Zenon, <2>1
    <3> QED  BY Zenon, <3>1, <3>2
  <2>7. Cardinality(PendingIn(sprays)) <= MaxSprays
    <3>1. PendingIn(sprays) \subseteq PendingIn(journal)  BY Zenon, <2>4, <2>5 DEF PendingIn
    <3> QED  BY Zenon, <3>1, FewerPending
  <2>8. ~corrupt => Tracked(sprays, copy)
    BY Zenon, <2>4, <2>5 DEF JournalOK, Tracked
  <2> QED  BY Zenon, <1>1, <2>2, <2>4, <2>6, <2>7, <2>8 DEF JournalOK
<1> QED  BY Zenon, <1>2, <1>3

\* A live copy that goes leaves the journal with one less to track.
LEMMA FewerCopies ==
    ASSUME JournalOK, \A id \in Sprays : LiveIn(copy', id) \subseteq LiveIn(copy, id),
           journal' = journal, torn' = torn, corrupt' = corrupt, used' = used
    PROVE  JournalOK'
<1>1. PICK copies : copies = copy'  BY Zenon
<1>2. ~corrupt => Tracked(journal, copies)  BY Zenon, <1>1 DEF JournalOK, Tracked
<1> QED  BY Zenon, <1>1, <1>2 DEF JournalOK

\* register.
LEMMA RegisterKeeps ==
    ASSUME JournalOK, CopiesOK, NEW p, NEW C \in SUBSET Carriers, Register(p, C)
    PROVE  JournalOK' /\ CopiesOK'
<1>1. PICK id : id = used + 1  BY Zenon
<1>2. PICK glued : glued = (torn /\ Pruned(journal) = journal)  BY Zenon
<1>3. PICK kept : kept = DOMAIN Pruned(journal)  BY Zenon
<1>4. PICK s : s = [left |-> C, done |-> FALSE]  BY Zenon
<1>5. PICK sprays : sprays = [k \in kept \cup (IF glued THEN {} ELSE {id}) |->
                                 IF k = id THEN s ELSE journal[k]]
  BY Zenon
<1>6. PICK fresh : fresh = [c \in Carriers |-> IF c \in C THEN "sealed" ELSE "none"]
  BY Zenon
<1>7. /\ id \in Sprays /\ ~corrupt /\ corrupt' = glued /\ torn' = FALSE
      /\ Cardinality(PendingIn(journal)) < MaxSprays
      /\ used' = id /\ journal' = sprays
      /\ copy' = [copy EXCEPT ![id] = fresh]
  BY Zenon, <1>1, <1>2, <1>3, <1>4, <1>5, <1>6 DEF Register
<1>8. /\ kept \subseteq DOMAIN journal
      /\ \A k \in DOMAIN journal : ~journal[k].done => k \in kept
  BY <1>3, PrunedFacts, Zenon
<1>9. s \in Spray /\ ~s.done /\ s.left = C  BY Zenon, <1>4 DEF Spray
<1>10. /\ id \in 0 .. MaxIds /\ id \in 1 .. id /\ id \notin 1 .. used
       /\ 1 .. used \subseteq 1 .. id /\ id > used
       /\ \A k \in Sprays : k > id => k > used /\ k # id
  BY <1>1, <1>7, SprayConstants DEF JournalOK, Sprays
<1>11. id \notin DOMAIN journal  BY Zenon, <1>10 DEF JournalOK
<1>12. DOMAIN sprays \subseteq 1 .. id /\ sprays \in [DOMAIN sprays -> Spray]
  <2>1. DOMAIN sprays \subseteq kept \cup {id}  BY Zenon, <1>5
  <2>2. \A k \in DOMAIN sprays : sprays[k] \in Spray
    BY Zenon, <2>1, <1>5, <1>8, <1>9 DEF JournalOK
  <2>3. sprays = [k \in DOMAIN sprays |-> sprays[k]]  BY Zenon, <1>5
  <2> QED  BY Zenon, <2>1, <2>2, <2>3, <1>8, <1>10 DEF JournalOK
<1>13. Cardinality(PendingIn(sprays)) <= MaxSprays
  <2>1. PendingIn(sprays) \subseteq PendingIn(journal) \cup {id}
    BY Zenon, <1>5, <1>8, <1>9 DEF PendingIn
  <2>2. id \notin PendingIn(journal)  BY Zenon, <1>11 DEF PendingIn
  <2>3. /\ IsFiniteSet(PendingIn(journal) \cup {id})
        /\ Cardinality(PendingIn(journal) \cup {id}) = Cardinality(PendingIn(journal)) + 1
    BY Zenon, <2>2, PendingFinite, FS_AddElement
  <2>4. /\ Cardinality(PendingIn(sprays)) <= Cardinality(PendingIn(journal) \cup {id})
        /\ Cardinality(PendingIn(sprays)) \in Nat
    BY Zenon, <2>1, <2>3, FS_Subset, FS_CardinalityType
  <2> QED  BY <2>3, <2>4, <1>7, PendingFinite, SprayConstants
<1>14. ASSUME NEW k \in Sprays
       PROVE  IF k = id THEN copy'[k] = fresh ELSE copy'[k] = copy[k]
  BY Zenon, <1>7 DEF CopiesOK
<1>15. ~glued => Tracked(sprays, copy')
  <2> SUFFICES ASSUME ~glued, NEW k \in Sprays, NEW c \in LiveIn(copy', k)
               PROVE  k \in DOMAIN sprays /\ ~sprays[k].done /\ c \in sprays[k].left
    BY Zenon DEF Tracked
  <2>1. c \in Carriers /\ copy'[k][c] \in {"sealed", "held"}  BY Zenon DEF LiveIn
  <2>2. CASE k = id
    <3>1. sprays[k] = s /\ k \in DOMAIN sprays  BY Zenon, <1>5, <2>2
    <3>2. fresh[c] \in {"sealed", "held"}  BY Zenon, <2>1, <2>2, <1>14
    <3>3. c \in C  BY <3>2, <2>1, <1>6
    <3> QED  BY Zenon, <3>1, <3>3, <1>9
  <2>3. CASE k # id
    <3>1. c \in LiveIn(copy, k)  BY Zenon, <2>1, <2>3, <1>14 DEF LiveIn
    <3>2. k \in DOMAIN journal /\ ~journal[k].done /\ c \in journal[k].left
      BY Zenon, <3>1, <1>7 DEF JournalOK, Tracked
    <3>3. k \in kept  BY Zenon, <3>2, <1>8
    <3>4. k \in DOMAIN sprays /\ sprays[k] = journal[k]  BY Zenon, <3>3, <2>3, <1>5
    <3> QED  BY Zenon, <3>2, <3>4
  <2> QED  BY Zenon, <2>2, <2>3
<1>16. JournalOK'
  <2>1. glued \in BOOLEAN  BY Zenon, <1>2
  <2> QED  BY Zenon, <2>1, <1>7, <1>10, <1>12, <1>13, <1>15 DEF JournalOK
<1>17. CopiesOK'
  <2>1. fresh \in [Carriers -> Copy]  BY <1>6 DEF Copy
  <2>2. copy' \in [Sprays -> [Carriers -> Copy]]  BY Zenon, <2>1, <1>7 DEF CopiesOK
  <2>3. \A k \in Sprays : k > used' => \A c \in Carriers : copy'[k][c] = "none"
    BY Zenon, <1>7, <1>10, <1>14 DEF CopiesOK
  <2> QED  BY Zenon, <2>2, <2>3 DEF CopiesOK
<1> QED  BY Zenon, <1>16, <1>17
-----------------------------------------------------------------------------
(* The copies and the jobs *)

LEMMA CopiesKept ==
    ASSUME CopiesOK, copy' = copy, used' = used
    PROVE  CopiesOK'
  BY Zenon DEF CopiesOK

\* What a job knows stays true while copies go and sprays are registered.
LEMMA KnowsKept ==
    ASSUME NEW r, NEW h, NEW k, NEW n, NEW m, Knows(r, h, n), 1 .. n \subseteq 1 .. m,
           \A id \in 1 .. n : LiveIn(k, id) \subseteq LiveIn(h, id)
    PROVE  Knows(r, k, m)
  BY Zenon DEF Knows

\* No copy of a registered spray comes to life.
NoNewCopies ==
    /\ 1 .. used \subseteq 1 .. used'
    /\ \A id \in 1 .. used : LiveIn(copy', id) \subseteq LiveIn(copy, id)

\* One copy changes, and does not come to life.
LEMMA CopyStep ==
    ASSUME CopiesOK, NEW id \in Sprays, NEW c \in Carriers, NEW k \in Copy,
           k = copy[id][c] \/ copy[id][c] # "none",
           k \in {"sealed", "held"} => copy[id][c] \in {"sealed", "held"},
           copy' = [copy EXCEPT ![id][c] = k], used' = used
    PROVE  /\ CopiesOK' /\ copy'[id][c] = k
           /\ \A i \in Sprays : LiveIn(copy', i) \subseteq LiveIn(copy, i)
<1>1. PICK new : new = copy'  BY Zenon
<1>2. copy \in [Sprays -> [Carriers -> Copy]]  BY Zenon DEF CopiesOK
<1>3. new \in [Sprays -> [Carriers -> Copy]]  BY Zenon, <1>1, <1>2
<1>4. \A i \in Sprays, x \in Carriers :
          new[i][x] = IF i = id /\ x = c THEN k ELSE copy[i][x]
  <2> SUFFICES ASSUME NEW i \in Sprays, NEW x \in Carriers
               PROVE  new[i][x] = IF i = id /\ x = c THEN k ELSE copy[i][x]
    BY Zenon
  <2>1. copy[i] \in [Carriers -> Copy]  BY Zenon, <1>2
  <2>2. CASE i # id
    <3>1. new[i] = copy[i]  BY Zenon, <1>1, <1>2, <2>2
    <3> QED  BY Zenon, <3>1, <2>2
  <2>3. CASE i = id
    <3>1. new[i] = [copy[i] EXCEPT ![c] = k]  BY Zenon, <1>1, <1>2, <2>3
    <3> QED  BY Zenon, <3>1, <2>1, <2>3
  <2> QED  BY Zenon, <2>2, <2>3
<1>5. \A i \in Sprays : LiveIn(new, i) \subseteq LiveIn(copy, i)
  BY Zenon, <1>4 DEF LiveIn
<1>6. \A i \in Sprays : i > used => \A x \in Carriers : new[i][x] = "none"
  BY Zenon, <1>4 DEF CopiesOK
<1> QED  BY Zenon, <1>1, <1>3, <1>4, <1>5, <1>6 DEF CopiesOK

LEMMA JobsKept ==
    ASSUME JobsOK, NoNewCopies, job' = job, slips' \in 0 .. MaxSlips
    PROVE  JobsOK'
<1>1. PICK h, n : h = copy' /\ n = used'  BY Zenon
<1>2. \A p \in Procs : Knows(job[p], h, n)
  BY Zenon, <1>1, KnowsKept DEF JobsOK, NoNewCopies
<1> QED  BY Zenon, <1>1, <1>2 DEF JobsOK

LEMMA JobStep ==
    ASSUME JobsOK, NoNewCopies, NEW p \in Procs, NEW r \in Job,
           job' = [job EXCEPT ![p] = r], Knows(r, copy', used'), slips' \in 0 .. MaxSlips
    PROVE  JobsOK'
<1>1. PICK h, n : h = copy' /\ n = used'  BY Zenon
<1>2. \A q \in Procs : Knows(job[q], h, n)
  BY Zenon, <1>1, KnowsKept DEF JobsOK, NoNewCopies
<1>3. job \in [Procs -> Job]  BY Zenon DEF JobsOK
<1>4. job' \in [Procs -> Job]  BY Zenon, <1>3
<1>5. \A q \in Procs : Knows(job'[q], h, n)
  <2> SUFFICES ASSUME NEW q \in Procs PROVE Knows(job'[q], h, n)
    BY Zenon
  <2>1. CASE q = p
    <3>1. job'[q] = r  BY Zenon, <1>3, <2>1
    <3> QED  BY Zenon, <3>1, <1>1
  <2>2. CASE q # p
    <3>1. job'[q] = job[q]  BY Zenon, <1>3, <2>2
    <3> QED  BY Zenon, <3>1, <1>2
  <2> QED  BY Zenon, <2>1, <2>2
<1> QED  BY Zenon, <1>1, <1>4, <1>5 DEF JobsOK

LEMMA IdleFacts == Idle \in Job /\ \A h, n : Knows(Idle, h, n)
<1>1. Idle \in Job  BY SprayConstants DEF Idle, Job
<1>2. Idle.step = "idle"  BY Zenon DEF Idle
<1> QED  BY Zenon, <1>1, <1>2 DEF Knows
-----------------------------------------------------------------------------
(* cancel_siblings *)

\* The record of a job is made of its five fields.
LEMMA JobFields ==
    ASSUME JobsOK, NEW p \in Procs
    PROVE  /\ job[p] \in Job /\ Knows(job[p], copy, used)
           /\ job[p] = [step |-> job[p].step, id |-> job[p].id, by |-> job[p].by,
                        left |-> job[p].left, todo |-> job[p].todo]
  BY Zenon DEF JobsOK, Job

LEMMA Registered ==
    ASSUME JournalOK
    PROVE  1 .. used \subseteq Sprays
  BY SprayConstants DEF JournalOK, Sprays

LEMMA BeginKeeps ==
    ASSUME SprayInv, NEW p \in Procs, NEW id \in Sprays, NEW d \in Carriers, Begin(p, id, d)
    PROVE  SprayInv'
<1> USE DEF SprayInv
<1>1. /\ ~corrupt /\ journal' = Pruned(journal) /\ torn' \in BOOLEAN
      /\ UNCHANGED <<corrupt, used, copy, slips>>
  BY Zenon DEF Begin, Refresh
<1>2. JournalOK' /\ CopiesOK'  BY Zenon, <1>1, PruneKeeps, CopiesKept
<1>3. PICK s : s = journal[id]  BY Zenon
<1>4. id \in DOMAIN journal /\ Pruned(journal)[id] = s /\ ~s.done
  BY Zenon, <1>3, PrunedFacts DEF Begin
<1>5. PICK r : r = [step |-> IF d \in s.left THEN "deliver" ELSE "sweep", id |-> id,
                    by |-> d, left |-> s.left, todo |-> s.left]
  BY Zenon
<1>6. job' = [job EXCEPT ![p] = r]  BY Zenon, <1>4, <1>5 DEF Begin
<1>7. s.left \subseteq Carriers  BY Zenon, <1>3, <1>4 DEF JournalOK, Spray
<1>8. r \in Job
  <2>1. id \in 0 .. MaxIds  BY SprayConstants DEF Sprays
  <2> QED  BY <2>1, <1>5, <1>7 DEF Job
<1>9. Knows(r, copy, used)
  <2>1. id \in 1 .. used  BY Zenon, <1>4 DEF JournalOK
  <2>2. LiveIn(copy, id) \subseteq s.left  BY Zenon, <1>1, <1>3, <1>4 DEF JournalOK, Tracked
  <2>3. copy[id][d] = "taken"  BY Zenon DEF Begin, Taken
  <2>4. d \notin LiveIn(copy, id)  BY <2>3 DEF LiveIn
  <2> QED  BY <2>1, <2>2, <2>4, <1>5 DEF Knows
<1>10. NoNewCopies  BY Zenon, <1>1 DEF NoNewCopies
<1>11. slips' \in 0 .. MaxSlips  BY Zenon, <1>1 DEF JobsOK
<1>12. JobsOK'  BY Zenon, <1>1, <1>6, <1>8, <1>9, <1>10, <1>11, JobStep
<1> QED  BY Zenon, <1>2, <1>12

LEMMA RecordDeliveredKeeps ==
    ASSUME SprayInv, NEW p \in Procs, RecordDelivered(p)
    PROVE  SprayInv'
<1> USE DEF SprayInv
<1>1. PICK j : j = job[p]  BY Zenon
<1>2. /\ j \in Job /\ Knows(j, copy, used)
      /\ j = [step |-> j.step, id |-> j.id, by |-> j.by, left |-> j.left, todo |-> j.todo]
  BY Zenon, <1>1, JobFields
<1>3. j.step = "deliver" /\ UNCHANGED <<used, copy, slips>>
  BY Zenon, <1>1 DEF RecordDelivered
<1>4. /\ j.id \in 1 .. used /\ j.todo \subseteq j.left /\ LiveIn(copy, j.id) \subseteq j.left
      /\ j.by \in j.left /\ j.by \notin LiveIn(copy, j.id)
  BY Zenon, <1>2, <1>3 DEF Knows
<1>5. AppendEvent(j.id, {j.by}, FALSE)  BY Zenon, <1>1 DEF RecordDelivered, AppendDrop
<1>6. JournalOK'  BY Zenon, <1>3, <1>4, <1>5, AppendKeeps, Registered
<1>7. CopiesOK'  BY Zenon, <1>3, CopiesKept
<1>8. PICK r : r = [step |-> "sweep", id |-> j.id, by |-> j.by, left |-> j.left \ {j.by},
                    todo |-> j.todo \ {j.by}]
  BY Zenon
<1>9. job' = [job EXCEPT ![p] = r]
  <2>1. job' = [job EXCEPT ![p] =
                 [j EXCEPT !.step = "sweep", !.left = @ \ {j.by}, !.todo = @ \ {j.by}]]
    BY Zenon, <1>1 DEF RecordDelivered, JobsOK
  <2>2. [j EXCEPT !.step = "sweep", !.left = @ \ {j.by}, !.todo = @ \ {j.by}] = r
    <3>1. PICK k : k = [j EXCEPT !.step = "sweep"]  BY Zenon
    <3>2. k = [step |-> "sweep", id |-> j.id, by |-> j.by, left |-> j.left, todo |-> j.todo]
      BY Zenon, <1>2, <3>1
    <3>3. PICK f : f = [k EXCEPT !.left = j.left \ {j.by}]  BY Zenon
    <3>4. f = [step |-> "sweep", id |-> j.id, by |-> j.by, left |-> j.left \ {j.by},
              todo |-> j.todo]
      BY Zenon, <3>2, <3>3
    <3>5. [f EXCEPT !.todo = j.todo \ {j.by}] = r  BY <3>4, <1>8
    <3> QED  BY <3>1, <3>3, <3>5, Zenon
  <2> QED  BY Zenon, <2>1, <2>2
<1>10. r \in Job  BY Zenon, <1>2, <1>8 DEF Job
<1>11. Knows(r, copy, used)  BY Zenon, <1>4, <1>8 DEF Knows
<1>12. JobsOK'
  <2>1. NoNewCopies /\ slips' \in 0 .. MaxSlips  BY Zenon, <1>3 DEF NoNewCopies, JobsOK
  <2> QED  BY Zenon, <2>1, <1>3, <1>9, <1>10, <1>11, JobStep
<1> QED  BY Zenon, <1>6, <1>7, <1>12

LEMMA RecordCancelledKeeps ==
    ASSUME SprayInv, NEW p \in Procs, RecordCancelled(p)
    PROVE  SprayInv'
<1> USE DEF SprayInv
<1>1. PICK j : j = job[p]  BY Zenon
<1>2. /\ j \in Job /\ Knows(j, copy, used)
      /\ j = [step |-> j.step, id |-> j.id, by |-> j.by, left |-> j.left, todo |-> j.todo]
  BY Zenon, <1>1, JobFields
<1>3. j.step = "record" /\ UNCHANGED <<used, copy, slips>>
  BY Zenon, <1>1 DEF RecordCancelled
<1>4. /\ j.id \in 1 .. used /\ j.todo \subseteq j.left /\ LiveIn(copy, j.id) \subseteq j.left
      /\ j.by \in j.left /\ j.by \notin LiveIn(copy, j.id) /\ j.by \notin j.todo
  BY Zenon, <1>2, <1>3 DEF Knows
<1>5. AppendEvent(j.id, {j.by}, FALSE)  BY Zenon, <1>1 DEF RecordCancelled, AppendDrop
<1>6. JournalOK'  BY Zenon, <1>3, <1>4, <1>5, AppendKeeps, Registered
<1>7. CopiesOK'  BY Zenon, <1>3, CopiesKept
<1>8. PICK r : r = [step |-> "sweep", id |-> j.id, by |-> j.by, left |-> j.left \ {j.by},
                    todo |-> j.todo]
  BY Zenon
<1>9. job' = [job EXCEPT ![p] = r]
  <2>1. job' = [job EXCEPT ![p] = [j EXCEPT !.step = "sweep", !.left = @ \ {j.by}]]
    BY Zenon, <1>1 DEF RecordCancelled, JobsOK
  <2>2. [j EXCEPT !.step = "sweep", !.left = @ \ {j.by}] = r
    <3>1. PICK k : k = [j EXCEPT !.step = "sweep"]  BY Zenon
    <3>2. k = [step |-> "sweep", id |-> j.id, by |-> j.by, left |-> j.left, todo |-> j.todo]
      BY Zenon, <1>2, <3>1
    <3>3. [k EXCEPT !.left = j.left \ {j.by}] = r  BY <3>2, <1>8
    <3> QED  BY <3>1, <3>3, Zenon
  <2> QED  BY Zenon, <2>1, <2>2
<1>10. r \in Job  BY Zenon, <1>2, <1>8 DEF Job
<1>11. Knows(r, copy, used)  BY Zenon, <1>4, <1>8 DEF Knows
<1>12. JobsOK'
  <2>1. NoNewCopies /\ slips' \in 0 .. MaxSlips  BY Zenon, <1>3 DEF NoNewCopies, JobsOK
  <2> QED  BY Zenon, <2>1, <1>3, <1>9, <1>10, <1>11, JobStep
<1> QED  BY Zenon, <1>6, <1>7, <1>12

\* A step that leaves the journal and the copies alone.
LEMMA JournalKept ==
    ASSUME JournalOK, UNCHANGED <<journal, torn, corrupt, used, copy>>
    PROVE  JournalOK'
  BY Zenon DEF JournalOK

LEMMA SkipKeeps ==
    ASSUME SprayInv, NEW p \in Procs, NEW c \in Carriers, Skip(p, c)
    PROVE  SprayInv'
<1> USE DEF SprayInv
<1>1. PICK j : j = job[p]  BY Zenon
<1>2. /\ j \in Job /\ Knows(j, copy, used)
      /\ j = [step |-> j.step, id |-> j.id, by |-> j.by, left |-> j.left, todo |-> j.todo]
  BY Zenon, <1>1, JobFields
<1>3. j.step = "sweep" /\ UNCHANGED <<journal, torn, corrupt, used, copy, slips>>
  BY Zenon, <1>1 DEF Skip
<1>4. JournalOK' /\ CopiesOK'  BY Zenon, <1>3, JournalKept, CopiesKept
<1>5. PICK r : r = [step |-> "sweep", id |-> j.id, by |-> j.by, left |-> j.left,
                    todo |-> j.todo \ {c}]
  BY Zenon
<1>6. job' = [job EXCEPT ![p] = r]
  <2>1. job' = [job EXCEPT ![p] = [j EXCEPT !.todo = @ \ {c}]]
    BY Zenon, <1>1 DEF Skip, JobsOK
  <2>2. [j EXCEPT !.todo = @ \ {c}] = r  BY <1>2, <1>3, <1>5 DEF Job
  <2> QED  BY Zenon, <2>1, <2>2
<1>7. r \in Job  BY Zenon, <1>2, <1>5 DEF Job
<1>8. Knows(r, copy, used)  BY Zenon, <1>2, <1>3, <1>5 DEF Knows
<1>9. JobsOK'
  <2>1. NoNewCopies /\ slips' \in 0 .. MaxSlips  BY Zenon, <1>3 DEF NoNewCopies, JobsOK
  <2> QED  BY Zenon, <2>1, <1>3, <1>6, <1>7, <1>8, JobStep
<1> QED  BY Zenon, <1>4, <1>9

\* discard_digest leaves no live copy.
LEMMA DiscardedFacts ==
    ASSUME NEW k \in Copy
    PROVE  /\ Discarded(k) \in Copy /\ Discarded(k) \notin {"sealed", "held"}
           /\ k = "none" => Discarded(k) = k
  BY DEF Copy, Discarded

LEMMA DiscardKeeps ==
    ASSUME SprayInv, NEW p \in Procs, NEW c \in Carriers, Discard(p, c)
    PROVE  SprayInv'
<1> USE DEF SprayInv
<1>1. PICK j : j = job[p]  BY Zenon
<1>2. /\ j \in Job /\ Knows(j, copy, used)
      /\ j = [step |-> j.step, id |-> j.id, by |-> j.by, left |-> j.left, todo |-> j.todo]
  BY Zenon, <1>1, JobFields
<1>3. /\ j.step = "sweep" /\ c \in j.todo
      /\ UNCHANGED <<journal, torn, corrupt, used, slips>>
      /\ copy' = [copy EXCEPT ![j.id][c] = Discarded(copy[j.id][c])]
  BY Zenon, <1>1 DEF Discard
<1>4. /\ j.id \in 1 .. used /\ j.id \in Sprays
      /\ j.todo \subseteq j.left /\ LiveIn(copy, j.id) \subseteq j.left
  BY Zenon, <1>2, <1>3, Registered DEF Knows
<1>5. PICK k : k = Discarded(copy[j.id][c])  BY Zenon
<1>6. k \in Copy /\ k \notin {"sealed", "held"} /\ (copy[j.id][c] = "none" => k = copy[j.id][c])
  <2>1. copy[j.id][c] \in Copy  BY Zenon, <1>4 DEF CopiesOK
  <2> QED  BY Zenon, <2>1, <1>5, DiscardedFacts
<1>7. PICK new : new = copy'  BY Zenon
<1>8. /\ CopiesOK' /\ new[j.id][c] = k
      /\ \A i \in Sprays : LiveIn(new, i) \subseteq LiveIn(copy, i)
  <2>1. copy' = [copy EXCEPT ![j.id][c] = k] /\ used' = used /\ CopiesOK  BY Zenon, <1>3, <1>5
  <2>2. k = copy[j.id][c] \/ copy[j.id][c] # "none"  BY Zenon, <1>6
  <2>3. /\ CopiesOK' /\ copy'[j.id][c] = k
        /\ \A i \in Sprays : LiveIn(copy', i) \subseteq LiveIn(copy, i)
    BY Zenon, <2>1, <2>2, <1>4, <1>6, CopyStep
  <2> QED  BY Zenon, <2>3, <1>7
<1>9. c \notin LiveIn(new, j.id)  BY Zenon, <1>6, <1>8 DEF LiveIn
<1>10. JournalOK'  BY Zenon, <1>3, <1>7, <1>8, FewerCopies
<1>11. PICK r : r = [step |-> "record", id |-> j.id, by |-> c, left |-> j.left,
                     todo |-> j.todo \ {c}]
  BY Zenon
<1>12. job' = [job EXCEPT ![p] = r]
  <2>1. job' = [job EXCEPT ![p] = [j EXCEPT !.step = "record", !.by = c, !.todo = @ \ {c}]]
    BY Zenon, <1>1 DEF Discard, JobsOK
  <2>2. [j EXCEPT !.step = "record", !.by = c, !.todo = @ \ {c}] = r
    <3>1. PICK e : e = [j EXCEPT !.step = "record"]  BY Zenon
    <3>2. e = [step |-> "record", id |-> j.id, by |-> j.by, left |-> j.left, todo |-> j.todo]
      BY Zenon, <1>2, <3>1
    <3>3. PICK f : f = [e EXCEPT !.by = c]  BY Zenon
    <3>4. f = [step |-> "record", id |-> j.id, by |-> c, left |-> j.left, todo |-> j.todo]
      BY Zenon, <3>2, <3>3
    <3>5. [f EXCEPT !.todo = j.todo \ {c}] = r  BY <3>4, <1>11
    <3> QED  BY <3>1, <3>3, <3>5, Zenon
  <2> QED  BY Zenon, <2>1, <2>2
<1>13. r \in Job  BY Zenon, <1>2, <1>11 DEF Job
<1>14. Knows(r, new, used)  BY Zenon, <1>3, <1>4, <1>8, <1>9, <1>11 DEF Knows
<1>15. JobsOK'
  <2>1. NoNewCopies /\ slips' \in 0 .. MaxSlips
    BY Zenon, <1>3, <1>7, <1>8, Registered DEF NoNewCopies, JobsOK
  <2> QED  BY Zenon, <2>1, <1>3, <1>7, <1>12, <1>13, <1>14, JobStep
<1> QED  BY Zenon, <1>8, <1>10, <1>15

LEMMA FinishKeeps ==
    ASSUME SprayInv, NEW p \in Procs, Finish(p)
    PROVE  SprayInv'
<1> USE DEF SprayInv
<1>1. PICK j : j = job[p]  BY Zenon
<1>2. j \in Job /\ Knows(j, copy, used)  BY Zenon, <1>1, JobFields
<1>3. /\ j.step = "sweep" /\ UNCHANGED <<used, copy, slips>>
      /\ job' = [job EXCEPT ![p] = Idle]
  BY Zenon, <1>1 DEF Finish
<1>4. j.id \in 1 .. used /\ LiveIn(copy, j.id) \subseteq j.left
  BY Zenon, <1>2, <1>3 DEF Knows
<1>5. JournalOK'
  <2>1. CASE Closing(p)
    <3>1. AppendEvent(j.id, {}, TRUE)  BY Zenon, <1>1, <2>1 DEF Finish, AppendCompleted
    <3>2. LiveIn(copy, j.id) = {}  BY Zenon, <1>1, <1>4, <2>1 DEF Closing
    <3> QED  BY Zenon, <3>1, <3>2, <1>3, <1>4, AppendKeeps, Registered
  <2>2. CASE ~Closing(p)
    <3>1. UNCHANGED <<journal, torn, corrupt>>  BY Zenon, <1>1, <2>2 DEF Finish
    <3> QED  BY Zenon, <3>1, <1>3, JournalKept
  <2> QED  BY Zenon, <2>1, <2>2
<1>6. CopiesOK'  BY Zenon, <1>3, CopiesKept
<1>7. JobsOK'
  <2>1. NoNewCopies /\ slips' \in 0 .. MaxSlips  BY Zenon, <1>3 DEF NoNewCopies, JobsOK
  <2> QED  BY Zenon, <2>1, <1>3, IdleFacts, JobStep
<1> QED  BY Zenon, <1>5, <1>6, <1>7
-----------------------------------------------------------------------------
(* The other actions, and the theorems about sprays *)

\* pending_sprays, stats and compact, and a register whose append is torn.
LEMMA PruneStep ==
    ASSUME SprayInv, journal' = Pruned(journal), torn' \in BOOLEAN,
           UNCHANGED <<corrupt, used, copy, job>>, slips' \in 0 .. MaxSlips
    PROVE  SprayInv'
<1>1. JournalOK' /\ CopiesOK'  BY Zenon, PruneKeeps, CopiesKept DEF SprayInv
<1>2. NoNewCopies  BY Zenon DEF NoNewCopies
<1> QED  BY Zenon, <1>1, <1>2, JobsKept DEF SprayInv

LEMMA OneSlip ==
    ASSUME JobsOK, slips < MaxSlips, slips' = slips + 1
    PROVE  slips' \in 0 .. MaxSlips
  BY SprayConstants DEF JobsOK

\* The call ends, with its append torn or not.
LEMMA CallDies ==
    ASSUME SprayInv, NEW p \in Procs, job' = [job EXCEPT ![p] = Idle],
           UNCHANGED <<journal, corrupt, used, copy>>, torn' \in BOOLEAN,
           slips < MaxSlips, slips' = slips + 1
    PROVE  SprayInv'
<1>1. JournalOK' /\ CopiesOK'  BY Zenon, CopiesKept DEF SprayInv, JournalOK
<1>2. NoNewCopies /\ slips' \in 0 .. MaxSlips  BY Zenon, OneSlip DEF NoNewCopies, SprayInv
<1> QED  BY Zenon, <1>1, <1>2, IdleFacts, JobStep DEF SprayInv

\* seal_into and the handover to the recipient.
LEMMA EnvironmentKeeps ==
    ASSUME SprayInv, NEW id \in Sprays, NEW c \in Carriers,
           Deposit(id, c) \/ HandOver(id, c)
    PROVE  SprayInv'
<1> USE DEF SprayInv
<1>1. UNCHANGED <<journal, torn, corrupt, used, job, slips>>  BY Zenon DEF Deposit, HandOver
<1>2. PICK k \in Copy :
        /\ copy[id][c] # "none"
        /\ k \in {"sealed", "held"} => copy[id][c] \in {"sealed", "held"}
        /\ copy' = [copy EXCEPT ![id][c] = k]
  <2>1. CASE Deposit(id, c)
    <3>1. copy' = [copy EXCEPT ![id][c] = Deposited(copy[id][c])]  BY Zenon, <2>1 DEF Deposit
    <3>2. copy[id][c] \in {"sealed", "missed"}  BY Zenon, <2>1 DEF Deposit
    <3>3. PICK k : k = Deposited(copy[id][c])  BY Zenon
    <3>4. k \in Copy /\ (k \in {"sealed", "held"} => copy[id][c] \in {"sealed", "held"})
      BY <3>2, <3>3 DEF Deposited, Copy
    <3>5. copy[id][c] # "none"  BY <3>2
    <3> QED  BY Zenon, <3>1, <3>3, <3>4, <3>5
  <2>2. CASE HandOver(id, c)
    <3>1. copy' = [copy EXCEPT ![id][c] = "taken"]  BY Zenon, <2>2 DEF HandOver
    <3>2. copy[id][c] # "none"  BY <2>2 DEF HandOver
    <3>3. "taken" \in Copy /\ "taken" \notin {"sealed", "held"}  BY DEF Copy
    <3> QED  BY Zenon, <3>1, <3>2, <3>3
  <2> QED  BY Zenon, <2>1, <2>2
<1>3. /\ CopiesOK'
      /\ \A i \in Sprays : LiveIn(copy', i) \subseteq LiveIn(copy, i)
  BY Zenon, <1>1, <1>2, CopyStep
<1>4. JournalOK'  BY Zenon, <1>1, <1>3, FewerCopies
<1>5. NoNewCopies /\ slips' \in 0 .. MaxSlips
  BY Zenon, <1>1, <1>3, Registered DEF NoNewCopies, JobsOK
<1> QED  BY Zenon, <1>1, <1>3, <1>4, <1>5, JobsKept

LEMMA SprayInitially == Init => SprayInv
<1> SUFFICES ASSUME Init PROVE SprayInv
  BY Zenon
<1>1. /\ DOMAIN journal = {} /\ corrupt = FALSE /\ torn = FALSE /\ used = 0 /\ slips = 0
      /\ copy = [id \in Sprays |-> [c \in Carriers |-> "none"]]
      /\ used \in 0 .. MaxIds /\ slips \in 0 .. MaxSlips
  BY SprayConstants DEF Init
<1>2. \A id \in Sprays, c \in Carriers : copy[id][c] = "none"  BY Zenon, <1>1
<1>3. CopiesOK
  <2>1. "none" \in Copy  BY DEF Copy
  <2>2. copy \in [Sprays -> [Carriers -> Copy]]  BY Zenon, <2>1, <1>1
  <2> QED  BY Zenon, <2>2, <1>2 DEF CopiesOK
<1>4. JournalOK
  <2>1. PendingIn(journal) = {}  BY Zenon, <1>1 DEF PendingIn
  <2>2. Cardinality(PendingIn(journal)) <= MaxSprays
    BY <2>1, FS_EmptySet, SprayConstants
  <2>3. journal \in [DOMAIN journal -> Spray]  BY DEF Init
  <2>4. Tracked(journal, copy)  BY <1>2 DEF Tracked, LiveIn
  <2> QED  BY Zenon, <1>1, <2>2, <2>3, <2>4 DEF JournalOK
<1>5. JobsOK
  <2>1. job = [p \in Procs |-> Idle]  BY Zenon DEF Init
  <2> QED  BY Zenon, <1>1, <2>1, IdleFacts DEF JobsOK
<1> QED  BY Zenon, <1>3, <1>4, <1>5 DEF SprayInv

LEMMA SprayStep == SprayInv /\ [Next]_vars => SprayInv'
<1> SUFFICES ASSUME SprayInv, [Next]_vars PROVE SprayInv'
  BY Zenon
<1>1. ASSUME NEW p \in Procs, NEW C \in SUBSET Carriers \ {{}}, Register(p, C)
      PROVE  SprayInv'
  <2>1. JournalOK' /\ CopiesOK'  BY Zenon, <1>1, RegisterKeeps DEF SprayInv
  <2>2. /\ used' = used + 1 /\ job' = job /\ slips' = slips /\ used + 1 \in Sprays
        /\ copy' = [copy EXCEPT ![used + 1] =
                       [c \in Carriers |-> IF c \in C THEN "sealed" ELSE "none"]]
    BY Zenon, <1>1 DEF Register
  <2>3. 1 .. used \subseteq 1 .. used' /\ \A id \in 1 .. used : id \in Sprays /\ id # used + 1
    BY <2>2, SprayConstants DEF SprayInv, JournalOK, Sprays
  <2>4. \A id \in 1 .. used : copy'[id] = copy[id]
    BY Zenon, <2>2, <2>3 DEF SprayInv, CopiesOK
  <2>5. NoNewCopies  BY Zenon, <2>3, <2>4 DEF NoNewCopies, LiveIn
  <2> QED  BY Zenon, <2>1, <2>2, <2>5, JobsKept DEF SprayInv, JobsOK
<1>2. ASSUME NEW p \in Procs, Step(p) PROVE SprayInv'
  BY Zenon, <1>2, RecordDeliveredKeeps, RecordCancelledKeeps, FinishKeeps, SkipKeeps,
     DiscardKeeps DEF Step
<1>3. ASSUME NEW p \in Procs, Read(p) \/ Compact(p) PROVE SprayInv'
  <2>1. /\ journal' = Pruned(journal) /\ torn' \in BOOLEAN
        /\ UNCHANGED <<corrupt, used, copy, job, slips>>
    BY Zenon, <1>3 DEF Read, Refresh, Compact
  <2> QED  BY Zenon, <2>1, PruneStep DEF SprayInv, JobsOK
<1>4. ASSUME NEW p \in Procs, Crash(p) \/ TearEvent(p) PROVE SprayInv'
  <2>1. torn \in BOOLEAN  BY Zenon DEF SprayInv, JournalOK
  <2> QED  BY Zenon, <1>4, <2>1, CallDies DEF Crash, TearEvent
<1>5. ASSUME NEW p \in Procs, TearRegister(p) PROVE SprayInv'
  <2>1. slips' \in 0 .. MaxSlips  BY Zenon, <1>5, OneSlip DEF TearRegister, SprayInv
  <2> QED  BY Zenon, <1>5, <2>1, PruneStep DEF TearRegister
<1>6. CASE UNCHANGED vars
  <2>1. UNCHANGED <<journal, torn, corrupt, used, copy, job, slips>>
    BY Zenon, <1>6 DEF vars
  <2> QED  BY Zenon, <2>1 DEF SprayInv, JournalOK, CopiesOK, JobsOK
<1> QED
  BY Zenon, <1>1, <1>2, <1>3, <1>4, <1>5, <1>6, BeginKeeps, EnvironmentKeeps DEF Next

LEMMA SprayInductive == Spec => []SprayInv
  BY SprayInitially, SprayStep, PTL DEF Spec

\* While the journal loads, a live copy is in it, pending, whatever crashes, torn
\* appends, unreachable carriers and concurrent cancel_siblings calls there were;
\* for any number of processes, sprays and carriers.
THEOREM SprayCopiesTracked == Spec => []CopiesTracked
<1>1. SprayInv => CopiesTracked
  BY Zenon DEF SprayInv, JournalOK, CopiesOK, JobsOK, Job, Tracked, LiveIn, Live,
     CopiesTracked, TypeOK
<1> QED  BY <1>1, SprayInductive, PTL

\* An event makes _load raise only where it is glued to a torn line, or where its
\* spray was completed and pruned behind the call that writes it; and then no copy
\* of that spray is live.
THEOREM SprayJournalStaysLoadable == Spec => JournalStaysLoadable
<1> DEFINE Behind(p) ==
      /\ job'[p] # job[p] /\ job[p].id \in (1 .. used) \ DOMAIN journal
      /\ \A c \in Carriers : ~Live(job[p].id, c)
<1>1. ASSUME SprayInv, ~torn, ~corrupt, corrupt', NEW p \in Procs,
             NEW dropped, NEW completed, NEW r,
             job[p].step # "idle", AppendEvent(job[p].id, dropped, completed),
             job' = [job EXCEPT ![p] = r], r.step # job[p].step
      PROVE  Behind(p)
  <2>1. job[p].id \in 1 .. used  BY Zenon, <1>1 DEF SprayInv, JobsOK, Knows
  <2>2. job[p].id \notin DOMAIN journal  BY Zenon, <1>1 DEF AppendEvent
  <2>3. job[p].id \in Sprays  BY Zenon, <1>1, <2>1, Registered DEF SprayInv
  <2>4. LiveIn(copy, job[p].id) = {}
    BY Zenon, <1>1, <2>2, <2>3 DEF SprayInv, JournalOK, Tracked
  <2>5. job'[p] = r  BY Zenon, <1>1 DEF SprayInv, JobsOK
  <2> QED  BY Zenon, <1>1, <2>1, <2>2, <2>4, <2>5 DEF Live, LiveIn
<1> HIDE DEF Behind
<1>2. ASSUME SprayInv, ~torn, ~corrupt, corrupt', NEW p \in Procs, Step(p)
      PROVE  Behind(p)
  <2>1. PICK j : j = job[p]  BY Zenon
  <2>2. /\ j \in Job
        /\ j = [step |-> j.step, id |-> j.id, by |-> j.by, left |-> j.left, todo |-> j.todo]
        /\ job \in [Procs -> Job]
    BY Zenon, <2>1, <1>2, JobFields DEF SprayInv, JobsOK
  <2>3. CASE RecordDelivered(p)
    <3>1. PICK r : r = [j EXCEPT !.step = "sweep", !.left = @ \ {j.by}, !.todo = @ \ {j.by}]
      BY Zenon
    <3>2. job' = [job EXCEPT ![p] = r]  BY Zenon, <2>1, <2>2, <2>3, <3>1 DEF RecordDelivered
    <3>3. r.step = "sweep"  BY <2>2, <3>1, Zenon
    <3>4. job[p].step = "deliver" /\ AppendEvent(job[p].id, {job[p].by}, FALSE)
      BY Zenon, <2>3 DEF RecordDelivered, AppendDrop
    <3>5. job[p].step # "idle" /\ r.step # job[p].step  BY <3>3, <3>4
    <3> QED  BY Zenon, <1>1, <1>2, <3>2, <3>4, <3>5
  <2>4. CASE RecordCancelled(p)
    <3>1. PICK r : r = [j EXCEPT !.step = "sweep", !.left = @ \ {j.by}]  BY Zenon
    <3>2. job' = [job EXCEPT ![p] = r]  BY Zenon, <2>1, <2>2, <2>4, <3>1 DEF RecordCancelled
    <3>3. r.step = "sweep"  BY <2>2, <3>1, Zenon
    <3>4. job[p].step = "record" /\ AppendEvent(job[p].id, {job[p].by}, FALSE)
      BY Zenon, <2>4 DEF RecordCancelled, AppendDrop
    <3>5. job[p].step # "idle" /\ r.step # job[p].step  BY <3>3, <3>4
    <3> QED  BY Zenon, <1>1, <1>2, <3>2, <3>4, <3>5
  <2>5. CASE Finish(p)
    <3>1. job' = [job EXCEPT ![p] = Idle] /\ job[p].step = "sweep"
      BY Zenon, <2>5 DEF Finish
    <3>2. AppendEvent(job[p].id, {}, TRUE)
      BY Zenon, <1>2, <2>5 DEF Finish, AppendCompleted
    <3>3. job[p].step # "idle" /\ Idle.step # job[p].step  BY <3>1 DEF Idle
    <3> QED  BY Zenon, <1>1, <1>2, <3>1, <3>2, <3>3
  <2>6. CASE \E c \in Carriers : Skip(p, c) \/ Discard(p, c)
    BY Zenon, <1>2, <2>6 DEF Skip, Discard
  <2> QED  BY Zenon, <1>2, <2>3, <2>4, <2>5, <2>6 DEF Step
<1>3. ASSUME SprayInv, Next, ~torn, ~corrupt, corrupt' PROVE \E p \in Procs : Behind(p)
  <2>1. \A p \in Procs : ~Read(p) /\ ~Compact(p) /\ ~Crash(p) /\ ~TearEvent(p) /\ ~TearRegister(p)
    BY Zenon, <1>3 DEF Read, Compact, Crash, TearEvent, TearRegister
  <2>2. \A p \in Procs, C \in SUBSET Carriers \ {{}} : ~Register(p, C)
    BY Zenon, <1>3 DEF Register
  <2>3. \A p \in Procs, id \in Sprays, d \in Carriers : ~Begin(p, id, d)
    BY Zenon, <1>3 DEF Begin
  <2>4. \A id \in Sprays, c \in Carriers : ~Deposit(id, c) /\ ~HandOver(id, c)
    BY Zenon, <1>3 DEF Deposit, HandOver
  <2>5. PICK p \in Procs : Step(p)  BY Zenon, <1>3, <2>1, <2>2, <2>3, <2>4 DEF Next
  <2> QED  BY Zenon, <1>2, <1>3, <2>5
<1>4. SprayInv /\ [Next]_vars =>
        [~corrupt /\ corrupt' => torn \/ \E p \in Procs : Behind(p)]_vars
  BY Zenon, <1>3
<1> QED  BY <1>4, SprayInductive, PTL DEF Spec, JournalStaysLoadable, Behind
-----------------------------------------------------------------------------
(* The store of one carrier *)

CONSTANTS Couriers, Recipient, Bytes, MaxTotal, MaxPer, MaxEnvelopes, MaxJournal, Slack

VARIABLES disk, cut, unparsable, size, up, mem, rotating, sealed

Store == INSTANCE CourierStore WITH corrupt <- unparsable, torn <- cut, held <- sealed

\* Induction up to a bound, for the sums below.
LEMMA UpTo ==
    ASSUME NEW N \in Nat, NEW T, 0 \in T,
           \A k \in Nat : k < N /\ k \in T => k + 1 \in T
    PROVE  \A k \in 0 .. N : k \in T
<1> DEFINE R == OpToRel(<, Nat)
           B == {k \in 0 .. N : k \notin T}
<1>1. IsWellFoundedOn(R, Nat)  BY NatLessThanWellFounded, Zenon
<1>2. \A x, y \in Nat : x < y => <<x, y>> \in R  BY Zenon DEF OpToRel
<1> HIDE DEF R
<1>3. SUFFICES ASSUME B # {} PROVE FALSE
  BY Zenon
<1>4. B \subseteq Nat  OBVIOUS
<1>5. PICK x \in B : \A y \in B : ~(<<y, x>> \in R)
  <2> HIDE DEF B
  <2> QED  BY <1>1, <1>3, <1>4, WFMin, Zenon
<1>6. x \in Nat /\ x <= N /\ x \notin T /\ x # 0  BY <1>5
<1>7. PICK k \in Nat : x = k + 1  BY <1>6
<1>8. k \in B => FALSE
  <2>1. k \in Nat /\ x \in Nat /\ k < x  BY <1>6, <1>7
  <2> QED  BY <2>1, <1>2, <1>5, Zenon
<1>9. k \in T  BY <1>6, <1>7, <1>8
<1> QED  BY <1>6, <1>7, <1>9

\* The sum over the first k envelopes of the pool.
Sum(sum, k, pool) == IF k = 0 THEN 0 ELSE sum[k - 1] + Bytes[pool[k]]

LEMMA SumsExist ==
    ASSUME NEW pool, NEW N \in Nat
    PROVE  \E sum : sum = [k \in 0 .. N |-> Sum(sum, k, pool)]
<1> DEFINE Exists(n) == \E sum : sum = [k \in 0 .. n |-> Sum(sum, k, pool)]
           T         == {n \in Nat : Exists(n)}
<1>1. Exists(0)
  <2> DEFINE sum == [k \in 0 .. 0 |-> 0]
  <2>1. sum = [k \in 0 .. 0 |-> Sum(sum, k, pool)]  BY DEF Sum
  <2> QED  BY <2>1, Zenon
<1>2. ASSUME NEW n \in Nat, Exists(n) PROVE Exists(n + 1)
  <2>1. PICK old : old = [k \in 0 .. n |-> Sum(old, k, pool)]  BY <1>2, Zenon
  <2> DEFINE sum == [k \in 0 .. n + 1 |-> IF k <= n THEN old[k] ELSE Sum(old, n + 1, pool)]
  <2>2. ASSUME NEW k \in 0 .. n + 1 PROVE sum[k] = Sum(sum, k, pool)
    <3>1. k # 0 => sum[k - 1] = old[k - 1]  OBVIOUS
    <3>2. k <= n => old[k] = Sum(old, k, pool)  BY <2>1
    <3>3. Sum(sum, k, pool) = Sum(old, k, pool)  BY <3>1 DEF Sum
    <3> QED  BY <3>2, <3>3
  <2> HIDE DEF sum
  <2>3. sum = [k \in 0 .. n + 1 |-> Sum(sum, k, pool)]  BY <2>2, Zenon DEF sum
  <2> QED  BY <2>3, Zenon
<1> HIDE DEF Exists
<1>3. 0 \in T /\ \A k \in Nat : k < N /\ k \in T => k + 1 \in T  BY <1>1, <1>2
<1> HIDE DEF T
<1>4. N \in T
  <2>1. N \in 0 .. N  OBVIOUS
  <2> QED  BY <2>1, <1>3, UpTo, Zenon
<1>5. Exists(N)  BY <1>4, Zenon DEF T
<1> QED  BY <1>5, Zenon DEF Exists

\* The running sum of the sizes behind TotalBytes.
Sums(sum, pool) ==
    /\ sum \in [0 .. Len(pool) -> Nat]
    /\ sum[0] = 0
    /\ \A k \in Nat : k < Len(pool) => sum[k + 1] = sum[k] + Bytes[pool[k + 1]]
    /\ Store!TotalBytes(pool) = sum[Len(pool)]

LEMMA TotalBytesSums ==
    ASSUME Store!ConstantsOK, NEW pool \in Seq(Couriers)
    PROVE  \E sum : Sums(sum, pool)
<1> DEFINE sum == CHOOSE sum : sum = [k \in 0 .. Len(pool) |-> Sum(sum, k, pool)]
           T   == {k \in Nat : sum[k] \in Nat}
<1>1. Store!TotalBytes(pool) = sum[Len(pool)]  BY Zenon DEF Store!TotalBytes, Sum
<1>2. Len(pool) \in Nat  OBVIOUS
<1>3. sum = [k \in 0 .. Len(pool) |-> Sum(sum, k, pool)]  BY Zenon, <1>2, SumsExist
<1> HIDE DEF sum
<1>4. sum[0] = 0  BY <1>2, <1>3 DEF Sum
<1>5. \A k \in Nat : k < Len(pool) => sum[k + 1] = sum[k] + Bytes[pool[k + 1]]
  <2> SUFFICES ASSUME NEW k \in Nat, k < Len(pool)
               PROVE  sum[k + 1] = sum[k] + Bytes[pool[k + 1]]
    BY Zenon
  <2>1. k + 1 \in 0 .. Len(pool) /\ k + 1 # 0 /\ (k + 1) - 1 = k  BY <1>2
  <2>2. sum[k + 1] = Sum(sum, k + 1, pool)  BY <2>1, <1>3, Zenon
  <2> QED  BY Zenon, <2>1, <2>2 DEF Sum
<1>6. \A k \in Nat : k < Len(pool) => Bytes[pool[k + 1]] \in Nat
  <2>1. Bytes \in [Couriers -> Nat]  BY Zenon DEF Store!ConstantsOK
  <2>2. \A k \in Nat : k < Len(pool) => pool[k + 1] \in Couriers  OBVIOUS
  <2> QED  BY Zenon, <2>1, <2>2
<1>7. 0 \in T /\ \A k \in Nat : k < Len(pool) /\ k \in T => k + 1 \in T
  BY <1>4, <1>5, <1>6
<1>8. \A k \in 0 .. Len(pool) : sum[k] \in Nat
  <2>1. \A k \in 0 .. Len(pool) : k \in T
    <3> HIDE DEF T
    <3> QED  BY <1>2, <1>7, UpTo, Zenon
  <2> QED  BY Zenon, <2>1
<1>9. sum \in [0 .. Len(pool) -> Nat]  BY Zenon, <1>3, <1>8
<1> QED  BY <1>1, <1>4, <1>5, <1>9, Zenon DEF Sums

\* Admitting an envelope adds its size.
LEMMA TotalBytesAppend ==
    ASSUME Store!ConstantsOK, NEW pool \in Seq(Couriers), NEW c \in Couriers
    PROVE  Store!TotalBytes(Append(pool, c)) = Store!TotalBytes(pool) + Bytes[c]
<1>1. PICK s : Sums(s, pool)  BY Zenon, TotalBytesSums
<1>2. PICK more : more = Append(pool, c)  BY Zenon
<1>3. /\ more \in Seq(Couriers) /\ Len(pool) \in Nat /\ Len(more) = Len(pool) + 1
      /\ more[Len(pool) + 1] = c
      /\ \A k \in Nat : k < Len(pool) => more[k + 1] = pool[k + 1]
  BY <1>2
<1>4. PICK t : Sums(t, more)  BY Zenon, <1>3, TotalBytesSums
<1> DEFINE T == {k \in Nat : s[k] = t[k]}
<1>5. 0 \in T /\ \A k \in Nat : k < Len(pool) /\ k \in T => k + 1 \in T
  <2>1. 0 \in T  BY Zenon, <1>1, <1>4 DEF Sums
  <2>2. ASSUME NEW k \in Nat, k < Len(pool), s[k] = t[k] PROVE s[k + 1] = t[k + 1]
    <3>1. s[k + 1] = s[k] + Bytes[pool[k + 1]]  BY Zenon, <1>1, <2>2 DEF Sums
    <3>2. k < Len(more)  BY <1>3, <2>2
    <3>3. t[k + 1] = t[k] + Bytes[more[k + 1]]  BY Zenon, <1>4, <2>2, <3>2 DEF Sums
    <3> QED  BY <1>3, <2>2, <3>1, <3>3, Zenon
  <2> QED  BY <2>1, <2>2
<1>6. s[Len(pool)] = t[Len(pool)]
  <2>1. Len(pool) \in 0 .. Len(pool)  BY <1>3
  <2>2. Len(pool) \in T
    <3> HIDE DEF T
    <3> QED  BY <2>1, <1>3, <1>5, UpTo, Zenon
  <2> QED  BY <2>2, Zenon
<1>7. t[Len(more)] = t[Len(pool)] + Bytes[c]  BY <1>3, <1>4 DEF Sums
<1> QED  BY <1>1, <1>2, <1>4, <1>6, <1>7, Zenon DEF Sums

\* A digest that leaves the pool: its place closes up.
LEMMA WithoutFacts ==
    ASSUME NEW pool \in Seq(Couriers), NEW c \in Couriers
    PROVE  \/ Store!Without(pool, c) = pool
           \/ \E i \in Nat :
                /\ i \in 1 .. Len(pool)
                /\ Store!Without(pool, c) = [k \in 1 .. Len(pool) - 1 |->
                                              IF k < i THEN pool[k] ELSE pool[k + 1]]
<1>1. CASE c \notin Store!Range(pool)  BY Zenon, <1>1 DEF Store!Without
<1>2. CASE c \in Store!Range(pool)
  <2> DEFINE i == CHOOSE i \in DOMAIN pool : pool[i] = c
  <2>1. \E k \in DOMAIN pool : pool[k] = c  BY Zenon, <1>2 DEF Store!Range
  <2>2. i \in DOMAIN pool  BY Zenon, <2>1
  <2>3. Store!Without(pool, c) = [k \in 1 .. Len(pool) - 1 |->
                                   IF k < i THEN pool[k] ELSE pool[k + 1]]
    BY <1>2, Zenon DEF Store!Without
  <2> HIDE DEF i
  <2>4. i \in 1 .. Len(pool) /\ i \in Nat  BY <2>2
  <2> QED  BY <2>3, <2>4, Zenon
<1> QED  BY Zenon, <1>1, <1>2

\* ... and none of the quotas is used more than before.
LEMMA WithoutShrinks ==
    ASSUME Store!ConstantsOK, NEW pool \in Seq(Couriers), NEW c \in Couriers
    PROVE  /\ Store!Without(pool, c) \in Seq(Couriers)
           /\ Len(Store!Without(pool, c)) <= Len(pool)
           /\ Store!Range(Store!Without(pool, c)) \subseteq Store!Range(pool)
           /\ Store!TotalBytes(Store!Without(pool, c)) <= Store!TotalBytes(pool)
<1>1. PICK s : Sums(s, pool)  BY Zenon, TotalBytesSums
<1>2. PICK rest : rest = Store!Without(pool, c)  BY Zenon
<1>3. CASE rest = pool
  <2>1. Store!TotalBytes(pool) \in Nat /\ Len(pool) \in Nat  BY <1>1 DEF Sums
  <2> QED  BY <1>2, <1>3, <2>1
<1>4. CASE \E i \in Nat : /\ i \in 1 .. Len(pool)
                          /\ rest = [k \in 1 .. Len(pool) - 1 |->
                                       IF k < i THEN pool[k] ELSE pool[k + 1]]
  <2>1. PICK i \in Nat :
            /\ i \in 1 .. Len(pool)
            /\ rest = [k \in 1 .. Len(pool) - 1 |->
                         IF k < i THEN pool[k] ELSE pool[k + 1]]
    BY <1>4, Zenon
  <2>2. PICK n \in Nat : Len(pool) = n + 1 /\ Len(pool) - 1 = n  BY <2>1
  <2>3. /\ Len(pool) = n + 1 /\ i \in 1 .. n + 1
        /\ rest = [k \in 1 .. n |-> IF k < i THEN pool[k] ELSE pool[k + 1]]
    BY <2>1, <2>2, Zenon
  <2>4. \A k \in 1 .. n + 1 : pool[k] \in Couriers  BY <2>3
  <2>5. \A k \in 1 .. n : rest[k] \in Couriers  BY <2>3, <2>4
  <2>6. rest \in Seq(Couriers) /\ Len(rest) = n  BY <2>3, <2>5
  <2>7. Store!Range(rest) \subseteq Store!Range(pool)  BY <2>3 DEF Store!Range
  <2>8. PICK t : Sums(t, rest)  BY Zenon, <2>6, TotalBytesSums
  <2> DEFINE T == {k \in Nat : t[k] <= s[k + 1] /\ (k < i => t[k] = s[k])}
  <2>9. /\ \A k \in Nat : k <= n =>
              /\ s[k] \in Nat /\ s[k + 1] \in Nat /\ Bytes[pool[k + 1]] \in Nat
              /\ s[k + 1] = s[k] + Bytes[pool[k + 1]]
        /\ s[0] = 0
    <3>1. Bytes \in [Couriers -> Nat]  BY Zenon DEF Store!ConstantsOK
    <3>2. ASSUME NEW k \in Nat, k <= n
          PROVE  /\ s[k] \in Nat /\ s[k + 1] \in Nat /\ Bytes[pool[k + 1]] \in Nat
                 /\ s[k + 1] = s[k] + Bytes[pool[k + 1]]
      <4>1. k < Len(pool) /\ k \in 0 .. Len(pool) /\ k + 1 \in 0 .. Len(pool)
            /\ k + 1 \in 1 .. n + 1
        BY <2>3, <3>2
      <4>2. Bytes[pool[k + 1]] \in Nat  BY Zenon, <2>4, <3>1, <4>1
      <4> QED  BY Zenon, <4>1, <4>2, <1>1 DEF Sums
    <3>3. s[0] = 0  BY Zenon, <1>1 DEF Sums
    <3> QED  BY Zenon, <3>2, <3>3
  <2>10. /\ \A k \in Nat : k < n => t[k] \in Nat /\ t[k + 1] = t[k] + Bytes[rest[k + 1]]
        /\ t[0] = 0
    BY <2>6, <2>8 DEF Sums
  <2>11. 0 \in T  BY <2>9, <2>10
  <2>12. ASSUME NEW k \in Nat, k < n, k \in T PROVE k + 1 \in T
    <3>1. k + 1 \in Nat /\ k + 1 <= n /\ k <= n  BY <2>12
    <3>2. /\ s[k] \in Nat /\ s[k + 1] \in Nat /\ s[k + 2] \in Nat
          /\ Bytes[pool[k + 1]] \in Nat /\ Bytes[pool[k + 2]] \in Nat
          /\ s[k + 1] = s[k] + Bytes[pool[k + 1]]
          /\ s[k + 2] = s[k + 1] + Bytes[pool[k + 2]]
      <4>1. (k + 1) + 1 = k + 2  OBVIOUS
      <4> QED  BY <3>1, <4>1, <2>9, Zenon
    <3>3. t[k] \in Nat /\ t[k] <= s[k + 1] /\ (k < i => t[k] = s[k])  BY Zenon, <2>12, <2>10
    <3>4. t[k + 1] = t[k] + Bytes[rest[k + 1]]  BY Zenon, <2>12, <2>10
    <3>5. CASE k + 1 < i
      <4>1. rest[k + 1] = pool[k + 1]  BY <2>3, <2>12, <3>5
      <4>2. t[k + 1] = s[k + 1]  BY <3>2, <3>3, <3>4, <3>5, <4>1
      <4>3. t[k + 1] <= s[k + 2]  BY <3>2, <4>2
      <4> QED  BY <3>1, <4>2, <4>3
    <3>6. CASE ~(k + 1 < i)
      <4>1. rest[k + 1] = pool[k + 2]  BY <2>3, <2>12, <3>6
      <4>2. t[k + 1] <= s[k + 2]  BY <3>2, <3>3, <3>4, <4>1
      <4> QED  BY <3>1, <3>6, <4>2
    <3> QED  BY Zenon, <3>5, <3>6
  <2>13. n \in T
    <3>1. n \in 0 .. n  OBVIOUS
    <3> HIDE DEF T
    <3> QED  BY <3>1, <2>11, <2>12, UpTo, Zenon
  <2>14. t[n] <= s[n + 1]  BY Zenon, <2>13
  <2>15. Store!TotalBytes(rest) <= Store!TotalBytes(pool)
    BY Zenon, <2>14, <2>3, <2>6, <2>8, <1>1 DEF Sums
  <2>16. Len(rest) <= Len(pool)  BY <2>3, <2>6
  <2> QED  BY Zenon, <2>6, <2>7, <2>15, <2>16, <1>2
<1> QED  BY Zenon, <1>2, <1>3, <1>4, WithoutFacts

\* The pool respects the three quotas.
Within(pool) ==
    /\ pool \in Seq(Couriers)
    /\ Len(pool) <= MaxEnvelopes
    /\ Store!TotalBytes(pool) <= MaxTotal
    /\ \A c \in Couriers : Cardinality(Store!For(pool, Recipient[c])) <= MaxPer

LEMMA SameCardinality == \A S : Store!Cardinality(S) = Cardinality(S)
  BY Zenon DEF Cardinality, Store!Cardinality

LEMMA ForFinite ==
    ASSUME NEW pool \in Seq(Couriers), NEW r
    PROVE  /\ IsFiniteSet(Store!For(pool, r))
           /\ Cardinality(Store!For(pool, r)) \in Nat
<1>1. PICK T : T = Store!Range(pool)  BY Zenon
<1>2. pool \in Surjection(1 .. Len(pool), T)
  BY <1>1 DEF Surjection, Store!Range
<1>3. IsFiniteSet(1 .. Len(pool))
  <2>1. Len(pool) \in Int  OBVIOUS
  <2> QED  BY <2>1, FS_Interval
<1>4. IsFiniteSet(T)  BY Zenon, <1>2, <1>3, FS_Surjection
<1>5. Store!For(pool, r) \subseteq T  BY Zenon, <1>1 DEF Store!For
<1> QED  BY Zenon, <1>4, <1>5, FS_Subset, FS_CardinalityType

\* What seal_into admits fits.
LEMMA FitsWithin ==
    ASSUME Store!ConstantsOK, NEW pool, Within(pool), NEW c \in Couriers,
           Store!Fits(pool, c)
    PROVE  Within(Append(pool, c))
<1>1. PICK more : more = Append(pool, c)  BY Zenon
<1>2. pool \in Seq(Couriers) /\ Len(pool) \in Nat  BY DEF Within
<1>3. /\ more \in Seq(Couriers) /\ Len(more) = Len(pool) + 1
      /\ more[Len(pool) + 1] = c
      /\ \A k \in 1 .. Len(pool) : more[k] = pool[k]
  BY <1>1, <1>2
<1>4. Len(more) <= MaxEnvelopes  BY <1>2, <1>3 DEF Store!Fits, Store!ConstantsOK
<1>5. Store!TotalBytes(more) <= MaxTotal
  <2>1. Store!TotalBytes(more) = Store!TotalBytes(pool) + Bytes[c]
    BY Zenon, <1>1, <1>2, TotalBytesAppend
  <2>2. Store!TotalBytes(pool) + Bytes[c] <= MaxTotal  BY Zenon DEF Store!Fits
  <2> QED  BY <2>1, <2>2, Zenon
<1>6. ASSUME NEW d \in Couriers
      PROVE  Cardinality(Store!For(more, Recipient[d])) <= MaxPer
  <2>1. PICK r : r = Recipient[d]  BY Zenon
  <2>2. Store!Range(more) = Store!Range(pool) \cup {c}
    BY <1>2, <1>3 DEF Store!Range
  <2>3. CASE Recipient[c] = r
    <3>1. Store!For(more, r) = Store!For(pool, r) \cup {c}
      BY Zenon, <2>2, <2>3 DEF Store!For
    <3>2. IsFiniteSet(Store!For(pool, r)) /\ Cardinality(Store!For(pool, r)) \in Nat
      BY Zenon, <1>2, ForFinite
    <3>3. Cardinality(Store!For(pool, r)) < MaxPer
      BY Zenon, <2>3, SameCardinality DEF Store!Fits
    <3>4. Cardinality(Store!For(more, r)) <= Cardinality(Store!For(pool, r)) + 1
      <4>1. PICK old : old = Store!For(pool, r)  BY Zenon
      <4>2. Cardinality(old \cup {c}) =
              IF c \in old THEN Cardinality(old) ELSE Cardinality(old) + 1
        BY <3>2, <4>1, FS_AddElement, Zenon
      <4>3. Cardinality(old) \in Nat  BY <3>2, <4>1, Zenon
      <4>4. Cardinality(old \cup {c}) <= Cardinality(old) + 1  BY <4>2, <4>3
      <4> QED  BY <3>1, <4>1, <4>4, Zenon
    <3>5. Cardinality(Store!For(more, r)) \in Nat  BY Zenon, <1>3, ForFinite
    <3> QED  BY <2>1, <3>2, <3>3, <3>4, <3>5 DEF Store!ConstantsOK
  <2>4. CASE Recipient[c] # r
    <3>1. Store!For(more, r) = Store!For(pool, r)  BY Zenon, <2>2, <2>4 DEF Store!For
    <3> QED  BY Zenon, <2>1, <3>1 DEF Within
  <2> QED  BY Zenon, <2>3, <2>4
<1> QED  BY Zenon, <1>1, <1>3, <1>4, <1>5, <1>6 DEF Within

\* What is left after hand_over or discard_digest still does.
LEMMA RestWithin ==
    ASSUME Store!ConstantsOK, NEW pool, Within(pool), NEW c \in Couriers
    PROVE  Within(Store!Without(pool, c))
<1>1. PICK rest : rest = Store!Without(pool, c)  BY Zenon
<1>2. pool \in Seq(Couriers)  BY Zenon DEF Within
<1>3. /\ rest \in Seq(Couriers) /\ Len(rest) <= Len(pool)
      /\ Store!Range(rest) \subseteq Store!Range(pool)
      /\ Store!TotalBytes(rest) <= Store!TotalBytes(pool)
  BY Zenon, <1>1, <1>2, WithoutShrinks
<1>4. Len(rest) <= MaxEnvelopes  BY <1>2, <1>3 DEF Within, Store!ConstantsOK
<1>5. Store!TotalBytes(rest) <= MaxTotal
  <2>1. Store!TotalBytes(pool) \in Nat  BY <1>2, TotalBytesSums DEF Sums
  <2>2. Store!TotalBytes(rest) \in Nat  BY <1>3, TotalBytesSums DEF Sums
  <2> QED  BY <2>1, <2>2, <1>3 DEF Within, Store!ConstantsOK
<1>6. ASSUME NEW d \in Couriers
      PROVE  Cardinality(Store!For(rest, Recipient[d])) <= MaxPer
  <2>1. PICK r : r = Recipient[d]  BY Zenon
  <2>2. Store!For(rest, r) \subseteq Store!For(pool, r)  BY Zenon, <1>3 DEF Store!For
  <2>3. Cardinality(Store!For(rest, r)) <= Cardinality(Store!For(pool, r))
    BY Zenon, <2>2, <1>2, ForFinite, FS_Subset
  <2>4. Cardinality(Store!For(rest, r)) \in Nat /\ Cardinality(Store!For(pool, r)) \in Nat
    BY Zenon, <1>2, <1>3, ForFinite
  <2>5. Cardinality(Store!For(pool, r)) <= MaxPer  BY Zenon, <2>1 DEF Within
  <2> QED  BY <2>1, <2>3, <2>4, <2>5 DEF Store!ConstantsOK
<1> QED  BY Zenon, <1>1, <1>3, <1>4, <1>5, <1>6 DEF Within
-----------------------------------------------------------------------------
(* The steps of the store *)

Open ==
    /\ sealed \in Seq(Couriers)
    /\ cut \in BOOLEAN /\ unparsable \in BOOLEAN
    /\ up \in [Procs -> BOOLEAN] /\ rotating \in [Procs -> BOOLEAN]
    /\ mem \in [Procs -> Seq(Couriers)]
    /\ \A p \in Procs : Len(mem[p]) <= MaxEnvelopes

\* The inductive invariant: the pool on disk is within the quotas and what was
\* sealed and not taken, and the journal is within the recovery limit.
StoreInv ==
    /\ Within(disk)
    /\ Open
    /\ size \in Nat /\ size <= MaxJournal + Slack
    /\ ~unparsable => disk = sealed

LEMMA MemSet ==
    ASSUME Store!ConstantsOK, Open, NEW p \in Procs, NEW pool \in Seq(Couriers),
           Len(pool) <= MaxEnvelopes, mem' = [mem EXCEPT ![p] = pool]
    PROVE  /\ mem' \in [Procs -> Seq(Couriers)]
           /\ \A q \in Procs : Len(mem'[q]) <= MaxEnvelopes
<1>1. mem \in [Procs -> Seq(Couriers)]  BY Zenon DEF Open
<1>2. mem' \in [Procs -> Seq(Couriers)]  BY Zenon, <1>1
<1>3. \A q \in Procs : mem'[q] = IF q = p THEN pool ELSE mem[q]  BY Zenon, <1>1
<1> QED  BY Zenon, <1>2, <1>3 DEF Open

\* A refresh leaves room for one more line.
LEMMA RefreshedFits ==
    ASSUME Store!ConstantsOK, StoreInv, Store!Readable
    PROVE  Store!RefreshedSize \in Nat /\ Store!RefreshedSize <= MaxJournal
<1>1. Len(disk) \in Nat  BY DEF StoreInv, Within
<1>2. size > MaxJournal => Len(disk) <= MaxJournal
  BY Zenon DEF Store!Readable, Store!Snapshots
<1> QED  BY <1>1, <1>2 DEF StoreInv, Store!RefreshedSize, Store!ConstantsOK

\* An append of an event that _parse_journal accepts.
LEMMA WriteKeeps ==
    ASSUME Store!ConstantsOK, StoreInv, NEW p \in Procs, NEW pool, NEW accepted,
           Within(pool), accepted = TRUE, Store!Write(p, pool, accepted, pool),
           Store!Readable, ~unparsable, sealed' \in Seq(Couriers), disk = sealed => sealed' = pool,
           up' \in [Procs -> BOOLEAN], rotating' \in [Procs -> BOOLEAN]
    PROVE  StoreInv' /\ (unparsable' => cut)
<1>1. /\ unparsable' = ((cut /\ Store!RefreshedSize = size) \/ ~accepted)
      /\ disk' = IF unparsable' THEN disk ELSE pool
      /\ cut' = FALSE /\ size' = Store!RefreshedSize + 1
      /\ mem' = [mem EXCEPT ![p] = pool]
  BY Zenon DEF Store!Write
<1>2. unparsable' \in BOOLEAN /\ (unparsable' => cut)  BY Zenon, <1>1
<1>3. size' \in Nat /\ size' <= MaxJournal + Slack
  BY <1>1, RefreshedFits DEF Store!ConstantsOK
<1>4. Open'
  <2>1. pool \in Seq(Couriers) /\ Len(pool) <= MaxEnvelopes  BY Zenon DEF Within
  <2>2. /\ mem' \in [Procs -> Seq(Couriers)]
        /\ \A q \in Procs : Len(mem'[q]) <= MaxEnvelopes
    BY Zenon, <1>1, <2>1, MemSet DEF StoreInv
  <2> QED  BY Zenon, <1>1, <1>2, <2>2 DEF Open
<1>5. Within(disk')
  <2>1. PICK d : d = disk'  BY Zenon
  <2>2. d = disk \/ d = pool  BY Zenon, <1>1, <2>1
  <2>3. Within(d)  BY Zenon, <2>2 DEF StoreInv
  <2> QED  BY Zenon, <2>1, <2>3
<1>6. ~unparsable' => disk' = sealed'
  <2>1. disk = sealed  BY Zenon DEF StoreInv
  <2> QED  BY Zenon, <1>1, <2>1
<1>7. Within(disk)'  BY Zenon, <1>5 DEF Within
<1> QED  BY Zenon, <1>2, <1>3, <1>4, <1>6, <1>7 DEF StoreInv

LEMMA SealKeeps ==
    ASSUME Store!ConstantsOK, StoreInv, NEW p \in Procs, NEW c \in Couriers,
           Store!SealInto(p, c)
    PROVE  StoreInv' /\ (unparsable' => cut)
<1>1. /\ Store!Readable /\ ~unparsable
      /\ c \notin Store!Range(disk) /\ Store!Fits(disk, c)
      /\ Store!Write(p, Append(disk, c), c \notin Store!Range(disk), Append(disk, c))
      /\ sealed' = Append(sealed, c)
      /\ rotating' = [rotating EXCEPT ![p] = size' > MaxJournal] /\ up' = up
  BY Zenon DEF Store!SealInto, Store!Available, Store!Readable, Store!Parses, Store!Pool
<1>2. PICK pool, accepted :
          pool = Append(disk, c) /\ accepted = (c \notin Store!Range(disk))
  BY Zenon
<1>3. accepted = TRUE /\ Store!Write(p, pool, accepted, pool)  BY Zenon, <1>1, <1>2
<1>4. Within(pool)  BY Zenon, <1>1, <1>2, FitsWithin DEF StoreInv
<1>5. sealed' \in Seq(Couriers) /\ (disk = sealed => sealed' = pool)
  BY <1>1, <1>2 DEF StoreInv, Open
<1>6. up' \in [Procs -> BOOLEAN] /\ rotating' \in [Procs -> BOOLEAN]
  BY <1>1 DEF StoreInv, Open
<1> QED  BY Zenon, <1>1, <1>3, <1>4, <1>5, <1>6, WriteKeeps

LEMMA TakeKeeps ==
    ASSUME Store!ConstantsOK, StoreInv, NEW p \in Procs, NEW c \in Couriers,
           Store!Take(p, c)
    PROVE  StoreInv' /\ (unparsable' => cut)
<1>1. /\ Store!Readable /\ ~unparsable
      /\ Store!Write(p, Store!Without(disk, c), TRUE, Store!Without(disk, c))
      /\ sealed' = Store!Without(sealed, c)
      /\ rotating' = rotating /\ up' = up
  BY Zenon DEF Store!Take, Store!Available, Store!Readable, Store!Parses, Store!Pool
<1>2. PICK pool, accepted : pool = Store!Without(disk, c) /\ accepted = TRUE  BY Zenon
<1>3. Store!Write(p, pool, accepted, pool)  BY Zenon, <1>1, <1>2
<1>4. Within(pool)  BY Zenon, <1>2, RestWithin DEF StoreInv
<1>5. sealed' \in Seq(Couriers)
  BY Zenon, <1>1, WithoutShrinks DEF StoreInv, Open
<1>6. disk = sealed => sealed' = pool  BY Zenon, <1>1, <1>2
<1>7. up' \in [Procs -> BOOLEAN] /\ rotating' \in [Procs -> BOOLEAN]
  BY Zenon, <1>1 DEF StoreInv, Open
<1> QED  BY Zenon, <1>1, <1>2, <1>3, <1>4, <1>5, <1>6, <1>7, WriteKeeps

\* The steps that leave what is on the carrier alone: a rewrite of the journal, a
\* refresh, a start, a crash and a torn append.
LEMMA RestKeeps ==
    ASSUME Store!ConstantsOK, StoreInv, disk' = disk, unparsable' = unparsable,
           sealed' = sealed, NEW p \in Procs, NEW pool, pool \in {disk, <<>>, mem[p]},
           mem' = [mem EXCEPT ![p] = pool],
           \/ size' = size
           \/ size' = Len(disk) /\ Store!Snapshots
           \/ size' = Store!RefreshedSize /\ Store!Readable,
           cut' \in BOOLEAN,
           up' \in [Procs -> BOOLEAN], rotating' \in [Procs -> BOOLEAN]
    PROVE  StoreInv' /\ (unparsable' => unparsable)
<1>1. disk \in Seq(Couriers) /\ Len(disk) \in Nat /\ Len(disk) <= MaxEnvelopes
  BY DEF StoreInv, Within
<1>2. size' \in Nat /\ size' <= MaxJournal + Slack
  <2>1. CASE size' = size  BY Zenon, <2>1 DEF StoreInv
  <2>2. CASE size' = Len(disk) /\ Store!Snapshots
    BY <1>1, <2>2 DEF Store!ConstantsOK, Store!Snapshots
  <2>3. CASE size' = Store!RefreshedSize /\ Store!Readable
    BY <2>3, RefreshedFits DEF Store!ConstantsOK
  <2> QED  BY Zenon, <2>1, <2>2, <2>3
<1>3. pool \in Seq(Couriers) /\ Len(pool) <= MaxEnvelopes
  <2>1. CASE pool = <<>>  BY <2>1 DEF Store!ConstantsOK
  <2>2. CASE pool = disk  BY Zenon, <1>1, <2>2
  <2>3. CASE pool = mem[p]  BY Zenon, <2>3 DEF StoreInv, Open
  <2> QED  BY Zenon, <2>1, <2>2, <2>3
<1>4. /\ mem' \in [Procs -> Seq(Couriers)]
      /\ \A q \in Procs : Len(mem'[q]) <= MaxEnvelopes
  BY Zenon, <1>3, MemSet DEF StoreInv
<1>5. Open'  BY Zenon, <1>4 DEF StoreInv, Open
<1>6. Within(disk)'  BY Zenon DEF StoreInv, Within
<1> QED  BY Zenon, <1>2, <1>5, <1>6 DEF StoreInv

LEMMA StoreStep ==
    ASSUME Store!ConstantsOK, StoreInv, [Store!Next]_(Store!vars)
    PROVE  StoreInv' /\ (~unparsable /\ unparsable' => cut)
<1>1. /\ up \in [Procs -> BOOLEAN] /\ rotating \in [Procs -> BOOLEAN]
      /\ mem \in [Procs -> Seq(Couriers)] /\ cut \in BOOLEAN
      /\ \A p \in Procs : mem = [mem EXCEPT ![p] = mem[p]]
  BY Zenon DEF StoreInv, Open
<1>2. ASSUME NEW p \in Procs, Store!Rotate(p) PROVE StoreInv' /\ (unparsable' => unparsable)
  <2>1. /\ UNCHANGED <<disk, unparsable, up, sealed>>
        /\ rotating' = [rotating EXCEPT ![p] = FALSE]
    BY Zenon, <1>2 DEF Store!Rotate
  <2>2. \/ size' = Len(disk) /\ Store!Snapshots /\ cut' = FALSE /\ mem' = [mem EXCEPT ![p] = disk]
        \/ size' = size /\ cut' = cut /\ mem' = [mem EXCEPT ![p] = mem[p]]
    BY Zenon, <1>1, <1>2 DEF Store!Rotate
  <2>3. rotating' \in [Procs -> BOOLEAN]  BY Zenon, <1>1, <2>1
  <2> QED  BY Zenon, <1>1, <2>1, <2>2, <2>3, RestKeeps
<1>3. ASSUME NEW p \in Procs, Store!Refresh(p) \/ Store!Start(p)
      PROVE  StoreInv' /\ (unparsable' => unparsable)
  <2>1. /\ UNCHANGED <<disk, unparsable, rotating, sealed>>
        /\ size' = Store!RefreshedSize /\ Store!Readable /\ cut' = (cut /\ size' = size)
        /\ mem' = [mem EXCEPT ![p] = disk]
    BY Zenon, <1>3 DEF Store!Refresh, Store!Start, Store!Available
  <2>2. up' = up \/ up' = [up EXCEPT ![p] = TRUE]
    BY Zenon, <1>3 DEF Store!Refresh, Store!Start
  <2>3. up' \in [Procs -> BOOLEAN] /\ cut' \in BOOLEAN  BY Zenon, <1>1, <2>1, <2>2
  <2> QED  BY Zenon, <1>1, <2>1, <2>3, RestKeeps
<1>4. ASSUME NEW p \in Procs, Store!Crash(p) PROVE StoreInv' /\ (unparsable' => unparsable)
  <2>1. /\ UNCHANGED <<disk, cut, unparsable, size, sealed>>
        /\ mem' = [mem EXCEPT ![p] = <<>>]
        /\ up' = [up EXCEPT ![p] = FALSE] /\ rotating' = [rotating EXCEPT ![p] = FALSE]
    BY Zenon, <1>4 DEF Store!Crash
  <2>2. up' \in [Procs -> BOOLEAN] /\ rotating' \in [Procs -> BOOLEAN]  BY Zenon, <1>1, <2>1
  <2> QED  BY Zenon, <1>1, <2>1, <2>2, RestKeeps
<1>5. ASSUME NEW p \in Procs, Store!Tear(p) PROVE StoreInv' /\ (unparsable' => unparsable)
  <2>1. /\ UNCHANGED <<disk, unparsable, rotating, sealed>>
        /\ size' = Store!RefreshedSize /\ Store!Readable /\ cut' = TRUE
    BY Zenon, <1>5 DEF Store!Tear, Store!Available
  <2>2. PICK alive \in BOOLEAN :
            /\ up' = [up EXCEPT ![p] = alive]
            /\ mem' = [mem EXCEPT ![p] = IF alive THEN disk ELSE <<>>]
    BY Zenon, <1>5 DEF Store!Tear
  <2>3. PICK pool : pool = IF alive THEN disk ELSE <<>>  BY Zenon
  <2>4. pool \in {disk, <<>>, mem[p]} /\ mem' = [mem EXCEPT ![p] = pool]
    BY Zenon, <2>2, <2>3
  <2>5. up' \in [Procs -> BOOLEAN]  BY Zenon, <1>1, <2>2
  <2> QED  BY Zenon, <1>1, <2>1, <2>4, <2>5, RestKeeps
<1>6. CASE UNCHANGED Store!vars
  BY Zenon, <1>6 DEF Store!vars, StoreInv, Open, Within
<1> QED
  BY Zenon, <1>2, <1>3, <1>4, <1>5, <1>6, SealKeeps, TakeKeeps DEF Store!Next

LEMMA StoreInitially == ASSUME Store!ConstantsOK, Store!Init PROVE StoreInv
<1>1. disk = <<>> /\ sealed = <<>> /\ size = 0 /\ cut = FALSE /\ unparsable = FALSE
  BY Zenon DEF Store!Init
<1>2. Open
  <2>1. <<>> \in Seq(Couriers) /\ Len(<<>>) <= MaxEnvelopes  BY DEF Store!ConstantsOK
  <2>2. PICK none : none = <<>>  BY Zenon
  <2>3. /\ mem \in [Procs -> Seq(Couriers)]
        /\ \A p \in Procs : Len(mem[p]) <= MaxEnvelopes
    <3>1. mem = [p \in Procs |-> none]  BY Zenon, <2>2 DEF Store!Init
    <3> QED  BY Zenon, <2>1, <2>2, <3>1
  <2>4. up \in [Procs -> BOOLEAN] /\ rotating \in [Procs -> BOOLEAN]
    BY Zenon DEF Store!Init
  <2> QED  BY Zenon, <1>1, <2>1, <2>3, <2>4 DEF Open
<1>3. Within(disk)
  <2>1. PICK pool : pool = disk  BY Zenon
  <2>2. pool \in Seq(Couriers) /\ Len(pool) = 0 /\ Store!Range(pool) = {}
    BY <1>1, <2>1 DEF Store!Range
  <2>3. Store!TotalBytes(pool) = 0
    <3>1. PICK sum : Sums(sum, pool)  BY Zenon, <2>2, TotalBytesSums
    <3> QED  BY Zenon, <2>2, <3>1 DEF Sums
  <2>4. \A r : Cardinality(Store!For(pool, r)) = 0
    <3>1. \A r : Store!For(pool, r) = {}  BY Zenon, <2>2 DEF Store!For
    <3> QED  BY <3>1, FS_EmptySet, Zenon
  <2> QED  BY <2>1, <2>2, <2>3, <2>4 DEF Within, Store!ConstantsOK
<1> QED  BY <1>1, <1>2, <1>3 DEF StoreInv, Store!ConstantsOK

LEMMA StoreInductive == ASSUME Store!ConstantsOK PROVE Store!Spec => []StoreInv
<1>1. Store!Init => StoreInv  BY Zenon, StoreInitially
<1>2. StoreInv /\ [Store!Next]_(Store!vars) => StoreInv'  BY Zenon, StoreStep
<1> QED  BY <1>1, <1>2, PTL DEF Store!Spec

\* The three quotas of a carrier hold for any number of processes, envelopes and
\* sizes: seal_into decides on the pool of all processes.
THEOREM StoreQuotasHold == ASSUME Store!ConstantsOK PROVE Store!Spec => []Store!QuotasHold
<1>1. StoreInv => Store!QuotasHold
  BY Zenon, SameCardinality DEF StoreInv, Within, Open, Store!QuotasHold, Store!TypeOK
<1> QED  BY <1>1, StoreInductive, PTL

\* While the journal parses, the carrier has exactly the envelopes that were sealed
\* and since neither handed over nor discarded, in the order of sealing, whatever
\* rotates, crashes or is torn.
THEOREM StoreNothingLost == ASSUME Store!ConstantsOK PROVE Store!Spec => []Store!NothingLost
<1>1. StoreInv => Store!NothingLost  BY Zenon DEF StoreInv, Store!NothingLost
<1> QED  BY <1>1, StoreInductive, PTL

\* The journal never outgrows the bounded recovery read, and the store stops
\* working only by a line glued to a torn tail or by a seal_into that quotas wider
\* than the journal let in.
THEOREM StoreJournalStaysReadable ==
    ASSUME Store!ConstantsOK PROVE Store!Spec => Store!JournalStaysReadable
<1>1. StoreInv => size <= MaxJournal + Slack  BY Zenon DEF StoreInv
<1>2. StoreInv /\ [Store!Next]_(Store!vars)
        => [Store!Readable /\ ~Store!Readable' => cut \/ Len(disk') > MaxJournal]_(Store!vars)
  <2> SUFFICES ASSUME StoreInv, [Store!Next]_(Store!vars), Store!Readable, ~Store!Readable'
               PROVE  cut \/ Len(disk') > MaxJournal
    BY Zenon
  <2>1. size' <= MaxJournal + Slack /\ (~unparsable /\ unparsable' => cut)
    BY Zenon, StoreStep DEF StoreInv
  <2>2. Len(disk') \in Nat /\ MaxJournal \in Nat
    BY StoreStep DEF StoreInv, Within, Store!ConstantsOK
  <2>3. ~unparsable  BY Zenon DEF Store!Readable, Store!Parses
  <2>4. unparsable' \/ ~(Len(disk') <= MaxJournal)
    BY Zenon, <2>1 DEF Store!Readable, Store!Parses, Store!Snapshots
  <2> QED  BY <2>1, <2>2, <2>3, <2>4
<1> QED  BY <1>1, <1>2, StoreInductive, PTL DEF Store!Spec, Store!JournalStaysReadable
==============================================================================
