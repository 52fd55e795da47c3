---------------------------- MODULE MarketClaims ----------------------------
(***************************************************************************)
(* A hub claims a task that another node announced, after                  *)
(* nth_dao/market/claim_intent.py, claim.py, claim_ack.py and the claim    *)
(* handlers of nth_dao/web/v2_api.py.                                      *)
(*                                                                         *)
(* The claimant's hub keeps the lifecycle of each signed intent in the     *)
(* IntentTracker: a journal, the receipts it retains, and an archive of    *)
(* old terminal intents (immutable segments and an index over them).  The  *)
(* source node decides with one compare-and-swap on its claim record.      *)
(* Between them are HTTP requests that may be lost, time out or be         *)
(* answered late, and an operator who asks for the status of an intent.    *)
(*                                                                         *)
(* A call on the tracker runs under its lock; it is the sequence of the    *)
(* disks its durable writes leave, of which a failure or the death of the  *)
(* process leaves a prefix.  A torn line is cut off by the next load, so a *)
(* torn append leaves a prefix of its lines.  Every claim has a nonce of   *)
(* its own, drawn by the agent that signs it.                              *)
(***************************************************************************)
EXTENDS Integers, Sequences, FiniteSets, SequencesExt

CONSTANTS
    Intents,     \* signed intents for one announcement, each with its receipt
    Claimant,    \* the agent of the hub that signed each
    CreatedAt,   \* created_at_ms of each, all different (ties go by nonce)
    MaxIntents,  \* max_intents of the tracker
    MaxLines,    \* MAX_TRACKER_JOURNAL_BYTES, counted in lines
    MaxFaults    \* bound: calls on the tracker that are cut short

ASSUME ClaimConstants ==
    /\ IsFiniteSet(Intents)
    /\ CreatedAt \in [Intents -> Nat]
    /\ \A i, j \in Intents : CreatedAt[i] = CreatedAt[j] => i = j
    /\ MaxIntents \in Nat \ {0} /\ MaxLines \in Nat \ {0} /\ MaxFaults \in Nat

VARIABLES
    disk,    \* the tracker's files: journal, segments, indexed, index, blobs
    acks,    \* receipts whose signed authority ACK the hub has stored
    winner,  \* the claim record of the source node
    wire,    \* claim requests the source node has yet to see
    job,     \* the claim handler of each intent: its step and its answer
    recon,   \* the intent of a reconcile request that has stored its ACK
    faults   \* how many calls on the tracker were cut short

vars == <<disk, acks, winner, wire, job, recon, faults>>

Nobody == "nobody"
Rival == "rival"          \* a claimant of another node
Refusal == "refused"      \* an answer that no retry will change

NoRetry == "no retry"
NoSegment == <<>>

-----------------------------------------------------------------------------
(* The journal and its fold *)

Sent(i) == [event |-> "sent", nonce |-> i, retry |-> NoRetry]
Verdict(v, i) == [event |-> v, nonce |-> i, retry |-> NoRetry]
Reconciled(i, r) == [event |-> "reconciled", nonce |-> i, retry |-> r]

Terminal == {"confirmed", "rejected", "expired"}

Known(st) == {i \in Intents : st[i] # "none"}

\* _fold_event_locked accepts e in the state st.
Legal(st, e) ==
    \/ /\ e.event = "sent" /\ st[e.nonce] = "none"
       /\ Cardinality(Known(st)) < MaxIntents
    \/ /\ e.event = "reconciled" /\ e.retry # e.nonce
       /\ st[e.nonce] \in {"pending", "expired", "confirmed"}
       /\ st[e.retry] = "pending"
    \/ e.event = "confirmed" /\ st[e.nonce] \in {"pending", "expired"}
    \/ e.event \in {"rejected", "expired"} /\ st[e.nonce] = "pending"

Moved(st, e) ==
    CASE e.event = "sent" -> [st EXCEPT ![e.nonce] = "pending"]
      [] e.event = "reconciled" ->
            [st EXCEPT ![e.nonce] = "confirmed", ![e.retry] = "rejected"]
      [] OTHER -> [st EXCEPT ![e.nonce] = e.event]

\* _intents after a load of these lines.
State(lines) ==
    LET st[k \in 0 .. Len(lines)] ==
            IF k = 0 THEN [i \in Intents |-> "none"] ELSE Moved(st[k - 1], lines[k])
    IN  st[Len(lines)]

\* The load does not raise IntentTrackerCorrupt.
Folds(lines) ==
    \A k \in DOMAIN lines : Legal(State(SubSeq(lines, 1, k - 1)), lines[k])

-----------------------------------------------------------------------------
(* The archive *)

\* The segments _sync_archive_index_locked has not read, in the order of their
\* names (content hashes, so any fixed order).
Unindexed(d) == SetToSeq(d.segments \ d.indexed)

\* One segment's transaction: a row that exists keeps its segment.
Indexed(d, seg) ==
    [d EXCEPT
        !.indexed = @ \cup {seg},
        !.index = [i \in Intents |->
            IF @[i] = NoSegment /\ Contains(seg, Sent(i)) THEN seg ELSE @[i]]]

\* The disks _sync_archive_index_locked leaves, one per transaction.
SyncSteps(d) ==
    LET segs == Unindexed(d)
    IN  [k \in DOMAIN segs |-> FoldLeft(Indexed, d, SubSeq(segs, 1, k))]

Synced(d) == FoldLeft(Indexed, d, Unindexed(d))

\* archived_record: the last event of the segment that speaks of i.
ArchivedState(seg, i) ==
    LET e == Last(SelectSeq(seg, LAMBDA x : i \in {x.nonce, x.retry}))
    IN  CASE e.event = "sent" -> "pending"
          [] e.event = "reconciled" -> IF e.nonce = i THEN "confirmed" ELSE "rejected"
          [] OTHER -> e.event

\* What record() and then archived_record() say of i.
View(d, i) ==
    LET st == State(d.journal)[i]
        seg == Synced(d).index[i]
    IN  CASE st # "none" -> st
          [] st = "none" /\ seg # NoSegment -> ArchivedState(seg, i)
          [] OTHER -> "none"

-----------------------------------------------------------------------------
(* Calls on the tracker: the disks their writes leave, and whether they    *)
(* return.                                                                 *)

Plan(d) == [disks |-> <<d>>, ok |-> TRUE]

Now(p) == Last(p.disks)

Then(p, disks) == [p EXCEPT !.disks = @ \o disks]

Raise(p) == [p EXCEPT !.ok = FALSE]

TerminalIn(d) == LET st == State(d.journal) IN {i \in Intents : st[i] \in Terminal}

\* The n oldest of S.
Oldest(S, n) ==
    {i \in S : Cardinality({j \in S : CreatedAt[j] < CreatedAt[i]}) < n}

Touches(e, removed) == e.nonce \in removed \/ e.retry \in removed

\* What is left of the line e in the active journal, behind the lines acc.
Retained(acc, e, removed) ==
    IF ~Touches(e, removed) THEN <<e>>
    ELSE IF e.event # "reconciled" THEN <<>>
    ELSE (IF e.nonce \notin removed /\ State(acc)[e.nonce] # "confirmed"
          THEN <<Verdict("confirmed", e.nonce)>> ELSE <<>>)
         \o (IF e.retry \notin removed THEN <<Verdict("rejected", e.retry)>> ELSE <<>>)

Active(lines, removed) ==
    FoldLeft(LAMBDA acc, e : acc \o Retained(acc, e, removed), <<>>, lines)

\* The probe: the rewritten journal folds to the same retained state.
Keeps(lines, active, removed) ==
    /\ Folds(active)
    /\ State(active) = [i \in Intents |-> IF i \in removed THEN "none" ELSE State(lines)[i]]

\* Faulty variant: the journal is rewritten before the segment is written.
CompactRewriteFirst(p, removed) ==
    LET d == Now(p)
        seg == SelectSeq(d.journal, LAMBDA e : Touches(e, removed))
        active == Active(d.journal, removed)
        rewritten == [d EXCEPT !.journal = active]
        written == [rewritten EXCEPT !.segments = @ \cup {seg}]
    IN  IF removed = {} THEN p
        ELSE Then(p, <<rewritten, written>> \o SyncSteps(written))

\* _compact_locked of these intents: the segment, the index, the journal.
Compact(p, removed) ==
    LET d == Now(p)
        seg == SelectSeq(d.journal, LAMBDA e : Touches(e, removed))
        active == Active(d.journal, removed)
        written == [d EXCEPT !.segments = @ \cup {seg}]
        archived == Then(p, <<written>> \o SyncSteps(written))
    IN  IF removed = {} THEN p
        ELSE IF ~Keeps(d.journal, active, removed) THEN Raise(archived)
        ELSE Then(archived, <<[Now(archived) EXCEPT !.journal = active]>>)

\* max(1, n // 4)
Quarter(n) == IF n < 8 THEN 1 ELSE n \div 4

\* _append_events_locked: archives terminal intents until the lines fit, then
\* appends them in one write.
AppendLines(p, lines, protected) ==
    LET over(q) == Len(Now(q).journal) + Len(lines) > MaxLines
        room[n \in 0 .. Cardinality(Intents)] ==
            IF n = 0 THEN p
            ELSE LET q == room[n - 1]
                     terminals == TerminalIn(Now(q))
                 IN  IF q.ok /\ over(q)
                     THEN Compact(q, Oldest(terminals \ protected,
                                            Quarter(Cardinality(terminals))))
                     ELSE q
        last == room[Cardinality(Intents)]
        d == Now(last)
    IN  IF ~last.ok THEN last
        ELSE IF over(last) THEN Raise(last)
        ELSE Then(last, [k \in DOMAIN lines |->
                            [d EXCEPT !.journal = @ \o SubSeq(lines, 1, k)]])

-----------------------------------------------------------------------------
(* The operations of the tracker *)

\* The constructor loads, which brings the index up to date.
Open(d) == Then(Plan(d), SyncSteps(d))

\* record_sent of a new nonce: room for one more, the receipt, the event.
RecordSent(d, i) ==
    LET p == Open(d)
        full(q) == Cardinality(Known(State(Now(q).journal))) >= MaxIntents
        free == MaxIntents - Cardinality(Known(State(d.journal)))
        q == IF full(p)
             THEN Compact(p, Oldest(TerminalIn(d), Quarter(MaxIntents) - free))
             ELSE p
    IN  IF ~q.ok THEN q
        ELSE IF full(q) THEN Raise(q)
        ELSE AppendLines(Then(q, <<[Now(q) EXCEPT !.blobs = @ \cup {i}]>>), <<Sent(i)>>, {})

\* mark: only a pending intent takes a verdict, the same verdict is a no-op.
Mark(d, i, v) ==
    LET st == State(d.journal)[i]
    IN  CASE st = "pending" -> AppendLines(Plan(d), <<Verdict(v, i)>>, {i})
          [] st = v -> Plan(d)
          [] OTHER -> Raise(Plan(d))

\* Faulty variant: an expired intent is not confirmed any more.
ConfirmPendingOnly(d, i) ==
    LET st == State(d.journal)[i]
    IN  CASE st = "pending" -> AppendLines(Plan(d), <<Verdict("confirmed", i)>>, {i})
          [] st = "confirmed" -> Plan(d)
          [] OTHER -> Raise(Plan(d))

\* confirm_by_receipt with the receipt of i.
ConfirmByReceipt(d, i) ==
    LET st == State(d.journal)[i]
    IN  CASE st \in {"pending", "expired"} ->
                AppendLines(Plan(d), <<Verdict("confirmed", i)>>, {i})
          [] st = "confirmed" -> Plan(d)
          [] OTHER -> Raise(Plan(d))

\* reconcile_retry of r with the receipt of the earlier claim i.
ReconcileRetry(d, r, i) ==
    LET st == State(d.journal)
    IN  IF st[r] = "pending" /\ st[i] \in {"pending", "confirmed", "expired"}
        THEN AppendLines(Plan(d), <<Reconciled(i, r)>>, {i, r})
        ELSE Raise(Plan(d))

\* sweep_expired when the pending intents S are past their TTL.
SweepExpired(d, S) ==
    LET sent == SelectSeq(d.journal, LAMBDA e : e.event = "sent" /\ e.nonce \in S)
    IN  AppendLines(Plan(d), [k \in DOMAIN sent |-> Verdict("expired", sent[k].nonce)], {})

\* The call p runs, to its end or to an earlier write.
Runs(p, done) ==
    \E k \in DOMAIN p.disks :
        /\ disk' = p.disks[k]
        /\ \/ k = Len(p.disks) /\ done = p.ok /\ faults' = faults
           \/ ~done /\ faults < MaxFaults /\ faults' = faults + 1

-----------------------------------------------------------------------------
(* The claim handler of the hub *)

Fresh == [step |-> "new", answer |-> Nobody]
Over == [step |-> "over", answer |-> Nobody]

Pass(i, step) == [job EXCEPT ![i].step = step]
Finish(i) == [job EXCEPT ![i] = Over]

\* The agent has signed: the intent is tracked, and then forwarded.
Forward(i) ==
    /\ job[i].step = "new"
    /\ \E done \in BOOLEAN :
          /\ Runs(RecordSent(disk, i), done)
          /\ job' = IF done THEN Pass(i, "posted") ELSE Finish(i)
          /\ wire' = IF done THEN wire \cup {i} ELSE wire
    /\ UNCHANGED <<acks, winner, recon>>

\* A valid ACK arrives, and AuthorityClaimAckStore.save stores it.
SaveAck(i) ==
    /\ job[i].step = "answered" /\ job[i].answer # Refusal
    /\ acks' = acks \cup {job[i].answer}
    /\ job' = Pass(i, "saved")
    /\ UNCHANGED <<disk, winner, wire, recon, faults>>

\* The intent, or the earlier one that the ACK names, is confirmed.
Settle(i) ==
    /\ job[i].step = "saved"
    /\ \E done \in BOOLEAN :
          Runs(IF job[i].answer = i THEN Mark(disk, i, "confirmed")
               ELSE ReconcileRetry(disk, i, job[i].answer), done)
    /\ job' = Finish(i)
    /\ UNCHANGED <<acks, winner, wire, recon>>

\* A refusal (400, 403, 404, 409, 410, 422) is terminal.
Reject(i) ==
    /\ job[i].step = "answered" /\ job[i].answer = Refusal
    /\ \E done \in BOOLEAN : Runs(Mark(disk, i, "rejected"), done)
    /\ job' = Finish(i)
    /\ UNCHANGED <<acks, winner, wire, recon>>

\* The request times out, its answer is lost, says that the source is busy or
\* is not valid, the ACK cannot be stored, or the hub dies: the intent stays
\* pending.
GiveUp(i) ==
    /\ job[i].step \in {"posted", "answered", "saved"}
    /\ job' = Finish(i)
    /\ UNCHANGED <<disk, acks, winner, wire, recon, faults>>

-----------------------------------------------------------------------------
(* The source node *)

\* The answer reaches the handler that still waits for it.
Answer(i, a) ==
    /\ wire' = wire \ {i}
    /\ job' = [job EXCEPT ![i] =
          IF @.step = "posted" THEN [step |-> "answered", answer |-> a] ELSE @]

\* The claimant of the recorded claim.
Holder == IF winner \in Intents THEN Claimant[winner] ELSE winner

\* Faulty variant: the record is checked before the lock is taken.
AcceptUnchecked(i) ==
    /\ i \in wire
    /\ winner' = i
    /\ Answer(i, i)
    /\ UNCHANGED <<disk, acks, recon, faults>>

\* record_foreign_claim: the CAS finds no record and writes this one.
Accept(i) ==
    /\ i \in wire /\ winner = Nobody
    /\ winner' = i
    /\ Answer(i, i)
    /\ UNCHANGED <<disk, acks, recon, faults>>

\* The CAS finds a record: its ACK goes to the same claimant, others are told
\* that they lost.
Conflict(i) ==
    /\ i \in wire /\ winner # Nobody
    /\ Answer(i, IF Holder = Claimant[i] THEN winner ELSE Refusal)
    /\ UNCHANGED <<disk, acks, winner, recon, faults>>

\* The announcement, the intent, the token or the receipt is not good (any
\* more) for the source node.
Refuse(i) ==
    /\ i \in wire
    /\ Answer(i, Refusal)
    /\ UNCHANGED <<disk, acks, winner, recon, faults>>

\* claim_announcement, or the claim of another hub.
RivalClaims ==
    /\ winner = Nobody
    /\ winner' = Rival
    /\ UNCHANGED <<disk, acks, wire, job, recon, faults>>

-----------------------------------------------------------------------------
(* The operator's reconcile request, and the host's sweep *)

\* The record of i is read, and the source asked about an open one.  Claim-status
\* signs an ACK of the claimant's own claim; the hub stores it and goes on only
\* if it is an ACK of this very receipt.  What is asked about never changes once
\* it is true, so the question and the reply are one step.
Ask(i) ==
    /\ recon = Nobody
    /\ \E done \in BOOLEAN :
          /\ Runs(Open(disk), done)
          /\ IF /\ done /\ winner = i
                /\ State(disk.journal)[i] \in {"pending", "expired"}
             THEN acks' = acks \cup {i} /\ recon' = i
             ELSE UNCHANGED <<acks, recon>>
    /\ UNCHANGED <<winner, wire, job>>

\* The stored ACK confirms the intent its receipt belongs to.
Confirm(i) ==
    /\ recon = i
    /\ \E done \in BOOLEAN : Runs(ConfirmByReceipt(disk, i), done)
    /\ recon' = Nobody
    /\ UNCHANGED <<acks, winner, wire, job>>

\* The hub dies between the two.
Drop ==
    /\ recon # Nobody
    /\ recon' = Nobody
    /\ UNCHANGED <<disk, acks, winner, wire, job, faults>>

Sweep(S) ==
    /\ S # {} /\ \A i \in S : State(disk.journal)[i] = "pending"
    /\ \E done \in BOOLEAN : Runs(SweepExpired(disk, S), done)
    /\ UNCHANGED <<acks, winner, wire, job, recon>>

-----------------------------------------------------------------------------

Init ==
    /\ disk = [journal |-> <<>>, segments |-> {}, indexed |-> {},
               index |-> [i \in Intents |-> NoSegment], blobs |-> {}]
    /\ acks = {} /\ winner = Nobody /\ wire = {}
    /\ job = [i \in Intents |-> Fresh]
    /\ recon = Nobody
    /\ faults = 0

Next ==
    \/ \E i \in Intents :
          \/ Forward(i) \/ SaveAck(i) \/ Settle(i) \/ Reject(i) \/ GiveUp(i)
          \/ Accept(i) \/ Conflict(i) \/ Refuse(i)
          \/ Ask(i) \/ Confirm(i)
    \/ RivalClaims
    \/ Drop
    \/ \E S \in SUBSET Intents : Sweep(S)

Spec == Init /\ [][Next]_vars

-----------------------------------------------------------------------------
(* Properties *)

TypeOK ==
    /\ Folds(disk.journal) /\ Len(disk.journal) <= MaxLines
    /\ disk.indexed \subseteq disk.segments /\ disk.blobs \subseteq Intents
    /\ \A i \in Intents : disk.index[i] \in disk.indexed \cup {NoSegment}
    /\ acks \subseteq Intents /\ wire \subseteq Intents
    /\ winner \in Intents \cup {Nobody, Rival}
    /\ \A i \in Intents : job[i].step \in {"new", "posted", "answered", "saved", "over"}
    /\ recon \in Intents \cup {Nobody}
    /\ faults \in 0 .. MaxFaults

\* The types are right, the journal always loads, and what the hub shows of an
\* intent is what the source node decided: a confirmed one is the claim on
\* record, with its ACK and its receipt kept; a rejected one is not, and never
\* will be.
VerdictsAreTrue ==
    /\ TypeOK
    /\ \A i \in Intents :
        /\ View(disk, i) = "confirmed" => winner = i /\ i \in acks /\ i \in disk.blobs
        /\ View(disk, i) = "rejected" => winner # i /\ i \notin wire

\* Nothing that is tracked is ever forgotten, and a verdict stands, whichever
\* write of a compaction is the last; only the local inference that an intent
\* expired gives way to the ACK.  The exception is an intent that is archived
\* twice, because its first compaction was cut short: the index keeps to the
\* first segment, which may say expired of a claim confirmed since.
VerdictsAreFinal ==
    [][\A i \in Intents :
          LET before == View(disk, i)
              after == View(disk', i)
          IN  \/ after = before
              \/ before = "none" /\ after = "pending"
              \/ before = "pending" /\ after \in Terminal
              \/ before = "expired" /\ after = "confirmed"
              \/ /\ before = "confirmed" /\ after = "expired"
                 /\ \E seg \in disk.segments : Contains(seg, Sent(i))]_disk

\* _append_events_locked raises IntentTrackerFull: the line that confirms i does
\* not fit even when every other terminal intent is archived.
CrowdedOut(i) == Len(Active(disk.journal, TerminalIn(disk) \ {i})) + 1 > MaxLines

\* However the answers are lost or late, a claim the source node accepted can be
\* brought home: at any moment a reconcile request that is not interrupted would
\* confirm it.  There are two exceptions.  The intent was swept as expired and
\* archived before; or the journal is full of its own lines and those of pending
\* intents, which are never archived, so that confirm_by_receipt raises until one
\* of them gets its verdict.
AcceptedIsRecoverable ==
    \A i \in Intents :
        winner = i =>
            \/ View(disk, i) = "confirmed"
            \/ View(disk, i) = "expired" /\ State(disk.journal)[i] = "none"
            \/ CrowdedOut(i)
            \/ ConfirmByReceipt(disk, i).ok
=============================================================================
