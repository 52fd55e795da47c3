---------------------------- MODULE PaymentAttempt ----------------------------
(***************************************************************************)
(* nth_dao/commerce/payment_attempt.py and payment_witness.py: the durable *)
(* work record of one external payment, with the settlement it drives      *)
(* (settlement.py).                                                        *)
(*                                                                         *)
(* Executors claim the attempt under a lease, look the payment up at the   *)
(* rail, pay, record the settlement in the trade and then in the attempt;  *)
(* a reconciler resolves orphaned attempts without paying.  Every event of *)
(* the attempt takes five writes: a prepared anchor in the head journal    *)
(* and in the external witness, the document, and a committed anchor in    *)
(* both.  A process may stop between any two steps, which is also what a   *)
(* write that raises amounts to: the exception ends the run.               *)
(*                                                                         *)
(* Time: a timestamp is the number of the operation.  An operation reads   *)
(* the clock before it waits for the file lock, so one that waits may have *)
(* an older timestamp than operations that were before it in the lock.     *)
(***************************************************************************)
EXTENDS Naturals

CONSTANTS
    Workers,      \* processes that run the executor and the reconciler
    MaxAttempts,  \* PaymentExecutorConfig.max_attempts
    MaxFaults,    \* bound: processes that stop, leases that end under their holder
    MaxWaits      \* bound: operations with an old timestamp

ASSUME PaymentConstants ==
    /\ MaxAttempts \in Nat \ {0} /\ MaxFaults \in Nat /\ MaxWaits \in Nat
    /\ "none" \notin Workers

VARIABLES
    doc,       \* the attempt document
    local,     \* the head journal
    witness,   \* the external witness
    lock,      \* who holds the file lock of the attempt
    rail,      \* the payment at the provider
    trade,     \* the trade that is to be settled
    job,       \* what each worker is doing
    ops,       \* operations that were given a number
    since,     \* how many there were when each worker was last free to read the clock
    returned,  \* the seq of the last operation that returned to its caller
    faults, waits

files == <<doc, local, witness>>
world == <<rail, trade>>
vars == <<files, lock, world, job, ops, since, returned, faults, waits>>

None == "none"

\* An unconfirmed payment has a receipt that is not in the confirmed state.
Rails == {"none", "unconfirmed", "paid"}

\* An unfit trade has other terms or parties than the payment intent.
Trades == {"absent", "unfit", "verified", "settled", "disputed"}

\* The document up to what matters: op, seq: its last event; over: the lease has run
\* out, or the retry is due.
NoDoc == [op |-> 0, seq |-> 0, state |-> None, lease |-> 0, over |-> TRUE,
          tries |-> 0, ts |-> 0]

\* role: "execute" or "reconcile"; goal: the event to append; lease, tries: the
\* claim; new: the document being persisted.
Idle == [step |-> "idle", role |-> None, goal |-> None, lease |-> 0, tries |-> 0, new |-> NoDoc]

Decided == {"settled", "blocked", "orphaned"}

-----------------------------------------------------------------------------
(* Head journals.  Of the anchors it holds, a journal is the head of the last *)
(* committed one, the heads prepared after it, the last timestamp, and whether *)
(* timestamps were in order. *)

NoAnchors == [committed |-> {}, prepared |-> {}, last |-> 0, ordered |-> TRUE]

HeadOf(d) == [op |-> d.op, seq |-> d.seq]

Prepare(journal, d) ==
    [journal EXCEPT !.prepared = @ \cup {HeadOf(d)}, !.last = d.ts,
                    !.ordered = @ /\ journal.last <= d.ts]

\* Faulty variant: what was prepared before stays acceptable.
CommitKeepsPrepared(journal, d) ==
    [journal EXCEPT !.committed = {HeadOf(d)}, !.last = d.ts,
                    !.ordered = @ /\ journal.last <= d.ts]

Commit(journal, d) ==
    [journal EXCEPT !.committed = {HeadOf(d)}, !.prepared = {}, !.last = d.ts,
                    !.ordered = @ /\ journal.last <= d.ts]

\* Faulty variant: only a committed head is accepted.
AcceptedCommitted(journal) == journal.committed

\* _accepted_anchor_heads
Accepted(journal) == journal.committed \cup journal.prepared

\* _validate_anchor_sequence and _validate_anchor pass.
Readable ==
    doc # NoDoc => \A journal \in {local, witness} :
                      journal.ordered /\ HeadOf(doc) \in Accepted(journal)

-----------------------------------------------------------------------------
(* Operations of the store *)

\* Faulty variant: the lease in the event is not compared with that of the document.
ValidAnyLease(goal, lease, ts) ==
    CASE goal = "create"     -> doc = NoDoc
      [] goal = "claim"      -> doc.state \in {"pending", "inflight"} /\ doc.over /\ ts >= doc.ts
      [] goal = "reconciled" -> doc.state = "orphaned" /\ ts >= doc.ts
      [] OTHER               -> doc.state = "inflight" /\ ts >= doc.ts

\* Faulty variant: nobody takes an expired lease over.
ValidNoTakeover(goal, lease, ts) ==
    CASE goal = "create"     -> doc = NoDoc
      [] goal = "claim"      -> doc.state = "pending" /\ doc.over /\ ts >= doc.ts
      [] goal = "reconciled" -> doc.state = "orphaned" /\ ts >= doc.ts
      [] OTHER               -> doc.state = "inflight" /\ doc.lease = lease /\ ts >= doc.ts

\* claim's conditions, and verify_payment_attempt on the extended chain.
Valid(goal, lease, ts) ==
    CASE goal = "create"     -> doc = NoDoc
      [] goal = "claim"      -> doc.state \in {"pending", "inflight"} /\ doc.over /\ ts >= doc.ts
      [] goal = "reconciled" -> doc.state = "orphaned" /\ ts >= doc.ts
      [] OTHER               -> doc.state = "inflight" /\ doc.lease = lease /\ ts >= doc.ts

\* The document with the new event, projected.
Candidate(goal, op, ts) ==
    LET state == CASE goal \in {"create", "retry"} -> "pending"
                   [] goal = "claim" -> "inflight"
                   [] goal = "reconciled" -> "settled"
                   [] OTHER -> goal
    IN  [op |-> op, ts |-> ts, state |-> state,
         seq   |-> IF goal = "create" THEN 0 ELSE doc.seq + 1,
         lease |-> IF goal = "claim" THEN op ELSE 0,
         over  |-> goal = "create",
         tries |-> IF goal = "claim" THEN doc.tries + 1 ELSE doc.tries]

\* The lock is taken and the document loaded.  The operation is refused, or its
\* event is signed and about to be persisted.
Enter(w, goal, ts) ==
    /\ lock = None
    /\ IF ts = ops + 1 THEN UNCHANGED waits ELSE waits < MaxWaits /\ waits' = waits + 1
    /\ IF Readable /\ Valid(goal, job[w].lease, ts)
       THEN /\ lock' = w
            /\ ops' = ops + 1
            /\ job' = [job EXCEPT ![w].step = "prepare", ![w].goal = goal,
                                  ![w].new = Candidate(goal, ops + 1, ts)]
       ELSE /\ job' = [job EXCEPT ![w] = Idle]
            /\ UNCHANGED <<lock, ops>>
    /\ since' = [since EXCEPT ![w] = ops']
    /\ UNCHANGED <<files, world, returned, faults>>

Stamps(w) == since[w] + 1 .. ops + 1

Create(w) == job[w] = Idle /\ \E ts \in Stamps(w) : Enter(w, "create", ts)

Claim(w) == job[w] = Idle /\ \E ts \in Stamps(w) : Enter(w, "claim", ts)

Conclude(w) == job[w].step = "conclude" /\ \E ts \in Stamps(w) : Enter(w, job[w].goal, ts)

\* _persist
AnchorPrepared(w) ==
    /\ job[w].step = "prepare"
    /\ local' = Prepare(local, job[w].new)
    /\ job' = [job EXCEPT ![w].step = "prepare-witness"]
    /\ UNCHANGED <<doc, witness, lock, world, ops, since, returned, faults, waits>>

WitnessPrepared(w) ==
    /\ job[w].step = "prepare-witness"
    /\ witness' = Prepare(witness, job[w].new)
    /\ job' = [job EXCEPT ![w].step = "write"]
    /\ UNCHANGED <<doc, local, lock, world, ops, since, returned, faults, waits>>

WriteDocument(w) ==
    /\ job[w].step = "write"
    /\ doc' = job[w].new
    /\ job' = [job EXCEPT ![w].step = "commit"]
    /\ UNCHANGED <<local, witness, lock, world, ops, since, returned, faults, waits>>

AnchorCommitted(w) ==
    /\ job[w].step = "commit"
    /\ local' = Commit(local, job[w].new)
    /\ job' = [job EXCEPT ![w].step = "commit-witness"]
    /\ UNCHANGED <<doc, witness, lock, world, ops, since, returned, faults, waits>>

\* The operation returns; a claim is followed by the settlement.
WitnessCommitted(w) ==
    LET new == job[w].new
    IN  /\ job[w].step = "commit-witness"
        /\ witness' = Commit(witness, new)
        /\ lock' = None
        /\ returned' = new.seq
        /\ job' = [job EXCEPT ![w] = IF @.goal # "claim" THEN Idle
                      ELSE [Idle EXCEPT !.step = "preflight", !.role = "execute",
                                        !.lease = new.lease, !.tries = new.tries]]
        /\ UNCHANGED <<doc, local, world, ops, since, faults, waits>>

-----------------------------------------------------------------------------
(* settle_trade, by an executor with the x402 adapter or by the reconciler with *)
(* the lookup-only one *)

\* The run ends in an event for the attempt, or, in a reconciler, in an exception.
Outcome(w, goal) ==
    /\ since' = [since EXCEPT ![w] = ops]
    /\ job' = [job EXCEPT ![w] =
          IF @.role = "execute" THEN [@ EXCEPT !.step = "conclude", !.goal = goal]
          ELSE IF goal = "settled" THEN [@ EXCEPT !.step = "conclude", !.goal = "reconciled"]
          ELSE Idle]

\* _retry_or_block
RetryOrBlock(w, permanent) ==
    Outcome(w, IF permanent \/ job[w].tries >= MaxAttempts THEN "blocked" ELSE "retry")

Proceed(w, step) == job' = [job EXCEPT ![w].step = step] /\ UNCHANGED since

\* reconcile_once: one at a time, and only for an orphaned attempt.
Reconcile(w) ==
    /\ job[w] = Idle /\ \A v \in Workers : job[v].role # "reconcile"
    /\ Readable /\ doc.state = "orphaned"
    /\ job' = [job EXCEPT ![w] = [Idle EXCEPT !.step = "preflight", !.role = "reconcile"]]
    /\ UNCHANGED <<files, lock, world, ops, since, returned, faults, waits>>

\* An unfit trade is refused for good, one that is not there or is disputed for now.
Preflight(w) ==
    /\ job[w].step = "preflight"
    /\ CASE trade = "settled"  -> Outcome(w, "settled")
         [] trade = "verified" -> Proceed(w, "lookup")
         [] trade = "unfit"    -> RetryOrBlock(w, TRUE)
         [] OTHER              -> RetryOrBlock(w, FALSE)
    /\ UNCHANGED <<files, lock, world, ops, returned, faults, waits>>

\* The rail has a receipt, which is acceptable or not, or none, or does not answer.
\* The receipt of a payment that is not confirmed is not acceptable.
LookUp(w) ==
    /\ job[w].step = "lookup"
    /\ \/ rail = "paid" /\ Proceed(w, "record")
       \/ rail # "none" /\ Outcome(w, "orphaned")
       \/ rail = "none" /\ job[w].role = "execute" /\ Proceed(w, "pay")
       \/ RetryOrBlock(w, FALSE)
    /\ UNCHANGED <<files, lock, world, ops, returned, faults, waits>>

\* Faulty variant: a lost answer is taken for a payment.
PayOptimistic(w) ==
    /\ job[w].step = "pay"
    /\ rail' \in {rail, "paid"} /\ Proceed(w, "record")
    /\ UNCHANGED <<files, lock, trade, ops, returned, faults, waits>>

\* The provider pays, or begins to, unless it has done so under this idempotency key;
\* the receipt is acceptable or not, or the answer is lost.  Or it declines, or never
\* gets the request.
Pay(w) ==
    /\ job[w].step = "pay"
    /\ \/ /\ rail' \in {"unconfirmed", "paid"} /\ (rail = "paid" => rail' = "paid")
          /\ \/ rail' = "paid" /\ Proceed(w, "record")
             \/ Outcome(w, "orphaned") \/ RetryOrBlock(w, FALSE)
       \/ /\ rail = "none" /\ UNCHANGED rail
          /\ \E permanent \in BOOLEAN : RetryOrBlock(w, permanent)
    /\ UNCHANGED <<files, lock, trade, ops, returned, faults, waits>>

\* record_settlement: refused if the trade has moved on since the preflight.
RecordTrade(w) ==
    /\ job[w].step = "record"
    /\ IF trade = "verified" THEN trade' = "settled" /\ Outcome(w, "settled")
       ELSE UNCHANGED trade /\ RetryOrBlock(w, FALSE)
    /\ UNCHANGED <<files, lock, rail, ops, returned, faults, waits>>

-----------------------------------------------------------------------------
(* The environment *)

Fault == faults < MaxFaults /\ faults' = faults + 1

\* The trade cannot be written, or is and an error is raised all the same.  The
\* executor catches OSError, the reconciler does not.
RecordTradeFails(w) ==
    /\ job[w].step = "record" /\ trade = "verified" /\ Fault
    /\ trade' \in {"verified", "settled"}
    /\ RetryOrBlock(w, FALSE)
    /\ UNCHANGED <<files, lock, rail, ops, returned, waits>>

\* The provider confirms a payment it has begun.
RailConfirms ==
    /\ rail = "unconfirmed" /\ rail' = "paid"
    /\ UNCHANGED <<files, lock, trade, job, ops, since, returned, faults, waits>>

TradeArrives ==
    /\ trade = "absent" /\ trade' \in {"unfit", "verified"}
    /\ UNCHANGED <<files, lock, rail, job, ops, since, returned, faults, waits>>

DisputeOpens ==
    /\ trade = "verified" /\ trade' = "disputed"
    /\ UNCHANGED <<files, lock, rail, job, ops, since, returned, faults, waits>>

\* Some worker acts on the claim that made the lease.
Held == \E w \in Workers : job[w].lease = doc.lease \/ job[w].new.lease = doc.lease

\* Time passes: the retry falls due, or the lease runs out.  A lease that runs out
\* under a worker that is still busy counts as a fault.
TimePasses ==
    /\ doc.state \in {"pending", "inflight"} /\ ~doc.over
    /\ IF doc.state = "inflight" /\ Held THEN Fault ELSE UNCHANGED faults
    /\ doc' = [doc EXCEPT !.over = TRUE]
    /\ UNCHANGED <<local, witness, lock, world, job, ops, since, returned, waits>>

\* The process dies, or a write raises, after which the run is over.
Stop(w) ==
    /\ job[w] # Idle /\ Fault
    /\ job' = [job EXCEPT ![w] = Idle]
    /\ lock' = IF lock = w THEN None ELSE lock
    /\ since' = [since EXCEPT ![w] = ops]
    /\ UNCHANGED <<files, world, ops, returned, waits>>

-----------------------------------------------------------------------------
Init ==
    /\ doc = NoDoc /\ local = NoAnchors /\ witness = NoAnchors
    /\ lock = None
    /\ rail = "none" /\ trade = "absent"
    /\ job = [w \in Workers |-> Idle]
    /\ ops = 0 /\ since = [w \in Workers |-> 0] /\ returned = 0 /\ faults = 0 /\ waits = 0

Persist(w) ==
    \/ AnchorPrepared(w) \/ WitnessPrepared(w) \/ WriteDocument(w)
    \/ AnchorCommitted(w) \/ WitnessCommitted(w)

Settle(w) == Preflight(w) \/ LookUp(w) \/ Pay(w) \/ RecordTrade(w)

\* What a worker does by itself once it runs.
Run(w) == Claim(w) \/ Persist(w) \/ Settle(w) \/ Conclude(w)

Next ==
    \/ \E w \in Workers : Create(w) \/ Reconcile(w) \/ Run(w) \/ RecordTradeFails(w) \/ Stop(w)
    \/ RailConfirms \/ TradeArrives \/ DisputeOpens \/ TimePasses

Spec == Init /\ [][Next]_vars

\* run_pending is called again and again, and time goes on.
Fairness == WF_vars(TimePasses) /\ \A w \in Workers : WF_vars(Run(w))

FairSpec == Spec /\ Fairness

-----------------------------------------------------------------------------
(* Properties *)

Docs == [op: Nat, seq: Nat, state: {None, "pending", "inflight"} \cup Decided, lease: Nat,
         over: BOOLEAN, tries: Nat, ts: Nat]

\* Every variable has its type.
TypeOK ==
    /\ doc \in Docs
    /\ \A journal \in {local, witness} :
          /\ \A g, h \in journal.committed : g = h
          /\ journal.last \in 0 .. ops /\ journal.ordered \in BOOLEAN
          /\ \A h \in Accepted(journal) : h.op \in 1 .. ops /\ h.seq \in Nat
    /\ lock \in Workers \cup {None}
    /\ rail \in Rails /\ trade \in Trades
    /\ \A w \in Workers : job[w].new \in Docs /\ job[w].role \in {None, "execute", "reconcile"}
    /\ faults \in 0 .. MaxFaults /\ waits \in 0 .. MaxWaits

\* The types are right.  Wherever processes stopped between the five writes, the document
\* that is left has a head that the journal and the witness both accept, and stopping
\* alone never makes the attempt unreadable.  That takes, after a process that stopped, an
\* operation that had read its clock before it waited for the lock: its anchor is older
\* than the abandoned one, and _validate_anchor_sequence refuses both.
HeadIsAnchored ==
    /\ TypeOK
    /\ doc # NoDoc => HeadOf(doc) \in Accepted(local) \cap Accepted(witness)
    /\ ~Readable => waits > 0 /\ faults > 0

\* Once an operation has returned to its caller, no older version of the document is
\* acceptable to the journal, nor to the witness.
RollbackIsDetected ==
    \A h \in Accepted(local) \cup Accepted(witness) : h.seq >= returned

\* An attempt is settled only when the money was moved and the trade says so.
SettledMeansPaid == doc.state = "settled" => rail = "paid" /\ trade = "settled"

\* Only the worker whose lease it is decides the outcome of a claim, a claim is taken
\* over only after its lease ran out, and what is decided stays so, except that an
\* orphaned attempt may be found to be settled.
LeaseDecides ==
    [][/\ doc.state = "inflight" /\ doc'.op # doc.op =>
             \/ doc'.state = "inflight" /\ doc.over
             \/ \E w \in Workers : job[w].step = "write" /\ job[w].lease = doc.lease
       /\ doc.state \in Decided /\ doc' # doc => doc.state = "orphaned" /\ doc'.state = "settled"]_vars

\* As long as it can be read, an attempt is settled, blocked or orphaned in the end.
EveryAttemptIsDecided ==
    []Readable => (doc # NoDoc ~> doc.state \in Decided)
=============================================================================
