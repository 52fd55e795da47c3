------------------------ MODULE PaymentAttemptProofs ------------------------
(***************************************************************************)
(* The inductive invariant of PaymentAttempt, for any number of workers,   *)
(* attempts, stops and waits.  It holds at first; settle_trade, the        *)
(* operations of the store when they take the lock, the five writes of     *)
(* _persist and the environment keep it.  The theorems that follow from it *)
(* are at the end.                                                         *)
(***************************************************************************)
EXTENDS PaymentAttempt, TLAPS

\* The steps of _persist, all under the file lock.
Locked == {"prepare", "prepare-witness", "write", "commit", "commit-witness"}

Concluding == {"retry", "blocked", "settled", "orphaned", "reconciled"}
Goals == Concluding \cup {"create", "claim"}

Head == [op: Nat, seq: Nat]
Journals == [committed: SUBSET Head, prepared: SUBSET Head, last: Nat, ordered: BOOLEAN]
Jobs == [step: Locked \cup {"idle", "preflight", "lookup", "pay", "record", "conclude"},
         role: {None, "execute", "reconcile"}, goal: Goals \cup {None},
         lease: Nat, tries: Nat, new: Docs]

Types ==
    /\ doc \in Docs /\ local \in Journals /\ witness \in Journals
    /\ lock \in Workers \cup {None}
    /\ rail \in Rails /\ trade \in Trades
    /\ job \in [Workers -> Jobs] /\ since \in [Workers -> Nat]
    /\ ops \in Nat /\ returned \in Nat /\ faults \in 0 .. MaxFaults /\ waits \in 0 .. MaxWaits

Busy(w) == job[w].step \in Locked

\* The operation in the lock is the one that persists its event.
LockHeld == \A w \in Workers : Busy(w) <=> lock = w

\* What a journal holds was given a number.
Numbered(journal) ==
    /\ journal.last <= ops
    /\ journal.committed = {} \/ \E h \in Head : journal.committed = {h}
    /\ \A h \in Accepted(journal) : h.op \in 1 .. ops

Counted ==
    /\ Numbered(local) /\ Numbered(witness)
    /\ \A w \in Workers : Busy(w) => job[w].new.op \in 1 .. ops /\ job[w].new.ts <= ops

StateOf(goal) ==
    CASE goal \in {"create", "retry"} -> "pending"
      [] goal = "claim" -> "inflight"
      [] goal = "reconciled" -> "settled"
      [] OTHER -> goal

\* The conditions of the event still hold: the lock keeps other events away, and
\* time does nothing but end a lease.
Fits(w) ==
    /\ job[w].goal = "create" => doc = NoDoc
    /\ job[w].goal = "claim" => doc.state \in {"pending", "inflight"} /\ doc.over
    /\ job[w].goal = "reconciled" => doc.state = "orphaned"
    /\ job[w].goal \notin {"create", "claim", "reconciled"} =>
          doc.state = "inflight" /\ doc.lease = job[w].lease
    /\ doc.ts <= job[w].new.ts

\* How far the event of w has come.
OnCourse(w) ==
    /\ job[w].step = "conclude" => job[w].goal \in Concluding
    /\ Busy(w) => job[w].goal \in Goals /\ job[w].new.state = StateOf(job[w].goal)
    /\ job[w].step \in {"prepare", "prepare-witness", "write"} => Fits(w)
    /\ job[w].step \in {"prepare-witness", "write"} => HeadOf(job[w].new) \in Accepted(local)
    /\ job[w].step = "write" => HeadOf(job[w].new) \in Accepted(witness)
    /\ job[w].step \in {"commit", "commit-witness"} =>
          doc.state # None /\ HeadOf(doc) = HeadOf(job[w].new) /\ doc.ts = job[w].new.ts
    /\ job[w].step = "commit-witness" => Accepted(local) = {HeadOf(job[w].new)}

Anchored ==
    /\ doc.state = None => doc = NoDoc
    /\ doc # NoDoc => HeadOf(doc) \in Accepted(local) /\ HeadOf(doc) \in Accepted(witness)

NoneOlder ==
    /\ doc.seq >= returned
    /\ \A h \in Accepted(local) : h.seq >= returned
    /\ \A h \in Accepted(witness) : h.seq >= returned
    /\ \A w \in Workers : Busy(w) => job[w].new.seq >= returned

Success == {"settled", "reconciled"}

PaidFirst ==
    /\ doc.state = "settled" => trade = "settled"
    /\ trade = "settled" => rail = "paid"
    /\ \A w \in Workers :
          /\ job[w].step = "record" => rail = "paid"
          /\ job[w].goal \in Success => trade = "settled"

\* As long as nobody waits, timestamps are in the order of the lock.
NoWait ==
    waits = 0 =>
        /\ local.ordered /\ witness.ordered
        /\ \A w \in Workers : Busy(w) => job[w].new.ts = ops

\* As long as nobody stops, both journals end where the document does, or the event
\* under way.
NoStop ==
    faults = 0 =>
        /\ local.ordered /\ witness.ordered
        /\ lock = None => local.last = doc.ts /\ witness.last = doc.ts
        /\ \A w \in Workers : Busy(w) =>
              /\ local.last = IF job[w].step = "prepare" THEN doc.ts ELSE job[w].new.ts
              /\ witness.last = IF job[w].step \in {"prepare", "prepare-witness"}
                                THEN doc.ts ELSE job[w].new.ts

IInv ==
    /\ Types /\ LockHeld /\ Counted /\ Anchored /\ NoneOlder /\ PaidFirst /\ NoWait /\ NoStop
    /\ \A w \in Workers : OnCourse(w)

-----------------------------------------------------------------------------
(* The initial state *)

\* The invariant holds at first: no document, no anchors, nobody at work.
LEMMA InitEstablishes == Init => IInv
<1> SUFFICES ASSUME Init PROVE IInv
  BY Zenon
<1>1. NoDoc \in Docs /\ NoAnchors \in Journals /\ Idle \in Jobs
  BY Zenon DEF NoDoc, Docs, None, NoAnchors, Journals, Idle, Jobs, Decided
<1>2. Types
  BY <1>1, PaymentConstants DEF Init, Types, None, Rails, Trades
<1>3. Accepted(local) = {} /\ Accepted(witness) = {}
  BY Zenon DEF Init, Accepted, NoAnchors
<1>4. \A w \in Workers : job[w] = Idle /\ ~Busy(w) /\ lock # w
  BY Zenon, PaymentConstants DEF Init, Busy, Idle, Locked, None
<1>5. LockHeld /\ Counted
  BY <1>3, <1>4 DEF LockHeld, Counted, Numbered, Init, NoAnchors
<1>6. Anchored /\ NoneOlder
  BY <1>3, <1>4 DEF Anchored, NoneOlder, Init, NoDoc
<1>7. PaidFirst
  BY Zenon, <1>4 DEF PaidFirst, Init, NoDoc, Idle, None, Success
<1>8. NoWait /\ NoStop
  BY Zenon, <1>4 DEF NoWait, NoStop, Init, NoAnchors, NoDoc
<1>9. ASSUME NEW w \in Workers PROVE OnCourse(w)
  <2>1. job[w].step = "idle" /\ ~Busy(w)
    BY <1>4 DEF Idle
  <2> QED BY Zenon, <2>1 DEF OnCourse
<1> QED BY Zenon, <1>2, <1>5, <1>6, <1>7, <1>8, <1>9 DEF IInv

-----------------------------------------------------------------------------
(* Steps outside the lock *)

\* A worker outside the lock goes on to another step outside the lock, and the money
\* and the trade move only forward.
Moves(w, k) ==
    /\ ~Busy(w) /\ k \in Jobs /\ k.step \notin Locked
    /\ job' = [job EXCEPT ![w] = k]
    /\ UNCHANGED <<files, lock, ops, returned>>
    /\ since' \in [Workers -> Nat]
    /\ faults' \in faults .. MaxFaults /\ waits' \in waits .. MaxWaits
    /\ rail' \in Rails /\ (rail = "paid" => rail' = "paid") /\ trade' \in Trades
    /\ trade = "settled" => trade' = "settled"
    /\ trade' = "settled" => rail' = "paid"
    /\ k.step = "conclude" => k.goal \in Concluding
    /\ k.step = "record" => rail' = "paid"
    /\ k.goal \in Success => trade' = "settled"

\* Such a move keeps the invariant: it touches neither the files nor the lock.
LEMMA MoveKeeps ==
    ASSUME IInv, NEW w \in Workers, NEW k, Moves(w, k)
    PROVE  IInv'
<1>1. /\ job' \in [Workers -> Jobs] /\ job'[w] = k
      /\ \A v \in Workers : v # w => job'[v] = job[v]
  BY Zenon DEF Moves, IInv, Types
<1>2. /\ \A v \in Workers : Busy(v)' <=> Busy(v)
      /\ \A v \in Workers : Busy(v) => job'[v] = job[v]
  BY Zenon, <1>1 DEF Moves, Busy
<1>3. /\ doc' = doc /\ local' = local /\ witness' = witness /\ lock' = lock /\ ops' = ops
      /\ returned' = returned
      /\ faults \in Nat /\ faults' \in Nat /\ faults' >= faults
      /\ waits \in Nat /\ waits' \in Nat /\ waits' >= waits
  BY PaymentConstants DEF Moves, files, IInv, Types
<1>4. Types'
  BY <1>1, <1>3, PaymentConstants DEF Types, IInv, Moves
<1>5. LockHeld'
  BY Zenon, <1>2, <1>3 DEF IInv, LockHeld
<1>6. Counted'
  BY Zenon, <1>2, <1>3 DEF IInv, Counted, Numbered, Accepted
<1>7. Anchored' /\ NoneOlder'
  BY Zenon, <1>2, <1>3 DEF IInv, Anchored, NoneOlder, Accepted
<1>8. PaidFirst'
  BY Zenon, <1>1, <1>3 DEF IInv, PaidFirst, Moves
<1>9. NoWait' /\ NoStop'
  BY <1>2, <1>3 DEF IInv, NoWait, NoStop
<1>10. \A v \in Workers : OnCourse(v)'
  <2> SUFFICES ASSUME NEW v \in Workers PROVE OnCourse(v)'
    BY Zenon
  <2>1. CASE v = w
    BY Zenon, <1>1, <2>1 DEF OnCourse, Busy, Moves, Locked
  <2>2. CASE v # w
    BY <1>1, <1>3, <2>2 DEF IInv, OnCourse, Busy, Fits, Accepted
  <2> QED BY Zenon, <2>1, <2>2
<1> QED BY Zenon, <1>4, <1>5, <1>6, <1>7, <1>8, <1>9, <1>10 DEF IInv

\* The run has an outcome: an event to append, or none.
LEMMA OutcomeIsAMove ==
    ASSUME IInv, NEW w \in Workers, ~Busy(w),
           NEW goal \in {"retry", "blocked", "settled", "orphaned"}, Outcome(w, goal)
    PROVE  \E k \in Jobs :
              /\ job' = [job EXCEPT ![w] = k] /\ since' \in [Workers -> Nat]
              /\ k.step \in {"conclude", "idle"}
              /\ k.step = "conclude" => k.goal \in Concluding
              /\ k.goal \in Success => goal = "settled"
<1> DEFINE k == IF job[w].role = "execute" THEN [job[w] EXCEPT !.step = "conclude", !.goal = goal]
                ELSE IF goal = "settled"
                     THEN [job[w] EXCEPT !.step = "conclude", !.goal = "reconciled"]
                     ELSE Idle
<1>1. job[w] \in Jobs /\ Idle \in Jobs
  BY Zenon DEF IInv, Types, Jobs, Idle, Docs, NoDoc, None, Decided
<1>2. k \in Jobs
  BY Zenon, <1>1 DEF Jobs, Goals, Concluding
<1>3. job' = [job EXCEPT ![w] = k] /\ since' \in [Workers -> Nat]
  BY Zenon DEF Outcome, IInv, Types
<1>4. /\ k.step \in {"conclude", "idle"}
      /\ k.step = "conclude" => k.goal \in Concluding
      /\ k.goal \in Success => goal = "settled"
  BY Zenon, <1>1 DEF Jobs, Idle, Concluding, Success, None
<1> HIDE DEF k
<1> QED BY Zenon, <1>2, <1>3, <1>4

\* settle_trade goes on to its next step.
LEMMA ProceedIsAMove ==
    ASSUME IInv, NEW w \in Workers, NEW step \in {"lookup", "pay", "record"}, Proceed(w, step)
    PROVE  \E k \in Jobs :
              /\ job' = [job EXCEPT ![w] = k] /\ since' \in [Workers -> Nat]
              /\ k.step = step /\ k.goal = job[w].goal
<1> DEFINE k == [job[w] EXCEPT !.step = step]
<1>1. job[w] \in Jobs
  BY Zenon DEF IInv, Types
<1>2. k \in Jobs /\ k.step = step /\ k.goal = job[w].goal
  BY Zenon, <1>1 DEF Jobs
<1>3. job' = [job EXCEPT ![w] = k] /\ since' \in [Workers -> Nat]
  BY Zenon DEF Proceed, IInv, Types
<1> HIDE DEF k
<1> QED BY Zenon, <1>2, <1>3

\* A step of the settlement, seen from outside: what it does to the money, the trade
\* and the faults, and where the run goes on.
LEMMA SettlementKeeps ==
    ASSUME IInv, NEW w \in Workers, ~Busy(w),
           UNCHANGED <<files, lock, ops, returned, waits>>,
           faults' \in faults .. MaxFaults, rail' \in Rails, rail = "paid" => rail' = "paid",
           trade' \in {trade, "settled"},
           trade' = "settled" => rail' = "paid",
           \/ \E goal \in {"retry", "blocked", "settled", "orphaned"} :
                 Outcome(w, goal) /\ (goal = "settled" => trade' = "settled")
           \/ \E step \in {"lookup", "pay", "record"} :
                 Proceed(w, step) /\ (step = "record" => rail' = "paid")
    PROVE  IInv'
<1>1. /\ job[w].goal \in Success => trade = "settled"
      /\ trade \in Trades
      /\ waits \in 0 .. MaxWaits /\ rail \in Rails
  BY Zenon DEF IInv, PaidFirst, Types
<1>0. /\ waits' \in waits .. MaxWaits /\ trade' \in Trades
      /\ trade = "settled" => trade' = "settled"
      /\ job[w].goal \in Success => trade' = "settled"
      /\ UNCHANGED <<files, lock, ops, returned>>
  BY <1>1, PaymentConstants DEF Trades
<1>2. ASSUME NEW goal \in {"retry", "blocked", "settled", "orphaned"},
             Outcome(w, goal), goal = "settled" => trade' = "settled"
      PROVE  \E k : Moves(w, k)
  <2>1. PICK k \in Jobs :
              /\ job' = [job EXCEPT ![w] = k] /\ since' \in [Workers -> Nat]
              /\ k.step \in {"conclude", "idle"}
              /\ k.step = "conclude" => k.goal \in Concluding
              /\ k.goal \in Success => goal = "settled"
    BY Zenon, <1>2, OutcomeIsAMove
  <2>2. k.step \notin Locked /\ k.step # "record"
    BY Zenon, <2>1 DEF Locked
  <2>3. Moves(w, k)
    BY Zenon, <1>0, <1>2, <2>1, <2>2 DEF Moves
  <2> QED BY Zenon, <2>3
<1>3. ASSUME NEW step \in {"lookup", "pay", "record"},
             Proceed(w, step), step = "record" => rail' = "paid"
      PROVE  \E k : Moves(w, k)
  <2>1. PICK k \in Jobs :
              /\ job' = [job EXCEPT ![w] = k] /\ since' \in [Workers -> Nat]
              /\ k.step = step /\ k.goal = job[w].goal
    BY Zenon, <1>3, ProceedIsAMove
  <2>2. k.step \notin Locked /\ k.step # "conclude"
    BY Zenon, <2>1 DEF Locked
  <2>3. Moves(w, k)
    BY Zenon, <1>0, <1>3, <2>1, <2>2 DEF Moves
  <2> QED BY Zenon, <2>3
<1> QED BY Zenon, <1>2, <1>3, MoveKeeps

\* _retry_or_block is an outcome whichever of the two it chooses.
LEMMA RetryOrBlockIsAnOutcome ==
    ASSUME NEW w, NEW permanent, RetryOrBlock(w, permanent)
    PROVE  \E goal \in {"retry", "blocked"} : Outcome(w, goal)
BY Zenon DEF RetryOrBlock

\* settle_trade, from the preflight to recording the trade.
LEMMA SettleKeeps ==
    ASSUME IInv, NEW w \in Workers, Settle(w)
    PROVE  IInv'
<1>1. /\ faults \in 0 .. MaxFaults /\ rail \in Rails
      /\ trade = "settled" => rail = "paid"
      /\ job[w].step = "record" => rail = "paid"
  BY Zenon DEF IInv, Types, PaidFirst
<1>2. faults \in faults .. MaxFaults
  BY <1>1, PaymentConstants
<1>3. CASE Preflight(w)
  <2>1. ~Busy(w) /\ UNCHANGED <<files, lock, world, ops, returned, faults, waits>>
    BY Zenon, <1>3 DEF Preflight, Busy, Locked
  <2>2. \/ trade = "settled" /\ Outcome(w, "settled")
        \/ Proceed(w, "lookup")
        \/ \E permanent \in BOOLEAN : RetryOrBlock(w, permanent)
    BY Zenon, <1>3 DEF Preflight
  <2> QED BY Zenon, <1>1, <1>2, <2>1, <2>2, RetryOrBlockIsAnOutcome, SettlementKeeps DEF world
<1>4. CASE LookUp(w)
  <2>1. ~Busy(w) /\ UNCHANGED <<files, lock, world, ops, returned, faults, waits>>
    BY Zenon, <1>4 DEF LookUp, Busy, Locked
  <2>2. \/ rail = "paid" /\ Proceed(w, "record")
        \/ Outcome(w, "orphaned")
        \/ Proceed(w, "pay")
        \/ RetryOrBlock(w, FALSE)
    BY Zenon, <1>4 DEF LookUp
  <2> QED BY Zenon, <1>1, <1>2, <2>1, <2>2, RetryOrBlockIsAnOutcome, SettlementKeeps DEF world
<1>5. CASE Pay(w)
  <2>1. ~Busy(w) /\ UNCHANGED <<files, lock, trade, ops, returned, faults, waits>>
    BY Zenon, <1>5 DEF Pay, Busy, Locked
  <2>2. /\ rail' \in Rails /\ (rail = "paid" => rail' = "paid")
        /\ \/ rail' = "paid" /\ Proceed(w, "record")
           \/ Outcome(w, "orphaned")
           \/ \E permanent \in BOOLEAN : RetryOrBlock(w, permanent)
    BY Zenon, <1>1, <1>5 DEF Pay, Rails
  <2>3. trade' = "settled" => rail' = "paid"
    BY Zenon, <1>1, <2>1, <2>2
  <2> QED BY Zenon, <1>2, <2>1, <2>2, <2>3, RetryOrBlockIsAnOutcome, SettlementKeeps
<1>6. CASE RecordTrade(w)
  <2>1. ~Busy(w) /\ UNCHANGED <<files, lock, rail, ops, returned, faults, waits>>
    BY Zenon, <1>6 DEF RecordTrade, Busy, Locked
  <2>2. /\ rail = "paid" /\ rail' \in Rails /\ trade' \in {trade, "settled"}
        /\ \/ trade' = "settled" /\ Outcome(w, "settled")
           \/ RetryOrBlock(w, FALSE)
    BY Zenon, <1>1, <1>6, <2>1 DEF RecordTrade
  <2> QED BY Zenon, <1>2, <2>1, <2>2, RetryOrBlockIsAnOutcome, SettlementKeeps
<1> QED BY Zenon, <1>3, <1>4, <1>5, <1>6 DEF Settle

\* A trade that cannot be written, or is and raises all the same.
LEMMA RecordTradeFailsKeeps ==
    ASSUME IInv, NEW w \in Workers, RecordTradeFails(w)
    PROVE  IInv'
<1>1. /\ ~Busy(w) /\ rail = "paid" /\ rail \in Rails
      /\ UNCHANGED <<files, lock, rail, ops, returned, waits>>
  BY Zenon DEF RecordTradeFails, Busy, Locked, IInv, PaidFirst, Types
<1>2. faults' \in faults .. MaxFaults /\ trade' \in {trade, "settled"}
  BY PaymentConstants DEF RecordTradeFails, Fault, IInv, Types
<1>3. RetryOrBlock(w, FALSE)
  BY Zenon DEF RecordTradeFails
<1> QED BY Zenon, <1>1, <1>2, <1>3, RetryOrBlockIsAnOutcome, SettlementKeeps

\* reconcile_once starts on an orphaned attempt.
LEMMA ReconcileKeeps ==
    ASSUME IInv, NEW w \in Workers, Reconcile(w)
    PROVE  IInv'
<1> DEFINE k == [Idle EXCEPT !.step = "preflight", !.role = "reconcile"]
<1>1. /\ k \in Jobs /\ k.step = "preflight" /\ k.goal = None
  BY Zenon DEF Jobs, Idle, Docs, NoDoc, None, Decided
<1>2. ~Busy(w) /\ job' = [job EXCEPT ![w] = k]
  BY DEF Reconcile, Busy, Locked, Idle
<1>3. UNCHANGED <<files, lock, world, ops, since, returned, faults, waits>>
  BY Zenon DEF Reconcile
<1>4. /\ since' \in [Workers -> Nat]
      /\ faults' \in faults .. MaxFaults /\ waits' \in waits .. MaxWaits
      /\ rail' \in Rails /\ (rail = "paid" => rail' = "paid") /\ trade' \in Trades
      /\ trade = "settled" => trade' = "settled"
      /\ trade' = "settled" => rail' = "paid"
  BY <1>3, PaymentConstants DEF world, IInv, Types, PaidFirst
<1>5. k.step \notin Locked /\ k.goal \notin Success
  BY Zenon, <1>1 DEF Locked, Success, None
<1> HIDE DEF k
<1>6. Moves(w, k)
  BY Zenon, <1>1, <1>2, <1>3, <1>4, <1>5 DEF Moves
<1> QED BY Zenon, <1>6, MoveKeeps

-----------------------------------------------------------------------------
(* An operation takes the lock *)

\* The operation is refused: the run is over.
LEMMA RefusedKeeps ==
    ASSUME IInv, NEW w \in Workers, ~Busy(w), NEW goal, NEW ts, Enter(w, goal, ts),
           ~(Readable /\ Valid(goal, job[w].lease, ts))
    PROVE  IInv'
<1>1. Idle \in Jobs /\ Idle.step \notin Locked /\ Idle.step = "idle" /\ Idle.goal \notin Success
  BY Zenon DEF Jobs, Idle, Docs, NoDoc, None, Decided, Locked, Success
<1>2. /\ job' = [job EXCEPT ![w] = Idle]
      /\ UNCHANGED <<files, world, lock, ops, returned, faults>>
      /\ since' = [since EXCEPT ![w] = ops']
      /\ waits' = waits \/ (waits < MaxWaits /\ waits' = waits + 1)
  BY Zenon DEF Enter
<1>3. /\ since' \in [Workers -> Nat]
      /\ faults' \in faults .. MaxFaults /\ waits' \in waits .. MaxWaits
      /\ rail' \in Rails /\ (rail = "paid" => rail' = "paid") /\ trade' \in Trades
      /\ trade = "settled" => trade' = "settled"
      /\ trade' = "settled" => rail' = "paid"
  BY <1>2, PaymentConstants DEF world, IInv, Types, PaidFirst
<1>4. Moves(w, Idle)
  BY Zenon, <1>1, <1>2, <1>3 DEF Moves
<1> QED BY Zenon, <1>4, MoveKeeps

\* The event that is to be persisted.
LEMMA CandidateFits ==
    ASSUME IInv, NEW w \in Workers, NEW goal \in Goals, NEW ts \in 1 .. ops + 1,
           Valid(goal, job[w].lease, ts)
    PROVE  LET c == Candidate(goal, ops + 1, ts)
           IN  /\ c \in Docs /\ c.op = ops + 1 /\ c.ts = ts /\ c.state = StateOf(goal)
               /\ c.seq >= returned /\ doc.ts <= ts
<1>1. doc \in Docs /\ ops \in Nat /\ returned \in Nat /\ doc.seq >= returned
  BY Zenon DEF IInv, Types, NoneOlder
<1>2. /\ doc.op \in Nat /\ doc.seq \in Nat /\ doc.ts \in Nat /\ doc.tries \in Nat
  BY Zenon, <1>1 DEF Docs
<1>3. goal = "create" => doc.seq = 0 /\ doc.ts = 0
  BY DEF Valid, NoDoc
<1>4. goal # "create" => doc.ts <= ts
  BY Zenon, <1>2 DEF Valid
<1>5. StateOf(goal) \in {"pending", "inflight"} \cup Decided
  BY Zenon DEF StateOf, Goals, Concluding, Decided
<1>6. StateOf(goal) = CASE goal \in {"create", "retry"} -> "pending"
                        [] goal = "claim" -> "inflight"
                        [] goal = "reconciled" -> "settled"
                        [] OTHER -> goal
  BY Zenon DEF StateOf
<1> QED BY <1>1, <1>2, <1>3, <1>4, <1>5, <1>6 DEF Candidate, Docs

\* The operation takes the lock with an event that fits the document.
LEMMA AcceptedKeeps ==
    ASSUME IInv, NEW w \in Workers, ~Busy(w), NEW goal \in Goals, NEW ts \in 1 .. ops + 1,
           goal \in Success => trade = "settled",
           Enter(w, goal, ts), Readable, Valid(goal, job[w].lease, ts)
    PROVE  IInv'
<1> DEFINE c == Candidate(goal, ops + 1, ts)
<1>1. /\ c \in Docs /\ c.op = ops + 1 /\ c.ts = ts /\ c.state = StateOf(goal)
      /\ c.seq >= returned /\ doc.ts <= ts
  BY Zenon, CandidateFits
<1>2. /\ lock = None /\ lock' = w /\ ops' = ops + 1 /\ since' = [since EXCEPT ![w] = ops']
      /\ job' = [job EXCEPT ![w].step = "prepare", ![w].goal = goal, ![w].new = c]
      /\ UNCHANGED <<files, world, returned, faults>>
      /\ \/ ts = ops + 1 /\ waits' = waits
         \/ waits < MaxWaits /\ waits' = waits + 1
  BY Zenon DEF Enter
<1> HIDE DEF c
<1>3. /\ job' \in [Workers -> Jobs]
      /\ job'[w].step = "prepare" /\ job'[w].goal = goal /\ job'[w].new = c
      /\ job'[w].lease = job[w].lease
      /\ \A v \in Workers : v # w => job'[v] = job[v]
  <2> DEFINE k == [job[w] EXCEPT !.step = "prepare", !.goal = goal, !.new = c]
  <2>1. job \in [Workers -> Jobs] /\ job[w] \in Jobs
    BY Zenon DEF IInv, Types
  <2>2. /\ k \in Jobs /\ k.step = "prepare" /\ k.goal = goal /\ k.new = c
        /\ k.lease = job[w].lease
    BY Zenon, <1>1, <2>1 DEF Jobs, Locked
  <2>3. job' = [job EXCEPT ![w] = k]
    BY <1>2, <2>1, ZenonT(60)
  <2> HIDE DEF k
  <2> QED BY Zenon, <2>1, <2>2, <2>3
<1>4. /\ \A v \in Workers : ~Busy(v)
      /\ \A v \in Workers : Busy(v)' <=> v = w
  BY Zenon, <1>2, <1>3, PaymentConstants DEF IInv, LockHeld, Busy, Locked, None
<1>5. /\ doc' = doc /\ local' = local /\ witness' = witness /\ rail' = rail /\ trade' = trade
      /\ returned' = returned /\ faults' = faults /\ ops \in Nat /\ waits \in Nat
  BY <1>2 DEF files, world, IInv, Types
<1>6. Types'
  BY <1>2, <1>3, <1>5, PaymentConstants DEF Types, IInv
<1>7. LockHeld'
  BY Zenon, <1>2, <1>4 DEF LockHeld
<1>8. Counted'
  <2>1. Numbered(local)' /\ Numbered(witness)'
    BY <1>2, <1>5 DEF IInv, Types, Journals, Head, Counted, Numbered, Accepted
  <2> QED BY <1>1, <1>2, <1>3, <1>4, <1>5, <2>1 DEF Counted
<1>9. Anchored' /\ NoneOlder'
  BY Zenon, <1>1, <1>3, <1>4, <1>5 DEF IInv, Anchored, NoneOlder, Accepted
<1>10. PaidFirst'
  BY Zenon, <1>3, <1>5 DEF IInv, PaidFirst
<1>11. NoWait' /\ NoStop'
  BY <1>1, <1>2, <1>3, <1>4, <1>5, PaymentConstants DEF IInv, NoWait, NoStop, None
<1>12. \A v \in Workers : OnCourse(v)'
  <2> SUFFICES ASSUME NEW v \in Workers PROVE OnCourse(v)'
    BY Zenon
  <2>1. CASE v = w
    <3>1. Fits(w)'
      BY Zenon, <1>1, <1>3, <1>5 DEF Fits, Valid
    <3> QED BY Zenon, <1>1, <1>3, <2>1, <3>1 DEF OnCourse, Busy
  <2>2. CASE v # w
    BY Zenon, <1>3, <1>4, <2>2 DEF IInv, OnCourse, Busy, Locked
  <2> QED BY Zenon, <2>1, <2>2
<1> QED BY Zenon, <1>6, <1>7, <1>8, <1>9, <1>10, <1>11, <1>12 DEF IInv

\* create, claim and the five ways to conclude a claim.
LEMMA EnterKeeps ==
    ASSUME IInv, NEW w \in Workers, Create(w) \/ Claim(w) \/ Conclude(w)
    PROVE  IInv'
<1>1. since[w] \in Nat /\ ops \in Nat
  BY Zenon DEF IInv, Types
<1>2. PICK goal \in Goals, ts \in 1 .. ops + 1 :
         Enter(w, goal, ts) /\ ~Busy(w) /\ (goal \in Success => trade = "settled")
  <2>1. \A ts \in Stamps(w) : ts \in 1 .. ops + 1
    BY <1>1 DEF Stamps
  <2>2. CASE Create(w)
    BY <2>1, <2>2 DEF Create, Goals, Success, Busy, Locked, Idle
  <2>3. CASE Claim(w)
    BY <2>1, <2>3 DEF Claim, Goals, Success, Busy, Locked, Idle
  <2>4. CASE Conclude(w)
    <3>1. job[w].step = "conclude" /\ job[w].goal \in Concluding
      BY Zenon, <2>4 DEF Conclude, IInv, OnCourse
    <3>2. ~Busy(w) /\ (job[w].goal \in Success => trade = "settled")
      BY Zenon, <3>1 DEF Busy, Locked, IInv, PaidFirst
    <3> QED BY Zenon, <2>1, <2>4, <3>1, <3>2 DEF Conclude, Goals
  <2> QED BY Zenon, <2>2, <2>3, <2>4
<1> QED BY Zenon, <1>2, RefusedKeeps, AcceptedKeeps

-----------------------------------------------------------------------------
(* The five writes *)

\* Only the holder of the lock persists an event, and it goes from one write to the next.
LEMMA Alone ==
    ASSUME IInv, NEW w \in Workers, Busy(w)
    PROVE  lock = w /\ \A v \in Workers : v # w => ~Busy(v)
BY Zenon DEF IInv, LockHeld

\* From one write to the next only the step of the holder changes.
LEMMA NextWrite ==
    ASSUME IInv, NEW w \in Workers, Busy(w), NEW s \in Locked,
           job' = [job EXCEPT ![w].step = s]
    PROVE  /\ job' \in [Workers -> Jobs]
           /\ job'[w].step = s /\ job'[w].goal = job[w].goal /\ job'[w].new = job[w].new
           /\ job'[w].lease = job[w].lease
           /\ \A v \in Workers : v # w => job'[v] = job[v]
           /\ \A v \in Workers : Busy(v)' <=> v = w
<1> DEFINE k == [job[w] EXCEPT !.step = s]
<1>1. job \in [Workers -> Jobs] /\ job[w] \in Jobs
  BY Zenon DEF IInv, Types
<1>2. /\ k \in Jobs /\ k.step = s /\ k.goal = job[w].goal /\ k.new = job[w].new
      /\ k.lease = job[w].lease
  BY Zenon, <1>1 DEF Jobs
<1>3. job' = [job EXCEPT ![w] = k]
  BY Zenon, <1>1
<1> HIDE DEF k
<1>4. /\ job' \in [Workers -> Jobs] /\ job'[w] = k
      /\ \A v \in Workers : v # w => job'[v] = job[v]
  BY Zenon, <1>1, <1>2, <1>3
<1>5. \A v \in Workers : Busy(v)' <=> v = w
  BY Zenon, <1>2, <1>4, Alone DEF Busy
<1> QED BY Zenon, <1>2, <1>4, <1>5

\* A prepared anchor adds one acceptable head.
LEMMA PrepareFacts ==
    ASSUME NEW j \in Journals, NEW d \in Docs
    PROVE  LET p == Prepare(j, d)
           IN  /\ p \in Journals /\ p.committed = j.committed /\ p.last = d.ts
               /\ Accepted(p) = Accepted(j) \cup {HeadOf(d)}
               /\ p.ordered <=> j.ordered /\ j.last <= d.ts
               /\ HeadOf(d) \in Head
<1> DEFINE p == Prepare(j, d)
<1>1. HeadOf(d) \in Head /\ d.ts \in Nat
  BY Zenon DEF HeadOf, Head, Docs
<1>2. /\ p.committed = j.committed /\ p.prepared = j.prepared \cup {HeadOf(d)}
      /\ p.last = d.ts /\ p.ordered = (j.ordered /\ j.last <= d.ts)
  BY Zenon DEF Prepare, Journals
<1>3. p \in Journals
  BY Zenon, <1>1 DEF Prepare, Journals
<1>4. Accepted(p) = Accepted(j) \cup {HeadOf(d)}
  BY Zenon, <1>2 DEF Accepted
<1> HIDE DEF p
<1>5. /\ p \in Journals /\ p.committed = j.committed /\ p.last = d.ts
      /\ Accepted(p) = Accepted(j) \cup {HeadOf(d)}
      /\ p.ordered <=> j.ordered /\ j.last <= d.ts
      /\ HeadOf(d) \in Head
  BY Zenon, <1>1, <1>2, <1>3, <1>4
<1> QED BY Zenon, <1>5 DEF p

\* A committed anchor leaves one acceptable head.
LEMMA CommitFacts ==
    ASSUME NEW j \in Journals, NEW d \in Docs
    PROVE  LET p == Commit(j, d)
           IN  /\ p \in Journals /\ p.committed = {HeadOf(d)} /\ p.last = d.ts
               /\ Accepted(p) = {HeadOf(d)}
               /\ p.ordered <=> j.ordered /\ j.last <= d.ts
               /\ HeadOf(d) \in Head
<1> DEFINE p == Commit(j, d)
<1>1. HeadOf(d) \in Head /\ d.ts \in Nat
  BY Zenon DEF HeadOf, Head, Docs
<1>2. /\ p.committed = {HeadOf(d)} /\ p.prepared = {}
      /\ p.last = d.ts /\ p.ordered = (j.ordered /\ j.last <= d.ts)
  BY Zenon DEF Commit, Journals
<1>3. p \in Journals
  BY Zenon, <1>1 DEF Commit, Journals
<1>4. Accepted(p) = {HeadOf(d)}
  BY Zenon, <1>2 DEF Accepted
<1> HIDE DEF p
<1>5. /\ p \in Journals /\ p.committed = {HeadOf(d)} /\ p.last = d.ts
      /\ Accepted(p) = {HeadOf(d)}
      /\ p.ordered <=> j.ordered /\ j.last <= d.ts
      /\ HeadOf(d) \in Head
  BY Zenon, <1>1, <1>2, <1>3, <1>4
<1> QED BY Zenon, <1>5 DEF p

\* _persist, first write: the prepared anchor in the head journal.
LEMMA AnchorPreparedKeeps ==
    ASSUME IInv, NEW w \in Workers, AnchorPrepared(w)
    PROVE  IInv'
<1> DEFINE d == job[w].new
<1>1. /\ job[w].step = "prepare" /\ Busy(w)
      /\ local' = Prepare(local, d)
      /\ job' = [job EXCEPT ![w].step = "prepare-witness"]
      /\ UNCHANGED <<doc, witness, lock, rail, trade, ops, since, returned, faults, waits>>
  BY Zenon DEF AnchorPrepared, Busy, Locked, world
<1>2. /\ job' \in [Workers -> Jobs]
      /\ job'[w].step = "prepare-witness" /\ job'[w].goal = job[w].goal
      /\ job'[w].new = job[w].new /\ job'[w].lease = job[w].lease
      /\ \A v \in Workers : v # w => job'[v] = job[v]
      /\ \A v \in Workers : Busy(v)' <=> v = w
  <2>1. "prepare-witness" \in Locked
    BY Zenon DEF Locked
  <2> QED BY Zenon, <1>1, <2>1, NextWrite
<1>3. /\ d \in Docs /\ local \in Journals /\ witness \in Journals /\ doc \in Docs
      /\ ops \in Nat /\ returned \in Nat /\ waits \in Nat /\ faults \in Nat
  BY PaymentConstants DEF IInv, Types, Jobs
<1>4. /\ local' \in Journals /\ local'.committed = local.committed /\ local'.last = d.ts
      /\ Accepted(local)' = Accepted(local) \cup {HeadOf(d)}
      /\ local'.ordered <=> local.ordered /\ local.last <= d.ts
      /\ HeadOf(d) \in Head
  <2> DEFINE p == Prepare(local, d)
  <2>1. /\ p \in Journals /\ p.committed = local.committed /\ p.last = d.ts
        /\ Accepted(p) = Accepted(local) \cup {HeadOf(d)}
        /\ p.ordered <=> local.ordered /\ local.last <= d.ts
        /\ HeadOf(d) \in Head
    BY Zenon, <1>3, PrepareFacts
  <2>2. local' = p /\ Accepted(local)' = Accepted(p)
    BY Zenon, <1>1 DEF Accepted
  <2> HIDE DEF p
  <2> QED BY Zenon, <2>1, <2>2
<1>5. Accepted(witness)' = Accepted(witness)
  BY Zenon, <1>1 DEF Accepted
<1>6. lock = w /\ \A v \in Workers : v # w => ~Busy(v)
  BY Zenon, <1>1, Alone
<1>7. Types'
  BY Zenon, <1>1, <1>2, <1>4 DEF IInv, Types
<1>8. LockHeld'
  BY Zenon, <1>1, <1>2, <1>6 DEF LockHeld
<1>9. d.op \in 1 .. ops /\ d.ts <= ops /\ d.seq >= returned
  BY Zenon, <1>1 DEF IInv, Counted, NoneOlder
<1>10. Counted'
  <2>1. HeadOf(d).op = d.op
    BY Zenon DEF HeadOf
  <2>2. Numbered(local)'
    BY Zenon, <1>1, <1>4, <1>9, <2>1 DEF IInv, Counted, Numbered
  <2>3. Numbered(witness)'
    BY Zenon, <1>1, <1>5 DEF IInv, Counted, Numbered
  <2> QED BY Zenon, <1>1, <1>2, <1>9, <2>2, <2>3 DEF Counted
<1>11. Anchored'
  BY Zenon, <1>1, <1>4, <1>5 DEF IInv, Anchored, HeadOf
<1>12. NoneOlder'
  BY <1>1, <1>2, <1>4, <1>5, <1>9 DEF IInv, NoneOlder, HeadOf
<1>13. PaidFirst'
  BY Zenon, <1>1, <1>2 DEF IInv, PaidFirst
<1>14. NoWait'
  <2>1. waits = 0 => local.last <= d.ts
    BY Zenon, <1>1, <1>3 DEF IInv, NoWait, Counted, Numbered
  <2> QED BY Zenon, <1>1, <1>2, <1>4, <2>1 DEF IInv, NoWait
<1>15. doc.ts <= d.ts /\ Fits(w)
  BY Zenon, <1>1 DEF IInv, OnCourse, Fits
<1>16. NoStop'
  <2>1. faults = 0 => local.last = doc.ts /\ witness.last = doc.ts
    BY Zenon, <1>1 DEF IInv, NoStop
  <2>2. lock' # None
    BY Zenon, <1>1, <1>6, PaymentConstants DEF None
  <2> QED BY Zenon, <1>1, <1>2, <1>4, <1>15, <2>1, <2>2 DEF IInv, NoStop
<1>17. \A v \in Workers : OnCourse(v)'
  <2> SUFFICES ASSUME NEW v \in Workers PROVE OnCourse(v)'
    BY Zenon
  <2>1. CASE v = w
    <3>1. Fits(w)'
      BY Zenon, <1>1, <1>2, <1>15 DEF Fits
    <3>2. HeadOf(job[w].new)' \in Accepted(local)'
      BY Zenon, <1>2, <1>4 DEF HeadOf
    <3> QED BY Zenon, <1>1, <1>2, <2>1, <3>1, <3>2 DEF IInv, OnCourse
  <2>2. CASE v # w
    BY Zenon, <1>2, <1>6, <2>2 DEF IInv, OnCourse, Busy, Locked
  <2> QED BY Zenon, <2>1, <2>2
<1> QED BY Zenon, <1>7, <1>8, <1>10, <1>11, <1>12, <1>13, <1>14, <1>16, <1>17 DEF IInv

\* _persist, second write: the prepared anchor in the witness.
LEMMA WitnessPreparedKeeps ==
    ASSUME IInv, NEW w \in Workers, WitnessPrepared(w)
    PROVE  IInv'
<1> DEFINE d == job[w].new
<1>1. /\ job[w].step = "prepare-witness" /\ Busy(w)
      /\ witness' = Prepare(witness, d)
      /\ job' = [job EXCEPT ![w].step = "write"]
      /\ UNCHANGED <<doc, local, lock, rail, trade, ops, since, returned, faults, waits>>
  BY Zenon DEF WitnessPrepared, Busy, Locked, world
<1>2. /\ job' \in [Workers -> Jobs]
      /\ job'[w].step = "write" /\ job'[w].goal = job[w].goal
      /\ job'[w].new = job[w].new /\ job'[w].lease = job[w].lease
      /\ \A v \in Workers : v # w => job'[v] = job[v]
      /\ \A v \in Workers : Busy(v)' <=> v = w
  <2>1. "write" \in Locked
    BY Zenon DEF Locked
  <2> QED BY Zenon, <1>1, <2>1, NextWrite
<1>3. /\ d \in Docs /\ local \in Journals /\ witness \in Journals /\ doc \in Docs
      /\ ops \in Nat /\ returned \in Nat /\ waits \in Nat /\ faults \in Nat
  BY PaymentConstants DEF IInv, Types, Jobs
<1>4. /\ witness' \in Journals /\ witness'.committed = witness.committed
      /\ witness'.last = d.ts
      /\ Accepted(witness)' = Accepted(witness) \cup {HeadOf(d)}
      /\ witness'.ordered <=> witness.ordered /\ witness.last <= d.ts
      /\ HeadOf(d) \in Head
  <2> DEFINE p == Prepare(witness, d)
  <2>1. /\ p \in Journals /\ p.committed = witness.committed /\ p.last = d.ts
        /\ Accepted(p) = Accepted(witness) \cup {HeadOf(d)}
        /\ p.ordered <=> witness.ordered /\ witness.last <= d.ts
        /\ HeadOf(d) \in Head
    BY Zenon, <1>3, PrepareFacts
  <2>2. witness' = p /\ Accepted(witness)' = Accepted(p)
    BY Zenon, <1>1 DEF Accepted
  <2> HIDE DEF p
  <2> QED BY Zenon, <2>1, <2>2
<1>5. Accepted(local)' = Accepted(local)
  BY Zenon, <1>1 DEF Accepted
<1>6. lock = w /\ \A v \in Workers : v # w => ~Busy(v)
  BY Zenon, <1>1, Alone
<1>7. Types'
  BY Zenon, <1>1, <1>2, <1>4 DEF IInv, Types
<1>8. LockHeld'
  BY Zenon, <1>1, <1>2, <1>6 DEF LockHeld
<1>9. d.op \in 1 .. ops /\ d.ts <= ops /\ d.seq >= returned
  BY Zenon, <1>1 DEF IInv, Counted, NoneOlder
<1>10. Counted'
  <2>1. HeadOf(d).op = d.op
    BY Zenon DEF HeadOf
  <2>2. Numbered(witness)'
    BY Zenon, <1>1, <1>4, <1>9, <2>1 DEF IInv, Counted, Numbered
  <2>3. Numbered(local)'
    BY Zenon, <1>1, <1>5 DEF IInv, Counted, Numbered
  <2> QED BY Zenon, <1>1, <1>2, <1>9, <2>2, <2>3 DEF Counted
<1>11. Anchored'
  BY Zenon, <1>1, <1>4, <1>5 DEF IInv, Anchored, HeadOf
<1>12. NoneOlder'
  BY <1>1, <1>2, <1>4, <1>5, <1>9 DEF IInv, NoneOlder, HeadOf
<1>13. PaidFirst'
  BY Zenon, <1>1, <1>2 DEF IInv, PaidFirst
<1>14. NoWait'
  <2>1. waits = 0 => witness.last <= d.ts
    BY Zenon, <1>1, <1>3 DEF IInv, NoWait, Counted, Numbered
  <2> QED BY Zenon, <1>1, <1>2, <1>4, <2>1 DEF IInv, NoWait
<1>15. doc.ts <= d.ts /\ Fits(w) /\ HeadOf(d) \in Accepted(local)
  BY Zenon, <1>1 DEF IInv, OnCourse, Fits
<1>16. NoStop'
  <2>1. faults = 0 => local.last = d.ts /\ witness.last = doc.ts
    BY Zenon, <1>1 DEF IInv, NoStop
  <2>2. lock' # None
    BY Zenon, <1>1, <1>6, PaymentConstants DEF None
  <2> QED BY Zenon, <1>1, <1>2, <1>4, <1>15, <2>1, <2>2 DEF IInv, NoStop
<1>17. \A v \in Workers : OnCourse(v)'
  <2> SUFFICES ASSUME NEW v \in Workers PROVE OnCourse(v)'
    BY Zenon
  <2>1. CASE v = w
    <3>1. Fits(w)'
      BY Zenon, <1>1, <1>2, <1>15 DEF Fits
    <3>2. /\ HeadOf(job[w].new)' \in Accepted(local)'
          /\ HeadOf(job[w].new)' \in Accepted(witness)'
      BY Zenon, <1>2, <1>4, <1>5, <1>15 DEF HeadOf
    <3> QED BY Zenon, <1>1, <1>2, <2>1, <3>1, <3>2 DEF IInv, OnCourse
  <2>2. CASE v # w
    BY Zenon, <1>2, <1>6, <2>2 DEF IInv, OnCourse, Busy, Locked
  <2> QED BY Zenon, <2>1, <2>2
<1> QED BY Zenon, <1>7, <1>8, <1>10, <1>11, <1>12, <1>13, <1>14, <1>16, <1>17 DEF IInv

\* _persist, third write: the document, whose head both now accept.
LEMMA WriteDocumentKeeps ==
    ASSUME IInv, NEW w \in Workers, WriteDocument(w)
    PROVE  IInv'
<1> DEFINE d == job[w].new
<1>1. /\ job[w].step = "write" /\ Busy(w)
      /\ doc' = d
      /\ job' = [job EXCEPT ![w].step = "commit"]
      /\ UNCHANGED <<local, witness, lock, rail, trade, ops, since, returned, faults, waits>>
  BY Zenon DEF WriteDocument, Busy, Locked, world
<1>2. /\ job' \in [Workers -> Jobs]
      /\ job'[w].step = "commit" /\ job'[w].goal = job[w].goal
      /\ job'[w].new = job[w].new /\ job'[w].lease = job[w].lease
      /\ \A v \in Workers : v # w => job'[v] = job[v]
      /\ \A v \in Workers : Busy(v)' <=> v = w
  <2>1. "commit" \in Locked
    BY Zenon DEF Locked
  <2> QED BY Zenon, <1>1, <2>1, NextWrite
<1>3. d \in Docs
  BY Zenon DEF IInv, Types, Jobs
<1>4. Accepted(local)' = Accepted(local) /\ Accepted(witness)' = Accepted(witness)
  BY Zenon, <1>1 DEF Accepted
<1>5. lock = w /\ \A v \in Workers : v # w => ~Busy(v)
  BY Zenon, <1>1, Alone
<1>6. /\ d.op \in 1 .. ops /\ d.ts <= ops /\ d.seq >= returned
      /\ job[w].goal \in Goals /\ d.state = StateOf(job[w].goal)
      /\ HeadOf(d) \in Accepted(local) /\ HeadOf(d) \in Accepted(witness)
  BY Zenon, <1>1 DEF IInv, Counted, NoneOlder, OnCourse
<1>7. d.state # None /\ (d.state = "settled" => job[w].goal \in Success)
  BY Zenon, <1>6 DEF StateOf, Goals, Concluding, Success, None
<1>8. Types'
  BY Zenon, <1>1, <1>2, <1>3 DEF IInv, Types
<1>9. LockHeld'
  BY Zenon, <1>1, <1>2, <1>5 DEF LockHeld
<1>10. Counted'
  <2>1. Numbered(local)' /\ Numbered(witness)'
    BY Zenon, <1>1, <1>4 DEF IInv, Counted, Numbered
  <2> QED BY Zenon, <1>1, <1>2, <1>6, <2>1 DEF Counted
<1>11. Anchored'
  BY Zenon, <1>1, <1>4, <1>6, <1>7 DEF Anchored, HeadOf
<1>12. NoneOlder'
  BY Zenon, <1>1, <1>2, <1>4, <1>6 DEF IInv, NoneOlder
<1>13. PaidFirst'
  BY Zenon, <1>1, <1>2, <1>7 DEF IInv, PaidFirst
<1>14. NoWait'
  BY <1>1, <1>2 DEF IInv, NoWait
<1>15. NoStop'
  <2>1. faults = 0 => local.last = d.ts /\ witness.last = d.ts
    BY Zenon, <1>1 DEF IInv, NoStop
  <2>2. lock' # None
    BY Zenon, <1>1, <1>5, PaymentConstants DEF None
  <2> QED BY Zenon, <1>1, <1>2, <2>1, <2>2 DEF IInv, NoStop
<1>16. \A v \in Workers : OnCourse(v)'
  <2> SUFFICES ASSUME NEW v \in Workers PROVE OnCourse(v)'
    BY Zenon
  <2>1. CASE v = w
    BY Zenon, <1>1, <1>2, <1>6, <1>7, <2>1 DEF OnCourse, HeadOf
  <2>2. CASE v # w
    BY Zenon, <1>2, <1>5, <2>2 DEF IInv, OnCourse, Busy, Locked
  <2> QED BY Zenon, <2>1, <2>2
<1> QED BY Zenon, <1>8, <1>9, <1>10, <1>11, <1>12, <1>13, <1>14, <1>15, <1>16 DEF IInv

\* _persist, fourth write: the committed anchor in the head journal.
LEMMA AnchorCommittedKeeps ==
    ASSUME IInv, NEW w \in Workers, AnchorCommitted(w)
    PROVE  IInv'
<1> DEFINE d == job[w].new
<1>1. /\ job[w].step = "commit" /\ Busy(w)
      /\ local' = Commit(local, d)
      /\ job' = [job EXCEPT ![w].step = "commit-witness"]
      /\ UNCHANGED <<doc, witness, lock, rail, trade, ops, since, returned, faults, waits>>
  BY Zenon DEF AnchorCommitted, Busy, Locked, world
<1>2. /\ job' \in [Workers -> Jobs]
      /\ job'[w].step = "commit-witness" /\ job'[w].goal = job[w].goal
      /\ job'[w].new = job[w].new /\ job'[w].lease = job[w].lease
      /\ \A v \in Workers : v # w => job'[v] = job[v]
      /\ \A v \in Workers : Busy(v)' <=> v = w
  <2>1. "commit-witness" \in Locked
    BY Zenon DEF Locked
  <2> QED BY Zenon, <1>1, <2>1, NextWrite
<1>3. /\ d \in Docs /\ local \in Journals /\ witness \in Journals /\ doc \in Docs
      /\ ops \in Nat /\ returned \in Nat /\ waits \in Nat /\ faults \in Nat
  BY PaymentConstants DEF IInv, Types, Jobs
<1>4. /\ local' \in Journals /\ local'.committed = {HeadOf(d)} /\ local'.last = d.ts
      /\ Accepted(local)' = {HeadOf(d)}
      /\ local'.ordered <=> local.ordered /\ local.last <= d.ts
      /\ HeadOf(d) \in Head
  <2> DEFINE p == Commit(local, d)
  <2>1. /\ p \in Journals /\ p.committed = {HeadOf(d)} /\ p.last = d.ts
        /\ Accepted(p) = {HeadOf(d)}
        /\ p.ordered <=> local.ordered /\ local.last <= d.ts
        /\ HeadOf(d) \in Head
    BY Zenon, <1>3, CommitFacts
  <2>2. local' = p /\ Accepted(local)' = Accepted(p)
    BY Zenon, <1>1 DEF Accepted
  <2> HIDE DEF p
  <2> QED BY Zenon, <2>1, <2>2
<1>5. Accepted(witness)' = Accepted(witness)
  BY Zenon, <1>1 DEF Accepted
<1>6. lock = w /\ \A v \in Workers : v # w => ~Busy(v)
  BY Zenon, <1>1, Alone
<1>7. /\ d.op \in 1 .. ops /\ d.ts <= ops /\ d.seq >= returned
      /\ doc.state # None /\ HeadOf(doc) = HeadOf(d) /\ doc.ts = d.ts
  BY Zenon, <1>1 DEF IInv, Counted, NoneOlder, OnCourse
<1>8. Types'
  BY Zenon, <1>1, <1>2, <1>4 DEF IInv, Types
<1>9. LockHeld'
  BY Zenon, <1>1, <1>2, <1>6 DEF LockHeld
<1>10. Counted'
  <2>1. HeadOf(d).op = d.op
    BY Zenon DEF HeadOf
  <2>2. Numbered(local)'
    BY Zenon, <1>1, <1>4, <1>7, <2>1 DEF Numbered
  <2>3. Numbered(witness)'
    BY Zenon, <1>1, <1>5 DEF IInv, Counted, Numbered
  <2> QED BY Zenon, <1>1, <1>2, <1>7, <2>2, <2>3 DEF Counted
<1>11. Anchored'
  <2>1. HeadOf(doc)' = HeadOf(d)
    BY Zenon, <1>1, <1>7 DEF HeadOf
  <2> QED BY Zenon, <1>1, <1>4, <1>5, <1>7, <2>1 DEF IInv, Anchored
<1>12. NoneOlder'
  BY <1>1, <1>2, <1>4, <1>5, <1>7 DEF IInv, NoneOlder, HeadOf
<1>13. PaidFirst'
  BY Zenon, <1>1, <1>2 DEF IInv, PaidFirst
<1>14. NoWait'
  <2>1. waits = 0 => local.last <= d.ts
    BY Zenon, <1>1, <1>3 DEF IInv, NoWait, Counted, Numbered
  <2> QED BY Zenon, <1>1, <1>2, <1>4, <2>1 DEF IInv, NoWait
<1>15. NoStop'
  <2>1. faults = 0 => local.last = d.ts /\ witness.last = d.ts
    BY Zenon, <1>1 DEF IInv, NoStop
  <2>2. lock' # None
    BY Zenon, <1>1, <1>6, PaymentConstants DEF None
  <2>3. d.ts \in Nat
    BY Zenon, <1>3 DEF Docs
  <2> QED BY <1>1, <1>2, <1>4, <2>1, <2>2, <2>3 DEF IInv, NoStop
<1>16. \A v \in Workers : OnCourse(v)'
  <2> SUFFICES ASSUME NEW v \in Workers PROVE OnCourse(v)'
    BY Zenon
  <2>1. CASE v = w
    <3>1. HeadOf(doc)' = HeadOf(d) /\ HeadOf(job[w].new)' = HeadOf(d)
      BY Zenon, <1>1, <1>2, <1>7 DEF HeadOf
    <3> QED BY Zenon, <1>1, <1>2, <1>4, <1>7, <2>1, <3>1 DEF IInv, OnCourse
  <2>2. CASE v # w
    BY Zenon, <1>2, <1>6, <2>2 DEF IInv, OnCourse, Busy, Locked
  <2> QED BY Zenon, <2>1, <2>2
<1> QED BY Zenon, <1>8, <1>9, <1>10, <1>11, <1>12, <1>13, <1>14, <1>15, <1>16 DEF IInv

\* A worker leaves the lock for a step outside it.
LEMMA LeavingTheLock ==
    ASSUME IInv, NEW w \in Workers, Busy(w), NEW k \in Jobs, k.step \notin Locked,
           job' = [job EXCEPT ![w] = k]
    PROVE  /\ job' \in [Workers -> Jobs] /\ job'[w] = k
           /\ \A v \in Workers : v # w => job'[v] = job[v]
           /\ \A v \in Workers : ~Busy(v)'
<1>1. job \in [Workers -> Jobs]
  BY Zenon DEF IInv, Types
<1>2. /\ job' \in [Workers -> Jobs] /\ job'[w] = k
      /\ \A v \in Workers : v # w => job'[v] = job[v]
  BY Zenon, <1>1
<1>3. \A v \in Workers : ~Busy(v)'
  BY Zenon, <1>2, Alone DEF Busy
<1> QED BY Zenon, <1>2, <1>3

\* _persist, fifth write: the committed anchor in the witness; the lock is released and the
\* operation returns.
LEMMA WitnessCommittedKeeps ==
    ASSUME IInv, NEW w \in Workers, WitnessCommitted(w)
    PROVE  IInv'
<1> DEFINE d == job[w].new
           k == IF job[w].goal # "claim" THEN Idle
                ELSE [Idle EXCEPT !.step = "preflight", !.role = "execute",
                                  !.lease = d.lease, !.tries = d.tries]
<1>1. /\ job[w].step = "commit-witness" /\ Busy(w)
      /\ witness' = Commit(witness, d)
      /\ lock' = None /\ returned' = d.seq
      /\ UNCHANGED <<doc, local, rail, trade, ops, since, faults, waits>>
  BY Zenon DEF WitnessCommitted, Busy, Locked, world
<1>2. /\ d \in Docs /\ local \in Journals /\ witness \in Journals /\ doc \in Docs
      /\ ops \in Nat /\ waits \in Nat /\ faults \in Nat /\ job \in [Workers -> Jobs]
      /\ d.seq \in Nat /\ d.ts \in Nat
  BY PaymentConstants DEF IInv, Types, Jobs, Docs
<1>3. /\ k \in Jobs /\ k.step \in {"idle", "preflight"} /\ k.goal = None
  <2>1. Idle \in Jobs /\ Idle.step = "idle" /\ Idle.goal = None
    BY Zenon DEF Jobs, Idle, Docs, NoDoc, None, Decided
  <2>2. d.lease \in Nat /\ d.tries \in Nat
    BY Zenon, <1>2 DEF Docs
  <2> QED BY Zenon, <2>1, <2>2 DEF Jobs
<1>4. job' = [job EXCEPT ![w] = k]
  BY Zenon, <1>2 DEF WitnessCommitted
<1> HIDE DEF k
<1>5. k.step \notin Locked /\ k.goal \notin Success /\ k.step # "record" /\ k.step # "conclude"
  BY Zenon, <1>3 DEF Locked, Success, None
<1>6. /\ job' \in [Workers -> Jobs] /\ job'[w] = k
      /\ \A v \in Workers : v # w => job'[v] = job[v]
      /\ \A v \in Workers : ~Busy(v)'
  BY <1>1, <1>3, <1>4, <1>5, LeavingTheLock, ZenonT(60)
<1>7. /\ witness' \in Journals /\ witness'.committed = {HeadOf(d)} /\ witness'.last = d.ts
      /\ Accepted(witness)' = {HeadOf(d)}
      /\ witness'.ordered <=> witness.ordered /\ witness.last <= d.ts
      /\ HeadOf(d) \in Head
  <2> DEFINE p == Commit(witness, d)
  <2>1. /\ p \in Journals /\ p.committed = {HeadOf(d)} /\ p.last = d.ts
        /\ Accepted(p) = {HeadOf(d)}
        /\ p.ordered <=> witness.ordered /\ witness.last <= d.ts
        /\ HeadOf(d) \in Head
    BY Zenon, <1>2, CommitFacts
  <2>2. witness' = p /\ Accepted(witness)' = Accepted(p)
    BY Zenon, <1>1 DEF Accepted
  <2> HIDE DEF p
  <2> QED BY Zenon, <2>1, <2>2
<1>8. /\ d.op \in 1 .. ops /\ d.ts <= ops
      /\ doc.state # None /\ HeadOf(doc) = HeadOf(d) /\ doc.ts = d.ts
      /\ Accepted(local) = {HeadOf(d)}
  BY Zenon, <1>1 DEF IInv, Counted, OnCourse
<1>9. Accepted(local)' = {HeadOf(d)} /\ HeadOf(doc)' = HeadOf(d)
  BY Zenon, <1>1, <1>8 DEF Accepted, HeadOf
<1>10. HeadOf(d).seq = d.seq /\ HeadOf(d).op = d.op /\ doc.seq = d.seq
  BY Zenon, <1>8 DEF HeadOf
<1>11. Types'
  BY Zenon, <1>1, <1>2, <1>6, <1>7 DEF IInv, Types
<1>12. LockHeld'
  BY Zenon, <1>1, <1>6, PaymentConstants DEF LockHeld, None
<1>13. Counted'
  <2>1. Numbered(witness)'
    BY Zenon, <1>1, <1>7, <1>8, <1>10 DEF Numbered
  <2>2. Numbered(local)'
    BY Zenon, <1>1, <1>8, <1>9 DEF IInv, Counted, Numbered
  <2> QED BY Zenon, <1>6, <2>1, <2>2 DEF Counted
<1>14. Anchored'
  BY Zenon, <1>1, <1>7, <1>8, <1>9 DEF Anchored
<1>15. NoneOlder'
  BY <1>1, <1>2, <1>6, <1>7, <1>9, <1>10 DEF NoneOlder
<1>16. PaidFirst'
  BY Zenon, <1>1, <1>5, <1>6 DEF IInv, PaidFirst
<1>17. NoWait'
  <2>1. waits = 0 => witness.last <= d.ts
    BY Zenon, <1>1, <1>2 DEF IInv, NoWait, Counted, Numbered
  <2> QED BY Zenon, <1>1, <1>6, <1>7, <2>1 DEF IInv, NoWait
<1>18. NoStop'
  <2>1. faults = 0 => local.last = d.ts /\ witness.last = d.ts
    BY Zenon, <1>1 DEF IInv, NoStop
  <2>2. faults = 0 => local.ordered /\ witness.ordered
    BY Zenon DEF IInv, NoStop
  <2>3. faults = 0 => witness.last <= d.ts
    BY <1>2, <2>1
  <2>4. faults' = 0 => local'.ordered /\ witness'.ordered
    BY Zenon, <1>1, <1>7, <2>2, <2>3
  <2>5. faults' = 0 => local'.last = doc'.ts /\ witness'.last = doc'.ts
    BY Zenon, <1>1, <1>7, <1>8, <2>1
  <2> QED BY Zenon, <1>6, <2>4, <2>5 DEF NoStop
<1>19. \A v \in Workers : OnCourse(v)'
  <2> SUFFICES ASSUME NEW v \in Workers PROVE OnCourse(v)'
    BY Zenon
  <2>1. CASE v = w
    BY Zenon, <1>5, <1>6, <2>1 DEF OnCourse, Busy, Locked
  <2>2. CASE v # w
    BY Zenon, <1>6, <2>2 DEF IInv, OnCourse, Busy, Locked
  <2> QED BY Zenon, <2>1, <2>2
<1> QED BY Zenon, <1>11, <1>12, <1>13, <1>14, <1>15, <1>16, <1>17, <1>18, <1>19 DEF IInv

-----------------------------------------------------------------------------
(* The environment *)

\* The provider confirms, or the trade arrives, or is disputed before it is settled.
LEMMA WorldMovesKeeps ==
    ASSUME IInv, RailConfirms \/ TradeArrives \/ DisputeOpens
    PROVE  IInv'
<1>0. rail \in Rails /\ trade \in Trades
  BY Zenon DEF IInv, Types
<1>1. /\ trade' \in Trades /\ (trade' = "settled" <=> trade = "settled")
      /\ rail' \in Rails /\ (rail = "paid" => rail' = "paid")
      /\ UNCHANGED <<doc, local, witness, lock, job, ops, since, returned, faults, waits>>
  BY Zenon, <1>0 DEF RailConfirms, TradeArrives, DisputeOpens, files, Rails, Trades
<1>2. Accepted(local)' = Accepted(local) /\ Accepted(witness)' = Accepted(witness)
  BY Zenon, <1>1 DEF Accepted
<1>3. Types'
  BY Zenon, <1>1 DEF IInv, Types
<1>4. \A v \in Workers : Busy(v)' <=> Busy(v)
  BY Zenon, <1>1 DEF Busy
<1>5. LockHeld' /\ Counted'
  BY Zenon, <1>1, <1>2, <1>4 DEF IInv, LockHeld, Counted, Numbered
<1>6. Anchored' /\ NoneOlder'
  BY Zenon, <1>1, <1>2, <1>4 DEF IInv, Anchored, NoneOlder, HeadOf
<1>7. PaidFirst'
  BY Zenon, <1>1 DEF IInv, PaidFirst
<1>8. NoWait' /\ NoStop'
  BY Zenon, <1>1, <1>4 DEF IInv, NoWait, NoStop
<1>9. \A v \in Workers : OnCourse(v)'
  <2> SUFFICES ASSUME NEW v \in Workers PROVE OnCourse(v)'
    BY Zenon
  <2>1. OnCourse(v)
    BY Zenon DEF IInv
  <2>2. /\ Fits(v)' <=> Fits(v)
        /\ HeadOf(doc)' = HeadOf(doc) /\ HeadOf(job[v].new)' = HeadOf(job[v].new)
    BY Zenon, <1>1 DEF Fits, HeadOf
  <2> QED BY Zenon, <1>1, <1>2, <1>4, <2>1, <2>2 DEF OnCourse
<1> QED BY Zenon, <1>3, <1>5, <1>6, <1>7, <1>8, <1>9 DEF IInv

\* A lease runs out or a retry falls due; the head of the document stays.
LEMMA TimePassesKeeps ==
    ASSUME IInv, TimePasses
    PROVE  IInv'
<1>1. /\ doc.state \in {"pending", "inflight"} /\ ~doc.over
      /\ doc' = [doc EXCEPT !.over = TRUE]
      /\ faults' = faults \/ (faults < MaxFaults /\ faults' = faults + 1)
      /\ UNCHANGED <<local, witness, lock, rail, trade, job, ops, since, returned, waits>>
  BY Zenon DEF TimePasses, Fault, world
<1>2. doc \in Docs /\ faults \in 0 .. MaxFaults
  BY Zenon DEF IInv, Types
<1>3. /\ doc' \in Docs /\ doc'.op = doc.op /\ doc'.seq = doc.seq /\ doc'.ts = doc.ts
      /\ doc'.state = doc.state /\ doc'.lease = doc.lease /\ doc'.over
  BY Zenon, <1>1, <1>2 DEF Docs
<1>4. doc # NoDoc /\ doc.state # None
  BY <1>1 DEF NoDoc, None
<1>5. /\ Accepted(local)' = Accepted(local) /\ Accepted(witness)' = Accepted(witness)
      /\ HeadOf(doc)' = HeadOf(doc)
  BY Zenon, <1>1, <1>3 DEF Accepted, HeadOf
<1>6. faults' \in 0 .. MaxFaults /\ (faults' = 0 => faults = 0)
  BY <1>1, <1>2, PaymentConstants
<1>7. Types'
  BY Zenon, <1>1, <1>3, <1>6 DEF IInv, Types
<1>8. \A v \in Workers : Busy(v)' <=> Busy(v)
  BY Zenon, <1>1 DEF Busy
<1>9. LockHeld' /\ Counted'
  BY Zenon, <1>1, <1>5, <1>8 DEF IInv, LockHeld, Counted, Numbered
<1>10. Anchored' /\ NoneOlder'
  BY Zenon, <1>1, <1>3, <1>4, <1>5, <1>8 DEF IInv, Anchored, NoneOlder
<1>11. PaidFirst'
  BY Zenon, <1>1, <1>3 DEF IInv, PaidFirst
<1>12. NoWait' /\ NoStop'
  BY Zenon, <1>1, <1>3, <1>6, <1>8 DEF IInv, NoWait, NoStop
<1>13. \A v \in Workers : OnCourse(v)'
  <2> SUFFICES ASSUME NEW v \in Workers PROVE OnCourse(v)'
    BY Zenon
  <2>1. OnCourse(v) /\ job'[v] = job[v] /\ HeadOf(job[v].new)' = HeadOf(job[v].new)
    BY Zenon, <1>1 DEF IInv, HeadOf
  <2>2. Fits(v) => Fits(v)'
    BY Zenon, <1>1, <1>3, <1>4, <2>1 DEF Fits
  <2> QED BY Zenon, <1>1, <1>3, <1>4, <1>5, <1>8, <2>1, <2>2 DEF OnCourse
<1> QED BY Zenon, <1>7, <1>9, <1>10, <1>11, <1>12, <1>13 DEF IInv

\* A process that stops inside the lock leaves the writes it has made.
LEMMA StopKeeps ==
    ASSUME IInv, NEW w \in Workers, Stop(w)
    PROVE  IInv'
<1>1. /\ faults < MaxFaults /\ faults' = faults + 1
      /\ job' = [job EXCEPT ![w] = Idle]
      /\ lock' = IF lock = w THEN None ELSE lock
      /\ since' = [since EXCEPT ![w] = ops]
      /\ UNCHANGED <<doc, local, witness, rail, trade, ops, returned, waits>>
  BY Zenon DEF Stop, Fault, files, world
<1>2. /\ faults \in 0 .. MaxFaults /\ waits \in 0 .. MaxWaits /\ ops \in Nat
      /\ since \in [Workers -> Nat]
      /\ rail \in Rails /\ trade \in Trades
  BY Zenon DEF IInv, Types
<1>3. /\ faults' \in faults .. MaxFaults /\ faults' \in 0 .. MaxFaults /\ faults' > 0
      /\ since' \in [Workers -> Nat]
  BY <1>1, <1>2, PaymentConstants
<1>4. /\ Idle \in Jobs /\ Idle.step \notin Locked /\ Idle.step = "idle"
      /\ Idle.goal \notin Success
  BY Zenon DEF Jobs, Idle, Docs, NoDoc, None, Decided, Locked, Success
<1>5. CASE ~Busy(w)
  <2>1. lock # w
    BY Zenon, <1>5 DEF IInv, LockHeld
  <2>2. waits' \in waits .. MaxWaits /\ (trade = "settled" => rail = "paid")
    BY <1>1, <1>2, PaymentConstants DEF IInv, PaidFirst
  <2>3. Moves(w, Idle)
    BY Zenon, <1>1, <1>2, <1>3, <1>4, <1>5, <2>1, <2>2 DEF Moves, files
  <2> QED BY Zenon, <2>3, MoveKeeps
<1>6. CASE Busy(w)
  <2>1. lock = w /\ lock' = None
    BY Zenon, <1>1, <1>6, Alone
  <2>2. /\ job' \in [Workers -> Jobs] /\ job'[w] = Idle
        /\ \A v \in Workers : v # w => job'[v] = job[v]
        /\ \A v \in Workers : ~Busy(v)'
    BY <1>1, <1>4, <1>6, LeavingTheLock, ZenonT(60)
  <2>3. Accepted(local)' = Accepted(local) /\ Accepted(witness)' = Accepted(witness)
    BY Zenon, <1>1 DEF Accepted
  <2>4. Types'
    BY Zenon, <1>1, <1>3, <2>1, <2>2 DEF IInv, Types
  <2>5. LockHeld' /\ Counted'
    BY Zenon, <1>1, <2>1, <2>2, <2>3, PaymentConstants
       DEF IInv, LockHeld, Counted, Numbered, None
  <2>6. Anchored' /\ NoneOlder'
    BY Zenon, <1>1, <2>2, <2>3 DEF IInv, Anchored, NoneOlder, HeadOf
  <2>7. PaidFirst'
    BY Zenon, <1>1, <1>4, <2>2 DEF IInv, PaidFirst
  <2>8. NoWait' /\ NoStop'
    BY <1>1, <1>3, <2>2 DEF IInv, NoWait, NoStop
  <2>9. \A v \in Workers : OnCourse(v)'
    BY Zenon, <1>4, <2>2 DEF IInv, OnCourse, Busy, Locked
  <2> QED BY Zenon, <2>4, <2>5, <2>6, <2>7, <2>8, <2>9 DEF IInv
<1> QED BY Zenon, <1>5, <1>6

-----------------------------------------------------------------------------
(* Every step *)

\* Every step keeps the invariant.
LEMMA NextKeeps == IInv /\ [Next]_vars => IInv'
<1> SUFFICES ASSUME IInv, [Next]_vars PROVE IInv'
  BY Zenon
<1>1. CASE UNCHANGED vars
  <2>1. UNCHANGED <<doc, local, witness, lock, rail, trade, job, ops, since, returned,
                    faults, waits>>
    BY Zenon, <1>1 DEF vars, files, world
  <2>2. Accepted(local)' = Accepted(local) /\ Accepted(witness)' = Accepted(witness)
    BY Zenon, <2>1 DEF Accepted
  <2>3. \A v \in Workers : Busy(v)' <=> Busy(v)
    BY Zenon, <2>1 DEF Busy
  <2>4. Types' /\ LockHeld' /\ Counted'
    BY Zenon, <2>1, <2>2, <2>3 DEF IInv, Types, LockHeld, Counted, Numbered
  <2>5. Anchored' /\ NoneOlder'
    BY Zenon, <2>1, <2>2, <2>3 DEF IInv, Anchored, NoneOlder, HeadOf
  <2>6. PaidFirst'
    BY Zenon, <2>1 DEF IInv, PaidFirst
  <2>7. NoWait' /\ NoStop'
    BY Zenon, <2>1, <2>3 DEF IInv, NoWait, NoStop
  <2>8. ASSUME NEW v \in Workers PROVE OnCourse(v)'
    <3>1. OnCourse(v)
      BY Zenon DEF IInv
    <3>2. /\ Fits(v)' <=> Fits(v)
          /\ HeadOf(doc)' = HeadOf(doc) /\ HeadOf(job[v].new)' = HeadOf(job[v].new)
      BY Zenon, <2>1 DEF Fits, HeadOf
    <3> QED BY Zenon, <2>1, <2>2, <2>3, <3>1, <3>2 DEF OnCourse
  <2> QED BY Zenon, <2>4, <2>5, <2>6, <2>7, <2>8 DEF IInv
<1>2. CASE RailConfirms \/ TradeArrives \/ DisputeOpens
  BY Zenon, <1>2, WorldMovesKeeps
<1>3. CASE TimePasses
  BY Zenon, <1>3, TimePassesKeeps
<1>4. ASSUME NEW w \in Workers, Create(w) \/ Claim(w) \/ Conclude(w) PROVE IInv'
  BY Zenon, <1>4, EnterKeeps
<1>5. ASSUME NEW w \in Workers, Persist(w) PROVE IInv'
  BY Zenon, <1>5, AnchorPreparedKeeps, WitnessPreparedKeeps, WriteDocumentKeeps,
     AnchorCommittedKeeps, WitnessCommittedKeeps DEF Persist
<1>6. ASSUME NEW w \in Workers, Settle(w) PROVE IInv'
  BY Zenon, <1>6, SettleKeeps
<1>7. ASSUME NEW w \in Workers, Reconcile(w) \/ RecordTradeFails(w) \/ Stop(w) PROVE IInv'
  BY Zenon, <1>7, ReconcileKeeps, RecordTradeFailsKeeps, StopKeeps
<1> QED BY Zenon, <1>1, <1>2, <1>3, <1>4, <1>5, <1>6, <1>7 DEF Next, Run

\* So it always holds.
LEMMA Inductive == Spec => []IInv
BY InitEstablishes, NextKeeps, PTL DEF Spec

-----------------------------------------------------------------------------
(* What follows from the invariant *)


\* The types are right; wherever processes stopped between the five writes of _persist,
\* the document has a head that the journal and the witness accept; and it takes a stop
\* and a wait together to make the attempt unreadable.
THEOREM HeadStaysAnchored == Spec => []HeadIsAnchored
<1>1. IInv => HeadIsAnchored
  <2> SUFFICES ASSUME IInv PROVE HeadIsAnchored
    BY Zenon
  <2>1. ASSUME NEW j \in Journals, Numbered(j)
        PROVE  /\ \A g, h \in j.committed : g = h
               /\ j.last \in 0 .. ops /\ j.ordered \in BOOLEAN
               /\ \A h \in Accepted(j) : h.op \in 1 .. ops /\ h.seq \in Nat
    <3>1. \A g, h \in j.committed : g = h
      BY Zenon, <2>1 DEF Numbered
    <3>2. ops \in Nat
      BY Zenon DEF IInv, Types
    <3>3. \A h \in Accepted(j) : h \in Head
      BY Zenon, <2>1 DEF Accepted, Journals
    <3>4. \A h \in Head : h.seq \in Nat
      BY Zenon DEF Head
    <3> QED BY <2>1, <3>1, <3>2, <3>3, <3>4 DEF Numbered, Journals
  <2>2. local \in Journals /\ witness \in Journals /\ Numbered(local) /\ Numbered(witness)
    BY Zenon DEF IInv, Types, Counted
  <2>3. \A w \in Workers : job[w].new \in Docs /\ job[w].role \in {None, "execute", "reconcile"}
    BY Zenon DEF IInv, Types, Jobs
  <2>4. TypeOK
    <3>1. \A j \in {local, witness} : j \in Journals /\ Numbered(j)
      BY Zenon, <2>2
    <3> QED BY Zenon, <2>1, <2>3, <3>1 DEF IInv, Types, TypeOK
  <2>5. doc # NoDoc => HeadOf(doc) \in Accepted(local) \cap Accepted(witness)
    BY Zenon DEF IInv, Anchored
  <2>6. waits = 0 \/ faults = 0 => local.ordered /\ witness.ordered
    BY Zenon DEF IInv, NoWait, NoStop
  <2>7. ~Readable => waits > 0 /\ faults > 0
    <3>1. waits \in Nat /\ faults \in Nat
      BY PaymentConstants DEF IInv, Types
    <3> QED BY <2>5, <2>6, <3>1 DEF Readable
  <2> QED BY Zenon, <2>4, <2>5, <2>7 DEF HeadIsAnchored
<1> QED BY <1>1, Inductive, PTL

\* Once an operation has returned, neither the journal nor the witness accepts an older
\* version of the document.
THEOREM RollbackStaysDetected == Spec => []RollbackIsDetected
<1>1. IInv => RollbackIsDetected
  BY Zenon DEF IInv, NoneOlder, RollbackIsDetected
<1> QED BY <1>1, Inductive, PTL

\* An attempt is settled only when the money was moved and the trade says so.
THEOREM SettledStaysPaid == Spec => []SettledMeansPaid
<1>1. IInv => SettledMeansPaid
  BY Zenon DEF IInv, PaidFirst, SettledMeansPaid
<1> QED BY <1>1, Inductive, PTL

\* Only WriteDocument and TimePasses touch the document.
LEMMA WhoWrites ==
    ASSUME [Next]_vars, doc' # doc
    PROVE  TimePasses \/ \E w \in Workers : WriteDocument(w)
<1>1. ~UNCHANGED vars /\ ~RailConfirms /\ ~TradeArrives /\ ~DisputeOpens
  BY Zenon DEF vars, files, RailConfirms, TradeArrives, DisputeOpens
<1>2. ASSUME NEW w \in Workers
      PROVE  /\ ~Create(w) /\ ~Claim(w) /\ ~Conclude(w)
             /\ ~Reconcile(w) /\ ~RecordTradeFails(w) /\ ~Stop(w)
  BY Zenon DEF files, Create, Claim, Conclude, Enter, Reconcile, RecordTradeFails, Stop
<1>3. ASSUME NEW w \in Workers PROVE ~Settle(w)
  BY Zenon DEF files, Settle, Preflight, LookUp, Pay, RecordTrade
<1>4. ASSUME NEW w \in Workers
      PROVE  ~AnchorPrepared(w) /\ ~WitnessPrepared(w) /\ ~AnchorCommitted(w) /\ ~WitnessCommitted(w)
  BY Zenon DEF AnchorPrepared, WitnessPrepared, AnchorCommitted, WitnessCommitted
<1> QED BY Zenon, <1>1, <1>2, <1>3, <1>4 DEF Next, Run, Persist

\* Only the worker whose lease it is decides the outcome of a claim, a claim is taken
\* over only after its lease ran out, and what is decided stays so, except that an
\* orphaned attempt may be found to be settled.
THEOREM LeaseAlwaysDecides == Spec => LeaseDecides
<1> DEFINE A == /\ doc.state = "inflight" /\ doc'.op # doc.op =>
                      \/ doc'.state = "inflight" /\ doc.over
                      \/ \E w \in Workers : job[w].step = "write" /\ job[w].lease = doc.lease
                /\ doc.state \in Decided /\ doc' # doc =>
                      doc.state = "orphaned" /\ doc'.state = "settled"
<1>1. IInv /\ [Next]_vars => [A]_vars
  <2> SUFFICES ASSUME IInv, [Next]_vars, doc' # doc PROVE A
    BY Zenon
  <2>1. CASE TimePasses
    <3>1. doc'.op = doc.op
      BY Zenon, <2>1 DEF TimePasses, IInv, Types, Docs
    <3>2. doc.state \notin Decided
      BY Zenon, <2>1 DEF TimePasses, Decided
    <3> QED BY Zenon, <3>1, <3>2
  <2>2. ASSUME NEW w \in Workers, WriteDocument(w) PROVE A
    <3>1. /\ job[w].step = "write" /\ doc' = job[w].new
          /\ job[w].goal \in Goals /\ doc'.state = StateOf(job[w].goal) /\ Fits(w)
      BY Zenon, <2>2 DEF WriteDocument, IInv, OnCourse, Busy, Locked
    <3>2. CASE job[w].goal = "create"
      BY <3>1, <3>2 DEF Fits, NoDoc, None, Decided
    <3>3. CASE job[w].goal = "claim"
      BY Zenon, <3>1, <3>3 DEF Fits, StateOf, Decided
    <3>4. CASE job[w].goal = "reconciled"
      BY Zenon, <3>1, <3>4 DEF Fits, StateOf, Decided
    <3>5. CASE job[w].goal \notin {"create", "claim", "reconciled"}
      BY Zenon, <3>1, <3>5 DEF Fits, Decided
    <3> QED BY Zenon, <3>2, <3>3, <3>4, <3>5
  <2> QED BY Zenon, <2>1, <2>2, WhoWrites
<1> QED BY <1>1, Inductive, PTL DEF Spec, LeaseDecides
=============================================================================
