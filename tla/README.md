# A TLA+ model of nth_dao

nth_dao is a Python library for agents that work, trade and talk across
untrusted machines. Most of its code validates signed documents, which is pure
computation. The part that is hard to test is what it does *between* documents:
durable queues that several processes share, leases and retries, journals that
must survive a crash at any byte, messages that are lost, repeated or late.
This directory models that part. TLC checks the modules on small instances and
TLAPS proves the central invariants for every instance.

All paths below are relative to `src/nth_dao/` unless they start with `src/`.

## 1. The system

| part | code | status |
| --- | --- | --- |
| durable outbox | `delivery/outbox.py` | modelled: `DurableOutbox`, proofs in `DurableOutboxProofs` |
| receiving inbox | `delivery/inbox.py` | modelled: `DeliveryInbox`, proofs in `DeliveryInboxProofs` |
| courier store | `delivery/courier_store.py` | modelled: `CourierStore`, proofs in `CourierProofs` |
| spray and cancel | `delivery/courier_spray.py` | modelled: `CourierSpray`, proofs in `CourierProofs` |
| handover with ACKs | `delivery/courier_handover.py`, composing the four above | modelled: `CourierHandover`, proofs in `CourierHandoverProofs` |
| envelopes, ACKs, sealing, policy | `delivery/envelope.py`, `acknowledgement.py`, `courier.py`, `policy.py` | pure; their effect is in the modules above |
| router, transports | `delivery/router.py`, `delivery/transports/` | I/O; they appear as loss, delay and repetition |
| commerce outbox, reconciler | `commerce/outbox.py`, `reconciliation.py`, delivery in `web/commerce_api.py` | modelled but for unreadable records and the status endpoints: `CommerceOutbox`, proofs in `CommerceOutboxProofs` |
| commerce import | sync in `web/commerce_api.py`, `commerce/provisional.py`, as much of `order.py` and `trade.py` as it writes | modelled for one order: `CommerceImport`, proofs in `CommerceImportProofs` |
| payment attempts | `commerce/payment_attempt.py`, `payment_witness.py`, `settlement.py` | modelled for one attempt: `PaymentAttempt`, proofs in `PaymentAttemptProofs` |
| event spine | `spine/log.py` | modelled: `SpineLog`, which implements `EventLog`; proofs in `SpineLogProofs` |
| market claims | `market/claim_intent.py`, `claim.py`, `claim_ack.py`, claim handlers of `web/v2_api.py` | modelled for one announcement: `MarketClaims` |
| missions, event bus, gossip node | `orchestration/`, `event_bus.py`, `gossip.py` | not modelled; a hazard of each is listed |
| everything else | see `components` in `PROJECT.json` | not modelled, each with its reason |

How the delivery parts interact: a sender puts a signed envelope into its
**outbox**, which remembers it until an ACK arrives. The envelope may be sealed
for a recipient who is offline and left with several carriers, each with a
**courier store**; the **spray** journal remembers which carriers hold a copy
and cancels the others once one has delivered. When the recipient meets a
carrier, the **handover** drains the carrier's store, opens each envelope,
admits it to the **inbox** (which decides whether it is new, a duplicate or a
replay), queues a signed ACK in the recipient's own outbox, and only then
removes the copy from the carrier. The ACK travels back and closes the
sender's record.

Trade state takes another way. After an order or trade event is durable, its
signed bundle is put into the **commerce outbox**, a directory with one record
per message. The request that produced it, a reconciler thread and an operator's
dispatch request all deliver from there, each under a lease; the other party's
sync endpoint **imports** the bundle, makes a signed receipt durable and answers
with it. When the trade is verified, a **payment attempt** is claimed under a
lease, paid at an external rail under an idempotency key, and recorded in the
trade and then in the attempt. Signed events of the node, among them what was
claimed and traded, are appended to the **spine**.

Work is found on a market: an agent **claims** a task that another node
announced. Its hub tracks the signed intent, forwards it to the node that
announced the task, which decides by compare-and-swap, and keeps the signed
acknowledgement; if the answer is lost, an operator asks again later.

## 2. Conventions

- **One operation is one action** when the code runs it under the thread lock
  and `InterProcessLock` (`util/io.py`). An operation that works outside a lock,
  or takes it several times, is split at exactly those points: `accept()`
  validates outside the lock, `cancel_siblings` takes the lock anew for each
  event, `rotate` happens after the lock was released, `process_handover` makes
  four calls on three stores.
- **A journal is kept as its fold.** `disk` is what the lines so far amount to,
  `size` how many there are, `torn` that bytes follow the last newline, and
  `corrupt` that some complete line makes the loader raise. An append after torn
  bytes completes them to a line that is not JSON; this is how `corrupt` comes
  about. `mem[p]` and `fresh[p]` are a process's own copy and whether its
  fingerprint matches the file, so that it skips the re-fold.
- **Crash** and **Tear** are separate: a crash loses the memory of a process, a
  tear cuts an append short and leaves its bytes, whether or not the process
  survives. What a torn append may cost is the journal as a whole (`corrupt`);
  properties about its content say what holds while it loads. The constant
  `Tears` of the outbox separates, in the proofs, what holds without them.
- **Where a call makes several durable writes** and may stop between them, the
  writes are separate actions (`SpineLog`, `PaymentAttempt`, `CommerceImport`),
  or the call is the sequence of the disks it leaves, of which a fault leaves a
  prefix (`MarketClaims`).
- **Time** is a small integer that only `Tick` advances where instants are
  compared with each other (freshness, TTL). In `CommerceOutbox` a lease that may
  run out and a delay that may be over at any moment are enough; in
  `PaymentAttempt` a timestamp is the number of the operation that read the
  clock; in `CommerceImport` a message is young, old or expired.
- **Each module has one type invariant**, `TypeOK`. In most modules it is a
  conjunct of the first invariant a run checks (`BoundsHold`, `NoReplayCached`,
  `StoresAgree`, `VerdictsAreTrue`, ...), not a property of its own.
- Signatures, digests and canonical encodings are abstracted to what the code
  distinguishes by them: identity of a message, its hop count (the outbox's
  digest covers it and `message_id` does not), the pair of an ACK's message and
  receipt time.
- Operators whose name says what goes wrong (`CompactNoRefold`,
  `EnqueueOverCap`, ...) are plausible mistakes in the operator that follows
  them. They are not part of any specification; each is listed in
  `PROJECT.json` with the property that detects it.

## 3. Modules, state and actions

### DurableOutbox
State: the journal (`disk`, `torn`, `corrupt`, `size`), per process `up`, `mem`,
`fresh` and the clock. Actions: `Enqueue`,
`RecordAttempt`, `HandleAck`, `Pending` (which also expires), `Compact`, `Read`
(the queries, which re-fold), `LoadFails` (a re-fold that raises), `Start`,
`Crash`, `Tear`, `PendingInterrupted` (the sweep that is cut short between two
expirations), `Tick`. `FoldAccepts` and `Fold` are `_fold_event`, applied both to
memory and to the journal.

### DeliveryInbox
State as above with the replay cache as a sequence in eviction order, `checked`
(what an `accept()` has validated and not yet committed) and `taken`, the
message whose acceptance the last step committed. Actions: `Validate`, then
`Accept` or `Refuse`; `MarkProcessed`, `Read`, `Start`, `Crash`, `Tear`, `Tick`. A
cache that is longer than the journal may be is compacted with every append, and
again by every load (`Compacts`); nothing else depends on which limit is wider.

### CourierStore
State: the pool in sealing order, the journal's shape, per process `mem` and
`rotating` (between the release of the lock and the rotation), and the history
`held`: what was sealed and not taken since. Actions: `SealInto`, `Rotate`,
`Take`, `Refresh`, `Start`, `Crash`, `Tear`. There is no clock, as the store
compares no time. All three quotas (bytes in total, envelopes in
total, envelopes per recipient) are in `Fits`. A journal within the recovery read
that loads (`Parses`) is of use only if its snapshot fits as well, once it is due
for one (`Snapshots`); both together are `Readable`.

### CourierSpray
State: the spray journal as its fold (per spray the carriers left and whether it
is completed; its number is its place in the order of registration, by which
completed ones are pruned), `torn` and `corrupt`, what became of the `copy` of each
spray for each carrier, and per process the `job` of a `cancel_siblings` call.
Actions: `Register`, `Read`, `Compact`, `Begin`, `RecordDelivered`, `Skip` and
`Discard` (a carrier out of reach or reached), `RecordCancelled`, `Finish`; `Crash`,
`TearEvent` and `TearRegister`. `register` only writes the copies down: the host puts
each into its store afterwards, as the tests do (`Deposit`), at any time, so that a
cancellation may come before the copy, which is then `missed`, and `late` if it
still arrives. `HandOver` is the recipient accepting a copy.

### CourierHandover
The composition. Each part is kept as the calls of `process_handover` see it:
the carrier's `pool`, the `inbox`'s entry of each message (its acceptance time and
whether it is pending), the ACK outbox `acks`, the sender's outbox `sent`, and per
process the call it is in (`run`, with the clock it read at its start). `taken`,
`done` and `evicted` are the history of acceptances, of processing and of messages
that the replay cache let go. Actions: `Drain`, `Reject`, `Admit`, `Stamp` (the
lookup of the acceptance time, which falls back to `created_at_ms`), `EnqueueAck`,
`HandOver`, one per call; `Crash`; `Seal`, `MarkProcessed`, `Evict`, `ExpireAck`,
`HandleAck`, `ExpireSent`, `Tick` for the rest of the world. An ACK that was ever
queued may be handled at any later time, several times or never, so loss,
repetition and reordering are included.

### CommerceOutbox
State: the record of each message (`out`: status, URL, whether it is due, its
lease and whether that is live), the `archive`, what each worker is doing
(`job`), the URL bound to the peer (`route`), how far a request has come with the
`peer`. A lease identifier is represented by the worker that drew it. Actions of
a worker: `Begin` (list the candidates), `Claim` or `PassOver`, `Dispatch` (the
check of the URL and the request), `Respond`, `RecordResult` or `RecordFails`,
for the reconciler `Check` and `Release` (a lease its dispatcher left behind; a write
that fails there is tried once more by the exception handler, `Excepted`),
`EndBatch`, `Archive`, `EndCycle`, `Stop`; `Enqueue` of an order handler; `Crash`.
Around them: `LeaseRunsOut`, `FallsDue`, `Rebind`, `PeerImports`,
`PeerAcknowledges`, `PeerLoses`.

### CommerceImport
State: the trade, whether its order is stored, the marker, the quarantine, the
receipts (`inbox`), the bundles answered with 409 (`refused`), which the sender blocks
and only its operator dispatches again, the audit records about the trade, who holds
the marker's lock, where each request is (`job`) and where the maintenance pass is
(`pass`), the age of each bundle. A request is `Receive` (receipt lookup and
validation, outside the lock), `Mark`, `ImportTrade`, `ImportOrder`, `Unmark`,
`Acknowledge`; the local party may `Sign` in between. The pass is `Inspect`, then
`Complete` for a marker whose order is there, or the quarantine in its order of writes
(audit, `MoveTrade`, `MoveMarker`, `Report`). `Fail` is a write that raises, `Crash`
the death of the process with all its requests.

### PaymentAttempt
State: the document, the head journal (`local`) and the `witness`, the lock, the
rail, the trade, and what each worker is doing. Every event of an attempt is
`Enter` (validation under the lock) and five writes: `AnchorPrepared`,
`WitnessPrepared`, `WriteDocument`, `AnchorCommitted`, `WitnessCommitted`. An
execution is `Claim`, `Preflight`, `LookUp`, `Pay`, `RecordTrade`, `Conclude`; the
reconciler claims orphaned attempts and never pays. A trade that contradicts the
intent (`unfit`: terms, parties) is a permanent refusal and blocks the attempt; one
that is absent or not yet verified is retried. The rail is what the code uses of it:
it pays once per idempotency key, its answer may be lost or bad, and a payment may be
begun and confirmed later or never (`RailConfirms`), in which case its receipt is not
acceptable.

### SpineLog and EventLog
`EventLog` is what the log promises: entries are appended one at a time, a request
has at most one, requests with one semantic key have one between them, and who is
told that a request is in can rely on it. `SpineLog` has the file (`log`, `torn`),
the intent file, the lock, each process's verified `cache` and `job`, and what
each caller knows (`answer`). Its steps are the writes: recovery (`RecoverNothing`,
`RecoverTruncate`, `RecoverWrite`, `RecoverWritten`), `Plan`, the intent, the
record, its removal; each may raise before or after its effect, and reading an
intent back after its write failed may fail too, which counts as a second fault. (The
limit on what a process remembers as verified is left out: a log beyond it is scanned
anew each time, like one the process has not seen.) A caller who is
told that the outcome is unknown calls `Reconcile`. In the refinement an entry is
in the abstract log from the moment its intent is durable, because from then on
any process that recovers will write it: `entries` is the file's complete lines
with the intent's event behind them if it is not among them.

### MarketClaims
State: the tracker's files (`disk`: journal, archive segments, which of them are
indexed, the index, the receipts), the stored ACKs, the source's claim record
(`winner`), requests under way (`wire`), the claim handlers (`job`) and the
reconcile request (`recon`). The journal is kept line by line, because compaction
rewrites lines: a `reconciled` line about two intents, one of which is archived,
becomes a verdict about the other. A handler is `Forward` (`record_sent`, then the
request), `SaveAck` and `Settle`, or `Reject`, or `GiveUp`; the source is
`Accept`, `Conflict`, `Refuse`, and `RivalClaims` for claimants elsewhere; the
operator's request is `Ask` and `Confirm`; `Sweep` is `sweep_expired`.

## 4. Runs

Passing runs:

| run | shows |
| --- | --- |
| `outbox` | two processes, crashes, appends cut short: a process that skips its re-fold has the journal's fold, the caps hold over all processes, and the journal stops loading only through a line glued to a torn tail. While it loads, terminal records are final and `compact()` drops nothing queued |
| `inbox` | whatever happens between the unlocked checks of `accept()` and its commit, nothing remembered is accepted again and pending work is never evicted; a damaged replay cache is refused by every process, none rewrites it from empty memory |
| `store` | quotas hold over both processes, rotation outside the lock loses and revives nothing, the journal never outgrows the bounded recovery read, and the store stops working only through a glued line or when more envelopes are live than a snapshot holds |
| `spray` | every live copy is in the journal of a pending spray, whatever crashes, torn appends, unreachable carriers and overlapping cancellations there are; the journal stops loading only through a glued line or when a spray was pruned under a `cancel_siblings`; a spray with a delivered copy is completed in the end |
| `handover` | nothing leaves the carrier before it and its ACK are durable; every ACK bears the time of the acceptance, the same for all retries, until the replay cache has let the message go; the sender hears only of what was accepted in time; and every valid message is taken, expires, waits for room for an ACK or stays behind a full batch of expired ones |
| `commerce` | three workers on one message with up to three mishaps: a live lease keeps every other worker away, an acknowledgement means that the peer has a durable receipt, and none is undone by a late failure, a retarget or a repeated enqueue |
| `commerce_live` | behind messages for peers that never answer, a message for a peer that does is acknowledged or blocked, unless a full batch of unfinished ones stays before it |
| `import` | two requests, the maintenance pass and the local party on one order, with two faults: a hidden trade always has the marker that lets a retry finish it, receipts stay true, no signed chain is lost or overwritten; leftovers are cleared; every bundle is acknowledged, refused or expires, and what its own earlier attempt has left never makes it refused |
| `payment` | two workers and five writes per event, with crashes, lost leases, old timestamps, unfit trades, bad and unconfirmed receipts: the stored document is always accepted by journal and witness, an older one never, settled means paid, only the lease holder decides, and every attempt ends settled, blocked or orphaned |
| `spine` | two processes with plain, unique, batched and conflicting requests and two faults at any write: the file can always be recovered, the log implements `EventLog`, and no caller is left in doubt |
| `claims` | three claims of one announcement, two by one agent, with a rival, lost and late answers, reconcile requests, the sweep and compactions cut short: a verdict shown is the source's decision and stands, and an accepted claim can be brought home, with two exceptions that are named below |

One run ends in a counterexample, a disagreement between the code and its own
documentation (quoted under `findings` in `PROJECT.json`): in `outbox_reload`,
after a failed re-fold the fingerprint is already stored, so the next call works
on an empty outbox and `compact()` erases the journal.

Behaviour the modules contain, and their properties therefore allow for, that a
maintainer should know:

- "A torn final line is ignored on recovery" holds until the next append, which
  is glued to the torn bytes; from then on the journal does not load
  (outbox, inbox, store and spray; this is the one case `OnlyGluingCorrupts` leaves).
- `compact()` forgets acknowledged messages; the same `message_id` can then be
  queued again.
- The inbox may evict a processed entry while its envelope is fresh; a
  redelivery is then acted on again.
- If it does so between the acceptance and the ACK while the copy is still on the
  carrier, the next handover accepts the message again, or finds no acceptance time
  and stamps `created_at_ms`: the message gets a second ACK (`OneAckPerMessage` names
  the case).
- Expired envelopes stay in a courier store and count against its quotas.
- `seal_into` checks its quotas, not whether a snapshot of what it admits fits the
  journal limit. With quotas wider than that limit the live envelopes can outgrow it;
  from the next refresh of an oversized journal on, every operation of the store
  raises (`courier_store.py:247`, `JournalStaysReadable`).
- A copy that the host puts into a store after `cancel_siblings` was there is in no
  journal any more and stays until it is delivered or discarded (`late`).
- In `process_handover`, the second of two calls to remove one copy gets an
  exception that ends its whole batch.
- `record_attempt` of the commerce outbox compares the lease of inflight records
  only. The late failure of a worker whose lease ran out can turn a record that
  its successor has blocked into a pending one.
- The commerce reconciler looks at the first `batch_limit` unfinished records in
  name order, whether they are due or not. A full batch for peers that never answer
  starves what is behind it (`Behind`); fewer do not.
- `cancel_siblings` appends under a lock taken anew without looking at the
  journal again. If another process has completed the spray and a refresh has
  pruned it, the event refers to a spray the journal does not know, and every
  process refuses the journal from then on (`courier_spray.py:478`).
- `drain_for` returns the first `max_items` envelopes, and rejected ones stay: a
  full prefix of them starves what is behind (`courier_handover.py:90`; `Behind`). A full
  ACK outbox ends the call, and the batch behind it waits.
- The import that fails, is quarantined and fails again finds the place in
  quarantine taken. The earlier trade is not overwritten; `_quarantine_marker`
  raises, and the pass ends there each time until the sender's retry completes the
  import (`Jammed`). An import refused inside the lock leaves its marker, which
  makes the order's other bundles be refused until the next pass. A refusal is a 409,
  which the sender's outbox does not retry: a bundle that met the marker of another
  one stays blocked at the sender until its operator dispatches it.
- An operation on a payment attempt reads the clock before it waits for the lock.
  If a process stops after its prepared anchor and a waiting one then appends an
  older timestamp, `_validate_anchor_sequence` (`payment_attempt.py:853`) refuses
  the attempt from then on. `HeadIsAnchored` says that nothing else makes an attempt
  unreadable, and `EveryAttemptIsDecided` is about those that can be read. An
  attempt may end blocked although the money was moved.
- A compaction of an expired intent that stops before the journal is rewritten
  leaves it in both places. If its ACK then confirms it and it is archived again,
  the index keeps the first segment: `archived_record` says expired, and the
  evidence of a confirmed claim is refused. `VerdictsAreFinal` names this case.
- An intent that was swept and archived before its ACK came is not confirmed any
  more (`AcceptedIsRecoverable` names it). Nothing under `src/` calls
  `sweep_expired`; without a host that does, pending intents fill the tracker.
  When the journal is full of their lines, an ACK cannot be recorded either
  (`IntentTrackerFull`; `AcceptedIsRecoverable` names it as `CrowdedOut`) until one of
  them gets its verdict.
- A retry whose earlier claim is archived stays pending: `reconcile_retry` looks
  at the active intents only.

### Bounds
Two processes are enough for every race in the code: each check-then-act is
between one process that checked and one other that changed the file; what a
third could add is another change by the second. Caps (`MaxPending`,
`MaxEntries`, quotas, `AckCap`, `MaxItems`, `MaxAttempts`, journal sizes) are
one to four with one message more than fits, so each limit is met, exceeded and
relieved within a run. Byte limits on journals are counted in lines. `MaxTime`
leaves each message fresh, at its last moment and expired. `MaxCrashes`,
`MaxTime`, `MaxSlips` (crashes, failed writes, stops and leases that run out
under their worker, taken together) and the bounds on journal lines are bounds of
the model only and stand as guards in the actions. `commerce` has one message,
because workers meet only on a record; `commerce_live` has three with a batch of
two, the last for a peer that answers, and a single route, because a message with a
wrong one is blocked, which is an end. `handover` drains one envelope a call, so that
an expired one can hide the other. `store` has room for three envelopes and two
journal lines, so that the live ones can outgrow a snapshot; it was also run with
three and four lines, where they cannot. `inbox` was also run with a journal of one
line, shorter than its cache. Processes
are symmetric where the run checks safety only; so are, in `inbox`, the two
messages with one nonce.

The runs with several writes per call count faults, and a fault may be at any
write: two in `import`, where an import and its retry, or the pass, can each be cut
short; two in `payment` and `spine`, where a recovery can be interrupted
like the operation it recovers; one in `claims`, which has the longest calls and
needs one interrupted compaction. `import` has a bundle and a longer one of
the same order, so that the chain of one is a prefix of the other's, and disputes
that make them differ. `payment` allows two attempts and one operation that
waited for the lock. `spine` has a plain request, two with one key, one that
conflicts with them and one of another key. `claims` has a tracker for two
intents and three lines, so that the third intent, and verdicts, force compactions and
a confirmation may find no room; it was also run with four lines and with room for
three intents.

Deadlock is not checked where the system may come to rest: with the clock at its
bound and every message, request or attempt at its end there is nothing left to
do. The commerce outbox and the claims check it.

### Fairness
The delivery library does not schedule itself, so the fairness of `handover` is an
assumption about its host: it keeps calling `process_handover`, a call that is
running makes progress (weak fairness), and the inbox is not full at every
attempt (strong fairness of the admission). Nothing is assumed about the ACK
outbox; a message that waits for room in it is an end that the property names. In
`spray` the host calls `cancel_siblings` again for a spray that is pending (strong
fairness of `Begin`, as both processes may be busy), a call that does not die goes on,
and no carrier is out of reach every time it is looked for (strong fairness of
`Discard`). Nothing makes the host deposit a copy or the recipient take one.

In `commerce_live` the reconciler polls in a loop of its own thread and a request
that has begun is worked off: weak fairness of each worker's steps, except that
nobody has to send a dispatch request. Time passes: weak fairness of `LeaseRunsOut`
and `FallsDue`. A peer that can be reached does not fail at every attempt: strong
fairness of its import, its receipt and its answer. Mishaps are finitely many; in
particular a lease runs out under a worker only `MaxSlips` times, as the request
times out after 10 seconds and the lease after 30.

In `import` the sender's outbox retries what is neither acknowledged nor refused
(strong fairness of `Receive`, as a retry may find all handlers busy; a refused bundle
may be sent again, and nothing makes it be), a request and the pass that wait for the
marker's lock get it (strong fairness of `Mark` and `Inspect`), and a request that
holds it, the pass and time go on (weak fairness). Nothing makes the local party sign.
In `payment` the host calls `run_pending` again and again and time passes (weak
fairness); nothing makes the trade arrive or the rail answer well or confirm. In
`spine` a process that is in a call, or whose caller is in doubt, gets the lock in the
end (strong fairness of its steps). `claims` states no liveness: what brings a claim
home is a request of the operator, so the property says that the request would succeed
at any moment.

## 5. Proofs

Each theorem holds for every value of the constants, that is for any number of
processes, messages, requests, workers, carriers and faults and for any caps and
times, under the `ASSUME` of its module (the limits are natural numbers, mostly
positive, names that the code keeps apart are different, finite sets are finite).
The bounds that the runs put on counters are constants like the others.

Every proof has the same plan. An invariant `IInv` is strengthened until it is
inductive, one lemma per action shows that the action keeps it, and the property
follows from it (an action property from it and one step). What follows says, for
each module, what had to be added and why.

### DurableOutboxProofs

| theorem | statement |
| --- | --- |
| `OutboxTypeOK` | type correctness |
| `OutboxJournalLoads` | without torn appends the journal never becomes unloadable |
| `OutboxMemoryIsTheFold` | a process that skips its re-fold has exactly the journal's fold |
| `OutboxBoundsHold` | with the types, the cap on queued records holds over all processes |
| `OutboxOnlyGluingCorrupts` | a loadable journal stops loading only by an append to a torn one |
| `OutboxQueuedNeverDropped` | while the journal loads, no step, `compact()` included, makes a queued record absent |
| `OutboxTerminalIsFinal` | while the journal loads, a terminal record never becomes another one except by being forgotten by `compact()` |

`NoTearNoDamage` (without tears there are no torn bytes either, which is why no
append glues) and `MemoryCapped` are added. The last one is needed because
`enqueue` checks the cap against *memory*: a process with a matching fingerprint
works from `mem[p]`, so the cap of the journal follows from the cap of the memory of
whichever process writes next.

### DeliveryInboxProofs

| theorem | statement |
| --- | --- |
| `InboxMemoryIsTheFold` | a process that skips its re-fold has the journal's fold, in its order |
| `InboxNoReplayCached` | with the types, no message and no nonce is in the cache twice, and the cache keeps its bound |
| `InboxRememberedIsRefused` | `accept()` never succeeds for a nonce the journal remembers, however long before the commit it was checked |
| `InboxPendingNeverLost` | neither eviction nor compaction drops an accepted message that is still to be processed |
| `InboxOnlyGluingCorrupts` | a loadable journal stops loading only by an append to a torn one |

`MemoryIsTheFold` is not inductive, as it says nothing of a journal that does not
load and that a process may still go on with. That a matching fingerprint goes with
the fold, loadable or not, is. The eviction is proved to take one processed entry and
to keep the others in their order.

### CourierProofs
It extends `CourierSpray` and instantiates `CourierStore` as `Store`, whose
assumption (`ConstantsOK`) is a hypothesis of its theorems.

| theorem | statement |
| --- | --- |
| `SprayCopiesTracked` | with the types and the cap on pending sprays, while the journal loads a live copy is in it, of a pending spray |
| `SprayJournalStaysLoadable` | the journal stops loading only by a line glued to a torn one or by an event of a spray that was pruned and of which no copy is live |
| `StoreQuotasHold` | with the types, the three quotas of a carrier hold |
| `StoreNothingLost` | while the journal loads, the pool is what was sealed and not taken, in its order |
| `StoreJournalStaysReadable` | the journal stays within the bounded read, and the store stops working only by an append to a torn journal or by a seal that leaves more live envelopes than a snapshot holds |

For the sprays the invariant says what a call under way knows (`Knows`): its view of
the carriers left is as old as its first read, but still contains every live copy,
because none of a registered spray comes to life again; and the carrier whose drop
it is about to record has none. For the store the work is in the quotas: adding an
envelope adds its size to `TotalBytes` and removing one never increases it, which is
an induction over the pool.

### CourierHandoverProofs

| theorem | statement |
| --- | --- |
| `RemovedIsOwned` | with the types, a copy that left the carrier is in the inbox and its ACK in the ACK outbox |
| `OneAck` | every ACK bears the time of an acceptance, one and the same for all ACKs of a message that the replay cache has not let go; of one it has, an ACK may also bear `created_at_ms` |
| `DeliveredIsAccepted` | the sender's outbox says delivered only of what the inbox accepted before it expired |

Each call of `process_handover` is tied to what its earlier steps made durable: past
the admission the message is in the inbox, past the enqueue its ACK is in the ACK
outbox; and the time an ACK bears, stored or under way, is that of an acceptance or,
for a message the cache has let go, `created_at_ms` (`Legit`). That an accepted message
is pending or processed, which an eviction does not change, carries the other two.

### CommerceOutboxProofs

| theorem | statement |
| --- | --- |
| `CommerceDeliveryIsExclusive` | until its lease runs out, the worker that is delivering a message holds the live lease on it |
| `CommerceAckMeansReceived` | a message that is acknowledged or archived has a durable receipt at the peer |
| `CommerceAcknowledgedIsFinal` | an acknowledged record stays as it is until it is archived, and an archived one is never created again |

The invariant says of every message what its record, the archive and the peer have
to do with each other, and of every worker what it knows of the message it works on.

### CommerceImportProofs

| theorem | statement |
| --- | --- |
| `TypeCorrect` | type correctness; stored and quarantined chains are legal chains |
| `HiddenTradesAreJournaled` | a trade without its order is named, with its exact chain, by the marker |
| `StoresStayInAgreement` | a visible order has its trade, and the trade contains every chain a receipt was given for |
| `NothingIsEverLost` | the chain only grows, or moves whole to an empty place in quarantine after its audit record; quarantine is never overwritten |

Two conjuncts are about calls that are under way: `RequestsOnCourse` (what a request
between two of its writes relies on: its marker is there, the trade contains its
chain, the order is stored) and `PassOnCourse` (the same for the pass between the
audit record and the removal of the marker). They are needed because validation is
outside the lock, and what was true then must still be true at each write.

### PaymentAttemptProofs

| theorem | statement |
| --- | --- |
| `HeadStaysAnchored` | with the types, the stored document has a head that journal and witness accept; it takes a stop and a wait together to make an attempt unreadable |
| `RollbackStaysDetected` | no head older than that of the last operation that returned is acceptable |
| `SettledStaysPaid` | settled means paid, and recorded in the trade |
| `LeaseAlwaysDecides` | only the lease holder concludes a claim, a takeover waits for the lease to end, and what is decided stays decided |

`LockHeld` says that whoever is between two writes of `_persist` holds the file lock,
so there is at most one. `OnCourse` says how far its event has come: before the
document is written the conditions it was validated under still hold, and each anchor
it has prepared is acceptable. `Anchored`, `NoneOlder` and `PaidFirst` extend the
properties to the event under way. The last conjunct of `HeadIsAnchored` needs two
more, one for each of its causes: without a wait the timestamps are in the order of
the lock (`NoWait`), and without a stop both journals end where the document does
(`NoStop`), so that the next event, which is not older than the document, is in order.

### SpineLogProofs

| theorem | statement |
| --- | --- |
| `SpineAlwaysRecoverable` | with the types, no check of the recovery or the verification ever refuses the file |
| `SpineImplementsEventLog` | `SpineLog` implements `EventLog` under the mapping of section 3 |

The mapping (`Events` in the proofs) puts the event of a durable intent behind the
complete lines. The invariant says where the disk may be at each step of a call, that
the requests of different calls are different and neither free nor answered, and that
what a call has planned continues the chain and has no rival in it. Each action has
one lemma that shows both that it keeps the invariant and that it is a step of
`EventLog` or changes nothing there. Which requests of a batch are new is given by
the set `Plans` of the increasing lists of positions that leave out exactly the
requests with an owner before them. There is one such list for each batch, the one the
loop builds; stating it by what it satisfies is what the proof uses.

### Model-checked only
- Liveness under fairness, which this prover does not handle: `SpraysAreClosed`,
  `EverythingValidIsTaken`, `ReachablePeersAreServed`, `LeftoversAreCleared`,
  `EveryBundleIsSettled`, `EveryAttemptIsDecided`, `EveryCallIsSettled`.
- Everything about claims (`VerdictsAreTrue`, `VerdictsAreFinal`,
  `AcceptedIsRecoverable`). What a journal of claims folds to, what a compaction
  leaves of it and what the index says are folds over its lines and over the segments
  in the order of their names, one inside the other. `AcceptedIsRecoverable` moreover
  depends on how many lines a compaction can save.
- What a recursive definition computes is proved in two places only (`Listed` in
  `CommerceOutboxProofs`, `TotalBytes` in `CourierProofs`). The library's induction
  theorems cannot be instantiated by the provers at hand; there the induction is
  spelled out, with the fact that a set of natural numbers has a least element.

## 6. What is not modelled

Measured in lines, most of the package: the modules stand for some 5,800 lines of
the delivery, commerce, spine and market code, out of a package of some 190,000,
of which the larger part validates, signs, renders and serves single documents.

- Cryptography, canonical encoding, validation of single documents, HTTP, sockets,
  SQLite transactions, rendering.
- Missions, the event bus and the gossip node have concurrent state of their own
  and no module. In missions, `is_finished` counts a handed-off step as finished,
  so that a mission whose last open step is handed over is completed and
  `find_work` of the new assignee does not list it, although `mission_runner.py:14`
  says that it will surface there.
- `last_error_code` of an outbox record is left out: memory and fold differ in it
  and nothing depends on it.
- Readers without a lock (`read_all` of the spine, views of payment attempts) may
  meet a write half done; they are not actions.
- Quotas of receipts and ACKs, torn lines of the payment journals (they fail
  closed), unreadable files, and formats of earlier versions.
- The file system is assumed to make a rename atomic and to keep what was fsynced.
  A crash is the death of a process, not the loss of power.
- Every claim has a nonce of its own, which the agent that signs it draws at random.
