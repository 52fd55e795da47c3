---------------------------- MODULE DurableOutbox ----------------------------
(***************************************************************************)
(* nth_dao/delivery/outbox.py: the durable outbox of the delivery layer.   *)
(*                                                                         *)
(* Several processes share one append-only JSONL journal.  Every public    *)
(* operation runs under the thread lock and the InterProcessLock, so one   *)
(* operation is one action; the interleaving is between operations, and    *)
(* between an operation and the crash of its process.                      *)
(*                                                                         *)
(* The journal is kept as its left fold: `disk' is what the events written *)
(* so far amount to, `torn' says that bytes follow the last newline,       *)
(* `corrupt' that some complete line is not JSON or is refused by          *)
(* _fold_event, so that _load raises, and `size' counts the complete       *)
(* lines.  `fresh[p]' says that the (mtime_ns, size) fingerprint p         *)
(* remembers is the file's, in which case p does not re-fold and works     *)
(* from its own records `mem[p]'.                                          *)
(***************************************************************************)
EXTENDS Integers, FiniteSets

CONSTANTS
    Procs,        \* processes that opened the outbox directory
    Msgs,         \* content addresses (message_id) of envelopes
    Nodes,        \* did:key identities that can sign an ACK
    Shared,       \* a recipient that is not a did:key (a group or a topic)
    Recipient,    \* the recipient of each envelope
    Expires,      \* expires_at_ms of each envelope
    HopLimit,     \* routing["hop_limit"]
    MaxPending,   \* max_pending_records
    MaxAttempts,  \* MAX_ATTEMPTS_PER_RECORD
    MaxJournal,   \* MAX_JOURNAL_BYTES, counted in journal lines
    Tears,        \* whether an append can be cut short (crash, full disk)
    MaxTime,      \* bound: the clock stops here
    MaxLines      \* bound: no append makes the journal longer than this

ASSUME OutboxConstants ==
    /\ IsFiniteSet(Msgs)
    /\ Shared \notin Nodes
    /\ Recipient \in [Msgs -> Nodes \cup {Shared}]
    /\ Expires \in [Msgs -> Nat]
    /\ HopLimit \in Nat
    /\ MaxPending \in Nat \ {0}
    /\ MaxAttempts \in Nat \ {0}
    /\ MaxJournal \in Nat
    /\ MaxTime \in Nat
    /\ MaxLines \in Nat
    /\ Tears \in BOOLEAN

VARIABLES
    disk,     \* the fold of the events written to the journal
    torn,     \* the journal does not end in a newline
    corrupt,  \* a complete line makes _load raise DeliveryOutboxCorrupt
    size,     \* complete lines in the journal
    up,       \* the process holds an open DurableOutbox
    mem,      \* self._records of each process
    fresh,    \* self._journal_stat is the file's current fingerprint
    now       \* the wall clock

vars == <<disk, torn, corrupt, size, up, mem, fresh, now>>

-----------------------------------------------------------------------------
(* Records *)

Hops == 0 .. HopLimit

Terminal == {"delivered", "rejected", "expired"}

States == {"absent", "queued"} \cup Terminal

\* `by' is delivered_by, Shared standing for the empty string.  The attempt
\* history is kept as its length; `hop' is the hop_count in envelope_json,
\* the only routing field that envelope_digest covers and message_id does not.
Record == [state: States, hop: Hops, attempts: 0 .. MaxAttempts,
           by: Nodes \cup {Shared}]

Absent == [state |-> "absent", hop |-> 0, attempts |-> 0, by |-> Shared]

Empty == [m \in Msgs |-> Absent]

QueuedIn(recs) == {m \in Msgs : recs[m].state = "queued"}

\* _ack_digest_matches_envelope: the origin bytes or a copy forwarded up to
\* the hop limit.
AckDigestMatches(rec, hop) == rec.hop <= hop /\ hop <= HopLimit

-----------------------------------------------------------------------------
(* Journal events and their fold *)

Event == [kind: {"enqueued", "attempt", "delivered", "expired"},
          hop: Hops, rejected: BOOLEAN, by: Nodes \cup {Shared}]

Enqueued(hop) ==
    [kind |-> "enqueued", hop |-> hop, rejected |-> FALSE, by |-> Shared]
Attempt(rejected) ==
    [kind |-> "attempt", hop |-> 0, rejected |-> rejected, by |-> Shared]
Delivered(hop, by) ==
    [kind |-> "delivered", hop |-> hop, rejected |-> FALSE, by |-> by]
Expired ==
    [kind |-> "expired", hop |-> 0, rejected |-> FALSE, by |-> Shared]

\* The events _fold_event takes for message m whose record is rec.
FoldAccepts(m, rec, e) ==
    \/ e.kind = "enqueued" /\ rec.state = "absent"
    \/ e.kind = "attempt" /\ rec.state = "queued" /\ rec.attempts < MaxAttempts
    \/ /\ e.kind = "delivered"
       /\ rec.state = "queued"
       /\ AckDigestMatches(rec, e.hop)
       /\ Recipient[m] # Shared => e.by = Recipient[m]
    \/ e.kind = "expired" /\ rec.state = "queued"

\* What an accepted event makes of the record.
Fold(rec, e) ==
    CASE e.kind = "enqueued"  -> [state |-> "queued", hop |-> e.hop,
                                attempts |-> 0, by |-> Shared]
      [] e.kind = "attempt"   -> [rec EXCEPT !.attempts = @ + 1,
                                    !.state = IF e.rejected THEN "rejected" ELSE @]
      [] e.kind = "delivered" -> [rec EXCEPT !.state = "delivered", !.by = e.by]
      [] e.kind = "expired"   -> [rec EXCEPT !.state = "expired"]

\* The journal after one event for each message in DOMAIN evs.
FoldAll(recs, evs) ==
    [m \in Msgs |-> IF m \in DOMAIN evs /\ FoldAccepts(m, recs[m], evs[m])
                    THEN Fold(recs[m], evs[m]) ELSE recs[m]]

\* The records in memory after them: the operation has done its own checks.
Apply(recs, evs) ==
    [m \in Msgs |-> IF m \in DOMAIN evs THEN Fold(recs[m], evs[m]) ELSE recs[m]]

-----------------------------------------------------------------------------
(* Access to the journal, under the process lock *)

Loadable == ~corrupt /\ size <= MaxJournal

\* _refold_if_changed lets the operation go on.
Ready(p) == up[p] /\ (fresh[p] \/ Loadable)

\* Faulty variant: the operation trusts its memory without a re-fold.
RecordsNoRefold(p) == mem[p]

\* The records an operation of p works on, after _refold_if_changed.
Records(p) == IF fresh[p] THEN mem[p] ELSE disk

\* Faulty variant: the other processes keep believing their fingerprint.
AppendUnseen(p, evs) ==
    /\ size + Cardinality(DOMAIN evs) <= MaxLines
    /\ size' = size + Cardinality(DOMAIN evs)
    /\ corrupt' = \/ corrupt
                  \/ torn
                  \/ \E m \in DOMAIN evs : ~FoldAccepts(m, disk[m], evs[m])
    /\ torn' = FALSE
    /\ disk' = FoldAll(disk, evs)
    /\ mem' = [mem EXCEPT ![p] = Apply(Records(p), evs)]
    /\ fresh' = [fresh EXCEPT ![p] = TRUE]

\* _append_locked, once for each message in DOMAIN evs.  A line written after
\* a torn tail is glued to it.  The writer knows the new fingerprint; every
\* other process will see a changed file.
Append(p, evs) ==
    /\ size + Cardinality(DOMAIN evs) <= MaxLines
    /\ size' = size + Cardinality(DOMAIN evs)
    /\ corrupt' = \/ corrupt
                  \/ torn
                  \/ \E m \in DOMAIN evs : ~FoldAccepts(m, disk[m], evs[m])
    /\ torn' = FALSE
    /\ disk' = FoldAll(disk, evs)
    /\ mem' = [mem EXCEPT ![p] = Apply(Records(p), evs)]
    /\ fresh' = [q \in Procs |-> q = p]

-----------------------------------------------------------------------------
(* Operations *)

\* Faulty variant: the cap is compared with > instead of >=.
EnqueueOverCap(p, m, hop) ==
    /\ Ready(p)
    /\ now < Expires[m]
    /\ Records(p)[m].state = "absent"
    /\ Cardinality(QueuedIn(Records(p))) <= MaxPending
    /\ Append(p, [x \in {m} |-> Enqueued(hop)])
    /\ UNCHANGED <<up, now>>

\* enqueue: an expired envelope is refused, a known message_id is returned or
\* refused without a write, a full outbox raises DeliveryOutboxFull.
Enqueue(p, m, hop) ==
    /\ Ready(p)
    /\ now < Expires[m]
    /\ Records(p)[m].state = "absent"
    /\ Cardinality(QueuedIn(Records(p))) < MaxPending
    /\ Append(p, [x \in {m} |-> Enqueued(hop)])
    /\ UNCHANGED <<up, now>>

\* record_attempt: outcomes "sent" and "error" leave the record queued.
RecordAttempt(p, m, rejected) ==
    /\ Ready(p)
    /\ Records(p)[m].state = "queued"
    /\ Records(p)[m].attempts < MaxAttempts
    /\ Append(p, [x \in {m} |-> Attempt(rejected)])
    /\ UNCHANGED <<up, now>>

\* handle_ack: a signed ACK for the envelope bytes or a forwarded copy.  For a
\* shared recipient the authorize_ack callback decides, so any node may pass.
HandleAck(p, m, hop, by) ==
    /\ Ready(p)
    /\ Records(p)[m].state = "queued"
    /\ AckDigestMatches(Records(p)[m], hop)
    /\ Recipient[m] # Shared => by = Recipient[m]
    /\ Append(p, [x \in {m} |-> Delivered(hop, by)])
    /\ UNCHANGED <<up, now>>

Overdue(p) == {m \in QueuedIn(Records(p)) : Expires[m] <= now}

\* pending: every overdue record is journaled as expired.
Pending(p) ==
    /\ Ready(p)
    /\ Overdue(p) # {}
    /\ Append(p, [m \in Overdue(p) |-> Expired])
    /\ UNCHANGED <<up, now>>

\* pending writes one line per overdue record; the process dies between two.
PendingInterrupted(p) ==
    /\ Ready(p)
    /\ \E S \in SUBSET Overdue(p) :
          /\ S # {} /\ S # Overdue(p)
          /\ size + Cardinality(S) <= MaxLines
          /\ size' = size + Cardinality(S)
          /\ corrupt' = (corrupt \/ torn \/ \E m \in S : disk[m].state # "queued")
          /\ disk' = FoldAll(disk, [m \in S |-> Expired])
    /\ torn' = FALSE
    /\ up' = [up EXCEPT ![p] = FALSE]
    /\ mem' = [mem EXCEPT ![p] = Empty]
    /\ fresh' = [q \in Procs |-> FALSE]
    /\ UNCHANGED now

\* get, stats, an idempotent enqueue or ACK, and every call that raises after
\* the re-fold: nothing is written, the records are those of the journal.
Read(p) ==
    /\ Ready(p)
    /\ ~fresh[p]
    /\ mem' = [mem EXCEPT ![p] = disk]
    /\ fresh' = [fresh EXCEPT ![p] = TRUE]
    /\ UNCHANGED <<disk, torn, corrupt, size, up, now>>

\* The re-fold raises DeliveryOutboxCorrupt.  self._records was emptied before,
\* and unless the size check refused the file, self._journal_stat was set.
LoadFails(p) ==
    /\ up[p] /\ ~fresh[p] /\ ~Loadable
    /\ mem' = [mem EXCEPT ![p] = Empty]
    /\ fresh' = [fresh EXCEPT ![p] = (size <= MaxJournal)]
    /\ UNCHANGED <<disk, torn, corrupt, size, up, now>>

\* Faulty variant: the rewrite keeps the envelope and forgets the attempts.
KeptNoAttempts(recs) ==
    [m \in Msgs |-> IF recs[m].state = "queued"
                    THEN [recs[m] EXCEPT !.attempts = 0] ELSE Absent]

\* What the rewritten journal folds to.
Kept(recs) ==
    [m \in Msgs |-> IF recs[m].state = "queued" THEN recs[m] ELSE Absent]

\* One "enqueued" line and one line per attempt for each kept record.
KeptLines(recs) ==
    {l \in Msgs \X (0 .. MaxAttempts) :
        recs[l[1]].state = "queued" /\ l[2] <= recs[l[1]].attempts}

\* Faulty variant: the journal is rewritten from memory without a re-fold.
CompactNoRefold(p) ==
    /\ up[p]
    /\ disk' = Kept(mem[p])
    /\ size' = Cardinality(KeptLines(mem[p]))
    /\ torn' = FALSE
    /\ corrupt' = FALSE
    /\ mem' = [mem EXCEPT ![p] = Kept(mem[p])]
    /\ fresh' = [q \in Procs |-> q = p]
    /\ UNCHANGED <<up, now>>

\* compact: os.replace of a journal holding only the queued records.
Compact(p) ==
    /\ Ready(p)
    /\ disk' = Kept(Records(p))
    /\ size' = Cardinality(KeptLines(Records(p)))
    /\ torn' = FALSE
    /\ corrupt' = FALSE
    /\ mem' = [mem EXCEPT ![p] = Kept(Records(p))]
    /\ fresh' = [q \in Procs |-> q = p]
    /\ UNCHANGED <<up, now>>

-----------------------------------------------------------------------------
(* Processes and the environment *)

\* __init__: _load under the process lock; it raises when not Loadable.
Start(p) ==
    /\ ~up[p] /\ Loadable
    /\ up' = [up EXCEPT ![p] = TRUE]
    /\ mem' = [mem EXCEPT ![p] = disk]
    /\ fresh' = [fresh EXCEPT ![p] = TRUE]
    /\ UNCHANGED <<disk, torn, corrupt, size, now>>

Crash(p) ==
    /\ up[p]
    /\ up' = [up EXCEPT ![p] = FALSE]
    /\ mem' = [mem EXCEPT ![p] = Empty]
    /\ fresh' = [fresh EXCEPT ![p] = FALSE]
    /\ UNCHANGED <<disk, torn, corrupt, size, now>>

\* The write in _append_locked stops before its newline: the process dies, or
\* gets an OSError and lives on with an out-of-date fingerprint.
Tear(p) ==
    /\ Tears /\ ~torn
    /\ Ready(p)
    /\ torn' = TRUE
    /\ \E alive \in BOOLEAN :
          /\ up' = [up EXCEPT ![p] = alive]
          /\ mem' = [mem EXCEPT ![p] = IF alive THEN Records(p) ELSE Empty]
    /\ fresh' = [q \in Procs |-> FALSE]
    /\ UNCHANGED <<disk, corrupt, size, now>>

Tick == now < MaxTime /\ now' = now + 1
        /\ UNCHANGED <<disk, torn, corrupt, size, up, mem, fresh>>

Init ==
    /\ disk = Empty /\ torn = FALSE /\ corrupt = FALSE /\ size = 0
    /\ up = [p \in Procs |-> FALSE]
    /\ mem = [p \in Procs |-> Empty]
    /\ fresh = [p \in Procs |-> FALSE]
    /\ now = 0

Next ==
    \/ \E p \in Procs, m \in Msgs, hop \in Hops : Enqueue(p, m, hop)
    \/ \E p \in Procs, m \in Msgs, rejected \in BOOLEAN : RecordAttempt(p, m, rejected)
    \/ \E p \in Procs, m \in Msgs, hop \in Hops, by \in Nodes : HandleAck(p, m, hop, by)
    \/ \E p \in Procs : Pending(p) \/ PendingInterrupted(p) \/ Compact(p)
    \/ \E p \in Procs : Read(p) \/ LoadFails(p)
    \/ \E p \in Procs : Start(p) \/ Crash(p) \/ Tear(p)
    \/ Tick

Spec == Init /\ [][Next]_vars

-----------------------------------------------------------------------------
(* Properties *)

\* Every variable has its type, and the cap on attempts holds in every record.
TypeOK ==
    /\ disk \in [Msgs -> Record]
    /\ torn \in BOOLEAN /\ corrupt \in BOOLEAN
    /\ size \in Nat
    /\ up \in [Procs -> BOOLEAN]
    /\ mem \in [Procs -> [Msgs -> Record]]
    /\ fresh \in [Procs -> BOOLEAN]
    /\ now \in 0 .. MaxTime

\* As long as no append is cut short, no interleaving of the operations of any
\* number of processes, crashes and restarts writes an event that _fold_event
\* refuses: the journal always loads.
JournalStaysFoldable == ~Tears => ~corrupt

\* The only way to a journal that does not load is a line glued to a torn tail:
\* even after damage, a repair by compact() and restarts, no operation works
\* from records that make it write an event the fold refuses.
OnlyGluingCorrupts == [][~corrupt /\ corrupt' => torn]_vars

\* A process that skips the re-fold because its fingerprint is current holds
\* exactly what the journal folds to.
MemoryIsTheFold ==
    \A p \in Procs : up[p] /\ fresh[p] /\ ~corrupt => mem[p] = disk

\* The cap on non-terminal records holds over all processes together, in every
\* journal that can be loaded.
PendingCapped == ~corrupt => Cardinality(QueuedIn(disk)) <= MaxPending

\* The types are right, and both caps hold: on the attempts of a record, and on
\* the records of all processes that are still to be delivered.
BoundsHold == TypeOK /\ PendingCapped

\* A delivered, rejected or expired record of a journal that loads never changes
\* again; it can only leave the journal, by a compaction.
TerminalIsFinal ==
    [][\A m \in Msgs : ~corrupt /\ disk[m].state \in Terminal =>
          disk'[m] \in {disk[m], Absent}]_vars

\* As long as the journal loads, no operation of any process makes a queued
\* record vanish or forgets one of its attempts: compact() never drops what
\* another process appended.
QueuedNeverDropped ==
    [][\A m \in Msgs : ~corrupt /\ disk[m].state = "queued" =>
          disk'[m].state # "absent" /\ disk'[m].attempts >= disk[m].attempts]_vars

\* Corruption fails closed: no process replaces a journal it could not load by
\* one that lacks the records still to be sent.
CorruptionFailsClosed ==
    [][\A m \in Msgs : corrupt /\ disk[m].state = "queued" =>
          disk'[m].state # "absent"]_vars
=============================================================================
