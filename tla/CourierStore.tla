----------------------------- MODULE CourierStore -----------------------------
(***************************************************************************)
(* nth_dao/delivery/courier_store.py: the pool of sealed envelopes that    *)
(* one carrier holds, shared by several processes through a journal.       *)
(*                                                                         *)
(* Unlike the outbox and the inbox, the store keeps no fingerprint: every  *)
(* public operation re-parses the journal under the file lock, so each is  *)
(* one action, except seal_into, which releases the lock before it rotates *)
(* an oversized journal.  The journal is kept as its fold `disk', a        *)
(* sequence in the order of sealing, with `size', `torn' and `corrupt' for *)
(* the shape of the file.                                                  *)
(***************************************************************************)
EXTENDS Integers, Sequences, FiniteSets, Functions

CONSTANTS
    Procs,         \* processes (or threads) that use the store
    Couriers,      \* digests of sealed envelopes
    Recipient,     \* recipient_did of each
    Bytes,         \* size of the ciphertext of each
    MaxTotal,      \* max_total_bytes
    MaxPer,        \* max_per_recipient
    MaxEnvelopes,  \* max_envelopes
    MaxJournal,    \* _JOURNAL_MAX_BYTES, counted in journal lines
    Slack          \* _JOURNAL_RECOVERY_SLACK_BYTES, counted in journal lines

\* __init__ refuses a limit that is not positive.
ConstantsOK ==
    /\ DOMAIN Recipient = Couriers
    /\ Bytes \in [Couriers -> Nat]
    /\ MaxTotal \in Nat \ {0} /\ MaxPer \in Nat \ {0} /\ MaxEnvelopes \in Nat \ {0}
    /\ MaxJournal \in Nat
    /\ Slack \in Nat \ {0}

ASSUME StoreConstants == ConstantsOK

VARIABLES
    disk,      \* the fold of the journal: digests in the order of sealing
    torn,      \* the journal does not end in a newline
    corrupt,   \* _parse_journal raises CourierStoreError
    size,      \* complete lines in the journal
    up,        \* the process holds an open store
    mem,       \* self._pool_order of each process
    rotating,  \* seal_into of p has still to call _rotate_from_memory
    held       \* history: sealed and since neither handed over nor discarded

vars == <<disk, torn, corrupt, size, up, mem, rotating, held>>

-----------------------------------------------------------------------------
(* The quotas *)

TotalBytes(pool) ==
    LET sum[k \in 0 .. Len(pool)] == IF k = 0 THEN 0 ELSE sum[k - 1] + Bytes[pool[k]]
    IN  sum[Len(pool)]

For(pool, r) == {c \in Range(pool) : Recipient[c] = r}

Fits(pool, c) ==
    /\ TotalBytes(pool) + Bytes[c] <= MaxTotal
    /\ Len(pool) < MaxEnvelopes
    /\ Cardinality(For(pool, Recipient[c])) < MaxPer

-----------------------------------------------------------------------------
(* Access to the journal, under the file lock *)

\* A digest is in the pool at most once.
Without(pool, c) ==
    LET i == CHOOSE i \in DOMAIN pool : pool[i] = c
    IN  IF c \notin Range(pool) THEN pool
        ELSE [k \in 1 .. Len(pool) - 1 |-> IF k < i THEN pool[k] ELSE pool[k + 1]]

\* Faulty variant: a refresh keeps the view of an open store.
PoolOfMemory(p) == mem[p]

\* The pool an operation of p works on, after _refresh_from_disk_locked.
Pool(p) == disk

\* Neither _parse_journal nor the bounded read raises.
Parses == ~corrupt /\ size <= MaxJournal + Slack

\* _snapshot_bytes does not raise: the live envelopes alone fit the journal.
Snapshots == Len(disk) <= MaxJournal

\* A refresh does not raise.
Readable == Parses /\ (size > MaxJournal => Snapshots)

\* Faulty variant: a refresh never compacts.
RefreshedSizeAsIs == size

\* _refresh_from_disk_locked rewrites an oversized journal, torn bytes left out.
RefreshedSize == IF size > MaxJournal THEN Len(disk) ELSE size

\* _append_record_locked after a refresh, of an event that makes `pool' of the
\* caller's view.  `accepted' says whether _parse_journal takes the event and
\* `folded' what it then gives.  A line after a torn tail is glued to it.
Write(p, pool, accepted, folded) ==
    /\ corrupt' = ((torn /\ RefreshedSize = size) \/ ~accepted)
    /\ disk' = IF corrupt' THEN disk ELSE folded
    /\ torn' = FALSE
    /\ size' = RefreshedSize + 1
    /\ mem' = [mem EXCEPT ![p] = pool]

Available(p) == up[p] /\ ~rotating[p] /\ Readable

-----------------------------------------------------------------------------
(* Operations *)

\* seal_into, up to the release of the lock.
SealInto(p, c) ==
    /\ Available(p)
    /\ c \notin Range(Pool(p)) /\ Fits(Pool(p), c)
    /\ Write(p, Append(Pool(p), c), c \notin Range(disk), Append(disk, c))
    /\ held' = Append(held, c)
    /\ rotating' = [rotating EXCEPT ![p] = size' > MaxJournal]
    /\ UNCHANGED up

\* Faulty variant: the journal is rewritten from the caller's memory.
RotateFromMemory(p) ==
    /\ up[p] /\ rotating[p]
    /\ rotating' = [rotating EXCEPT ![p] = FALSE]
    /\ disk' = mem[p] /\ size' = Len(mem[p]) /\ torn' = FALSE
    /\ UNCHANGED <<corrupt, up, mem, held>>

\* _rotate_from_memory, after seal_into took the lock a second time.  Between
\* the two other processes may have written; an unreadable journal raises, and so
\* does one that its live envelopes fill.
Rotate(p) ==
    /\ up[p] /\ rotating[p]
    /\ rotating' = [rotating EXCEPT ![p] = FALSE]
    /\ IF Parses /\ Snapshots
       THEN /\ size' = Len(disk) /\ torn' = FALSE
            /\ mem' = [mem EXCEPT ![p] = disk]
       ELSE UNCHANGED <<size, torn, mem>>
    /\ UNCHANGED <<disk, corrupt, up, held>>

\* hand_over, and discard_digest of a digest that is present.
Take(p, c) ==
    /\ Available(p)
    /\ c \in Range(Pool(p))
    /\ Write(p, Without(Pool(p), c), TRUE, Without(disk, c))
    /\ held' = Without(held, c)
    /\ UNCHANGED <<up, rotating>>

\* An operation that only refreshes: drain_for, stats, a seal_into that finds
\* its digest or a quota, a hand_over or discard_digest that finds nothing.
Refresh(p) ==
    /\ Available(p)
    /\ mem' = [mem EXCEPT ![p] = disk]
    /\ size' = RefreshedSize
    /\ torn' = (torn /\ size' = size)
    /\ UNCHANGED <<disk, corrupt, up, rotating, held>>

-----------------------------------------------------------------------------
(* Processes and the environment *)

\* __init__: _load refreshes.
Start(p) ==
    /\ ~up[p] /\ Readable
    /\ up' = [up EXCEPT ![p] = TRUE]
    /\ mem' = [mem EXCEPT ![p] = disk]
    /\ size' = RefreshedSize
    /\ torn' = (torn /\ size' = size)
    /\ UNCHANGED <<disk, corrupt, rotating, held>>

Crash(p) ==
    /\ up[p]
    /\ up' = [up EXCEPT ![p] = FALSE]
    /\ mem' = [mem EXCEPT ![p] = <<>>]
    /\ rotating' = [rotating EXCEPT ![p] = FALSE]
    /\ UNCHANGED <<disk, torn, corrupt, size, held>>

\* The write of _append_record_locked stops before its newline, and the process
\* dies or lives on with the pool it had refreshed.
Tear(p) ==
    /\ ~torn
    /\ Available(p)
    /\ torn' = TRUE
    /\ size' = RefreshedSize
    /\ \E alive \in BOOLEAN :
          /\ up' = [up EXCEPT ![p] = alive]
          /\ mem' = [mem EXCEPT ![p] = IF alive THEN disk ELSE <<>>]
    /\ UNCHANGED <<disk, corrupt, rotating, held>>

Init ==
    /\ disk = <<>> /\ torn = FALSE /\ corrupt = FALSE /\ size = 0
    /\ up = [p \in Procs |-> FALSE]
    /\ mem = [p \in Procs |-> <<>>]
    /\ rotating = [p \in Procs |-> FALSE]
    /\ held = <<>>

Next ==
    \/ \E p \in Procs, c \in Couriers : SealInto(p, c) \/ Take(p, c)
    \/ \E p \in Procs : Rotate(p) \/ Refresh(p)
    \/ \E p \in Procs : Start(p) \/ Crash(p) \/ Tear(p)

Spec == Init /\ [][Next]_vars

-----------------------------------------------------------------------------
(* Properties *)

\* Every variable has its type, and no view of the pool has more envelopes than
\* the carrier may hold.
TypeOK ==
    /\ disk \in Seq(Couriers) /\ held \in Seq(Couriers)
    /\ Len(disk) <= MaxEnvelopes
    /\ \A p \in Procs : Len(mem[p]) <= MaxEnvelopes
    /\ torn \in BOOLEAN /\ corrupt \in BOOLEAN
    /\ size \in Nat
    /\ up \in [Procs -> BOOLEAN] /\ rotating \in [Procs -> BOOLEAN]
    /\ mem \in [Procs -> Seq(Couriers)]

\* The types are right, and the three quotas of the carrier hold whoever admits:
\* seal_into decides on the pool of all processes, not on its own view.
QuotasHold ==
    /\ TypeOK
    /\ TotalBytes(disk) <= MaxTotal
    /\ Len(disk) <= MaxEnvelopes
    /\ \A c \in Couriers : Cardinality(For(disk, Recipient[c])) <= MaxPer

\* What was sealed and not taken since is on the carrier, in the order of
\* sealing: no rotation and no stale view drops, revives or reorders a copy.
NothingLost == ~corrupt => disk = held

\* The journal never outgrows what the bounded crash-recovery read accepts,
\* although hand_over and discard_digest append without rotating.  Every later
\* call raises after one of two things only: a line is glued to a torn tail, or
\* quotas that are wider than the journal let seal_into admit more live envelopes
\* than a snapshot may hold.
JournalStaysReadable ==
    /\ [](size <= MaxJournal + Slack)
    /\ [][Readable /\ ~Readable' => torn \/ Len(disk') > MaxJournal]_vars
=============================================================================
