---------------------------- MODULE DeliveryInbox ----------------------------
(***************************************************************************)
(* nth_dao/delivery/inbox.py: the receiving door of the delivery layer.    *)
(*                                                                         *)
(* Several processes share one replay-cache journal.  accept() validates   *)
(* and authorizes an envelope without any lock and commits it later under  *)
(* the process lock, so it is two actions: Validate and then Accept or     *)
(* Refuse.  Every other operation is one action.                           *)
(*                                                                         *)
(* As in DurableOutbox the journal is kept as its left fold `disk', a      *)
(* sequence of entries in insertion order (the order of eviction), with    *)
(* `torn', `corrupt' and `size' for the shape of the file, and `fresh[p]'  *)
(* for a fingerprint that lets process p use its own fold `mem[p]'.        *)
(***************************************************************************)
EXTENDS Integers, Sequences, FiniteSets

CONSTANTS
    Procs,       \* processes that opened the inbox directory
    Msgs,        \* content addresses of envelopes
    Nonce,       \* the (sender_did, nonce) pair of each envelope
    Expires,     \* expires_at_ms of each envelope
    MaxEntries,  \* max_replay_entries
    MaxJournal,  \* MAX_CACHE_JOURNAL_BYTES, counted in journal lines
    MaxTime      \* bound: the clock stops here

ASSUME InboxConstants ==
    /\ DOMAIN Nonce = Msgs
    /\ Expires \in [Msgs -> Nat]
    /\ MaxEntries \in Nat \ {0}
    /\ MaxJournal \in Nat
    /\ MaxTime \in Nat

VARIABLES
    disk,      \* the fold of the events written to the cache journal
    torn,      \* the journal does not end in a newline
    corrupt,   \* _fold_cache_lines raises DeliveryInboxCacheCorrupt
    size,      \* complete lines in the journal
    up,        \* the process holds an open DeliveryInbox
    mem,       \* the folded cache of each process
    fresh,     \* self._cache_stat is the file's current fingerprint
    checked,   \* the envelope an accept() of p has validated and authorized
    taken,     \* history: the message whose acceptance the last step committed
    now        \* the wall clock

vars == <<disk, torn, corrupt, size, up, mem, fresh, checked, taken, now>>

-----------------------------------------------------------------------------
(* The replay cache *)

\* One cached message: pending while _pending_json holds its envelope, and the
\* time of its first acceptance.
Entry == [msg: Msgs, pending: BOOLEAN, at: 0 .. MaxTime]

Idle == [msg |-> "none", at |-> 0]

Ids(cache) == {cache[i].msg : i \in DOMAIN cache}

PendingIds(cache) == {cache[i].msg : i \in {j \in DOMAIN cache : cache[j].pending}}

\* Faulty variant: replays are looked up by content address only.
NonceUsedById(cache, m) == m \in Ids(cache)

NonceUsed(cache, m) == \E x \in Ids(cache) : Nonce[x] = Nonce[m]

Processed(cache, m) ==
    [i \in DOMAIN cache |->
        IF cache[i].msg = m THEN [cache[i] EXCEPT !.pending = FALSE] ELSE cache[i]]

\* Faulty variant: the oldest entry goes, whether or not it was processed.
VictimAny(cache) ==
    IF Len(cache) < MaxEntries THEN {} ELSE {cache[1].msg}

\* _remember_locked evicts the oldest processed entry when the cache is full.
Victim(cache) ==
    LET idle == {i \in DOMAIN cache : ~cache[i].pending}
    IN  IF Len(cache) < MaxEntries \/ idle = {} THEN {}
        ELSE {cache[CHOOSE i \in idle : \A j \in idle : i <= j].msg}

\* Room for one more, after the eviction if there is one.
HasRoom(cache) == Len(cache) < MaxEntries \/ Victim(cache) # {}

\* The cache without the entry of the victim, if there is one.
Evicted(cache, victim) ==
    LET gone  == {i \in DOMAIN cache : cache[i].msg \in victim}
        place == CHOOSE i \in gone : TRUE
    IN  IF gone = {} THEN cache
        ELSE [j \in 1 .. Len(cache) - 1 |-> IF j < place THEN cache[j] ELSE cache[j + 1]]

Remember(cache, e, victim) == Append(Evicted(cache, victim), e)

-----------------------------------------------------------------------------
(* Access to the journal, under the process lock *)

\* The fold refuses a corrupt journal on every call: the fingerprint is set
\* only after it went through.
Ready(p) == up[p] /\ (fresh[p] \/ ~corrupt)

\* Faulty variant: the operation trusts its memory without a re-fold.
CacheNoRefold(p) == mem[p]

\* The cache an operation of p works on, after _refold_if_changed_locked.
Cache(p) == IF fresh[p] THEN mem[p] ELSE disk

\* _load_cache_locked compacts an oversized journal before the operation.
Compacts(p) == ~fresh[p] /\ size > MaxJournal

LoadedSize(p) == IF Compacts(p) THEN Len(disk) ELSE size

\* Faulty variant: a compaction keeps only the entries still to be processed.
RewrittenPendingOnly(cache) == SelectSeq(cache, LAMBDA e : e.pending)

\* _compact_cache_journal_locked writes one "accepted" line per entry, with
\* envelope_json exactly for the pending ones: what that folds to.
Rewritten(cache) == cache

\* _append_cache_locked of one event that makes `cache' of the caller's fold,
\* then _compact_if_oversized_locked.  `accepted' says whether the fold of the
\* journal takes the event and `folded' what it then gives.  A failing rewrite
\* is swallowed (bound: the journal gets at most one line too long).  A line written
\* after a torn tail is glued to it.
Write(p, cache, accepted, folded) ==
    LET lines == LoadedSize(p) + 1
    IN  /\ \/ /\ lines > MaxJournal
              /\ disk' = Rewritten(cache)
              /\ corrupt' = FALSE
              /\ size' = Len(Rewritten(cache))
           \/ /\ lines <= MaxJournal + 1 \/ lines <= MaxEntries + 1
              /\ disk' = IF accepted THEN folded ELSE disk
              /\ corrupt' = (corrupt \/ (torn /\ ~Compacts(p)) \/ ~accepted)
              /\ size' = lines
        /\ torn' = FALSE
        /\ mem' = [mem EXCEPT ![p] = cache]
        /\ fresh' = [q \in Procs |-> q = p]

-----------------------------------------------------------------------------
(* Operations *)

\* accept(), before the lock: structure, signature, freshness, authority.  A
\* failure of any of them only writes the rejection log.
Validate(p, m) ==
    /\ up[p] /\ checked[p] = Idle
    /\ now < Expires[m]
    /\ checked' = [checked EXCEPT ![p] = [msg |-> m, at |-> now]]
    /\ taken' = "none"
    /\ UNCHANGED <<disk, torn, corrupt, size, up, mem, fresh, now>>

\* accept(), under the lock: neither a duplicate nor a replay, and there is room.
Accept(p) ==
    LET m == checked[p].msg
        c == Cache(p)
        e == [msg |-> m, pending |-> TRUE, at |-> checked[p].at]
    IN  /\ Ready(p) /\ checked[p] # Idle
        /\ m \notin Ids(c) /\ ~NonceUsed(c, m)
        /\ HasRoom(c)
        /\ Write(p, Remember(c, e, Victim(c)),
                 /\ m \notin Ids(disk) /\ ~NonceUsed(disk, m)
                 /\ Victim(c) \subseteq Ids(disk) \ PendingIds(disk),
                 Remember(disk, e, Victim(c)))
        /\ taken' = m
        /\ checked' = [checked EXCEPT ![p] = Idle]
        /\ UNCHANGED <<up, now>>

\* accept(), under the lock: duplicate, replayed nonce, or a cache full of
\* unprocessed envelopes; or the fold raises and the call with it.
Refuse(p) ==
    LET m == checked[p].msg
    IN  /\ up[p] /\ checked[p] # Idle
        /\ Ready(p) => m \in Ids(Cache(p)) \/ NonceUsed(Cache(p), m) \/ ~HasRoom(Cache(p))
        /\ mem' = [mem EXCEPT ![p] = IF Ready(p) THEN Cache(p) ELSE @]
        /\ size' = IF Ready(p) THEN LoadedSize(p) ELSE size
        /\ torn' = (torn /\ ~(Ready(p) /\ Compacts(p)))
        /\ fresh' = [q \in Procs |->
              IF q = p THEN Ready(p) ELSE fresh[q] /\ ~(Ready(p) /\ Compacts(p))]
        /\ checked' = [checked EXCEPT ![p] = Idle]
        /\ taken' = "none"
        /\ UNCHANGED <<disk, corrupt, up, now>>

\* mark_processed: the domain layer is done with the envelope.
MarkProcessed(p, m) ==
    LET c == Cache(p)
    IN  /\ Ready(p)
        /\ m \in PendingIds(c)
        /\ Write(p, Processed(c, m), m \in PendingIds(disk), Processed(disk, m))
        /\ taken' = "none"
        /\ UNCHANGED <<up, checked, now>>

\* seen, accepted_at, entry_count, pending: a re-fold and nothing else.
Read(p) ==
    /\ Ready(p) /\ ~fresh[p]
    /\ mem' = [mem EXCEPT ![p] = disk]
    /\ size' = LoadedSize(p)
    /\ torn' = (torn /\ ~Compacts(p))
    /\ fresh' = [q \in Procs |-> q = p \/ (fresh[q] /\ ~Compacts(p))]
    /\ taken' = "none"
    /\ UNCHANGED <<disk, corrupt, up, checked, now>>

-----------------------------------------------------------------------------
(* Processes and the environment *)

\* __init__: the first load, which compacts an oversized journal.
Start(p) ==
    /\ ~up[p] /\ ~corrupt
    /\ up' = [up EXCEPT ![p] = TRUE]
    /\ mem' = [mem EXCEPT ![p] = disk]
    /\ size' = LoadedSize(p)
    /\ torn' = (torn /\ ~Compacts(p))
    /\ fresh' = [q \in Procs |-> q = p \/ (fresh[q] /\ ~Compacts(p))]
    /\ taken' = "none"
    /\ UNCHANGED <<disk, corrupt, checked, now>>

Crash(p) ==
    /\ up[p]
    /\ up' = [up EXCEPT ![p] = FALSE]
    /\ mem' = [mem EXCEPT ![p] = <<>>]
    /\ fresh' = [fresh EXCEPT ![p] = FALSE]
    /\ checked' = [checked EXCEPT ![p] = Idle]
    /\ taken' = "none"
    /\ UNCHANGED <<disk, torn, corrupt, size, now>>

\* The write in _append_cache_events_locked stops before its newline, and the
\* process dies or lives on with an out-of-date fingerprint.
Tear(p) ==
    /\ ~torn
    /\ Ready(p)
    /\ torn' = TRUE
    /\ \E alive \in BOOLEAN :
          /\ up' = [up EXCEPT ![p] = alive]
          /\ mem' = [mem EXCEPT ![p] = IF alive THEN Cache(p) ELSE <<>>]
    /\ size' = LoadedSize(p)
    /\ fresh' = [q \in Procs |-> FALSE]
    /\ checked' = [checked EXCEPT ![p] = Idle]
    /\ taken' = "none"
    /\ UNCHANGED <<disk, corrupt, now>>

Tick ==
    /\ now < MaxTime
    /\ now' = now + 1
    /\ taken' = "none"
    /\ UNCHANGED <<disk, torn, corrupt, size, up, mem, fresh, checked>>

Init ==
    /\ disk = <<>> /\ torn = FALSE /\ corrupt = FALSE /\ size = 0
    /\ up = [p \in Procs |-> FALSE]
    /\ mem = [p \in Procs |-> <<>>]
    /\ fresh = [p \in Procs |-> FALSE]
    /\ checked = [p \in Procs |-> Idle]
    /\ taken = "none"
    /\ now = 0

Next ==
    \/ \E p \in Procs, m \in Msgs : Validate(p, m) \/ MarkProcessed(p, m)
    \/ \E p \in Procs : Accept(p) \/ Refuse(p) \/ Read(p)
    \/ \E p \in Procs : Start(p) \/ Crash(p) \/ Tear(p)
    \/ Tick

Spec == Init /\ [][Next]_vars

-----------------------------------------------------------------------------
(* Properties *)

\* Every variable has its type, and neither the journal nor any memory holds
\* more entries than the cache may.
TypeOK ==
    /\ disk \in Seq(Entry) /\ Len(disk) <= MaxEntries
    /\ torn \in BOOLEAN /\ corrupt \in BOOLEAN
    /\ size \in Nat
    /\ up \in [Procs -> BOOLEAN]
    /\ mem \in [Procs -> Seq(Entry)] /\ \A p \in Procs : Len(mem[p]) <= MaxEntries
    /\ fresh \in [Procs -> BOOLEAN]
    /\ checked \in [Procs -> [msg: Msgs, at: 0 .. MaxTime] \cup {Idle}]
    /\ taken \in Msgs \cup {"none"}
    /\ now \in 0 .. MaxTime

\* A process that skips the re-fold holds the journal's fold, the order of
\* eviction included.
MemoryIsTheFold ==
    \A p \in Procs : up[p] /\ fresh[p] /\ ~corrupt => mem[p] = disk

\* The types and the bound of the cache are right, and each message and each
\* (sender, nonce) pair is in the cache at most once.
NoReplayCached ==
    /\ TypeOK
    /\ \A i, j \in DOMAIN disk : Nonce[disk[i].msg] = Nonce[disk[j].msg] => i = j

\* accept() never succeeds for a message the journal still remembers, or for a
\* nonce it remembers, even when freshness was checked long before the commit.
RememberedIsRefused ==
    [][taken' # "none" => ~NonceUsed(disk, taken')]_vars

\* Work that was accepted and not yet processed is never lost, by eviction or
\* by compaction, and keeps the time of its first acceptance.
PendingNeverLost ==
    [][\A i \in DOMAIN disk : disk[i].pending =>
          \E j \in DOMAIN disk' : /\ disk'[j].msg = disk[i].msg
                                  /\ disk'[j].at = disk[i].at]_vars

\* The only way to a journal that does not fold is a line glued to a torn tail:
\* no interleaving makes a process repeat a message or a nonce, process twice,
\* or evict pending work.
OnlyGluingCorrupts == [][~corrupt /\ corrupt' => torn]_vars
=============================================================================
