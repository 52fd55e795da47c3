---------------------------- MODULE CourierSpray ----------------------------
(***************************************************************************)
(* nth_dao/delivery/courier_spray.py: one message sealed onto several      *)
(* carriers, whose remaining copies are cancelled once one is delivered.   *)
(*                                                                         *)
(* register, pending_sprays, stats and compact run under the file lock and *)
(* are one action each.  cancel_siblings takes the lock to read, then      *)
(* again for every event it appends, and each carrier's store has a lock   *)
(* of its own, so it is a job of several actions that other processes and  *)
(* the recipient interleave with.  Every operation re-reads the journal,   *)
(* so a process keeps nothing but the job it is in.                        *)
(*                                                                         *)
(* The carriers' stores (CourierStore) are kept as the copies they hold.   *)
(* register only writes them down: the host puts them into the stores      *)
(* after it, and cancel_siblings may have been there before.               *)
(***************************************************************************)
EXTENDS Integers, FiniteSets

CONSTANTS
    Procs,        \* processes that use the spray directory
    Carriers,     \* carrier names
    MaxCarriers,  \* max_carriers
    MaxSprays,    \* max_sprays: pending sprays
    MaxHistory,   \* max_history: completed sprays kept
    MaxIds,       \* bound: sprays that are registered
    MaxSlips      \* bound: calls that die and appends that are cut short

ASSUME SprayConstants ==
    /\ IsFiniteSet(Carriers)
    /\ MaxCarriers \in Nat \ {0} /\ MaxSprays \in Nat \ {0} /\ MaxHistory \in Nat \ {0}
    /\ MaxIds \in Nat /\ MaxSlips \in Nat

VARIABLES
    journal,  \* the fold of the journal: what it says of each spray it knows
    torn,     \* the journal does not end in a newline
    corrupt,  \* _load raises CourierSprayError
    used,     \* how many sprays register has returned
    copy,     \* what became of the copy of each spray for each carrier
    job,      \* the cancel_siblings call each process is in
    slips     \* how many calls died or were cut short in an append

vars == <<journal, torn, corrupt, used, copy, job, slips>>

-----------------------------------------------------------------------------
(* The journal *)

\* The random spray ids are replaced by their order of registration, in which _load
\* and the snapshot keep the sprays.
Sprays == 1 .. MaxIds

\* `left' is the key set of carrier_digests: the copies not yet accounted for.
Spray == [left: SUBSET Carriers, done: BOOLEAN]

Done(sprays) == {id \in DOMAIN sprays : sprays[id].done}

PendingIn(sprays) == {id \in DOMAIN sprays : ~sprays[id].done}

After(S, id) == {k \in S : k > id}

\* _prune_completed_locked forgets the oldest completed sprays beyond the
\* history limit.
Pruned(sprays) ==
    LET kept == {id \in DOMAIN sprays :
                    sprays[id].done =>
                        Cardinality(After(Done(sprays), id)) < MaxHistory}
    IN  [id \in kept |-> sprays[id]]

\* Faulty variant: _load wants every carrier to be dropped once.
AppendEventOnce(id, dropped, completed) ==
    /\ IF ~torn /\ id \in DOMAIN journal /\ dropped \subseteq journal[id].left
       THEN /\ journal' = [journal EXCEPT ![id].left = @ \ dropped,
                                          ![id].done = @ \/ completed]
            /\ UNCHANGED corrupt
       ELSE corrupt' = TRUE /\ UNCHANGED journal
    /\ torn' = FALSE

\* One line appended by _append, which neither re-reads nor checks.  _load refuses
\* an event of a spray it does not know, and a line that was glued to a torn one.
AppendEvent(id, dropped, completed) ==
    /\ IF ~torn /\ id \in DOMAIN journal
       THEN /\ journal' = [journal EXCEPT ![id].left = @ \ dropped,
                                          ![id].done = @ \/ completed]
            /\ UNCHANGED corrupt
       ELSE corrupt' = TRUE /\ UNCHANGED journal
    /\ torn' = FALSE

\* "delivered" and "cancelled" drop the carrier, "completed" closes the spray.
AppendDrop(id, c) == AppendEvent(id, {c}, FALSE)

AppendCompleted(id) == AppendEvent(id, {}, TRUE)

\* _refresh_from_disk_locked: _load, which ignores a torn final line, prune, and
\* write the snapshot if anything was pruned.  (An oversized journal is rewritten
\* too, which is Compact and then the operation.)
Refresh ==
    /\ ~corrupt
    /\ journal' = Pruned(journal)
    /\ torn' = (torn /\ Pruned(journal) = journal)

-----------------------------------------------------------------------------
(* The copies *)

\* A copy is sealed, which is an envelope the host has yet to put into the carrier's
\* store, then held there, and in the end taken over by the recipient, whose handover
\* removes it (CourierHandover), or gone.  It is missed when discard_digest comes
\* before it, and late when it follows.
Copy == {"none", "sealed", "held", "taken", "gone", "missed", "late"}

\* discard_digest of the carrier's store, which is idempotent.
Discarded(k) ==
    CASE k \in {"held", "late"} -> "gone"
      [] k = "sealed"           -> "missed"
      [] OTHER                  -> k

Deposited(k) == IF k = "sealed" THEN "held" ELSE "late"

Taken(id) == {c \in Carriers : copy[id][c] = "taken"}

-----------------------------------------------------------------------------
(* register, and the operations that only refresh *)

\* The caller has sealed one copy for each carrier and registers them.
Register(p, C) ==
    LET id    == used + 1
        glued == torn /\ Pruned(journal) = journal
    IN  /\ job[p].step = "idle"
        /\ Cardinality(C) <= MaxCarriers
        /\ id \in Sprays
        /\ ~corrupt
        /\ Cardinality(PendingIn(journal)) < MaxSprays
        /\ corrupt' = glued
        /\ journal' = [k \in DOMAIN Pruned(journal) \cup (IF glued THEN {} ELSE {id}) |->
              IF k = id THEN [left |-> C, done |-> FALSE] ELSE journal[k]]
        /\ torn' = FALSE
        /\ used' = id
        /\ copy' = [copy EXCEPT ![id] = [c \in Carriers |-> IF c \in C THEN "sealed" ELSE "none"]]
        /\ UNCHANGED <<job, slips>>

\* pending_sprays, stats, and the refresh in __init__.
Read(p) ==
    /\ job[p].step = "idle"
    /\ Refresh
    /\ UNCHANGED <<corrupt, used, copy, job, slips>>

\* compact, which always writes the snapshot.
Compact(p) ==
    /\ job[p].step = "idle"
    /\ ~corrupt
    /\ journal' = Pruned(journal)
    /\ torn' = FALSE
    /\ UNCHANGED <<corrupt, used, copy, job, slips>>

-----------------------------------------------------------------------------
(* cancel_siblings *)

Idle == [step |-> "idle", id |-> 0, by |-> "none", left |-> {}, todo |-> {}]

\* Faulty variant: a spray of which nothing is left to cancel returns as well.
BeginIfLeft(p, id, d) ==
    LET s == Pruned(journal)[id]
    IN  /\ job[p].step = "idle"
        /\ d \in Taken(id)
        /\ Refresh
        /\ id \in DOMAIN Pruned(journal) /\ ~s.done /\ s.left # {}
        /\ job' = [job EXCEPT ![p] =
              [step |-> IF d \in s.left THEN "deliver" ELSE "sweep",
               id |-> id, by |-> d, left |-> s.left, todo |-> s.left]]
        /\ UNCHANGED <<corrupt, used, copy, slips>>

\* Under the lock: refresh and look the spray up.  A completed spray returns.
Begin(p, id, d) ==
    LET s == Pruned(journal)[id]
    IN  /\ job[p].step = "idle"
        /\ d \in Taken(id)
        /\ Refresh
        /\ id \in DOMAIN Pruned(journal) /\ ~s.done
        /\ job' = [job EXCEPT ![p] =
              [step |-> IF d \in s.left THEN "deliver" ELSE "sweep",
               id |-> id, by |-> d, left |-> s.left, todo |-> s.left]]
        /\ UNCHANGED <<corrupt, used, copy, slips>>

\* The delivering carrier's copy is accounted for first.
RecordDelivered(p) ==
    /\ job[p].step = "deliver"
    /\ AppendDrop(job[p].id, job[p].by)
    /\ job' = [job EXCEPT ![p].step = "sweep",
                          ![p].left = @ \ {job[p].by}, ![p].todo = @ \ {job[p].by}]
    /\ UNCHANGED <<used, copy, slips>>

\* Faulty variant: an unreachable carrier is written off.
SkipAsCancelled(p, c) ==
    /\ job[p].step = "sweep" /\ c \in job[p].todo
    /\ job' = [job EXCEPT ![p].step = "record", ![p].by = c, ![p].todo = @ \ {c}]
    /\ UNCHANGED <<journal, torn, corrupt, used, copy, slips>>

\* The carrier's store is not at hand, or discard_digest raises.
Skip(p, c) ==
    /\ job[p].step = "sweep" /\ c \in job[p].todo
    /\ job' = [job EXCEPT ![p].todo = @ \ {c}]
    /\ UNCHANGED <<journal, torn, corrupt, used, copy, slips>>

\* discard_digest, under the lock of the carrier's store.
Discard(p, c) ==
    /\ job[p].step = "sweep" /\ c \in job[p].todo
    /\ copy' = [copy EXCEPT ![job[p].id][c] = Discarded(@)]
    /\ job' = [job EXCEPT ![p].step = "record", ![p].by = c, ![p].todo = @ \ {c}]
    /\ UNCHANGED <<journal, torn, corrupt, used, slips>>

\* The "cancelled" event follows, under the lock of the journal.
RecordCancelled(p) ==
    /\ job[p].step = "record"
    /\ AppendDrop(job[p].id, job[p].by)
    /\ job' = [job EXCEPT ![p].step = "sweep", ![p].left = @ \ {job[p].by}]
    /\ UNCHANGED <<used, copy, slips>>

\* The call closes the spray when no carrier of its view is left.
Closing(p) == job[p].step = "sweep" /\ job[p].todo = {} /\ job[p].left = {}

Finish(p) ==
    /\ job[p].step = "sweep" /\ job[p].todo = {}
    /\ IF Closing(p) THEN AppendCompleted(job[p].id) ELSE UNCHANGED <<journal, torn, corrupt>>
    /\ job' = [job EXCEPT ![p] = Idle]
    /\ UNCHANGED <<used, copy, slips>>

-----------------------------------------------------------------------------
(* The environment *)

\* The host puts the copy into the carrier's store (seal_into), once.
Deposit(id, c) ==
    /\ copy[id][c] \in {"sealed", "missed"}
    /\ copy' = [copy EXCEPT ![id][c] = Deposited(@)]
    /\ UNCHANGED <<journal, torn, corrupt, used, job, slips>>

\* The recipient accepts the copy of one carrier (courier_handover.py).
HandOver(id, c) ==
    /\ copy[id][c] \in {"held", "late"}
    /\ copy' = [copy EXCEPT ![id][c] = "taken"]
    /\ UNCHANGED <<journal, torn, corrupt, used, job, slips>>

\* The process dies inside cancel_siblings, or an append raises after its line.
Crash(p) ==
    /\ job[p].step # "idle" /\ slips < MaxSlips
    /\ job' = [job EXCEPT ![p] = Idle]
    /\ slips' = slips + 1
    /\ UNCHANGED <<journal, torn, corrupt, used, copy>>

\* An append of cancel_siblings stops before its newline, and ends the call.
TearEvent(p) ==
    /\ job[p].step \in {"deliver", "record"} \/ Closing(p)
    /\ slips < MaxSlips
    /\ torn' = TRUE
    /\ job' = [job EXCEPT ![p] = Idle]
    /\ slips' = slips + 1
    /\ UNCHANGED <<journal, corrupt, used, copy>>

\* The append of register does, after its refresh; the caller gets no spray.
TearRegister(p) ==
    /\ job[p].step = "idle" /\ ~corrupt
    /\ Cardinality(PendingIn(journal)) < MaxSprays
    /\ slips < MaxSlips
    /\ journal' = Pruned(journal)
    /\ torn' = TRUE
    /\ slips' = slips + 1
    /\ UNCHANGED <<corrupt, used, copy, job>>

Init ==
    /\ journal = <<>> /\ torn = FALSE /\ corrupt = FALSE
    /\ used = 0
    /\ copy = [id \in Sprays |-> [c \in Carriers |-> "none"]]
    /\ job = [p \in Procs |-> Idle]
    /\ slips = 0

Step(p) ==
    \/ RecordDelivered(p) \/ RecordCancelled(p) \/ Finish(p)
    \/ \E c \in Carriers : Skip(p, c) \/ Discard(p, c)

Next ==
    \/ \E p \in Procs, C \in SUBSET Carriers \ {{}} : Register(p, C)
    \/ \E p \in Procs, id \in Sprays, d \in Carriers : Begin(p, id, d)
    \/ \E p \in Procs : Step(p) \/ Read(p) \/ Compact(p)
    \/ \E p \in Procs : Crash(p) \/ TearEvent(p) \/ TearRegister(p)
    \/ \E id \in Sprays, c \in Carriers : Deposit(id, c) \/ HandOver(id, c)

Spec == Init /\ [][Next]_vars

\* The host calls cancel_siblings again for a spray that is pending, a call that does
\* not die goes on, and no carrier is out of reach every time it is looked for.
Fairness ==
    /\ \A id \in Sprays : SF_vars(\E p \in Procs, d \in Carriers : Begin(p, id, d))
    /\ \A p \in Procs : WF_vars(Step(p))
    /\ \A id \in Sprays, c \in Carriers :
          SF_vars(\E p \in Procs : job[p].id = id /\ Discard(p, c))

FairSpec == Spec /\ Fairness

-----------------------------------------------------------------------------
(* Properties *)

\* Every variable has its type, and no more sprays are pending than the cap
\* allows: register decides on the journal of all processes.
TypeOK ==
    /\ used \in 0 .. MaxIds
    /\ DOMAIN journal \subseteq 1 .. used /\ journal \in [DOMAIN journal -> Spray]
    /\ Cardinality(PendingIn(journal)) <= MaxSprays
    /\ torn \in BOOLEAN /\ corrupt \in BOOLEAN
    /\ copy \in [Sprays -> [Carriers -> Copy]]
    /\ job \in [Procs -> [step: {"idle", "deliver", "sweep", "record"},
                          id: 0 .. MaxIds, by: Carriers \cup {"none"},
                          left: SUBSET Carriers, todo: SUBSET Carriers]]
    /\ slips \in 0 .. MaxSlips

\* The copy is on its carrier, or on its way there, and no cancel_siblings has come
\* before it.
Live(id, c) == copy[id][c] \in {"sealed", "held"}

\* The types are right and, while the journal loads, a live copy is accounted for:
\* its spray is in the journal, pending, and the carrier among those left.  So no
\* order of crashes, unreachable carriers, torn appends and concurrent
\* cancellations orphans a copy; only the host does, that puts one into a store
\* after cancel_siblings was there.
CopiesTracked ==
    /\ TypeOK
    /\ ~corrupt => \A id \in Sprays, c \in Carriers : Live(id, c) =>
          id \in DOMAIN journal /\ ~journal[id].done /\ c \in journal[id].left

\* Events that two calls of cancel_siblings write for one spray, in any order and
\* more than once, never make _load raise.  What does is a line glued to a torn one,
\* and the event of a call whose spray another call has completed and a refresh has
\* pruned in the meantime, which no spray with a live copy is.
JournalStaysLoadable ==
    [][~corrupt /\ corrupt' =>
          \/ torn
          \/ \E p \in Procs :
                /\ job'[p] # job[p] /\ job[p].id \in (1 .. used) \ DOMAIN journal
                /\ \A c \in Carriers : ~Live(job[p].id, c)]_vars

\* A spray of which a copy was delivered is completed in the end, whatever calls of
\* cancel_siblings die between two of their writes, unless the journal is lost.
SpraysAreClosed ==
    \A id \in Sprays :
        Taken(id) # {} ~> corrupt \/ id \notin DOMAIN journal \/ journal[id].done
=============================================================================
