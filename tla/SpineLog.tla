------------------------------- MODULE SpineLog -------------------------------
(***************************************************************************)
(* nth_dao/spine/log.py: the signed append-only event log of a node, a     *)
(* file of one event per line that processes append to under a file lock.  *)
(*                                                                         *)
(* Before a line is written, the whole line and the size of the file go    *)
(* into an intent file; every operation starts by completing an intent it  *)
(* finds.  A process may die between any two writes, and each write may    *)
(* raise OSError with or without an effect.  A caller that is told that    *)
(* the outcome is unknown reconciles before it asks again.                 *)
(*                                                                         *)
(* An event is the request it was made for and its seq, which with         *)
(* prev_hash chains it to the event before it.                             *)
(***************************************************************************)
EXTENDS Integers, Sequences, Functions

CONSTANTS
    Procs,      \* processes of the node
    Requests,   \* requests to append an event
    KeyOf,      \* the semantic key of each request's payload; "none": append()
    ValOf,      \* the rest of its payload
    Batches,    \* sequences of requests that are asked for in one call
    MaxFaults   \* bound: this many crashes and failing writes

None == "none"

ASSUME SpineConstants ==
    /\ None \notin Procs
    /\ MaxFaults \in Nat
    /\ Batches \subseteq Seq(Requests)
    /\ \A b \in Batches : Len(b) > 1 => \A i \in DOMAIN b : KeyOf[b[i]] # "none"

VARIABLES
    log,      \* the events on complete lines of the file
    torn,     \* bytes of an incomplete line follow them
    intent,   \* the intent file
    lock,     \* who holds the InterProcessLock
    cache,    \* the events each process has verified, with their token
    job,      \* the call each process is in
    answer,   \* what the caller of each request knows
    faults    \* how many crashes and failing writes there were

vars == <<log, torn, intent, lock, cache, job, answer, faults>>

Event == [req: Requests, seq: Nat]

NoIntent == [base |-> -1, event |-> [req |-> None, seq |-> 0]]

\* step: where the call is; goal: which operation it is; batch: what it was asked
\* for; todo: the prepared events that are not written yet; wrote: those whose
\* intent may be durable, and after an unknown outcome those to reconcile.
Job == [step: {"idle", "recover", "rewrite", "verify", "intent", "record", "clear", "finish",
               "unsure"},
        goal: {None, "append", "reconcile"}, batch: Batches \cup {<<>>},
        todo: Seq(Event), wrote: Seq(Event)]

Idle == [step |-> "idle", goal |-> None, batch |-> <<>>, todo |-> <<>>, wrote |-> <<>>]

Unsure(wrote) == [step |-> "unsure", goal |-> None, batch |-> <<>>, todo |-> <<>>, wrote |-> wrote]

-----------------------------------------------------------------------------
(* Verification and planning *)

Requested(events) == [i \in DOMAIN events |-> events[i].req]

\* What a process remembers of the file.  valid: it has a storage token; events:
\* the events it verified; built, owners: the index of their semantic keys, once it
\* is built.
Memory == [valid: BOOLEAN, events: Seq(Event), built: BOOLEAN, owners: SUBSET Requests]

Nothing == [valid |-> FALSE, events |-> <<>>, built |-> FALSE, owners |-> {}]

\* Faulty variant: the token of the cache is not compared with the file.
KnownFromCache(p) == IF cache[p].valid THEN cache[p].events ELSE log

\* _verified_events_cached_unlocked: the cached events if the token, which is
\* bound to the content, is that of the file, else those of a new scan.
Known(p) == IF cache[p].valid /\ cache[p].events = log THEN cache[p].events ELSE log

\* Faulty variant: an index that is there is left as it is.
RememberedOldIndex(c, events) ==
    IF IsRestriction(c.events, events)
    THEN [c EXCEPT !.valid = TRUE, !.events = events]
    ELSE [Nothing EXCEPT !.valid = TRUE, !.events = events]

\* _remember_verified_unlocked extends the index if the events were only extended.
Remembered(c, events) ==
    IF IsRestriction(c.events, events)
    THEN [valid |-> TRUE, events |-> events, built |-> c.built,
          owners |-> IF c.built
                     THEN c.owners \cup {events[i].req : i \in Len(c.events) + 1 .. Len(events)}
                     ELSE {}]
    ELSE [Nothing EXCEPT !.valid = TRUE, !.events = events]

\* _semantic_index_unlocked builds the index from the events unless it is there.
Indexed(c) ==
    [valid |-> c.valid, events |-> c.events, built |-> TRUE,
     owners |-> IF c.built THEN c.owners ELSE Range(Requested(c.events))]

\* r and s are append_unique payloads with the same value in the unique field.
SameKey(r, s) == KeyOf[r] # None /\ KeyOf[r] = KeyOf[s]

\* Some payload of the batch has the key of an event, or of an earlier payload of
\* the batch, and differs from it.
Conflicts(batch, owners) ==
    \E i \in DOMAIN batch : \E s \in owners \cup {batch[j] : j \in 1 .. i - 1} :
        SameKey(batch[i], s) /\ ValOf[batch[i]] # ValOf[s]

\* What the loop over the payloads plans: at[i] is the place in the batch of the
\* i-th payload that needs an event of its own.  The others are those whose key has
\* an event, or a payload planned before them.
Plans(batch, owners) ==
    {at \in UNION {[1 .. n -> DOMAIN batch] : n \in 0 .. Len(batch)} :
        /\ \A i, j \in DOMAIN at : i < j => at[i] < at[j]
        /\ \A k \in DOMAIN batch : k \notin Range(at) <=>
              \E s \in owners \cup {batch[at[i]] : i \in {i \in DOMAIN at : at[i] < k}} :
                  SameKey(batch[k], s)}

\* _prepare_append for each of them: signed with the seq it will have.
Prepared(at, batch, events) ==
    [i \in DOMAIN at |-> [req |-> batch[at[i]], seq |-> Len(events) + i - 1]]

-----------------------------------------------------------------------------
(* The start and the end of a call *)

Answered(R, a) == [r \in Requests |-> IF r \in R THEN a ELSE answer[r]]

\* append, append_unique_many; with the empty batch, the queries that recover
\* and verify: verified_snapshot, find_unique_event, get_verified_event,
\* verify_chain, and _load_head of a new process.
Ask(p, batch) ==
    /\ job[p] = Idle /\ lock = None
    /\ \A i \in DOMAIN batch : answer[batch[i]] = "none"
    /\ lock' = p
    /\ answer' = Answered(Range(batch), "asked")
    /\ job' = [job EXCEPT ![p] = [step |-> "recover", goal |-> "append", batch |-> batch,
                                  todo |-> <<>>, wrote |-> <<>>]]
    /\ UNCHANGED <<log, torn, intent, cache, faults>>

\* reconcile_append, for the first event in doubt.
Reconcile(p) ==
    /\ job[p].step = "unsure" /\ lock = None
    /\ lock' = p
    /\ job' = [job EXCEPT ![p] = [job[p] EXCEPT !.step = "recover", !.goal = "reconcile"]]
    /\ UNCHANGED <<log, torn, intent, cache, answer, faults>>

\* The call returns or raises, and R hear a.
Return(p, R, a) ==
    /\ lock' = None
    /\ answer' = Answered(R, a)
    /\ job' = [job EXCEPT ![p] = Idle]

Fault == faults < MaxFaults /\ faults' = faults + 1

\* A write fails, and reading the file back fails as well.
TwoFaults == faults + 1 < MaxFaults /\ faults' = faults + 2

\* Faulty variant: the exception leaves the file locked.
UnknownKeepsLock(p, wrote) ==
    /\ cache' = [cache EXCEPT ![p] = Nothing]
    /\ answer' = Answered(Range(job[p].batch) \ Range(Requested(wrote)), "none")
    /\ job' = [job EXCEPT ![p] = Unsure(wrote)]
    /\ UNCHANGED lock

\* SpineAppendOutcomeUnknown with event_ids of the events in wrote.  The others of
\* the batch have semantic keys, and their caller is free to ask again.
Unknown(p, wrote) ==
    /\ lock' = None
    /\ cache' = [cache EXCEPT ![p] = Nothing]
    /\ answer' = Answered(Range(job[p].batch) \ Range(Requested(wrote)), "none")
    /\ job' = [job EXCEPT ![p] = Unsure(wrote)]

-----------------------------------------------------------------------------
(* Recovery and verification, at the start of every call *)

\* _recover_pending_append_unlocked: nothing to recover.
RecoverNothing(p) ==
    /\ job[p].step = "recover" /\ intent = NoIntent
    /\ job' = [job EXCEPT ![p].step = "verify"]
    /\ UNCHANGED <<log, torn, intent, lock, cache, answer, faults>>

\* The line is there in full: the intent file goes.
RecoverWritten(p) ==
    /\ job[p].step = "recover" /\ intent # NoIntent /\ Len(log) > intent.base
    /\ intent' = NoIntent
    /\ cache' = [cache EXCEPT ![p] = Remembered(cache[p], log)]
    /\ job' = [job EXCEPT ![p].step = "verify"]
    /\ UNCHANGED <<log, torn, lock, answer, faults>>

\* It is not: the file is cut back to base_size ...
RecoverTruncate(p) ==
    /\ job[p].step = "recover" /\ intent # NoIntent /\ Len(log) = intent.base
    /\ torn' = FALSE
    /\ job' = [job EXCEPT ![p].step = "rewrite"]
    /\ UNCHANGED <<log, intent, lock, cache, answer, faults>>

\* ... and the line written again.
RecoverWrite(p) ==
    /\ job[p].step = "rewrite"
    /\ log' = Append(log, intent.event)
    /\ job' = [job EXCEPT ![p].step = "recover"]
    /\ UNCHANGED <<torn, intent, lock, cache, answer, faults>>

\* A write of the recovery fails, with or without its effect, and the call raises
\* OSError.  What it was asked for may be asked again.
RecoverFails(p) ==
    /\ job[p].step \in {"recover", "rewrite"} /\ intent # NoIntent
    /\ Fault
    /\ \/ job[p].step = "recover" /\ torn' \in {torn, FALSE} /\ UNCHANGED <<log, intent>>
       \/ /\ job[p].step = "recover" /\ Len(log) > intent.base
          /\ intent' = NoIntent /\ UNCHANGED <<log, torn>>
       \/ job[p].step = "rewrite" /\ torn' \in BOOLEAN /\ UNCHANGED <<log, intent>>
       \/ /\ job[p].step = "rewrite"
          /\ log' = Append(log, intent.event) /\ UNCHANGED <<torn, intent>>
    /\ lock' = None
    /\ cache' = [cache EXCEPT ![p] = IF job[p].batch # <<>> THEN Nothing
                                     ELSE IF Len(log) > intent.base THEN Remembered(cache[p], log)
                                     ELSE cache[p]]
    /\ answer' = IF job[p].goal = "append" THEN Answered(Range(job[p].batch), "none") ELSE answer
    /\ job' = [job EXCEPT ![p] = IF job[p].goal = "append" THEN Idle ELSE Unsure(job[p].wrote)]

\* The rest of the call up to the first write: conflicts and validation come before
\* it, and a batch that is already there needs none.
Plan(p) ==
    LET batch  == job[p].batch
        unique == \E r \in Range(batch) : KeyOf[r] # None
        now    == Remembered(cache[p], Known(p))
        owners == IF unique THEN Indexed(now).owners ELSE {}
    IN  /\ job[p].step = "verify" /\ job[p].goal = "append"
        /\ \E c \in IF batch = <<>> THEN {now, Indexed(now)}
                   ELSE {IF unique THEN Indexed(now) ELSE now} : cache' = [cache EXCEPT ![p] = c]
        /\ IF Conflicts(batch, owners) THEN Return(p, Range(batch), "conflict")
           ELSE \E at \in Plans(batch, owners) :
                   IF at = <<>> THEN Return(p, Range(batch), "done")
                   ELSE /\ job' = [job EXCEPT ![p] = [job[p] EXCEPT !.step = "intent",
                                                      !.todo = Prepared(at, batch, Known(p))]]
                        /\ UNCHANGED <<lock, answer>>
        /\ UNCHANGED <<log, torn, intent, faults>>

\* reconcile_append answers for one event; the caller goes on to the next.
Resolve(p) ==
    LET e == Head(job[p].wrote)
    IN  /\ job[p].step = "verify" /\ job[p].goal = "reconcile"
        /\ cache' = [cache EXCEPT ![p] = Remembered(cache[p], Known(p))]
        /\ answer' = Answered({e.req}, IF e \in Range(Known(p)) THEN "done" ELSE "none")
        /\ lock' = None
        /\ job' = [job EXCEPT ![p] = IF Len(job[p].wrote) = 1 THEN Idle
                      ELSE Unsure(Tail(job[p].wrote))]
        /\ UNCHANGED <<log, torn, intent, faults>>

-----------------------------------------------------------------------------
(* _append_prepared, for one event after the other *)

WriteIntent(p) ==
    /\ job[p].step = "intent"
    /\ intent' = [base |-> Len(log), event |-> Head(job[p].todo)]
    /\ cache' = [cache EXCEPT ![p].valid = FALSE]
    /\ job' = [job EXCEPT ![p] = [job[p] EXCEPT !.step = "record",
                                  !.wrote = Append(job[p].wrote, Head(job[p].todo))]]
    /\ UNCHANGED <<log, torn, lock, answer, faults>>

\* atomic_write_bytes raises, before or after the file is replaced, and the file is
\* read back.  The outcome is known only if the file can be read and is not there, and
\* nothing of the batch is written.
IntentFails(p) ==
    LET e == Head(job[p].todo)
    IN  /\ job[p].step = "intent"
        /\ intent' \in {intent, [base |-> Len(log), event |-> e]}
        /\ \/ /\ IF intent' = NoIntent THEN TwoFaults ELSE Fault
              /\ Unknown(p, Append(job[p].wrote, e))
           \/ /\ intent' = NoIntent /\ job[p].wrote # <<>> /\ Fault
              /\ Unknown(p, job[p].wrote)
           \/ /\ intent' = NoIntent /\ job[p].wrote = <<>> /\ Fault
              /\ Return(p, Range(job[p].batch), "none")
              /\ cache' = [cache EXCEPT ![p] = Nothing]
        /\ UNCHANGED <<log, torn>>

WriteRecord(p) ==
    /\ job[p].step = "record"
    /\ log' = Append(log, Head(job[p].todo))
    /\ job' = [job EXCEPT ![p] = [job[p] EXCEPT !.step = "clear", !.todo = Tail(job[p].todo)]]
    /\ UNCHANGED <<torn, intent, lock, cache, answer, faults>>

\* None, some or all of the line is in the file when the write raises.
RecordFails(p) ==
    /\ job[p].step = "record" /\ Fault
    /\ \/ torn' \in BOOLEAN /\ UNCHANGED log
       \/ log' = Append(log, Head(job[p].todo)) /\ UNCHANGED torn
    /\ Unknown(p, job[p].wrote)
    /\ UNCHANGED intent

\* The intent is removed; if that fails there is only a warning.
ClearIntent(p) ==
    /\ job[p].step = "clear"
    /\ \/ intent' = NoIntent /\ UNCHANGED faults
       \/ Fault /\ UNCHANGED intent
    /\ job' = [job EXCEPT ![p].step = IF job[p].todo = <<>> THEN "finish" ELSE "intent"]
    /\ UNCHANGED <<log, torn, lock, cache, answer>>

\* The new events are remembered as verified, and the call returns.
Finish(p) ==
    /\ job[p].step = "finish"
    /\ cache' = [cache EXCEPT ![p] = Remembered(cache[p], log)]
    /\ Return(p, Range(job[p].batch), "done")
    /\ UNCHANGED <<log, torn, intent, faults>>

\* Reading the file again or releasing the lock raises OSError.
FinishFails(p) ==
    /\ job[p].step = "finish" /\ Fault
    /\ Unknown(p, job[p].wrote)
    /\ UNCHANGED <<log, torn, intent>>

\* A process dies.  The lock goes with it; a write in progress may be cut short.
\* Requests with a key may be asked again by another process.
Crash(p) ==
    LET asked == Range(job[p].batch) \cup Range(Requested(job[p].wrote))
    IN  /\ job[p] # Idle /\ Fault
        /\ torn' \in IF job[p].step \in {"record", "rewrite"} THEN BOOLEAN ELSE {torn}
        /\ lock' = IF lock = p THEN None ELSE lock
        /\ cache' = [cache EXCEPT ![p] = Nothing]
        /\ answer' = [r \in Requests |-> IF r \notin asked \/ answer[r] # "asked" THEN answer[r]
                                         ELSE IF KeyOf[r] = None THEN "lost" ELSE "none"]
        /\ job' = [job EXCEPT ![p] = Idle]
        /\ UNCHANGED <<log, intent>>

-----------------------------------------------------------------------------
Init ==
    /\ log = <<>> /\ torn = FALSE /\ intent = NoIntent
    /\ lock = None
    /\ cache = [p \in Procs |-> Nothing]
    /\ job = [p \in Procs |-> Idle]
    /\ answer = [r \in Requests |-> "none"]
    /\ faults = 0

Step(p) ==
    \/ Reconcile(p)
    \/ RecoverNothing(p) \/ RecoverWritten(p) \/ RecoverTruncate(p) \/ RecoverWrite(p)
    \/ Plan(p) \/ Resolve(p)
    \/ WriteIntent(p) \/ WriteRecord(p) \/ ClearIntent(p) \/ Finish(p)

Fail(p) ==
    RecoverFails(p) \/ IntentFails(p) \/ RecordFails(p) \/ FinishFails(p) \/ Crash(p)

Next == \E p \in Procs : (\E batch \in Batches : Ask(p, batch)) \/ Step(p) \/ Fail(p)

Spec == Init /\ [][Next]_vars

\* A call that has begun goes on, and a caller in doubt that keeps trying gets the
\* lock in the end.
Fairness == \A p \in Procs : SF_vars(Step(p))

FairSpec == Spec /\ Fairness

-----------------------------------------------------------------------------
(* Properties *)

\* Every variable has its type.
TypeOK ==
    /\ log \in Seq(Event)
    /\ torn \in BOOLEAN
    /\ intent \in {NoIntent} \cup [base: Nat, event: Event]
    /\ lock \in Procs \cup {None}
    /\ cache \in [Procs -> Memory]
    /\ job \in [Procs -> Job]
    /\ answer \in [Requests -> {"none", "asked", "done", "conflict", "lost"}]
    /\ faults \in 0 .. MaxFaults

\* The chain is unbroken, and if the file ends in an incomplete line there is an
\* intent that continues the lines before it.
Recoverable ==
    /\ \A i \in DOMAIN log : log[i].seq = i - 1
    /\ torn => intent # NoIntent
    /\ intent # NoIntent =>
          /\ intent.event.seq = intent.base
          /\ \/ Len(log) = intent.base
             \/ Len(log) > intent.base /\ ~torn /\ log[intent.base + 1] = intent.event

\* Whatever writes were cut short or failed, the types are right, and no check of
\* the recovery or the verification ever refuses the log.
AlwaysRecoverable == TypeOK /\ Recoverable

\* An event is in the log as soon as its intent is durable: whoever comes next
\* completes it.
Committed ==
    Requested(IF intent # NoIntent /\ Len(log) = intent.base
              THEN Append(log, intent.event) ELSE log)

Log == INSTANCE EventLog WITH entries <- Committed, told <- {r \in Requests : answer[r] = "done"}

\* The log keeps what EventLog promises: it is append-only, a request gives at most
\* one event however often its outcome was in doubt, requests with one key give one
\* event between them, and "done" is said only of events that are there to stay.
ImplementsEventLog == Log!Spec

\* A caller is not left in doubt: every call is answered, and every event whose
\* append raised SpineAppendOutcomeUnknown is found or found missing.
EveryCallIsSettled == \A p \in Procs : job[p] # Idle ~> job[p] = Idle
=============================================================================
