--------------------------- MODULE CourierHandover ---------------------------
(***************************************************************************)
(* nth_dao/delivery/courier_handover.py: a recipient takes sealed messages *)
(* over from a carrier, and the composition of the parts involved: the     *)
(* carrier's CourierStore, the recipient's DeliveryInbox and the           *)
(* DurableOutbox that holds its ACKs, and the sender's DurableOutbox.      *)
(*                                                                         *)
(* Each call that process_handover makes on one of them is atomic (it runs *)
(* under that part's own lock) and is one action; several processes of the *)
(* recipient may be between two calls, and may die there.  The parts are   *)
(* kept as what the calls see of them; their journals are the subject of   *)
(* their own modules.  The inbox takes other traffic too, which may push a *)
(* processed message out of its replay cache.                              *)
(***************************************************************************)
EXTENDS Integers, Sequences, FiniteSets

CONSTANTS
    Procs,      \* processes of the recipient that run process_handover
    Msgs,       \* messages sealed for the recipient, one courier each
    Created,    \* created_at_ms of each
    Expires,    \* expires_at_ms of each
    MaxTTL,     \* MAX_TTL_MS, also the lifetime of an ACK envelope
    Skew,       \* MAX_CLOCK_SKEW_MS
    MaxItems,   \* max_items: how many couriers one call drains
    AckCap,     \* max_pending_records of the ACK outbox
    MaxTime,    \* bound: the clock stops here
    MaxSlips    \* bound: processes that die and messages that are evicted

ASSUME HandoverConstants ==
    /\ Created \in [Msgs -> Nat] /\ Expires \in [Msgs -> Nat]
    /\ \A m \in Msgs : Created[m] < Expires[m] /\ Expires[m] - Created[m] <= MaxTTL
    /\ MaxTTL \in Nat /\ Skew \in Nat
    /\ MaxItems \in Nat \ {0} /\ AckCap \in Nat \ {0}
    /\ MaxTime \in Nat \ {0} /\ MaxSlips \in Nat

VARIABLES
    pool,     \* the carrier's pool, in the order of sealing
    sealed,   \* history: the messages the sender has sealed
    inbox,    \* the inbox's entry of each message
    taken,    \* history: every acceptance of the inbox, with its time
    done,     \* history: the messages the domain layer has processed
    evicted,  \* history: the messages the replay cache has let go
    acks,     \* state of each ACK in the ACK outbox, by message and received_at
    sent,     \* state of each message in the sender's outbox
    run,      \* the process_handover call each process is in
    slips,    \* how many processes died and messages were evicted
    now       \* the wall clock, which starts at 1

vars == <<pool, sealed, inbox, taken, done, evicted, acks, sent, run, slips, now>>

-----------------------------------------------------------------------------
(* The carrier's pool *)

Carried(s) == {s[i] : i \in DOMAIN s}

\* list.remove of a digest that is in the list.
Without(s, m) ==
    LET place == CHOOSE i \in DOMAIN s : s[i] = m
    IN  [j \in 1 .. Len(s) - 1 |-> IF j < place THEN s[j] ELSE s[j + 1]]

-----------------------------------------------------------------------------
(* Envelopes *)

Time == 1 .. MaxTime

\* received_at_ms of an ACK: the time of an acceptance, or created_at_ms.
Stamps == Time \cup {Created[m] : m \in Msgs}

\* An ACK is signed over the message and received_at_ms, its nonce is their
\* digest: two ACKs with the same pair are the same envelope.
Ack == Msgs \X Stamps

\* validate_envelope at time t.
Fresh(m, t) == Created[m] <= t + Skew /\ t < Expires[m]

\* The same, of the ACK envelope: created at received_at, for the maximum TTL.
AckFresh(a, t) == a[2] <= t + Skew /\ t < a[2] + MaxTTL

QueuedAcks == {a \in Ack : acks[a] = "queued"}

-----------------------------------------------------------------------------
(* The recipient's inbox *)

\* at: the time of the acceptance, 0 while the message is not in the cache;
\* pending: it waits for the domain layer.
Entry == [at: 0 .. MaxTime, pending: BOOLEAN]

Unknown == [at |-> 0, pending |-> FALSE]

inboxVars == <<inbox, taken, done, evicted>>

\* accept of an envelope the inbox does not refuse, at time t.
Accept(m, t) ==
    /\ IF inbox[m].at = 0
       THEN /\ inbox' = [inbox EXCEPT ![m] = [at |-> t, pending |-> TRUE]]
            /\ taken' = taken \cup {<<m, t>>}
       ELSE UNCHANGED <<inbox, taken>>
    /\ UNCHANGED <<done, evicted>>

\* mark_processed by the domain layer.
MarkProcessed(m) ==
    /\ inbox[m].pending
    /\ inbox' = [inbox EXCEPT ![m].pending = FALSE]
    /\ done' = done \cup {m}
    /\ UNCHANGED <<pool, sealed, taken, evicted, acks, sent, run, slips, now>>

\* Another envelope is accepted while the cache is full, and replaces the entry of
\* a processed one.
Evict(m) ==
    /\ inbox[m].at # 0 /\ ~inbox[m].pending /\ slips < MaxSlips
    /\ inbox' = [inbox EXCEPT ![m] = Unknown]
    /\ evicted' = evicted \cup {m}
    /\ slips' = slips + 1
    /\ UNCHANGED <<pool, sealed, taken, done, acks, sent, run, now>>

-----------------------------------------------------------------------------
(* process_handover *)

\* now is the clock the whole call goes by, at the received_at of its next ACK.
Idle == [step |-> "idle", batch |-> <<>>, now |-> 1, at |-> 1]

\* The call goes on with the next courier, or returns its report.
NextCourier(r) ==
    IF Len(r.batch) = 1 THEN Idle
    ELSE [r EXCEPT !.step = "open", !.batch = Tail(@), !.at = 1]

\* An exception of a part leaves the call, and the rest of its batch.
Raised == Idle

\* drain_for, at the time the whole call goes by.
Drain(p) ==
    /\ run[p].step = "idle" /\ pool # <<>>
    /\ run' = [run EXCEPT ![p] =
          [step |-> "open", batch |-> SubSeq(pool, 1, IF Len(pool) < MaxItems THEN Len(pool) ELSE MaxItems),
           now |-> now, at |-> 1]]
    /\ UNCHANGED <<pool, sealed, inboxVars, acks, sent, slips, now>>

\* open_courier_envelope or inbox.accept refuses the courier: it stays on the
\* carrier.  Besides what is not fresh, the inbox refuses a sender it does not
\* authorize, and a new envelope while it is full of unprocessed ones.
Reject(p) ==
    /\ run[p].step = "open"
    /\ run' = [run EXCEPT ![p] = NextCourier(run[p])]
    /\ UNCHANGED <<pool, sealed, inboxVars, acks, sent, slips, now>>

\* Faulty variant: an expired envelope is opened without a clock.
AdmitStale(p) ==
    LET m == Head(run[p].batch)
    IN  /\ run[p].step = "open"
        /\ Accept(m, run[p].now)
        /\ run' = [run EXCEPT ![p].step = "stamp"]
        /\ UNCHANGED <<pool, sealed, acks, sent, slips, now>>

\* Faulty variant: the copy is removed before its ACK is in the outbox.
AdmitAndHand(p) ==
    LET m == Head(run[p].batch)
    IN  /\ run[p].step = "open"
        /\ Fresh(m, run[p].now)
        /\ Accept(m, run[p].now)
        /\ pool' = Without(pool, m)
        /\ run' = [run EXCEPT ![p].step = "stamp"]
        /\ UNCHANGED <<sealed, acks, sent, slips, now>>

\* The envelope opens, and inbox.accept takes it or knows it already.
Admit(p) ==
    LET m == Head(run[p].batch)
    IN  /\ run[p].step = "open"
        /\ Fresh(m, run[p].now)
        /\ Accept(m, run[p].now)
        /\ run' = [run EXCEPT ![p].step = "stamp"]
        /\ UNCHANGED <<pool, sealed, acks, sent, slips, now>>

\* Faulty variant: the ACK bears the time of the call.
StampNow(p) ==
    /\ run[p].step = "stamp"
    /\ run' = [run EXCEPT ![p].step = "ack", ![p].at = run[p].now]
    /\ UNCHANGED <<pool, sealed, inboxVars, acks, sent, slips, now>>

\* accepted_at takes the inbox's lock again.  It knows nothing of a message that was
\* evicted since, whose ACK bears created_at_ms then.
Stamp(p) ==
    LET m == Head(run[p].batch)
    IN  /\ run[p].step = "stamp"
        /\ run' = [run EXCEPT ![p].step = "ack",
                              ![p].at = IF inbox[m].at = 0 THEN Created[m] ELSE inbox[m].at]
        /\ UNCHANGED <<pool, sealed, inboxVars, acks, sent, slips, now>>

\* The ACK of the courier the call of p is at.
AckOf(p) == <<Head(run[p].batch), run[p].at>>

\* Faulty variant: enqueue is not idempotent.
EnqueueAckOnce(p) ==
    LET a == AckOf(p)
    IN  /\ run[p].step = "ack"
        /\ IF \/ ~AckFresh(a, run[p].now)
              \/ acks[a] # "absent"
              \/ Cardinality(QueuedAcks) >= AckCap
           THEN /\ run' = [run EXCEPT ![p] = Raised]
                /\ UNCHANGED acks
           ELSE /\ acks' = [acks EXCEPT ![a] = "queued"]
                /\ run' = [run EXCEPT ![p].step = "hand"]
        /\ UNCHANGED <<pool, sealed, inboxVars, sent, slips, now>>

\* sign_ack and ack_outbox.enqueue, which raises for an ACK that has expired,
\* returns the record of one it has, and raises when the outbox is full.
EnqueueAck(p) ==
    LET a == AckOf(p)
    IN  /\ run[p].step = "ack"
        /\ IF \/ ~AckFresh(a, run[p].now)
              \/ acks[a] = "absent" /\ Cardinality(QueuedAcks) >= AckCap
           THEN /\ run' = [run EXCEPT ![p] = Raised]
                /\ UNCHANGED acks
           ELSE /\ acks' = [acks EXCEPT ![a] = IF @ = "absent" THEN "queued" ELSE @]
                /\ run' = [run EXCEPT ![p].step = "hand"]
        /\ UNCHANGED <<pool, sealed, inboxVars, sent, slips, now>>

\* carrier_store.hand_over, which raises when the copy is gone already.
HandOver(p) ==
    LET m == Head(run[p].batch)
    IN  /\ run[p].step = "hand"
        /\ IF m \in Carried(pool)
           THEN /\ pool' = Without(pool, m)
                /\ run' = [run EXCEPT ![p] = NextCourier(run[p])]
           ELSE /\ run' = [run EXCEPT ![p] = Raised]
                /\ UNCHANGED pool
        /\ UNCHANGED <<sealed, inboxVars, acks, sent, slips, now>>

Crash(p) ==
    /\ run[p].step # "idle" /\ slips < MaxSlips
    /\ run' = [run EXCEPT ![p] = Idle]
    /\ slips' = slips + 1
    /\ UNCHANGED <<pool, sealed, inboxVars, acks, sent, now>>

-----------------------------------------------------------------------------
(* The sender, the ACK's way back and the clock *)

\* outbox.enqueue, seal_courier_envelope and seal_into of the sender.
Seal(m) ==
    /\ m \notin sealed /\ Fresh(m, now)
    /\ sealed' = sealed \cup {m}
    /\ pool' = Append(pool, m)
    /\ sent' = [sent EXCEPT ![m] = "queued"]
    /\ UNCHANGED <<inboxVars, acks, run, slips, now>>

\* pending() of the ACK outbox folds an expired ACK to its terminal state.
ExpireAck(a) ==
    /\ acks[a] = "queued" /\ a[2] + MaxTTL <= now
    /\ acks' = [acks EXCEPT ![a] = "expired"]
    /\ UNCHANGED <<pool, sealed, inboxVars, sent, run, slips, now>>

\* handle_ack of the sender's outbox.  The host ships a pending ACK over some transport,
\* where it may be lost (and is never handled), come late or come again.
HandleAck(a) ==
    /\ acks[a] # "absent" /\ a[2] <= now + Skew
    /\ sent[a[1]] = "queued"
    /\ sent' = [sent EXCEPT ![a[1]] = "delivered"]
    /\ UNCHANGED <<pool, sealed, inboxVars, acks, run, slips, now>>

\* pending() of the sender's outbox.
ExpireSent(m) ==
    /\ sent[m] = "queued" /\ Expires[m] <= now
    /\ sent' = [sent EXCEPT ![m] = "expired"]
    /\ UNCHANGED <<pool, sealed, inboxVars, acks, run, slips, now>>

Tick ==
    /\ now < MaxTime
    /\ now' = now + 1
    /\ UNCHANGED <<pool, sealed, inboxVars, acks, sent, run, slips>>

Init ==
    /\ pool = <<>> /\ sealed = {}
    /\ inbox = [m \in Msgs |-> Unknown]
    /\ taken = {} /\ done = {} /\ evicted = {}
    /\ acks = [a \in Ack |-> "absent"]
    /\ sent = [m \in Msgs |-> "absent"]
    /\ run = [p \in Procs |-> Idle]
    /\ slips = 0
    /\ now = 1

Step(p) == Reject(p) \/ Admit(p) \/ Stamp(p) \/ EnqueueAck(p) \/ HandOver(p)

Next ==
    \/ \E p \in Procs : Drain(p) \/ Step(p) \/ Crash(p)
    \/ \E m \in Msgs : Seal(m) \/ ExpireSent(m) \/ MarkProcessed(m) \/ Evict(m)
    \/ \E a \in Ack : HandleAck(a) \/ ExpireAck(a)
    \/ Tick

Spec == Init /\ [][Next]_vars

\* The host calls process_handover again and again, a call that does not die
\* goes on, and the inbox does not refuse every time it is asked.
Fairness ==
    \A p \in Procs : WF_vars(Drain(p)) /\ WF_vars(Step(p)) /\ SF_vars(Admit(p))

FairSpec == Spec /\ Fairness

-----------------------------------------------------------------------------
(* Properties *)

\* Every variable has its type, and the ACK outbox keeps its cap.
TypeOK ==
    /\ pool \in Seq(Msgs) /\ sealed \subseteq Msgs
    /\ inbox \in [Msgs -> Entry]
    /\ taken \subseteq Msgs \X Time /\ done \subseteq Msgs /\ evicted \subseteq Msgs
    /\ acks \in [Ack -> {"absent", "queued", "expired"}]
    /\ Cardinality(QueuedAcks) <= AckCap
    /\ sent \in [Msgs -> {"absent", "queued", "delivered", "expired"}]
    /\ run \in [Procs -> [step: {"idle", "open", "stamp", "ack", "hand"},
                          batch: Seq(Msgs), now: Time, at: Stamps]]
    /\ \A p \in Procs : run[p].step # "idle" => run[p].batch # <<>>
    /\ slips \in 0 .. MaxSlips /\ now \in Time

\* The message waits in the inbox or has been processed.
Kept(m) == inbox[m].pending \/ m \in done

\* The types are right, and a copy leaves the carrier only when the message waits in
\* the inbox or has been processed, and an ACK of it is in the ACK outbox: a crash
\* anywhere in process_handover loses neither.
RemovedMeansOwned ==
    /\ TypeOK
    /\ \A m \in sealed :
        m \notin Carried(pool) => Kept(m) /\ \E a \in Ack : a[1] = m /\ acks[a] # "absent"

\* Every ACK bears the time of an acceptance, and retries, slips and concurrent
\* calls give a message the same one: they go by the inbox's durable time.  Only a
\* message that the replay cache let go while its copy was still on the carrier can
\* get a second ACK, and one that bears created_at_ms.
OneAckPerMessage ==
    /\ \A a \in Ack : acks[a] # "absent" =>
          a \in taken \/ (a[1] \in evicted /\ a[2] = Created[a[1]])
    /\ \A a, b \in Ack :
          a[1] = b[1] /\ acks[a] # "absent" /\ acks[b] # "absent" => a = b \/ a[1] \in evicted

\* The sender's outbox says delivered only of a message the inbox accepted at a time
\* before it expired, also when that is long forgotten.
DeliveredMeansAccepted ==
    \A m \in Msgs : sent[m] = "delivered" =>
        Kept(m) /\ \E t \in Time : <<m, t>> \in taken /\ t < Expires[m]

\* A full batch of couriers that have expired, and stay on the carrier, is before m.
Behind(m) ==
    \E i \in DOMAIN pool :
        pool[i] = m /\ MaxItems < i /\ \A j \in 1 .. MaxItems : Expires[pool[j]] <= now

\* Whatever is drained for long enough gets into the inbox and off the carrier,
\* unless it expires first, or stays behind a batch of expired couriers, or a copy on
\* the carrier has no place for its ACK: the full ACK outbox ends the call, and the
\* rest of its batch waits.
EverythingValidIsTaken ==
    \A m \in Msgs :
        m \in sealed ~>
            \/ m \notin Carried(pool)
            \/ Expires[m] <= now
            \/ []Behind(m)
            \/ /\ Cardinality(QueuedAcks) >= AckCap
               /\ \E n \in Carried(pool) :
                     inbox[n].at = 0 \/ acks[<<n, inbox[n].at>>] = "absent"
=============================================================================
