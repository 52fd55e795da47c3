---------------------------- MODULE CommerceOutbox ----------------------------
(***************************************************************************)
(* nth_dao/commerce/outbox.py and reconciliation.py with the delivery code *)
(* of nth_dao/web/commerce_api.py: signed trade state is replicated to the *)
(* other party of an order from a directory of records, one file each.     *)
(*                                                                         *)
(* Three kinds of worker deliver: the reconciler thread, the manual        *)
(* dispatch endpoint, and an order handler that tries once at the end of   *)
(* its request.  Each public operation of the outbox runs under the lock   *)
(* of its file and is one action; a delivery is many, and its lease may    *)
(* run out at any point of it.                                             *)
(*                                                                         *)
(* Time is not counted: a lease that is live may run out at any moment and *)
(* a delayed record may become due at any moment.  A lease_id is a fresh   *)
(* UUID that only the worker that claimed can present, and a worker holds  *)
(* one at a time, so it is represented by the worker.                      *)
(***************************************************************************)
EXTENDS Integers, Sequences, FiniteSets

CONSTANTS
    Order,       \* message ids in the order of their file names
    Reconcilers, \* reconciler threads, one per process
    Manuals,     \* requests to POST /commerce/outbox/dispatch
    Handlers,    \* order handlers that queue and deliver their own message
    Routes,      \* URLs the peer can be bound to
    BatchLimit,  \* batch_limit of the reconciler, the endpoint's 100
    Reachable,   \* messages whose peer answers again and again
    MaxSlips     \* bound: this often a worker dies, is stopped, outlives its
                 \* lease or cannot write its result

Workers == Reconcilers \cup Manuals \cup Handlers

Msgs == {Order[i] : i \in DOMAIN Order}

None == "none"

ASSUME CommerceConstants ==
    /\ Order \in Seq(Msgs)
    /\ \A i, j \in DOMAIN Order : Order[i] = Order[j] => i = j
    /\ Reachable \subseteq Msgs
    /\ BatchLimit \in Nat \ {0} /\ MaxSlips \in Nat
    /\ Reconcilers \cap Manuals = {} /\ Reconcilers \cap Handlers = {}
    /\ Manuals \cap Handlers = {} /\ None \notin Workers

VARIABLES
    out,      \* the record file of each message, or Absent
    archive,  \* messages whose record is in outbox_archive
    job,      \* what each worker is doing
    route,    \* the URL that is bound to the peer's DID in the configuration
    peer,     \* how far a request for each message has come with the peer
    slips     \* how many such mishaps there were

vars == <<out, archive, job, route, peer, slips>>

-----------------------------------------------------------------------------
(* Records *)

Record == [status: {"pending", "inflight", "blocked", "acknowledged"},
           url: Routes,              \* target_url
           due: BOOLEAN,             \* next_attempt_at_ms has come
           lease: Workers \cup {None},
           live: BOOLEAN]            \* lease_expires_at_ms has not come

Absent == [status |-> "absent", url |-> None, due |-> FALSE, lease |-> None, live |-> FALSE]

New(url) == [status |-> "pending", url |-> url, due |-> TRUE, lease |-> None, live |-> FALSE]

\* Faulty variant: force also breaks a live lease.
ClaimableByForce(r, force) ==
    \/ r.status = "pending" /\ (r.due \/ force)
    \/ r.status = "inflight" /\ (~r.live \/ force)
    \/ r.status = "blocked" /\ force

\* claim: blocked and delayed records only by force, a live lease never yields.
Claimable(r, force) ==
    \/ r.status = "pending" /\ (r.due \/ force)
    \/ r.status = "inflight" /\ ~r.live
    \/ r.status = "blocked" /\ force

\* record_attempt by worker w changes the record: an acknowledged one is
\* returned as it is, and an inflight one needs its own lease.
Recordable(r, w) ==
    \/ r.status \in {"pending", "blocked"}
    \/ r.status = "inflight" /\ r.lease = w

\* What record_attempt makes of it.  Only the reconciler asks for a delay.
Recorded(r, w, result) ==
    [r EXCEPT !.status = CASE result = "ack"   -> "acknowledged"
                           [] result = "block" -> "blocked"
                           [] result = "retry" -> "pending",
              !.due = (result # "retry" \/ w \notin Reconcilers),
              !.lease = None, !.live = FALSE]

-----------------------------------------------------------------------------
(* Workers *)

Idle == [step |-> "idle", queue |-> <<>>, msg |-> None, url |-> None, result |-> None,
         late |-> FALSE]   \* history: the lease ran out under the worker

Job == [step: {"idle", "pick", "claimed", "sent", "record", "check", "release", "maintain"},
        queue: Seq(Msgs), msg: Msgs \cup {None}, url: Routes \cup {None},
        result: {"ack", "retry", "block", None}, late: BOOLEAN]

\* A worker is delivering msg[w]: it has claimed and not yet recorded.
Delivering(w, m) == job[w].msg = m /\ job[w].step \in {"claimed", "sent", "record"}

\* _list_statuses: the first files, in name order, that have one of the statuses.
\* It takes no lock; every claim looks again.
Listed(statuses, limit) ==
    LET rows[k \in 0 .. Len(Order)] ==
            IF k = 0 THEN <<>>
            ELSE IF out[Order[k]].status \in statuses /\ Len(rows[k - 1]) < limit
            THEN Append(rows[k - 1], Order[k]) ELSE rows[k - 1]
    IN  rows[Len(Order)]

\* Faulty variant: enqueue does not look into the archive.
EnqueuedAnew(m) ==
    IF out[m] = Absent THEN New(route)
    ELSE IF out[m].status \in {"pending", "blocked"} /\ out[m].url # route
    THEN [out[m] EXCEPT !.url = route, !.status = "pending", !.due = TRUE]
    ELSE out[m]

\* enqueue, with allow_retarget, for the URL that is bound now.
Enqueued(m) ==
    IF out[m] = Absent /\ m \notin archive THEN New(route)
    ELSE IF out[m].status \in {"pending", "blocked"} /\ out[m].url # route
    THEN [out[m] EXCEPT !.url = route, !.status = "pending", !.due = TRUE]
    ELSE out[m]

\* _queue_current, and _queue_committed_response up to the claim.  enqueue
\* raises for inflight or acknowledged work that has another URL.
Enqueue(w, m) ==
    /\ w \in Handlers /\ job[w] = Idle
    /\ out' = [out EXCEPT ![m] = Enqueued(m)]
    /\ \/ UNCHANGED job
       \/ /\ out'[m].status # "absent" /\ out'[m].status # "acknowledged"
          /\ out'[m].url = route
          /\ job' = [job EXCEPT ![w] = [Idle EXCEPT !.step = "pick", !.queue = <<m>>]]
    /\ UNCHANGED <<archive, route, peer, slips>>

\* Faulty variant: work that is marked inflight is not listed.
BeginPendingOnly(w) ==
    /\ w \in Reconcilers \cup Manuals /\ job[w] = Idle
    /\ job' = [job EXCEPT ![w] = [Idle EXCEPT !.step = "pick",
                                             !.queue = Listed({"pending"}, BatchLimit)]]
    /\ UNCHANGED <<out, archive, route, peer, slips>>

\* run_once lists what is pending or inflight; the endpoint also what is blocked.
Begin(w) ==
    /\ w \in Reconcilers \cup Manuals /\ job[w] = Idle
    /\ LET first == Listed({"pending", "inflight"}, BatchLimit)
           more  == Listed({"blocked"}, BatchLimit - Len(first))
       IN  job' = [job EXCEPT ![w] =
               [Idle EXCEPT !.step = "pick",
                            !.queue = IF w \in Manuals THEN first \o more ELSE first]]
    /\ UNCHANGED <<out, archive, route, peer, slips>>

\* claim: the worker has a new lease.
Claim(w) ==
    LET m == Head(job[w].queue)
    IN  /\ job[w].step = "pick" /\ job[w].queue # <<>>
        /\ Claimable(out[m], w \in Manuals)
        /\ out' = [out EXCEPT ![m] = [@ EXCEPT !.status = "inflight", !.lease = w, !.live = TRUE]]
        /\ job' = [job EXCEPT ![w] = [@ EXCEPT !.step = "claimed", !.queue = Tail(job[w].queue),
                                               !.msg = m, !.url = out[m].url]]
        /\ UNCHANGED <<archive, route, peer, slips>>

\* claim returns None.
PassOver(w) ==
    /\ job[w].step = "pick" /\ job[w].queue # <<>>
    /\ ~Claimable(out[Head(job[w].queue)], w \in Manuals)
    /\ job' = [job EXCEPT ![w].queue = Tail(@)]
    /\ UNCHANGED <<out, archive, route, peer, slips>>

\* _dispatch_record: a URL that is no longer bound to the peer is refused.
Dispatch(w) ==
    /\ job[w].step = "claimed"
    /\ IF job[w].url = route
       THEN /\ job' = [job EXCEPT ![w].step = "sent", ![w].url = None]
            /\ peer' = [peer EXCEPT ![job[w].msg] = IF @ = "none" THEN "sent" ELSE @]
       ELSE /\ job' = [job EXCEPT ![w].step = "record", ![w].url = None, ![w].result = "block"]
            /\ UNCHANGED peer
    /\ UNCHANGED <<out, archive, route, slips>>

\* Faulty variant: any answer of the peer counts as its acknowledgement.
RespondUnchecked(w, result) ==
    /\ job[w].step = "sent"
    /\ job' = [job EXCEPT ![w].step = "record", ![w].result = result]
    /\ UNCHANGED <<out, archive, route, peer, slips>>

\* The peer's signed ACK; a refusal or an answer that does not verify; a time
\* out, a lost answer or a server error.
Respond(w, result) ==
    /\ job[w].step = "sent"
    /\ result = "ack" => peer[job[w].msg] = "acked"
    /\ job' = [job EXCEPT ![w].step = "record", ![w].result = result]
    /\ UNCHANGED <<out, archive, route, peer, slips>>

NextCandidate(w) == [Idle EXCEPT !.step = "pick", !.queue = job[w].queue]

\* What the worker does once the dispatch has returned.
AfterDispatch(w) ==
    IF w \in Reconcilers THEN [job[w] EXCEPT !.step = "check", !.result = None,
                                              !.url = None, !.late = FALSE]
    ELSE NextCandidate(w)

\* run_once has caught an exception and looks at the record again.
Excepted(k) == [k EXCEPT !.step = "check", !.result = "retry"]

\* _record_dispatch_attempt; record_attempt raises when the record is gone or
\* inflight under another lease.
RecordResult(w) ==
    LET m == job[w].msg
    IN  /\ job[w].step = "record"
        /\ out' = IF Recordable(out[m], w)
                  THEN [out EXCEPT ![m] = Recorded(out[m], w, job[w].result)] ELSE out
        /\ job' = [job EXCEPT ![w] = AfterDispatch(w)]
        /\ UNCHANGED <<archive, route, peer, slips>>

\* Writing the result fails with OSError three times; or the dispatch raises, and
\* run_once is in its except branch; or the release cannot be written, which
\* run_once tries once more in that branch and then gives up.
RecordFails(w) ==
    /\ \/ /\ job[w].step = "record"
          /\ job' = [job EXCEPT ![w] = AfterDispatch(w)]
       \/ /\ job[w].step \in {"claimed", "sent"} /\ w \in Reconcilers
          /\ job' = [job EXCEPT ![w] = Excepted(AfterDispatch(w))]
       \/ /\ job[w].step = "release"
          /\ job' = [job EXCEPT ![w] = IF @.result = None THEN Excepted(@) ELSE NextCandidate(w)]
    /\ slips < MaxSlips
    /\ slips' = slips + 1
    /\ UNCHANGED <<out, archive, route, peer>>

\* run_once looks at the record; a lease that is still its own is to be released.
Check(w) ==
    LET r == out[job[w].msg]
    IN  /\ job[w].step = "check"
        /\ job' = [job EXCEPT ![w] =
              IF r.status = "inflight" /\ r.lease = w THEN [@ EXCEPT !.step = "release"]
              ELSE NextCandidate(w)]
        /\ UNCHANGED <<out, archive, route, peer, slips>>

\* run_once records a failed attempt; by now the record may have moved on.
Release(w) ==
    LET m == job[w].msg
    IN  /\ job[w].step = "release"
        /\ out' = IF Recordable(out[m], w)
                  THEN [out EXCEPT ![m] = Recorded(out[m], w, "retry")] ELSE out
        /\ job' = [job EXCEPT ![w] = NextCandidate(w)]
        /\ UNCHANGED <<archive, route, peer, slips>>

\* The batch is done.
EndBatch(w) ==
    /\ job[w].step = "pick" /\ job[w].queue = <<>>
    /\ job' = [job EXCEPT ![w] =
          [Idle EXCEPT !.step = IF w \in Reconcilers THEN "maintain" ELSE "idle"]]
    /\ UNCHANGED <<out, archive, route, peer, slips>>

\* stop() was called: run_once leaves the rest of its batch.
Stop(w) ==
    /\ w \in Reconcilers /\ job[w].step = "pick" /\ job[w].queue # <<>>
    /\ slips < MaxSlips
    /\ job' = [job EXCEPT ![w] = [Idle EXCEPT !.step = "maintain"]]
    /\ slips' = slips + 1
    /\ UNCHANGED <<out, archive, route, peer>>

\* archive_acknowledged of one record: os.replace into the archive.
Archive(w, m) ==
    /\ job[w].step = "maintain"
    /\ out[m].status = "acknowledged" /\ m \notin archive
    /\ archive' = archive \cup {m}
    /\ out' = [out EXCEPT ![m] = Absent]
    /\ UNCHANGED <<job, route, peer, slips>>

EndCycle(w) ==
    /\ job[w].step = "maintain"
    /\ job' = [job EXCEPT ![w] = Idle]
    /\ UNCHANGED <<out, archive, route, peer, slips>>

Crash(w) ==
    /\ job[w] # Idle /\ slips < MaxSlips
    /\ job' = [job EXCEPT ![w] = Idle]
    /\ slips' = slips + 1
    /\ UNCHANGED <<out, archive, route, peer>>

-----------------------------------------------------------------------------
(* Time, configuration and the peer *)

\* lease_expires_at_ms has come.
LeaseRunsOut(m) ==
    /\ out[m].live
    /\ out' = [out EXCEPT ![m].live = FALSE]
    /\ IF Delivering(out[m].lease, m)
       THEN /\ slips < MaxSlips /\ slips' = slips + 1
            /\ job' = [job EXCEPT ![out[m].lease].late = TRUE]
       ELSE UNCHANGED <<job, slips>>
    /\ UNCHANGED <<archive, route, peer>>

\* next_attempt_at_ms has come.
FallsDue(m) ==
    /\ out[m].status = "pending" /\ ~out[m].due
    /\ out' = [out EXCEPT ![m].due = TRUE]
    /\ UNCHANGED <<archive, job, route, peer, slips>>

\* The operator binds the peer to another URL.
Rebind(url) ==
    /\ url # route
    /\ route' = url
    /\ UNCHANGED <<out, archive, job, peer, slips>>

\* POST /commerce/federation/sync: import_bundle, then the durable receipt.
PeerImports(m) ==
    /\ peer[m] = "sent"
    /\ peer' = [peer EXCEPT ![m] = "imported"]
    /\ UNCHANGED <<out, archive, job, route, slips>>

PeerAcknowledges(m) ==
    /\ peer[m] = "imported"
    /\ peer' = [peer EXCEPT ![m] = "acked"]
    /\ UNCHANGED <<out, archive, job, route, slips>>

\* The request is lost.
PeerLoses(m) ==
    /\ peer[m] = "sent"
    /\ peer' = [peer EXCEPT ![m] = "none"]
    /\ UNCHANGED <<out, archive, job, route, slips>>

-----------------------------------------------------------------------------
\* The node starts, perhaps on records that an earlier process has queued.
Init ==
    /\ out \in [Msgs -> {Absent} \cup {New(url) : url \in Routes}] /\ archive = {}
    /\ job = [w \in Workers |-> Idle]
    /\ route \in Routes
    /\ peer = [m \in Msgs |-> "none"]
    /\ slips = 0

Step(w) ==
    \/ Begin(w) \/ Claim(w) \/ PassOver(w) \/ Dispatch(w)
    \/ \E result \in {"ack", "retry", "block"} : Respond(w, result)
    \/ RecordResult(w) \/ Check(w) \/ Release(w)
    \/ EndBatch(w) \/ EndCycle(w)

Next ==
    \/ \E w \in Workers : Step(w) \/ RecordFails(w) \/ Stop(w) \/ Crash(w)
    \/ \E w \in Workers, m \in Msgs : Enqueue(w, m) \/ Archive(w, m)
    \/ \E m \in Msgs : LeaseRunsOut(m) \/ FallsDue(m)
    \/ \E m \in Msgs : PeerImports(m) \/ PeerAcknowledges(m) \/ PeerLoses(m)
    \/ \E url \in Routes : Rebind(url)

Spec == Init /\ [][Next]_vars

\* Workers go on and the reconciler polls, time passes, and a peer that can be
\* reached answers: its handling of a request and its ACK do not fail each time.
Fairness ==
    /\ \A w \in Workers \ Manuals : WF_vars(Step(w))
    /\ \A w \in Manuals : WF_vars(job[w] # Idle /\ Step(w))
    /\ \A m \in Msgs : WF_vars(LeaseRunsOut(m)) /\ WF_vars(FallsDue(m))
    /\ \A m \in Reachable :
          /\ SF_vars(PeerImports(m)) /\ SF_vars(PeerAcknowledges(m))
          /\ SF_vars(\E w \in Workers : job[w].msg = m /\ Respond(w, "ack"))

FairSpec == Spec /\ Fairness

-----------------------------------------------------------------------------
(* Properties *)

\* Every variable has its type; exactly the inflight records have a lease.
TypeOK ==
    /\ out \in [Msgs -> Record \cup {Absent}]
    /\ \A m \in Msgs : (out[m].status = "inflight") <=> (out[m].lease # None)
    /\ \A m \in Msgs : out[m].live => out[m].status = "inflight"
    /\ archive \subseteq Msgs
    /\ job \in [Workers -> Job]
    /\ route \in Routes
    /\ peer \in [Msgs -> {"none", "sent", "imported", "acked"}]
    /\ slips \in 0 .. MaxSlips

\* The types are right, and until its lease runs out, a worker that is delivering a message holds the
\* live lease on its record: no other worker claims the message, whichever of
\* the three paths it comes by, and no stale worker's result, repeated enqueue or
\* archiving touches the record.
DeliveryIsExclusive ==
    /\ TypeOK
    /\ \A m \in Msgs, w \in Workers :
        Delivering(w, m) /\ ~job[w].late => out[m].lease = w /\ out[m].live

\* A message counts as acknowledged, in the outbox or in the archive, only when
\* the peer has imported it and kept a durable receipt.
AckMeansReceived ==
    \A m \in Msgs : out[m].status = "acknowledged" \/ m \in archive => peer[m] = "acked"

\* An acknowledged record stays acknowledged until it is archived, and is then
\* never created again: no late failure, retarget or repeated enqueue undoes it.
AcknowledgedIsFinal ==
    [][\A m \in Msgs :
          /\ out[m].status = "acknowledged" => out'[m] = out[m] \/ m \in archive'
          /\ m \in archive => m \in archive' /\ out'[m] = Absent]_vars

\* The records before m in name order that are listed fill the reconciler's batch.
Behind(m) ==
    LET before == {n \in Msgs : \E i, j \in DOMAIN Order : i < j /\ Order[i] = n /\ Order[j] = m}
    IN  Cardinality({n \in before : out[n].status \in {"pending", "inflight"}}) >= BatchLimit

\* Fewer than batch_limit messages that are never acknowledged do not keep the others
\* from being served: what is queued for a peer that can be reached is acknowledged, or
\* blocked for the operator to see, unless from some time on a full batch of unfinished
\* records, which _list_statuses counts whether they are due or not, stays before it.
ReachablePeersAreServed ==
    \A m \in Reachable :
        out[m].status # "absent" ~> \/ out[m].status \in {"acknowledged", "blocked"} \/ m \in archive
                                    \/ []Behind(m)
=============================================================================
