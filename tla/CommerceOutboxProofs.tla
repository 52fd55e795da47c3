------------------------ MODULE CommerceOutboxProofs ------------------------
(***************************************************************************)
(* Proofs about CommerceOutbox, for any number of reconcilers, dispatch    *)
(* requests, order handlers, messages, routes and mishaps.                 *)
(*                                                                         *)
(* The inductive invariant says of every message what its record, the      *)
(* archive and the peer have to do with each other, and of every worker    *)
(* what it knows of the message it is working on.                          *)
(***************************************************************************)
EXTENDS CommerceOutbox, WellFoundedInduction, TLAPS

-----------------------------------------------------------------------------
(* Listing the outbox *)

\* A set of natural numbers that is not empty has a least element.
LEMMA LeastElement ==
    ASSUME NEW T \in SUBSET Nat, T # {}
    PROVE  \E x \in T : \A y \in T : x <= y
<1> DEFINE R == OpToRel(<, Nat)
<1>1. IsWellFoundedOn(R, Nat)
  BY Zenon, NatLessThanWellFounded
<1>2. \A x, y \in Nat : x < y => <<x, y>> \in R
  BY Zenon DEF OpToRel
<1> HIDE DEF R
<1>3. PICK x \in T : \A y \in T : ~(<<y, x>> \in R)
  BY Zenon, <1>1, WFMin
<1>4. \A y \in T : ~(y < x)
  BY Zenon, <1>2, <1>3
<1>5. \A y \in T : x <= y
  BY <1>4
<1> QED BY Zenon, <1>5

\* The loop of _list_statuses over the files, as far as the k-th.
Row(rows, k, S, limit) ==
    IF k = 0 THEN <<>>
    ELSE IF out[Order[k]].status \in S /\ Len(rows[k - 1]) < limit
    THEN Append(rows[k - 1], Order[k]) ELSE rows[k - 1]

LEMMA RowsExist ==
    ASSUME NEW S, NEW limit, NEW N \in Nat
    PROVE  \E rows : rows = [k \in 0 .. N |-> Row(rows, k, S, limit)]
<1> DEFINE Exists(n) == \E rows : rows = [k \in 0 .. n |-> Row(rows, k, S, limit)]
           T         == {n \in Nat : ~Exists(n)}
<1>1. Exists(0)
  <2> DEFINE rows == [k \in 0 .. 0 |-> <<>>]
  <2>1. rows = [k \in 0 .. 0 |-> Row(rows, k, S, limit)]
    BY DEF Row
  <2> QED BY Zenon, <2>1
<1>2. ASSUME NEW n \in Nat, Exists(n) PROVE Exists(n + 1)
  <2>1. PICK old : old = [k \in 0 .. n |-> Row(old, k, S, limit)]
    BY Zenon, <1>2
  <2> DEFINE rows == [k \in 0 .. n + 1 |-> IF k <= n THEN old[k] ELSE Row(old, n + 1, S, limit)]
  <2>2. ASSUME NEW k \in 0 .. n + 1 PROVE rows[k] = Row(rows, k, S, limit)
    <3>1. k # 0 => rows[k - 1] = old[k - 1]
      OBVIOUS
    <3>2. k <= n => old[k] = Row(old, k, S, limit)
      BY <2>1
    <3>3. Row(rows, k, S, limit) = Row(old, k, S, limit)
      BY <3>1 DEF Row
    <3> QED BY <3>2, <3>3
  <2> HIDE DEF rows
  <2>3. rows = [k \in 0 .. n + 1 |-> Row(rows, k, S, limit)]
    BY Zenon, <2>2 DEF rows
  <2> QED BY Zenon, <2>3
<1> HIDE DEF Exists
<1>3. T = {}
  <2> SUFFICES ASSUME T # {} PROVE FALSE
    BY Zenon
  <2>1. T \in SUBSET Nat
    BY Zenon
  <2>2. PICK n \in T : \A y \in T : n <= y
    <3> HIDE DEF T
    <3> QED BY Zenon, <2>1, LeastElement
  <2>3. n # 0
    BY Zenon, <1>1, <2>2
  <2>4. PICK i \in Nat : n = i + 1
    BY <2>2, <2>3
  <2>5. i \notin T
    BY <2>2, <2>4
  <2> QED BY Zenon, <1>2, <2>2, <2>4, <2>5
<1>4. Exists(N)
  BY Zenon, <1>3
<1> QED BY Zenon, <1>4 DEF Exists

\* _list_statuses returns at most limit messages.
LEMMA ListedFacts ==
    ASSUME NEW S, NEW limit \in Nat
    PROVE  Listed(S, limit) \in Seq(Msgs) /\ Len(Listed(S, limit)) <= limit
<1> DEFINE N     == Len(Order)
           rows  == CHOOSE f : f = [k \in 0 .. N |-> Row(f, k, S, limit)]
           Ok(k) == rows[k] \in Seq(Msgs) /\ Len(rows[k]) <= limit
           T     == {k \in 0 .. N : ~Ok(k)}
<1>1. Listed(S, limit) = rows[N]
  BY Zenon DEF Listed, Row
<1>2. N \in Nat /\ \A k \in 1 .. N : Order[k] \in Msgs
  BY CommerceConstants DEF Msgs
<1> HIDE DEF N
<1>3. rows = [k \in 0 .. N |-> Row(rows, k, S, limit)]
  BY <1>2, RowsExist
<1>4. \A k \in 0 .. N : rows[k] = Row(rows, k, S, limit)
  BY Zenon, <1>3
<1> HIDE DEF rows
<1>5. 0 \in 0 .. N /\ Ok(0)
  <2>1. 0 \in 0 .. N
    BY <1>2
  <2>2. rows[0] = <<>>
    BY Zenon, <1>4, <2>1 DEF Row
  <2> QED BY <2>1, <2>2
<1>6. ASSUME NEW k \in 1 .. N, Ok(k - 1) PROVE Ok(k)
  <2>1. k # 0 /\ rows[k] = Row(rows, k, S, limit) /\ Order[k] \in Msgs
    BY <1>2, <1>4
  <2>2. CASE rows[k] = rows[k - 1]
    BY Zenon, <1>6, <2>2
  <2>3. CASE Len(rows[k - 1]) < limit /\ rows[k] = Append(rows[k - 1], Order[k])
    BY <1>6, <2>1, <2>3
  <2> QED BY Zenon, <2>1, <2>2, <2>3 DEF Row
<1> HIDE DEF Ok
<1>7. T = {}
  <2> SUFFICES ASSUME T # {} PROVE FALSE
    BY Zenon
  <2>1. T \in SUBSET Nat
    BY <1>2
  <2>2. PICK k \in T : \A y \in T : k <= y
    <3> HIDE DEF T
    <3> QED BY Zenon, <2>1, LeastElement
  <2>3. k \in 1 .. N /\ k - 1 \in 0 .. N
    BY <1>2, <1>5, <2>2
  <2>4. k - 1 \notin T
    BY <2>2, <2>3
  <2> QED BY Zenon, <1>6, <2>2, <2>3, <2>4
<1>8. Ok(N)
  BY <1>2, <1>7
<1> QED BY Zenon, <1>1, <1>8 DEF Ok

-----------------------------------------------------------------------------
(* The inductive invariant *)

Acks == {"ack", "retry", "block"}

Busy == {"claimed", "sent", "record", "check", "release"}

Carrying(k) == k.step \in {"claimed", "sent", "record"} /\ ~k.late

\* A record, and what it says of the archive and the peer.
RecordOK(m, r) ==
    /\ r \in Record \cup {Absent}
    /\ (r.status = "inflight") <=> (r.lease # None)
    /\ r.live => r.status = "inflight"
    /\ r.status = "acknowledged" \/ m \in archive => peer[m] = "acked"
    /\ m \in archive => r = Absent

\* A worker, and what it knows of the message it works on.
JobOK(w, k) ==
    /\ k \in Job
    /\ k.step \in Busy => k.msg \in Msgs
    /\ k.step = "record" => k.result \in Acks
    /\ k.step = "record" /\ k.result = "ack" => peer[k.msg] = "acked"
    /\ Carrying(k) => out[k.msg].lease = w /\ out[k.msg].live

Typed ==
    /\ out \in [Msgs -> Record \cup {Absent}]
    /\ archive \subseteq Msgs
    /\ job \in [Workers -> Job]
    /\ route \in Routes
    /\ peer \in [Msgs -> {"none", "sent", "imported", "acked"}]
    /\ slips \in 0 .. MaxSlips

IInv ==
    /\ Typed
    /\ \A m \in Msgs : RecordOK(m, out[m])
    /\ \A w \in Workers : JobOK(w, job[w])

\* What a worker knows of the peer stays true.
PeerGoesOn ==
    /\ peer' \in [Msgs -> {"none", "sent", "imported", "acked"}]
    /\ \A m \in Msgs : peer[m] = "acked" => peer'[m] = "acked"

LEMMA IdleIsJob == Idle \in Job /\ Idle.step = "idle"
BY DEF Idle, Job

LEMMA PickIsJob ==
    ASSUME NEW q \in Seq(Msgs)
    PROVE  /\ [Idle EXCEPT !.step = "pick", !.queue = q] \in Job
           /\ [Idle EXCEPT !.step = "pick", !.queue = q].step = "pick"
BY Zenon DEF Idle, Job

\* A step that changes only what one worker is doing, and what the peer has.
LEMMA JobStep ==
    ASSUME IInv, NEW w \in Workers, NEW k, JobOK(w, k),
           job' = [job EXCEPT ![w] = k], PeerGoesOn, slips' \in 0 .. MaxSlips,
           UNCHANGED <<out, archive, route>>
    PROVE  IInv'
<1>1. k \in Job
  BY Zenon DEF JobOK
<1>2. job' \in [Workers -> Job] /\ \A v \in Workers : job'[v] = IF v = w THEN k ELSE job[v]
  BY Zenon, <1>1 DEF IInv, Typed
<1>3. Typed'
  BY Zenon, <1>2 DEF IInv, Typed, PeerGoesOn
<1>4. ASSUME NEW m \in Msgs PROVE RecordOK(m, out[m])'
  <2>1. RecordOK(m, out[m])
    BY Zenon DEF IInv
  <2> QED BY Zenon, <2>1 DEF RecordOK, PeerGoesOn
<1>5. ASSUME NEW v \in Workers PROVE JobOK(v, job[v])'
  <2>1. JobOK(v, job'[v])
    BY Zenon, <1>2 DEF IInv
  <2>2. job'[v].step = "record" /\ job'[v].result = "ack" => job'[v].msg \in Msgs
    BY Zenon, <2>1 DEF JobOK, Busy
  <2> QED BY Zenon, <2>1, <2>2 DEF JobOK, PeerGoesOn, Carrying
<1> QED BY Zenon, <1>3, <1>4, <1>5 DEF IInv

\* A step that changes one record, and what one worker is doing: no other
\* worker may hold the record.
LEMMA RecordStep ==
    ASSUME IInv, NEW m \in Msgs, NEW r, NEW w \in Workers, NEW k,
           out' = [out EXCEPT ![m] = r], job' = [job EXCEPT ![w] = k],
           RecordOK(m, r)', JobOK(w, k)',
           \A v \in Workers \ {w} : Carrying(job[v]) => job[v].msg # m,
           slips' \in 0 .. MaxSlips,
           archive \subseteq archive', archive' \subseteq archive \cup {m},
           UNCHANGED <<route, peer>>
    PROVE  IInv'
<1>1. k \in Job /\ r \in Record \cup {Absent}
  BY Zenon DEF JobOK, RecordOK
<1>2. job' \in [Workers -> Job] /\ \A v \in Workers : job'[v] = IF v = w THEN k ELSE job[v]
  BY Zenon, <1>1 DEF IInv, Typed
<1>3. /\ out' \in [Msgs -> Record \cup {Absent}]
      /\ \A n \in Msgs : out'[n] = IF n = m THEN r ELSE out[n]
  BY Zenon, <1>1 DEF IInv, Typed
<1>4. Typed'
  BY Zenon, <1>2, <1>3 DEF IInv, Typed
<1>5. ASSUME NEW n \in Msgs PROVE RecordOK(n, out[n])'
  <2>1. CASE n = m
    BY Zenon, <1>3, <2>1
  <2>2. CASE n # m
    <3>1. RecordOK(n, out[n]) /\ out'[n] = out[n] /\ (n \in archive' <=> n \in archive)
      BY Zenon, <1>3, <2>2 DEF IInv
    <3> QED BY Zenon, <3>1 DEF RecordOK
  <2> QED BY Zenon, <2>1, <2>2
<1>6. ASSUME NEW v \in Workers PROVE JobOK(v, job[v])'
  <2>1. CASE v = w
    BY Zenon, <1>2, <2>1
  <2>2. CASE v # w
    <3>1. JobOK(v, job[v]) /\ job'[v] = job[v] /\ (Carrying(job[v]) => job[v].msg # m)
      BY Zenon, <1>2, <2>2 DEF IInv
    <3>2. Carrying(job[v]) => out'[job[v].msg] = out[job[v].msg]
      <4>1. Carrying(job[v]) => job[v].msg \in Msgs
        BY Zenon, <3>1 DEF JobOK, Carrying, Busy
      <4> QED BY Zenon, <1>3, <3>1, <4>1
    <3>3. Carrying(job'[v]) = Carrying(job[v])
      BY Zenon, <3>1
    <3> QED BY Zenon, <3>1, <3>2, <3>3 DEF JobOK, Carrying
  <2> QED BY Zenon, <2>1, <2>2
<1> QED BY Zenon, <1>4, <1>5, <1>6 DEF IInv

\* Only the holder of a live lease is carrying the message.
LEMMA Exclusive ==
    ASSUME IInv, NEW m \in Msgs, NEW v \in Workers, Carrying(job[v]), job[v].msg = m
    PROVE  out[m].lease = v /\ out[m].live /\ out[m].status = "inflight"
<1>1. JobOK(v, job[v]) /\ RecordOK(m, out[m])
  BY Zenon DEF IInv
<1> QED BY Zenon, <1>1 DEF JobOK, RecordOK
-----------------------------------------------------------------------------
(* Steps of a worker that leave the outbox alone *)

\* Between two messages a worker claims nothing and knows nothing.
LEMMA QuietJob ==
    ASSUME NEW w, NEW k \in Job, k.step \notin Busy
    PROVE  JobOK(w, k)
BY Zenon DEF JobOK, Busy, Carrying

LEMMA PickJob ==
    ASSUME NEW w, NEW q \in Seq(Msgs)
    PROVE  JobOK(w, [Idle EXCEPT !.step = "pick", !.queue = q])
<1> DEFINE k == [Idle EXCEPT !.step = "pick", !.queue = q]
<1>1. k \in Job /\ k.step = "pick"
  BY Zenon, PickIsJob
<1> HIDE DEF k
<1>2. k.step \notin Busy
  BY Zenon, <1>1 DEF Busy
<1>3. JobOK(w, k)
  BY Zenon, <1>1, <1>2, QuietJob
<1> QED BY Zenon, <1>3 DEF k

LEMMA IdleJob ==
    ASSUME NEW w, NEW s \in {"idle", "maintain"}
    PROVE  JobOK(w, [Idle EXCEPT !.step = s])
<1> DEFINE k == [Idle EXCEPT !.step = s]
<1>1. k \in Job /\ k.step = s
  BY Zenon, IdleIsJob DEF Job
<1> HIDE DEF k
<1>2. k.step \notin Busy
  BY Zenon, <1>1 DEF Busy
<1>3. JobOK(w, k)
  BY Zenon, <1>1, <1>2, QuietJob
<1> QED BY Zenon, <1>3 DEF k

LEMMA NextCandidateJob ==
    ASSUME IInv, NEW w \in Workers
    PROVE  JobOK(w, NextCandidate(w))
<1>1. job[w].queue \in Seq(Msgs)
  BY Zenon DEF IInv, Typed, Job
<1> QED BY Zenon, <1>1, PickJob DEF NextCandidate

LEMMA AfterDispatchJob ==
    ASSUME IInv, NEW w \in Workers, job[w].step \in Busy
    PROVE  JobOK(w, AfterDispatch(w))
<1>1. CASE w \in Reconcilers
  <2> DEFINE k == [job[w] EXCEPT !.step = "check", !.result = None, !.url = None, !.late = FALSE]
  <2>1. job[w] \in Job /\ job[w].msg \in Msgs
    BY Zenon DEF IInv, Typed, JobOK
  <2>2. k \in Job /\ k.step = "check" /\ k.msg \in Msgs
    BY Zenon, <2>1 DEF Job
  <2>3. AfterDispatch(w) = k
    BY Zenon, <1>1 DEF AfterDispatch
  <2> HIDE DEF k
  <2> QED BY Zenon, <2>2, <2>3 DEF JobOK, Carrying
<1>2. CASE w \notin Reconcilers
  BY Zenon, <1>2, NextCandidateJob DEF AfterDispatch
<1> QED BY Zenon, <1>1, <1>2

LEMMA ExceptedJob ==
    ASSUME NEW w, NEW k, JobOK(w, k), k.step \in Busy
    PROVE  JobOK(w, Excepted(k))
<1>1. k \in Job /\ k.msg \in Msgs
  BY Zenon DEF JobOK
<1>2. Excepted(k) \in Job /\ Excepted(k).step = "check" /\ Excepted(k).msg \in Msgs
  BY Zenon, <1>1 DEF Excepted, Job
<1> HIDE DEF Excepted
<1> QED BY Zenon, <1>2 DEF JobOK, Carrying

LEMMA PeerStays ==
    ASSUME IInv, peer' = peer
    PROVE  PeerGoesOn
BY Zenon DEF IInv, Typed, PeerGoesOn

LEMMA SlipsStay ==
    ASSUME IInv, slips' = slips \/ (slips < MaxSlips /\ slips' = slips + 1)
    PROVE  slips' \in 0 .. MaxSlips
BY CommerceConstants DEF IInv, Typed

LEMMA BeginKeeps ==
    ASSUME IInv, NEW w \in Workers, Begin(w)
    PROVE  IInv'
<1> DEFINE first == Listed({"pending", "inflight"}, BatchLimit)
           more  == Listed({"blocked"}, BatchLimit - Len(first))
           q     == IF w \in Manuals THEN first \o more ELSE first
           k     == [Idle EXCEPT !.step = "pick", !.queue = q]
<1>1. first \in Seq(Msgs) /\ Len(first) <= BatchLimit
  BY Zenon, CommerceConstants, ListedFacts
<1>2. BatchLimit - Len(first) \in Nat
  <2> HIDE DEF first
  <2>1. Len(first) \in Nat
    BY <1>1
  <2> QED BY <1>1, <2>1, CommerceConstants
<1>3. more \in Seq(Msgs)
  <2> HIDE DEF first
  <2> QED BY Zenon, <1>2, ListedFacts
<1>4. job' = [job EXCEPT ![w] = k] /\ UNCHANGED <<out, archive, route, peer, slips>>
  BY Zenon DEF Begin
<1> HIDE DEF first, more
<1>5. q \in Seq(Msgs)
  BY <1>1, <1>3
<1> HIDE DEF q
<1>6. JobOK(w, k)
  BY Zenon, <1>5, PickJob
<1> HIDE DEF k
<1> QED BY Zenon, <1>4, <1>6, JobStep, PeerStays, SlipsStay

LEMMA PassOverKeeps ==
    ASSUME IInv, NEW w \in Workers, PassOver(w)
    PROVE  IInv'
<1> DEFINE k == [job[w] EXCEPT !.queue = Tail(@)]
<1>1. job[w] \in Job /\ job[w].step = "pick" /\ job[w].queue # <<>>
  BY Zenon DEF IInv, Typed, PassOver
<1>2. job[w].queue \in Seq(Msgs)
  BY Zenon, <1>1 DEF Job
<1>3. Tail(job[w].queue) \in Seq(Msgs)
  BY <1>1, <1>2
<1>4. k \in Job /\ k.step = "pick"
  BY Zenon, <1>1, <1>3 DEF Job
<1>5. job' = [job EXCEPT ![w] = k] /\ UNCHANGED <<out, archive, route, peer, slips>>
  BY Zenon DEF PassOver
<1> HIDE DEF k
<1>6. JobOK(w, k)
  BY Zenon, <1>4, QuietJob DEF Busy
<1> QED BY Zenon, <1>5, <1>6, JobStep, PeerStays, SlipsStay

LEMMA DispatchKeeps ==
    ASSUME IInv, NEW w \in Workers, Dispatch(w)
    PROVE  IInv'
<1>1. /\ job[w] \in Job /\ job[w].step = "claimed" /\ JobOK(w, job[w])
      /\ UNCHANGED <<out, archive, route, slips>>
  BY Zenon DEF IInv, Typed, Dispatch
<1>2. job[w].msg \in Msgs
  BY Zenon, <1>1 DEF JobOK, Busy
<1>3. CASE job[w].url = route
  <2> DEFINE k == [job[w] EXCEPT !.step = "sent", !.url = None]
  <2>1. /\ job' = [job EXCEPT ![w] = k]
        /\ peer' = [peer EXCEPT ![job[w].msg] = IF @ = "none" THEN "sent" ELSE @]
    BY Zenon, <1>3 DEF Dispatch
  <2>2. PeerGoesOn
    BY Zenon, <1>2, <2>1 DEF IInv, Typed, PeerGoesOn
  <2>3. /\ k \in Job /\ k.step = "sent" /\ k.msg = job[w].msg /\ k.late = job[w].late
    BY Zenon, <1>1 DEF Job
  <2> HIDE DEF k
  <2>4. JobOK(w, k)
    BY Zenon, <1>1, <1>2, <2>3 DEF JobOK, Carrying
  <2> QED BY Zenon, <1>1, <2>1, <2>2, <2>4, JobStep, SlipsStay
<1>4. CASE job[w].url # route
  <2> DEFINE k == [job[w] EXCEPT !.step = "record", !.url = None, !.result = "block"]
  <2>1. job' = [job EXCEPT ![w] = k] /\ peer' = peer
    BY Zenon, <1>4 DEF Dispatch
  <2>2. /\ k \in Job /\ k.step = "record" /\ k.result = "block"
        /\ k.msg = job[w].msg /\ k.late = job[w].late
    BY Zenon, <1>1 DEF Job
  <2> HIDE DEF k
  <2>3. JobOK(w, k)
    BY Zenon, <1>1, <1>2, <2>2 DEF JobOK, Carrying, Acks
  <2> QED BY Zenon, <1>1, <2>1, <2>3, JobStep, PeerStays, SlipsStay
<1> QED BY Zenon, <1>3, <1>4

LEMMA RespondKeeps ==
    ASSUME IInv, NEW w \in Workers, NEW result \in {"ack", "retry", "block"}, Respond(w, result)
    PROVE  IInv'
<1> DEFINE k == [job[w] EXCEPT !.step = "record", !.result = result]
<1>1. /\ job[w] \in Job /\ job[w].step = "sent" /\ JobOK(w, job[w])
      /\ result = "ack" => peer[job[w].msg] = "acked"
      /\ job' = [job EXCEPT ![w] = k] /\ UNCHANGED <<out, archive, route, peer, slips>>
  BY Zenon DEF IInv, Typed, Respond
<1>2. job[w].msg \in Msgs
  BY Zenon, <1>1 DEF JobOK, Busy
<1>3. /\ k \in Job /\ k.step = "record" /\ k.result = result
      /\ k.msg = job[w].msg /\ k.late = job[w].late
  BY Zenon, <1>1 DEF Job
<1> HIDE DEF k
<1>4. JobOK(w, k)
  BY Zenon, <1>1, <1>2, <1>3 DEF JobOK, Carrying, Acks
<1> QED BY Zenon, <1>1, <1>4, JobStep, PeerStays, SlipsStay
LEMMA RecordFailsKeeps ==
    ASSUME IInv, NEW w \in Workers, RecordFails(w)
    PROVE  IInv'
<1>1. slips < MaxSlips /\ slips' = slips + 1 /\ UNCHANGED <<out, archive, route, peer>>
  BY Zenon DEF RecordFails
<1>2. CASE job[w].step \in Busy /\ job' = [job EXCEPT ![w] = AfterDispatch(w)]
  BY Zenon, <1>1, <1>2, AfterDispatchJob, JobStep, PeerStays, SlipsStay
<1>3. CASE job' = [job EXCEPT ![w] = NextCandidate(w)]
  BY Zenon, <1>1, <1>3, NextCandidateJob, JobStep, PeerStays, SlipsStay
<1>4. CASE job[w].step \in Busy /\ job' = [job EXCEPT ![w] = Excepted(job[w])]
  <2>1. JobOK(w, Excepted(job[w]))
    BY Zenon, <1>4, ExceptedJob DEF IInv
  <2> QED BY Zenon, <1>1, <1>4, <2>1, JobStep, PeerStays, SlipsStay
<1>5. CASE /\ job[w].step \in Busy /\ w \in Reconcilers
           /\ job' = [job EXCEPT ![w] = Excepted(AfterDispatch(w))]
  <2>1. job[w] \in Job
    BY Zenon DEF IInv, Typed
  <2>2. AfterDispatch(w).step = "check"
    BY Zenon, <1>5, <2>1 DEF AfterDispatch, Job
  <2>3. JobOK(w, AfterDispatch(w)) /\ AfterDispatch(w).step \in Busy
    BY Zenon, <1>5, <2>2, AfterDispatchJob DEF Busy
  <2>4. JobOK(w, Excepted(AfterDispatch(w)))
    BY Zenon, <2>3, ExceptedJob
  <2> QED BY Zenon, <1>1, <1>5, <2>4, JobStep, PeerStays, SlipsStay
<1> QED BY Zenon, <1>2, <1>3, <1>4, <1>5 DEF RecordFails, Busy

LEMMA CheckKeeps ==
    ASSUME IInv, NEW w \in Workers, Check(w)
    PROVE  IInv'
<1>1. job[w] \in Job /\ job[w].step = "check" /\ JobOK(w, job[w])
  BY Zenon DEF IInv, Typed, Check
<1>2. UNCHANGED <<out, archive, route, peer, slips>>
  BY Zenon DEF Check
<1>3. CASE job' = [job EXCEPT ![w] = [job[w] EXCEPT !.step = "release"]]
  <2> DEFINE k == [job[w] EXCEPT !.step = "release"]
  <2>1. k \in Job /\ k.step = "release" /\ k.msg = job[w].msg
    BY Zenon, <1>1 DEF Job
  <2>2. job' = [job EXCEPT ![w] = k]
    BY Zenon, <1>3
  <2> HIDE DEF k
  <2>3. JobOK(w, k)
    BY Zenon, <1>1, <2>1 DEF JobOK, Carrying, Busy
  <2> QED BY Zenon, <1>2, <2>2, <2>3, JobStep, PeerStays, SlipsStay
<1>4. CASE job' = [job EXCEPT ![w] = NextCandidate(w)]
  BY Zenon, <1>2, <1>4, NextCandidateJob, JobStep, PeerStays, SlipsStay
<1> QED BY Zenon, <1>3, <1>4 DEF Check

LEMMA QuietKeeps ==
    ASSUME IInv, NEW w \in Workers, EndBatch(w) \/ EndCycle(w) \/ Stop(w) \/ Crash(w)
    PROVE  IInv'
<1>1. /\ UNCHANGED <<out, archive, route, peer>>
      /\ slips' = slips \/ (slips < MaxSlips /\ slips' = slips + 1)
  BY Zenon DEF EndBatch, EndCycle, Stop, Crash
<1>2. JobOK(w, Idle)
  BY Zenon, IdleIsJob, QuietJob DEF Busy
<1>3. PICK k : job' = [job EXCEPT ![w] = k] /\ JobOK(w, k)
  <2>1. CASE EndBatch(w)
    BY Zenon, <2>1, IdleJob DEF EndBatch
  <2>2. CASE Stop(w)
    BY Zenon, <2>2, IdleJob DEF Stop
  <2>3. CASE job' = [job EXCEPT ![w] = Idle]
    BY Zenon, <1>2, <2>3
  <2> QED BY Zenon, <2>1, <2>2, <2>3 DEF EndCycle, Crash
<1> QED BY Zenon, <1>1, <1>3, JobStep, PeerStays, SlipsStay

-----------------------------------------------------------------------------
(* Steps that change a record *)

\* Nobody carries a message whose record is not under a live lease.
LEMMA NobodyCarries ==
    ASSUME IInv, NEW m \in Msgs, out[m].status # "inflight" \/ ~out[m].live
    PROVE  \A v \in Workers : Carrying(job[v]) => job[v].msg # m
BY Zenon, Exclusive

\* What enqueue writes is in order, and nobody was carrying what it changes.
LEMMA EnqueuedFacts ==
    ASSUME IInv, NEW m \in Msgs
    PROVE  /\ RecordOK(m, Enqueued(m))
           /\ Enqueued(m) = out[m] \/ out[m].status \in {"absent", "pending", "blocked"}
           /\ out[m].status = "acknowledged" \/ m \in archive => Enqueued(m) = out[m]
<1>1. RecordOK(m, out[m]) /\ route \in Routes
  BY Zenon DEF IInv, Typed
<1>2. CASE out[m] = Absent /\ m \notin archive
  <2>1. Enqueued(m) = New(route)
    BY Zenon, <1>2 DEF Enqueued
  <2>2. New(route) \in Record /\ New(route).status = "pending" /\ New(route).lease = None
        /\ New(route).live = FALSE
    BY Zenon, <1>1 DEF New, Record
  <2>3. out[m].status = "absent"
    BY <1>2 DEF Absent
  <2> QED BY Zenon, <1>2, <2>1, <2>2, <2>3 DEF RecordOK
<1>3. CASE /\ ~(out[m] = Absent /\ m \notin archive)
           /\ out[m].status \in {"pending", "blocked"} /\ out[m].url # route
  <2> DEFINE r == [out[m] EXCEPT !.url = route, !.status = "pending", !.due = TRUE]
  <2>1. Enqueued(m) = r
    BY Zenon, <1>3 DEF Enqueued
  <2>2. out[m] \in Record
    BY <1>1, <1>3 DEF RecordOK, Absent
  <2>3. /\ r \in Record /\ r.status = "pending" /\ r.lease = out[m].lease
        /\ r.live = out[m].live
    BY Zenon, <1>1, <2>2 DEF Record
  <2>4. m \notin archive
    BY <1>1, <1>3 DEF RecordOK, Absent
  <2> HIDE DEF r
  <2> QED BY Zenon, <1>1, <1>3, <2>1, <2>3, <2>4 DEF RecordOK
<1>4. CASE /\ ~(out[m] = Absent /\ m \notin archive)
           /\ ~(out[m].status \in {"pending", "blocked"} /\ out[m].url # route)
  BY Zenon, <1>1, <1>4 DEF Enqueued
<1> QED BY Zenon, <1>2, <1>3, <1>4

LEMMA EnqueueKeeps ==
    ASSUME IInv, NEW w \in Workers, NEW m \in Msgs, Enqueue(w, m)
    PROVE  IInv'
<1>1. PICK r : r = Enqueued(m)
  BY Zenon
<1>2. /\ job[w] = Idle /\ out' = [out EXCEPT ![m] = r]
      /\ UNCHANGED <<archive, route, peer, slips>>
  BY Zenon, <1>1 DEF Enqueue
<1>3. PICK k : job' = [job EXCEPT ![w] = k] /\ (k = Idle \/ k = [Idle EXCEPT !.step = "pick", !.queue = <<m>>])
  <2>1. CASE job' = job
    <3>1. job' = [job EXCEPT ![w] = Idle]
      BY Zenon, <1>2, <2>1 DEF IInv, Typed
    <3> QED BY Zenon, <3>1
  <2>2. CASE job' # job
    BY Zenon, <2>2 DEF Enqueue
  <2> QED BY Zenon, <2>1, <2>2
<1>4. k \in Job /\ k.step \in {"idle", "pick"}
  <2>1. <<m>> \in Seq(Msgs)
    OBVIOUS
  <2> QED BY Zenon, <1>3, <2>1, IdleIsJob, PickIsJob
<1>5. RecordOK(m, r)'
  <2>1. RecordOK(m, r)
    BY Zenon, <1>1, EnqueuedFacts
  <2> QED BY Zenon, <1>2, <2>1 DEF RecordOK
<1>6. JobOK(w, k)'
  BY Zenon, <1>4 DEF JobOK, Busy, Carrying
<1>7. slips' \in 0 .. MaxSlips
  BY Zenon, <1>2, SlipsStay
<1>8. CASE r = out[m]
  <2>1. out' = out
    BY Zenon, <1>2, <1>8 DEF IInv, Typed
  <2>2. JobOK(w, k)
    BY Zenon, <1>4, QuietJob DEF Busy
  <2> QED BY Zenon, <1>2, <1>3, <1>7, <2>1, <2>2, JobStep, PeerStays
<1>9. CASE out[m].status \in {"absent", "pending", "blocked"}
  <2>1. \A v \in Workers \ {w} : Carrying(job[v]) => job[v].msg # m
    BY Zenon, <1>9, NobodyCarries
  <2> QED BY Zenon, <1>2, <1>3, <1>5, <1>6, <1>7, <2>1, RecordStep
<1> QED BY Zenon, <1>1, <1>8, <1>9, EnqueuedFacts
LEMMA ClaimKeeps ==
    ASSUME IInv, NEW w \in Workers, Claim(w)
    PROVE  /\ IInv'
           /\ \A m \in Msgs : out[m].status = "acknowledged" \/ m \in archive => out'[m] = out[m]
<1>0. PICK m : m = Head(job[w].queue)
  BY Zenon
<1>1. job[w] \in Job /\ job[w].step = "pick" /\ job[w].queue # <<>>
  BY Zenon DEF IInv, Typed, Claim
<1>2. job[w].queue \in Seq(Msgs)
  BY Zenon, <1>1 DEF Job
<1>3. m \in Msgs /\ Tail(job[w].queue) \in Seq(Msgs)
  BY <1>0, <1>1, <1>2
<1>4. PICK r : r = [out[m] EXCEPT !.status = "inflight", !.lease = w, !.live = TRUE]
  BY Zenon
<1>5. PICK k : k = [job[w] EXCEPT !.step = "claimed", !.queue = Tail(job[w].queue),
                                 !.msg = m, !.url = out[m].url]
  BY Zenon
<1>6. /\ out' = [out EXCEPT ![m] = r] /\ job' = [job EXCEPT ![w] = k]
      /\ Claimable(out[m], w \in Manuals) /\ UNCHANGED <<archive, route, peer, slips>>
  BY Zenon, <1>0, <1>4, <1>5 DEF Claim
<1>7. RecordOK(m, out[m])
  BY Zenon, <1>3 DEF IInv
<1>8. out[m].status \in {"pending", "blocked"} \/ (out[m].status = "inflight" /\ ~out[m].live)
  BY Zenon, <1>6 DEF Claimable
<1>9. out[m] \in Record /\ m \notin archive
  BY <1>7, <1>8 DEF RecordOK, Absent
<1>10. r \in Record /\ r.status = "inflight" /\ r.lease = w /\ r.live = TRUE
  BY Zenon, <1>4, <1>9 DEF Record
<1>11. out[m].url \in Routes
  BY Zenon, <1>9 DEF Record
<1>12. k \in Job /\ k.step = "claimed" /\ k.msg = m
  BY Zenon, <1>1, <1>3, <1>5, <1>11 DEF Job
<1>13. out'[m] = r /\ \A n \in Msgs : n # m => out'[n] = out[n]
  BY Zenon, <1>3, <1>6 DEF IInv, Typed
<1>14. RecordOK(m, r)'
  BY Zenon, <1>6, <1>9, <1>10, CommerceConstants DEF RecordOK
<1>15. JobOK(w, k)'
  BY Zenon, <1>3, <1>10, <1>12, <1>13 DEF JobOK, Carrying
<1>16. \A v \in Workers \ {w} : Carrying(job[v]) => job[v].msg # m
  BY Zenon, <1>3, <1>8, NobodyCarries
<1>17. IInv'
  BY Zenon, <1>3, <1>6, <1>14, <1>15, <1>16, RecordStep, SlipsStay
<1>18. \A n \in Msgs : out[n].status = "acknowledged" \/ n \in archive => out'[n] = out[n]
  BY Zenon, <1>8, <1>9, <1>13
<1> QED BY Zenon, <1>17, <1>18

\* A recorded attempt leaves a record in order, if an acknowledgement is true.
LEMMA RecordedFacts ==
    ASSUME IInv, NEW w \in Workers, NEW m \in Msgs, NEW result \in Acks,
           Recordable(out[m], w), result = "ack" => peer[m] = "acked"
    PROVE  /\ RecordOK(m, Recorded(out[m], w, result))
           /\ out[m].status # "acknowledged" /\ m \notin archive
           /\ \A v \in Workers \ {w} : Carrying(job[v]) => job[v].msg # m
<1> DEFINE r == Recorded(out[m], w, result)
<1>1. RecordOK(m, out[m])
  BY Zenon DEF IInv
<1>2. out[m].status \in {"pending", "blocked", "inflight"}
  BY Zenon DEF Recordable
<1>3. out[m] \in Record /\ m \notin archive
  BY <1>1, <1>2 DEF RecordOK, Absent
<1>4. /\ r \in Record /\ r.lease = None /\ r.live = FALSE
      /\ r.status \in {"acknowledged", "blocked", "pending"}
      /\ r.status = "acknowledged" => result = "ack"
  <2> DEFINE s == CASE result = "ack"   -> "acknowledged"
                    [] result = "block" -> "blocked"
                    [] result = "retry" -> "pending"
             d == (result # "retry" \/ w \notin Reconcilers)
  <2>1. s \in {"acknowledged", "blocked", "pending"} /\ (s = "acknowledged" => result = "ack")
    BY Zenon DEF Acks
  <2>2. d \in BOOLEAN
    BY Zenon
  <2>3. r = [out[m] EXCEPT !.status = s, !.due = d, !.lease = None, !.live = FALSE]
    BY Zenon DEF Recorded
  <2> HIDE DEF s, d, r
  <2> QED BY Zenon, <1>3, <2>1, <2>2, <2>3 DEF Record
<1> HIDE DEF r
<1>5. RecordOK(m, r)
  BY Zenon, <1>3, <1>4 DEF RecordOK
<1>6. \A v \in Workers \ {w} : Carrying(job[v]) => job[v].msg # m
  BY Zenon, Exclusive DEF Recordable
<1> QED BY Zenon, <1>2, <1>3, <1>5, <1>6 DEF r

\* A worker that records a result, or does not, and goes on with k.
LEMMA RecordingKeeps ==
    ASSUME IInv, NEW w \in Workers, NEW m \in Msgs, NEW result \in Acks,
           result = "ack" => peer[m] = "acked",
           out' = IF Recordable(out[m], w)
                  THEN [out EXCEPT ![m] = Recorded(out[m], w, result)] ELSE out,
           NEW k, JobOK(w, k), ~Carrying(k), job' = [job EXCEPT ![w] = k],
           UNCHANGED <<archive, route, peer, slips>>
    PROVE  /\ IInv'
           /\ \A n \in Msgs : out[n].status = "acknowledged" \/ n \in archive => out'[n] = out[n]
<1>1. slips' \in 0 .. MaxSlips
  BY Zenon, SlipsStay
<1>2. CASE Recordable(out[m], w)
  <2>1. PICK r : r = Recorded(out[m], w, result)
    BY Zenon
  <2>2. out' = [out EXCEPT ![m] = r]
    BY Zenon, <1>2, <2>1
  <2>3. /\ RecordOK(m, r) /\ out[m].status # "acknowledged" /\ m \notin archive
        /\ \A v \in Workers \ {w} : Carrying(job[v]) => job[v].msg # m
    BY Zenon, <1>2, <2>1, RecordedFacts
  <2>4. RecordOK(m, r)'
    BY Zenon, <2>3 DEF RecordOK
  <2>5. JobOK(w, k)'
    BY Zenon DEF JobOK, Carrying
  <2>6. IInv'
    BY Zenon, <1>1, <2>2, <2>3, <2>4, <2>5, RecordStep
  <2> QED BY Zenon, <2>2, <2>3, <2>6 DEF IInv, Typed
<1>3. CASE ~Recordable(out[m], w)
  <2>1. out' = out
    BY Zenon, <1>3
  <2>2. IInv'
    BY Zenon, <1>1, <2>1, JobStep, PeerStays
  <2> QED BY Zenon, <2>1, <2>2
<1> QED BY Zenon, <1>2, <1>3
LEMMA RecordResultKeeps ==
    ASSUME IInv, NEW w \in Workers, RecordResult(w)
    PROVE  /\ IInv'
           /\ \A n \in Msgs : out[n].status = "acknowledged" \/ n \in archive => out'[n] = out[n]
<1>1. JobOK(w, job[w]) /\ job[w].step = "record"
  BY Zenon DEF IInv, RecordResult
<1>2. /\ job[w].step \in Busy /\ job[w].msg \in Msgs /\ job[w].result \in Acks
      /\ job[w].result = "ack" => peer[job[w].msg] = "acked"
  BY Zenon, <1>1 DEF JobOK, Busy
<1>3. JobOK(w, AfterDispatch(w))
  BY Zenon, <1>2, AfterDispatchJob
<1>4. ~Carrying(AfterDispatch(w))
  <2>1. CASE w \in Reconcilers
    <3>1. job[w] \in Job
      BY Zenon, <1>1 DEF JobOK
    <3>2. AfterDispatch(w).step = "check"
      BY Zenon, <2>1, <3>1 DEF AfterDispatch, Job
    <3> QED BY Zenon, <3>2 DEF Carrying
  <2>2. CASE w \notin Reconcilers
    <3>1. job[w].queue \in Seq(Msgs)
      BY Zenon, <1>1 DEF JobOK, Job
    <3>2. AfterDispatch(w).step = "pick"
      BY Zenon, <2>2, <3>1, PickIsJob DEF AfterDispatch, NextCandidate
    <3> QED BY Zenon, <3>2 DEF Carrying
  <2> QED BY Zenon, <2>1, <2>2
<1>5. PICK m, result, k : /\ m \in Msgs /\ result \in Acks
                          /\ m = job[w].msg /\ result = job[w].result /\ k = AfterDispatch(w)
  BY Zenon, <1>2
<1>6. /\ out' = IF Recordable(out[m], w)
                THEN [out EXCEPT ![m] = Recorded(out[m], w, result)] ELSE out
      /\ job' = [job EXCEPT ![w] = k] /\ UNCHANGED <<archive, route, peer, slips>>
  BY Zenon, <1>5 DEF RecordResult
<1> QED BY Zenon, <1>2, <1>3, <1>4, <1>5, <1>6, RecordingKeeps

LEMMA ReleaseKeeps ==
    ASSUME IInv, NEW w \in Workers, Release(w)
    PROVE  /\ IInv'
           /\ \A n \in Msgs : out[n].status = "acknowledged" \/ n \in archive => out'[n] = out[n]
<1>1. JobOK(w, job[w]) /\ job[w].step = "release"
  BY Zenon DEF IInv, Release
<1>2. job[w].msg \in Msgs
  BY Zenon, <1>1 DEF JobOK, Busy
<1>3. JobOK(w, NextCandidate(w))
  BY Zenon, NextCandidateJob
<1>4. ~Carrying(NextCandidate(w))
  <2>1. job[w].queue \in Seq(Msgs)
    BY Zenon, <1>1 DEF JobOK, Job
  <2>2. NextCandidate(w).step = "pick"
    BY Zenon, <2>1, PickIsJob DEF NextCandidate
  <2> QED BY Zenon, <2>2 DEF Carrying
<1>5. PICK m, k : m \in Msgs /\ m = job[w].msg /\ k = NextCandidate(w)
  BY Zenon, <1>2
<1>6. /\ out' = IF Recordable(out[m], w)
                THEN [out EXCEPT ![m] = Recorded(out[m], w, "retry")] ELSE out
      /\ job' = [job EXCEPT ![w] = k] /\ UNCHANGED <<archive, route, peer, slips>>
  BY Zenon, <1>5 DEF Release
<1> QED BY Zenon, <1>3, <1>4, <1>5, <1>6, RecordingKeeps DEF Acks

LEMMA ArchiveKeeps ==
    ASSUME IInv, NEW w \in Workers, NEW m \in Msgs, Archive(w, m)
    PROVE  /\ IInv' /\ archive \subseteq archive'
           /\ \A n \in Msgs : out[n].status = "acknowledged" => out'[n] = out[n] \/ n \in archive'
<1>1. /\ job[w].step = "maintain" /\ out[m].status = "acknowledged"
      /\ archive' = archive \cup {m} /\ out' = [out EXCEPT ![m] = Absent]
      /\ UNCHANGED <<job, route, peer, slips>>
  BY Zenon DEF Archive
<1>2. RecordOK(m, out[m]) /\ JobOK(w, job[w])
  BY Zenon DEF IInv
<1>3. PICK k : k = job[w]
  BY Zenon
<1>4. job' = [job EXCEPT ![w] = k]
  BY Zenon, <1>1, <1>3 DEF IInv, Typed
<1>5. peer[m] = "acked"
  BY Zenon, <1>1, <1>2 DEF RecordOK
<1>6. RecordOK(m, Absent)'
  BY Zenon, <1>1, <1>5 DEF RecordOK, Absent
<1>7. JobOK(w, k)'
  BY Zenon, <1>1, <1>2, <1>3 DEF JobOK, Carrying
<1>8. \A v \in Workers \ {w} : Carrying(job[v]) => job[v].msg # m
  BY Zenon, <1>1, NobodyCarries
<1>9. IInv'
  BY Zenon, <1>1, <1>4, <1>6, <1>7, <1>8, RecordStep, SlipsStay
<1>10. \A n \in Msgs : n # m => out'[n] = out[n]
  BY Zenon, <1>1 DEF IInv, Typed
<1> QED BY Zenon, <1>1, <1>9, <1>10

-----------------------------------------------------------------------------
(* Time, configuration and the peer *)

LEMMA LeaseRunsOutKeeps ==
    ASSUME IInv, NEW m \in Msgs, LeaseRunsOut(m)
    PROVE  /\ IInv'
           /\ \A n \in Msgs : out[n].status = "acknowledged" \/ n \in archive => out'[n] = out[n]
<1>1. RecordOK(m, out[m]) /\ out[m].live
  BY Zenon DEF IInv, LeaseRunsOut
<1>2. out[m].status = "inflight" /\ out[m].lease # None
  BY Zenon, <1>1 DEF RecordOK
<1>3. out[m] \in Record /\ m \notin archive
  BY <1>1, <1>2 DEF RecordOK, Absent
<1>4. PICK w \in Workers : w = out[m].lease
  BY Zenon, <1>2, <1>3 DEF Record
<1>5. PICK r : r = [out[m] EXCEPT !.live = FALSE]
  BY Zenon
<1>6. out' = [out EXCEPT ![m] = r] /\ UNCHANGED <<archive, route, peer>>
  BY Zenon, <1>5 DEF LeaseRunsOut
<1>7. r \in Record /\ r.status = "inflight" /\ r.lease = w /\ r.live = FALSE
  BY Zenon, <1>2, <1>3, <1>4, <1>5 DEF Record
<1>8. RecordOK(m, r)'
  BY Zenon, <1>3, <1>6, <1>7, CommerceConstants DEF RecordOK
<1>9. \A v \in Workers \ {w} : Carrying(job[v]) => job[v].msg # m
  BY Zenon, <1>4, Exclusive
<1>10. out'[m] = r /\ \A n \in Msgs : n # m => out'[n] = out[n]
  BY Zenon, <1>6 DEF IInv, Typed
<1>11. JobOK(w, job[w]) /\ job[w] \in Job
  BY Zenon DEF IInv, JobOK
<1>12. slips' \in 0 .. MaxSlips
  <2>1. slips' = slips \/ (slips < MaxSlips /\ slips' = slips + 1)
    BY Zenon DEF LeaseRunsOut
  <2> QED BY Zenon, <2>1, SlipsStay
<1>13. IInv'
  <2>1. CASE Delivering(w, m)
    <3>1. PICK k : k = [job[w] EXCEPT !.late = TRUE]
      BY Zenon
    <3>2. job' = [job EXCEPT ![w] = k]
      BY Zenon, <1>4, <2>1, <3>1 DEF LeaseRunsOut
    <3>3. /\ k \in Job /\ k.late /\ k.step = job[w].step /\ k.msg = job[w].msg
          /\ k.result = job[w].result
      BY Zenon, <1>11, <3>1 DEF Job
    <3>4. JobOK(w, k)'
      BY Zenon, <1>6, <1>11, <3>3 DEF JobOK, Carrying
    <3> QED BY Zenon, <1>6, <1>8, <1>9, <1>12, <3>2, <3>4, RecordStep
  <2>2. CASE ~Delivering(w, m)
    <3>1. PICK k : k = job[w]
      BY Zenon
    <3>2. job' = [job EXCEPT ![w] = k]
      BY Zenon, <1>4, <2>2, <3>1 DEF LeaseRunsOut, IInv, Typed
    <3>3. Carrying(k) => k.msg # m /\ k.msg \in Msgs
      BY Zenon, <1>11, <2>2, <3>1 DEF Delivering, Carrying, JobOK, Busy
    <3>4. JobOK(w, k)'
      BY Zenon, <1>6, <1>10, <1>11, <3>1, <3>3 DEF JobOK, Carrying
    <3> QED BY Zenon, <1>6, <1>8, <1>9, <1>12, <3>2, <3>4, RecordStep
  <2> QED BY Zenon, <2>1, <2>2
<1> QED BY Zenon, <1>2, <1>3, <1>10, <1>13
LEMMA FallsDueKeeps ==
    ASSUME IInv, NEW m \in Msgs, FallsDue(m)
    PROVE  /\ IInv'
           /\ \A n \in Msgs : out[n].status = "acknowledged" \/ n \in archive => out'[n] = out[n]
<1>1. /\ RecordOK(m, out[m]) /\ out[m].status = "pending"
      /\ UNCHANGED <<archive, job, route, peer, slips>>
  BY Zenon DEF IInv, FallsDue
<1>2. out[m] \in Record /\ m \notin archive
  BY <1>1 DEF RecordOK, Absent
<1>3. PICK r : r = [out[m] EXCEPT !.due = TRUE]
  BY Zenon
<1>4. out' = [out EXCEPT ![m] = r]
  BY Zenon, <1>3 DEF FallsDue
<1>5. r \in Record /\ r.status = "pending" /\ r.lease = out[m].lease /\ r.live = out[m].live
  BY Zenon, <1>1, <1>2, <1>3 DEF Record
<1>6. RecordOK(m, r)'
  BY Zenon, <1>1, <1>2, <1>5 DEF RecordOK
<1>7. /\ out' \in [Msgs -> Record \cup {Absent}]
      /\ \A n \in Msgs : out'[n] = IF n = m THEN r ELSE out[n]
  BY Zenon, <1>4, <1>5 DEF IInv, Typed
<1>8. \A n \in Msgs : RecordOK(n, out[n])'
  <2> SUFFICES ASSUME NEW n \in Msgs PROVE RecordOK(n, out[n])'
    BY Zenon
  <2>1. CASE n = m
    BY Zenon, <1>6, <1>7, <2>1
  <2>2. CASE n # m
    <3>1. RecordOK(n, out[n]) /\ out'[n] = out[n]
      BY Zenon, <1>7, <2>2 DEF IInv
    <3> QED BY Zenon, <1>1, <3>1 DEF RecordOK
  <2> QED BY Zenon, <2>1, <2>2
<1>9. \A v \in Workers : JobOK(v, job[v])'
  <2> SUFFICES ASSUME NEW v \in Workers PROVE JobOK(v, job[v])'
    BY Zenon
  <2>1. JobOK(v, job[v]) /\ (Carrying(job[v]) => job[v].msg # m)
    BY Zenon, <1>1, NobodyCarries DEF IInv
  <2>2. Carrying(job[v]) => job[v].msg \in Msgs
    BY Zenon, <2>1 DEF JobOK, Carrying, Busy
  <2>3. Carrying(job[v]) => out'[job[v].msg] = out[job[v].msg]
    BY Zenon, <1>7, <2>1, <2>2
  <2> QED BY Zenon, <1>1, <2>1, <2>3 DEF JobOK, Carrying
<1>10. Typed'
  BY Zenon, <1>1, <1>7 DEF IInv, Typed
<1> QED BY Zenon, <1>1, <1>2, <1>7, <1>8, <1>9, <1>10 DEF IInv

\* A step of the peer, of the network or of the operator.
LEMMA OutsideKeeps ==
    ASSUME IInv, UNCHANGED <<out, archive, job, slips>>, route' \in Routes, PeerGoesOn
    PROVE  IInv'
<1>1. Typed'
  BY Zenon DEF IInv, Typed, PeerGoesOn
<1>2. ASSUME NEW m \in Msgs PROVE RecordOK(m, out[m])'
  <2>1. RecordOK(m, out[m])
    BY Zenon DEF IInv
  <2> QED BY Zenon, <2>1 DEF RecordOK, PeerGoesOn
<1>3. ASSUME NEW v \in Workers PROVE JobOK(v, job[v])'
  <2>1. JobOK(v, job[v])
    BY Zenon DEF IInv
  <2>2. job[v].step = "record" /\ job[v].result = "ack" => job[v].msg \in Msgs
    BY Zenon, <2>1 DEF JobOK, Busy
  <2> QED BY Zenon, <2>1, <2>2 DEF JobOK, PeerGoesOn, Carrying
<1> QED BY Zenon, <1>1, <1>2, <1>3 DEF IInv

LEMMA PeerKeeps ==
    ASSUME IInv, NEW m \in Msgs, PeerImports(m) \/ PeerAcknowledges(m) \/ PeerLoses(m)
    PROVE  IInv'
<1>1. UNCHANGED <<out, archive, job, route, slips>> /\ route \in Routes
  BY Zenon DEF PeerImports, PeerAcknowledges, PeerLoses, IInv, Typed
<1>2. PICK to \in {"none", "imported", "acked"} :
         peer' = [peer EXCEPT ![m] = to] /\ (peer[m] = "acked" => to = "acked")
  BY Zenon DEF PeerImports, PeerAcknowledges, PeerLoses
<1>3. PeerGoesOn
  BY Zenon, <1>2 DEF IInv, Typed, PeerGoesOn
<1> QED BY Zenon, <1>1, <1>3, OutsideKeeps

LEMMA RebindKeeps ==
    ASSUME IInv, NEW url \in Routes, Rebind(url)
    PROVE  IInv'
BY Zenon, OutsideKeeps, PeerStays DEF Rebind

-----------------------------------------------------------------------------
(* The theorems *)

LEMMA InitHolds == Init => IInv
<1> SUFFICES ASSUME Init PROVE IInv
  BY Zenon
<1>1. Typed
  <2>1. slips \in 0 .. MaxSlips
    BY CommerceConstants DEF Init
  <2>2. job \in [Workers -> Job]
    BY Zenon, IdleIsJob DEF Init
  <2>3. \A url \in Routes : New(url) \in Record
    BY DEF New, Record
  <2>4. {Absent} \cup {New(url) : url \in Routes} \subseteq Record \cup {Absent}
    BY Zenon, <2>3
  <2>5. out \in [Msgs -> Record \cup {Absent}]
    BY <2>4 DEF Init
  <2> QED BY Zenon, <2>1, <2>2, <2>5 DEF Init, Typed
<1>2. ASSUME NEW m \in Msgs PROVE RecordOK(m, out[m])
  <2>1. out[m] = Absent \/ \E url \in Routes : out[m] = New(url)
    BY Zenon DEF Init
  <2>2. Absent.lease = None /\ ~Absent.live /\ Absent.status = "absent"
    BY Zenon DEF Absent
  <2>3. \A url : New(url).lease = None /\ ~New(url).live /\ New(url).status = "pending"
    BY Zenon DEF New
  <2>4. /\ out[m].lease = None /\ ~out[m].live
        /\ out[m].status # "inflight" /\ out[m].status # "acknowledged"
    BY Zenon, <2>1, <2>2, <2>3
  <2>5. out[m] \in Record \cup {Absent} /\ m \notin archive
    BY Zenon, <1>1 DEF Init, Typed
  <2> QED BY Zenon, <2>4, <2>5 DEF RecordOK
<1>3. ASSUME NEW w \in Workers PROVE JobOK(w, job[w])
  <2>1. job[w] = Idle
    BY Zenon DEF Init
  <2> QED BY Zenon, <2>1, IdleIsJob, QuietJob DEF Busy
<1> QED BY Zenon, <1>1, <1>2, <1>3 DEF IInv

\* Nothing undoes an acknowledgement.
Final ==
    /\ archive \subseteq archive'
    /\ \A m \in Msgs : out[m].status = "acknowledged" => out'[m] = out[m] \/ m \in archive'

LEMMA StepKeeps ==
    ASSUME IInv, NEW w \in Workers, Step(w)
    PROVE  IInv' /\ Final
<1>1. CASE Begin(w) \/ PassOver(w) \/ Dispatch(w) \/ Check(w)
  <2>1. UNCHANGED <<out, archive>>
    BY Zenon, <1>1 DEF Begin, PassOver, Dispatch, Check
  <2> QED BY Zenon, <1>1, <2>1, BeginKeeps, PassOverKeeps, DispatchKeeps, CheckKeeps DEF Final
<1>2. CASE EndBatch(w) \/ EndCycle(w)
  <2>1. UNCHANGED <<out, archive>>
    BY Zenon, <1>2 DEF EndBatch, EndCycle
  <2> QED BY Zenon, <1>2, <2>1, QuietKeeps DEF Final
<1>3. CASE Claim(w)
  BY Zenon, <1>3, ClaimKeeps DEF Final, Claim
<1>4. CASE RecordResult(w)
  BY Zenon, <1>4, RecordResultKeeps DEF Final, RecordResult
<1>5. CASE Release(w)
  BY Zenon, <1>5, ReleaseKeeps DEF Final, Release
<1>6. ASSUME NEW result \in {"ack", "retry", "block"}, Respond(w, result)
      PROVE  IInv' /\ Final
  <2>1. UNCHANGED <<out, archive>>
    BY Zenon, <1>6 DEF Respond
  <2> QED BY Zenon, <1>6, <2>1, RespondKeeps DEF Final
<1> QED BY Zenon, <1>1, <1>2, <1>3, <1>4, <1>5, <1>6 DEF Step

LEMMA NextKeeps == IInv /\ [Next]_vars => IInv' /\ Final
<1> SUFFICES ASSUME IInv, [Next]_vars PROVE IInv' /\ Final
  BY Zenon
<1>1. CASE UNCHANGED vars
  <2>1. UNCHANGED <<out, archive, job, route, peer, slips>>
    BY Zenon, <1>1 DEF vars
  <2>2. route' \in Routes
    BY Zenon, <2>1 DEF IInv, Typed
  <2> QED BY Zenon, <2>1, <2>2, OutsideKeeps, PeerStays DEF Final
<1>2. ASSUME NEW w \in Workers, RecordFails(w) \/ Stop(w) \/ Crash(w)
      PROVE  IInv' /\ Final
  <2>1. UNCHANGED <<out, archive>>
    BY Zenon, <1>2 DEF RecordFails, Stop, Crash
  <2> QED BY Zenon, <1>2, <2>1, RecordFailsKeeps, QuietKeeps DEF Final
<1>3. ASSUME NEW w \in Workers, NEW m \in Msgs, Enqueue(w, m)
      PROVE  IInv' /\ Final
  <2>1. archive' = archive /\ out' = [out EXCEPT ![m] = Enqueued(m)]
    BY Zenon, <1>3 DEF Enqueue
  <2>2. \A n \in Msgs : out'[n] = IF n = m THEN Enqueued(m) ELSE out[n]
    BY Zenon, <2>1 DEF IInv, Typed
  <2>3. out[m].status = "acknowledged" => Enqueued(m) = out[m]
    BY Zenon, EnqueuedFacts
  <2> QED BY Zenon, <1>3, <2>1, <2>2, <2>3, EnqueueKeeps DEF Final
<1>4. ASSUME NEW w \in Workers, NEW m \in Msgs, Archive(w, m)
      PROVE  IInv' /\ Final
  BY Zenon, <1>4, ArchiveKeeps DEF Final
<1>5. ASSUME NEW m \in Msgs, LeaseRunsOut(m) \/ FallsDue(m)
      PROVE  IInv' /\ Final
  <2>1. archive' = archive
    BY Zenon, <1>5 DEF LeaseRunsOut, FallsDue
  <2> QED BY Zenon, <1>5, <2>1, LeaseRunsOutKeeps, FallsDueKeeps DEF Final
<1>6. ASSUME NEW m \in Msgs, PeerImports(m) \/ PeerAcknowledges(m) \/ PeerLoses(m)
      PROVE  IInv' /\ Final
  <2>1. UNCHANGED <<out, archive>>
    BY Zenon, <1>6 DEF PeerImports, PeerAcknowledges, PeerLoses
  <2> QED BY Zenon, <1>6, <2>1, PeerKeeps DEF Final
<1>7. ASSUME NEW url \in Routes, Rebind(url)
      PROVE  IInv' /\ Final
  <2>1. UNCHANGED <<out, archive>>
    BY Zenon, <1>7 DEF Rebind
  <2> QED BY Zenon, <1>7, <2>1, RebindKeeps DEF Final
<1> QED BY Zenon, <1>1, <1>2, <1>3, <1>4, <1>5, <1>6, <1>7, StepKeeps DEF Next

\* Every step of every worker, of the peer and of time keeps the strengthened
\* invariant of the records and the workers.
THEOREM Inductive == Spec => []IInv
BY InitHolds, NextKeeps, PTL DEF Spec

\* Until its lease runs out, a worker that is delivering a message holds the live
\* lease on its record: claim() and record_attempt() keep every other away.
THEOREM CommerceDeliveryIsExclusive == Spec => []DeliveryIsExclusive
<1>1. IInv => DeliveryIsExclusive
  <2> SUFFICES ASSUME IInv PROVE DeliveryIsExclusive
    BY Zenon
  <2>1. \A m \in Msgs : RecordOK(m, out[m])
    BY Zenon DEF IInv
  <2>2. TypeOK
    BY Zenon, <2>1 DEF IInv, Typed, TypeOK, RecordOK
  <2>3. ASSUME NEW m \in Msgs, NEW w \in Workers, Delivering(w, m), ~job[w].late
        PROVE  out[m].lease = w /\ out[m].live
    BY Zenon, <2>3, Exclusive DEF Delivering, Carrying
  <2> QED BY Zenon, <2>2, <2>3 DEF DeliveryIsExclusive
<1> QED BY <1>1, Inductive, PTL

\* record_attempt() and archive_acknowledged() call a message acknowledged only
\* when the peer has imported it and kept a durable receipt.
THEOREM CommerceAckMeansReceived == Spec => []AckMeansReceived
<1>1. IInv => AckMeansReceived
  BY Zenon DEF IInv, RecordOK, AckMeansReceived
<1> QED BY <1>1, Inductive, PTL

\* An acknowledged record stays as it is until it is archived, and enqueue()
\* never creates an archived one again.
THEOREM CommerceAcknowledgedIsFinal == Spec => AcknowledgedIsFinal
<1> DEFINE A == \A m \in Msgs :
                   /\ out[m].status = "acknowledged" => out'[m] = out[m] \/ m \in archive'
                   /\ m \in archive => m \in archive' /\ out'[m] = Absent
<1>1. IInv /\ [Next]_vars => [A]_vars
  <2> SUFFICES ASSUME IInv, [Next]_vars PROVE A
    BY Zenon
  <2>1. IInv' /\ Final
    BY Zenon, NextKeeps
  <2>2. \A m \in Msgs : m \in archive' => out'[m] = Absent
    BY Zenon, <2>1 DEF IInv, RecordOK
  <2> QED BY Zenon, <2>1, <2>2 DEF Final
<1> QED BY <1>1, Inductive, PTL DEF Spec, AcknowledgedIsFinal
=============================================================================
