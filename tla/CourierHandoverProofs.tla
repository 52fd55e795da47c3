------------------------ MODULE CourierHandoverProofs ------------------------
(***************************************************************************)
(* Proofs about CourierHandover, for any number of processes and messages, *)
(* any times, quotas and bounds.                                           *)
(*                                                                         *)
(* The inductive invariant ties each call of process_handover to what its  *)
(* earlier steps have made durable: past "open" the inbox has accepted the *)
(* message, past "ack" its ACK is in the ACK outbox; and every ACK there   *)
(* bears the time of an acceptance or, of a message the replay cache has   *)
(* let go, created_at_ms.                                                  *)
(***************************************************************************)
EXTENDS CourierHandover, FiniteSetTheorems, TLAPS

-----------------------------------------------------------------------------
(* The carrier's pool *)

\* list.remove keeps every other digest.
LEMMA WithoutKeepsOthers ==
    ASSUME NEW s \in Seq(Msgs), NEW m \in Carried(s)
    PROVE  /\ Without(s, m) \in Seq(Msgs)
           /\ \A x \in Msgs : x # m /\ x \in Carried(s) => x \in Carried(Without(s, m))
<1> DEFINE place == CHOOSE i \in DOMAIN s : s[i] = m
           n     == Len(s) - 1
           t     == [j \in 1 .. n |-> IF j < place THEN s[j] ELSE s[j + 1]]
<1>1. place \in 1 .. Len(s) /\ s[place] = m
  BY DEF Carried
<1>2. t = Without(s, m)
  BY Zenon DEF Without
<1> HIDE DEF place
<1>3. n \in Nat /\ \A j \in 1 .. n : j \in 1 .. Len(s) /\ j + 1 \in 1 .. Len(s)
  BY <1>1
<1>4. \A j \in 1 .. n : (IF j < place THEN s[j] ELSE s[j + 1]) \in Msgs
  BY <1>3
<1> HIDE DEF n
<1>5. t \in [1 .. n -> Msgs] /\ \A j \in 1 .. n : t[j] = IF j < place THEN s[j] ELSE s[j + 1]
  BY Zenon, <1>4
<1> HIDE DEF t
<1>6. t \in Seq(Msgs) /\ DOMAIN t = 1 .. n
  BY <1>3, <1>5
<1>7. ASSUME NEW x \in Msgs, x # m, x \in Carried(s)
      PROVE  x \in Carried(t)
  <2>1. PICK k \in 1 .. Len(s) : s[k] = x
    BY <1>7 DEF Carried
  <2>2. k # place
    BY Zenon, <1>1, <1>7, <2>1
  <2>3. CASE k < place
    <3>1. k \in 1 .. n
      BY <1>1, <2>3 DEF n
    <3>2. t[k] = x
      BY Zenon, <1>5, <2>1, <2>3, <3>1
    <3> QED BY Zenon, <1>6, <3>1, <3>2 DEF Carried
  <2>4. CASE place < k
    <3>1. k - 1 \in 1 .. n /\ ~(k - 1 < place) /\ (k - 1) + 1 = k
      BY <1>1, <2>4 DEF n
    <3>2. t[k - 1] = x
      BY Zenon, <1>5, <2>1, <3>1
    <3> QED BY Zenon, <1>6, <3>1, <3>2 DEF Carried
  <2> QED BY <1>1, <2>2, <2>3, <2>4
<1> QED BY Zenon, <1>2, <1>6, <1>7

-----------------------------------------------------------------------------
(* The inductive invariant *)

Steps == {"idle", "open", "stamp", "ack", "hand"}

Run == [step: Steps, batch: Seq(Msgs), now: Time, at: Stamps]

AckStates == {"absent", "queued", "expired"}

StoresTyped ==
    /\ pool \in Seq(Msgs) /\ sealed \subseteq Msgs
    /\ acks \in [Ack -> AckStates]
    /\ sent \in [Msgs -> {"absent", "queued", "delivered", "expired"}]
    /\ slips \in 0 .. MaxSlips /\ now \in Time

\* The inbox has accepted m, and may have forgotten it since.
Accepted(m) == \E t \in Time : <<m, t>> \in taken

\* An ACK of m may bear the time t.
Legit(m, t) == <<m, t>> \in taken \/ (m \in evicted /\ t = Created[m])

\* What the inbox has accepted it accepted in time, and keeps until it is processed;
\* while the cache has not let m go, the time it gives is that of the one acceptance.
InboxOK ==
    /\ inbox \in [Msgs -> Entry]
    /\ taken \subseteq Msgs \X Time /\ done \subseteq Msgs /\ evicted \subseteq Msgs
    /\ \A m \in Msgs : inbox[m].at # 0 => <<m, inbox[m].at>> \in taken
    /\ \A m \in Msgs \ evicted, t \in Time : <<m, t>> \in taken => t = inbox[m].at
    /\ \A m \in Msgs, t \in Time : <<m, t>> \in taken => Kept(m) /\ t < Expires[m]
    /\ \A m \in evicted : Accepted(m)

\* The ACK outbox keeps its cap.
CapKept == IsFiniteSet(QueuedAcks) /\ Cardinality(QueuedAcks) <= AckCap

AcksLegit == \A a \in Ack : acks[a] # "absent" => Legit(a[1], a[2])

Acked(m) == \E a \in Ack : a[1] = m /\ acks[a] # "absent"

Owned == \A m \in sealed : m \notin Carried(pool) => Accepted(m) /\ Acked(m)

DeliveredAccepted == \A m \in Msgs : sent[m] = "delivered" => Accepted(m)

\* What the call has made durable by the time it is at its step.
RunOK(r) ==
    /\ r \in Run
    /\ r.step # "idle" => r.batch # <<>>
    /\ r.step \in {"stamp", "ack", "hand"} => Accepted(Head(r.batch))
    /\ r.step = "ack" => Legit(Head(r.batch), r.at)
    /\ r.step = "hand" => acks[<<Head(r.batch), r.at>>] # "absent"

RunsOK == run \in [Procs -> Run] /\ \A p \in Procs : RunOK(run[p])

IInv ==
    /\ StoresTyped /\ InboxOK /\ CapKept /\ AcksLegit /\ Owned /\ DeliveredAccepted
    /\ RunsOK

-----------------------------------------------------------------------------
(* What only ever grows *)

\* A step that leaves the inbox alone.
LEMMA InboxKept ==
    ASSUME InboxOK, UNCHANGED inboxVars
    PROVE  InboxOK'
  BY Zenon DEF InboxOK, inboxVars, Accepted, Kept

\* Acceptances and evictions are remembered here, so what they justify stays.
LEMMA LegitKept ==
    ASSUME taken \subseteq taken', evicted \subseteq evicted'
    PROVE  /\ \A m : Accepted(m) => Accepted(m)'
           /\ \A m, t : Legit(m, t) => Legit(m, t)'
  BY Zenon DEF Accepted, Legit

LEMMA RunOKKept ==
    ASSUME NEW r, RunOK(r), taken \subseteq taken', evicted \subseteq evicted',
           \A a \in Ack : acks[a] # "absent" => acks'[a] # "absent"
    PROVE  RunOK(r)'
<1>1. CASE r.step # "hand"
  BY Zenon, <1>1, LegitKept DEF RunOK
<1>2. CASE r.step = "hand"
  <2>1. r \in Run /\ r.batch # <<>>  BY <1>2 DEF RunOK
  <2>2. Head(r.batch) \in Msgs /\ r.at \in Stamps  BY <2>1 DEF Run
  <2>3. <<Head(r.batch), r.at>> \in Ack  BY Zenon, <2>2 DEF Ack
  <2> QED  BY Zenon, <1>2, <2>3, LegitKept DEF RunOK
<1> QED  BY Zenon, <1>1, <1>2

\* The invariant but for the stores' types, of a step that adds to what is durable.
LEMMA Grown ==
    ASSUME IInv, taken \subseteq taken', evicted \subseteq evicted', acks' = acks,
           sealed' = sealed, pool' = pool, sent' = sent
    PROVE  CapKept' /\ AcksLegit' /\ Owned' /\ DeliveredAccepted'
<1>1. CapKept'  BY Zenon DEF IInv, CapKept, QueuedAcks
<1>2. AcksLegit'  BY Zenon, LegitKept DEF IInv, AcksLegit
<1>3. Owned'
  <2>1. \A m : Acked(m) => Acked(m)'  BY Zenon DEF Acked
  <2> QED  BY Zenon, <2>1, LegitKept DEF IInv, Owned
<1>4. DeliveredAccepted'  BY Zenon, LegitKept DEF IInv, DeliveredAccepted
<1> QED  BY Zenon, <1>1, <1>2, <1>3, <1>4

LEMMA RunsKept ==
    ASSUME IInv, taken \subseteq taken', evicted \subseteq evicted', run' = run,
           \A a \in Ack : acks[a] # "absent" => acks'[a] # "absent"
    PROVE  RunsOK'
<1>1. \A p \in Procs : RunOK(run[p])  BY Zenon DEF IInv, RunsOK
<1>2. ASSUME NEW r, RunOK(r) PROVE RunOK(r)'  BY Zenon, <1>2, RunOKKept
<1>3. \A p \in Procs : RunOK(run[p])'
  <2> SUFFICES ASSUME NEW p \in Procs PROVE RunOK(run[p])'
    BY Zenon
  <2>1. PICK r : r = run[p]  BY Zenon
  <2>2. RunOK(r)'  BY Zenon, <1>1, <1>2, <2>1
  <2>3. run'[p] = r  BY Zenon, <2>1
  <2> QED  BY Zenon, <2>2, <2>3 DEF RunOK
<1> QED  BY Zenon, <1>3 DEF IInv, RunsOK

LEMMA RunStep ==
    ASSUME IInv, NEW p \in Procs, NEW r, RunOK(r)', run' = [run EXCEPT ![p] = r],
           taken \subseteq taken', evicted \subseteq evicted',
           \A a \in Ack : acks[a] # "absent" => acks'[a] # "absent"
    PROVE  RunsOK'
<1>1. r \in Run /\ run \in [Procs -> Run]  BY Zenon DEF IInv, RunsOK, RunOK
<1>2. run' \in [Procs -> Run] /\ \A q \in Procs : run'[q] = IF q = p THEN r ELSE run[q]
  BY Zenon, <1>1
<1>3. ASSUME NEW q \in Procs PROVE RunOK(run[q])'
  <2>1. PICK k : k = run'[q]  BY Zenon
  <2>2. RunOK(k)'
    <3>1. CASE q = p  BY Zenon, <1>2, <2>1, <3>1
    <3>2. CASE q # p
      <4>1. k = run[q] /\ RunOK(run[q])  BY Zenon, <1>2, <2>1, <3>2 DEF IInv, RunsOK
      <4> QED  BY Zenon, <4>1, RunOKKept
    <3> QED  BY Zenon, <3>1, <3>2
  <2> QED  BY Zenon, <2>1, <2>2 DEF RunOK
<1> QED  BY Zenon, <1>2, <1>3 DEF RunsOK

\* A step of one call that leaves the stores alone.
LEMMA OwnStep ==
    ASSUME IInv, NEW p \in Procs, NEW r, RunOK(r), run' = [run EXCEPT ![p] = r],
           UNCHANGED <<pool, sealed, inboxVars, acks, sent, now>>, slips' \in 0 .. MaxSlips
    PROVE  IInv'
<1>1. taken' = taken /\ evicted' = evicted  BY Zenon DEF inboxVars
<1>2. StoresTyped' /\ InboxOK'  BY Zenon, InboxKept DEF IInv, StoresTyped
<1>3. CapKept' /\ AcksLegit' /\ Owned' /\ DeliveredAccepted'  BY Zenon, <1>1, Grown
<1>4. RunOK(r)'  BY Zenon, <1>1, RunOKKept
<1>5. RunsOK'  BY Zenon, <1>1, <1>4, RunStep
<1> QED  BY Zenon, <1>2, <1>3, <1>5 DEF IInv

\* The call p is in, with its five fields.
LEMMA RunFacts ==
    ASSUME IInv, NEW p \in Procs
    PROVE  /\ RunOK(run[p]) /\ run[p] \in Run /\ run \in [Procs -> Run]
           /\ run[p].step # "idle" => Head(run[p].batch) \in Msgs /\ run[p].batch # <<>>
           /\ run[p].at \in Stamps /\ run[p].now \in Time
<1>1. RunOK(run[p]) /\ run[p] \in Run /\ run \in [Procs -> Run]
  BY Zenon DEF IInv, RunsOK, RunOK
<1>2. run[p].step # "idle" => Head(run[p].batch) \in Msgs /\ run[p].batch # <<>>
  <2> SUFFICES ASSUME run[p].step # "idle" PROVE Head(run[p].batch) \in Msgs /\ run[p].batch # <<>>
    BY Zenon
  <2>1. run[p].batch # <<>> /\ run[p].batch \in Seq(Msgs)  BY Zenon, <1>1 DEF RunOK, Run
  <2> QED  BY <2>1
<1>3. run[p].at \in Stamps /\ run[p].now \in Time  BY Zenon, <1>1 DEF Run
<1> QED  BY Zenon, <1>1, <1>2, <1>3
-----------------------------------------------------------------------------
(* Steps of process_handover *)

LEMMA IdleOK == RunOK(Idle)
<1>1. 1 \in Time /\ 1 \in Stamps
  BY HandoverConstants DEF Time, Stamps
<1> QED BY <1>1 DEF RunOK, Run, Idle, Steps

LEMMA NextCourierOK ==
    ASSUME NEW r, RunOK(r), r.step # "idle"
    PROVE  RunOK(NextCourier(r))
<1>1. CASE Len(r.batch) = 1
  BY Zenon, <1>1, IdleOK DEF NextCourier
<1>2. CASE Len(r.batch) # 1
  <2> DEFINE k == [r EXCEPT !.step = "open", !.batch = Tail(r.batch), !.at = 1]
  <2>1. r \in Run /\ r.batch \in Seq(Msgs) /\ r.batch # <<>>
    BY Zenon DEF RunOK, Run
  <2>2. Tail(r.batch) \in Seq(Msgs) /\ Tail(r.batch) # <<>>
    <3>1. Tail(r.batch) \in Seq(Msgs) /\ Len(Tail(r.batch)) = Len(r.batch) - 1
      BY <2>1
    <3>2. Len(r.batch) \in Nat /\ Len(r.batch) # 0
      BY <2>1
    <3>3. Len(Tail(r.batch)) # 0
      BY <1>2, <3>1, <3>2
    <3>4. Len(<<>>) = 0
      BY Zenon
    <3> QED BY <3>1, <3>3, <3>4, Zenon
  <2>3. 1 \in Stamps
    BY HandoverConstants DEF Time, Stamps
  <2>4. k \in Run /\ k.step = "open" /\ k.batch = Tail(r.batch)
    BY Zenon, <2>1, <2>2, <2>3 DEF Run, Steps
  <2>5. NextCourier(r) = k
    BY Zenon, <1>2 DEF NextCourier
  <2> HIDE DEF k
  <2>6. k.step \notin {"idle", "stamp", "ack", "hand"}
    BY <2>4
  <2> QED BY Zenon, <2>2, <2>4, <2>5, <2>6 DEF RunOK
<1> QED BY Zenon, <1>1, <1>2

LEMMA DrainKeeps ==
    ASSUME IInv, NEW p \in Procs, Drain(p)
    PROVE  IInv'
<1> DEFINE n == IF Len(pool) < MaxItems THEN Len(pool) ELSE MaxItems
           b == SubSeq(pool, 1, n)
           r == [step |-> "open", batch |-> b, now |-> now, at |-> 1]
<1>1. pool \in Seq(Msgs) /\ pool # <<>> /\ now \in Time /\ MaxItems \in Nat \ {0}
  BY Zenon, HandoverConstants DEF IInv, StoresTyped, Drain
<1>2. n \in 1 .. Len(pool)
  BY <1>1
<1> HIDE DEF n
<1>3. b \in Seq(Msgs) /\ Len(b) = n
  BY <1>1, <1>2
<1>4. b # <<>>
  BY <1>2, <1>3
<1> HIDE DEF b
<1>5. RunOK(r)
  <2>1. 1 \in Stamps
    BY HandoverConstants DEF Time, Stamps
  <2>2. r \in Run /\ r.step = "open" /\ r.batch = b
    BY Zenon, <2>1, <1>1, <1>3 DEF Run, Steps
  <2> HIDE DEF r
  <2>3. r.step \notin {"idle", "stamp", "ack", "hand"}
    BY <2>2
  <2> QED BY Zenon, <2>2, <2>3, <1>4 DEF RunOK
<1>6. run' = [run EXCEPT ![p] = r]
  BY Zenon DEF Drain, b, n
<1> HIDE DEF r
<1>7. UNCHANGED <<pool, sealed, inboxVars, acks, sent, now>> /\ slips' \in 0 .. MaxSlips
  BY Zenon DEF Drain, IInv, StoresTyped
<1> QED BY Zenon, <1>5, <1>6, <1>7, OwnStep

LEMMA RejectKeeps ==
    ASSUME IInv, NEW p \in Procs, Reject(p)
    PROVE  IInv'
<1>1. RunOK(NextCourier(run[p]))
  <2>1. run[p].step # "idle"  BY DEF Reject
  <2> QED BY Zenon, <2>1, NextCourierOK, RunFacts
<1>2. /\ run' = [run EXCEPT ![p] = NextCourier(run[p])]
      /\ UNCHANGED <<pool, sealed, inboxVars, acks, sent, now>> /\ slips' \in 0 .. MaxSlips
  BY Zenon DEF Reject, IInv, StoresTyped
<1> QED BY Zenon, <1>1, <1>2, OwnStep

LEMMA CrashKeeps ==
    ASSUME IInv, NEW p \in Procs, Crash(p)
    PROVE  IInv'
<1>1. UNCHANGED <<pool, sealed, inboxVars, acks, sent, now>> /\ run' = [run EXCEPT ![p] = Idle]
  BY Zenon DEF Crash
<1>2. slips' \in 0 .. MaxSlips
  BY HandoverConstants DEF Crash, IInv, StoresTyped
<1> QED BY Zenon, <1>1, <1>2, IdleOK, OwnStep

\* A first acceptance, or the first after the cache let the message go, adds a time
\* that no other can differ from.
LEMMA AcceptKeeps ==
    ASSUME IInv, NEW m \in Msgs, NEW t \in Time, t < Expires[m], Accept(m, t)
    PROVE  InboxOK' /\ Accepted(m)' /\ taken \subseteq taken' /\ evicted' = evicted
<1>1. done' = done /\ evicted' = evicted  BY Zenon DEF Accept
<1>2. CASE inbox[m].at # 0
  <2>1. UNCHANGED inboxVars  BY Zenon, <1>1, <1>2 DEF Accept, inboxVars
  <2>2. <<m, inbox[m].at>> \in taken  BY Zenon, <1>2 DEF IInv, InboxOK
  <2>3. Accepted(m)  BY <2>2 DEF Accepted, IInv, InboxOK
  <2> QED  BY Zenon, <2>1, <2>3, InboxKept DEF IInv, inboxVars, Accepted
<1>3. CASE inbox[m].at = 0
  <2>1. PICK e : e = [at |-> t, pending |-> TRUE]  BY Zenon
  <2>2. inbox' = [inbox EXCEPT ![m] = e] /\ taken' = taken \cup {<<m, t>>}
    BY Zenon, <1>3, <2>1 DEF Accept
  <2>3. e \in Entry /\ e.at = t /\ e.pending = TRUE  BY <2>1, HandoverConstants DEF Entry, Time
  <2>4. inbox \in [Msgs -> Entry]  BY Zenon DEF IInv, InboxOK
  <2>5. /\ inbox' \in [Msgs -> Entry]
        /\ \A x \in Msgs : inbox'[x] = IF x = m THEN e ELSE inbox[x]
    BY Zenon, <2>2, <2>3, <2>4
  <2>6. \A x : \A u : <<x, u>> \in taken' <=> <<x, u>> \in taken \/ (x = m /\ u = t)
    BY <2>2
  <2>7. taken' \subseteq Msgs \X Time  BY <2>2 DEF IInv, InboxOK
  <2>8. \A x \in Msgs : inbox'[x].at # 0 => <<x, inbox'[x].at>> \in taken'
    BY Zenon, <2>3, <2>5, <2>6 DEF IInv, InboxOK
  <2>9. ASSUME NEW x \in Msgs \ evicted, NEW u \in Time, <<x, u>> \in taken'
        PROVE  u = inbox'[x].at
    <3>1. CASE x = m
      <4>1. u # 0  BY DEF Time
      <4>2. <<x, u>> \notin taken  BY Zenon, <4>1, <3>1, <1>3 DEF IInv, InboxOK
      <4>3. u = t  BY Zenon, <4>2, <2>6, <2>9
      <4> QED  BY Zenon, <4>3, <3>1, <2>3, <2>5
    <3>2. CASE x # m  BY Zenon, <3>2, <2>5, <2>6, <2>9 DEF IInv, InboxOK
    <3> QED  BY Zenon, <3>1, <3>2
  <2>10. ASSUME NEW x \in Msgs, NEW u \in Time, <<x, u>> \in taken'
         PROVE  Kept(x)' /\ u < Expires[x]
    <3>1. CASE <<x, u>> \in taken
      <4>1. Kept(x) /\ u < Expires[x]  BY Zenon, <3>1 DEF IInv, InboxOK
      <4>2. Kept(x)'  BY Zenon, <4>1, <1>1, <2>3, <2>5 DEF Kept
      <4> QED  BY Zenon, <4>1, <4>2
    <3>2. CASE x = m /\ u = t  BY Zenon, <3>2, <2>3, <2>5 DEF Kept
    <3> QED  BY Zenon, <2>10, <2>6, <3>1, <3>2
  <2>11. taken \subseteq taken'  BY Zenon, <2>2
  <2>12. \A x \in evicted : Accepted(x)'  BY Zenon, <2>11 DEF IInv, InboxOK, Accepted
  <2>13. Accepted(m)'  BY Zenon, <2>6 DEF Accepted
  <2>14. done \subseteq Msgs /\ evicted \subseteq Msgs  BY Zenon DEF IInv, InboxOK
  <2> QED  BY Zenon, <1>1, <2>5, <2>7, <2>8, <2>9, <2>10, <2>11, <2>12, <2>13, <2>14 DEF InboxOK
<1> QED  BY Zenon, <1>2, <1>3

LEMMA AdmitKeeps ==
    ASSUME IInv, NEW p \in Procs, Admit(p)
    PROVE  IInv'
<1>1. PICK m, r : m = Head(run[p].batch) /\ r = [run[p] EXCEPT !.step = "stamp"]  BY Zenon
<1>2. /\ run[p].step = "open" /\ Fresh(m, run[p].now) /\ Accept(m, run[p].now)
      /\ run' = [run EXCEPT ![p] = r]
      /\ UNCHANGED <<pool, sealed, acks, sent, slips, now>>
  BY Zenon, <1>1 DEF Admit
<1>3. run[p].step # "idle"  BY <1>2
<1>4. m \in Msgs /\ run[p].batch # <<>> /\ run[p].now \in Time /\ run[p] \in Run
  BY Zenon, <1>1, <1>3, RunFacts
<1>5. run[p].now < Expires[m]  BY Zenon, <1>2 DEF Fresh
<1>6. InboxOK' /\ Accepted(m)' /\ taken \subseteq taken' /\ evicted' = evicted
  BY Zenon, <1>2, <1>4, <1>5, AcceptKeeps
<1>7. r \in Run /\ r.step = "stamp" /\ r.batch = run[p].batch
  BY Zenon, <1>1, <1>4 DEF Run, Steps
<1>8. RunOK(r)'
  <2>1. r.step \notin {"idle", "ack", "hand"}  BY <1>7
  <2> QED  BY Zenon, <2>1, <1>1, <1>4, <1>6, <1>7 DEF RunOK
<1>9. RunsOK'  BY Zenon, <1>2, <1>6, <1>8, RunStep
<1>10. StoresTyped'  BY Zenon, <1>2 DEF IInv, StoresTyped
<1>11. CapKept' /\ AcksLegit' /\ Owned' /\ DeliveredAccepted'  BY Zenon, <1>2, <1>6, Grown
<1> QED  BY Zenon, <1>6, <1>9, <1>10, <1>11 DEF IInv

\* The cache knows the message, or has let it go since its acceptance.
LEMMA StampKeeps ==
    ASSUME IInv, NEW p \in Procs, Stamp(p)
    PROVE  IInv'
<1>1. PICK m, t : /\ m = Head(run[p].batch)
                  /\ t = IF inbox[m].at = 0 THEN Created[m] ELSE inbox[m].at
  BY Zenon
<1>2. PICK r : r = [run[p] EXCEPT !.step = "ack", !.at = t]  BY Zenon
<1>3. run[p].step = "stamp" /\ run' = [run EXCEPT ![p] = r]
  BY Zenon, <1>1, <1>2, RunFacts DEF Stamp
<1>4. UNCHANGED <<pool, sealed, inboxVars, acks, sent, now>> /\ slips' \in 0 .. MaxSlips
  BY Zenon DEF Stamp, IInv, StoresTyped
<1>5. run[p].step # "idle" /\ run[p].step \in {"stamp", "ack", "hand"}  BY <1>3
<1>6. /\ m \in Msgs /\ run[p].batch # <<>> /\ run[p] \in Run /\ Accepted(m)
  BY Zenon, <1>1, <1>5, RunFacts DEF RunOK
<1>7. Legit(m, t) /\ t \in Stamps
  <2>1. CASE inbox[m].at # 0
    <3>1. t = inbox[m].at  BY Zenon, <1>1, <2>1
    <3>2. <<m, t>> \in taken /\ taken \subseteq Msgs \X Time
      BY Zenon, <1>6, <2>1, <3>1 DEF IInv, InboxOK
    <3>3. t \in Time  BY <3>2
    <3> QED  BY Zenon, <3>2, <3>3 DEF Legit, Stamps
  <2>2. CASE inbox[m].at = 0
    <3>1. PICK u \in Time : <<m, u>> \in taken  BY Zenon, <1>6 DEF Accepted
    <3>2. u # 0  BY DEF Time
    <3>3. m \in evicted  BY Zenon, <1>6, <2>2, <3>1, <3>2 DEF IInv, InboxOK
    <3>4. t = Created[m]  BY Zenon, <1>1, <2>2
    <3> QED  BY Zenon, <1>6, <3>3, <3>4 DEF Legit, Stamps
  <2> QED  BY Zenon, <2>1, <2>2
<1>8. r \in Run /\ r.step = "ack" /\ r.batch = run[p].batch /\ r.at = t
  BY Zenon, <1>2, <1>6, <1>7 DEF Run, Steps
<1>9. RunOK(r)
  <2>1. r.step \notin {"idle", "hand"}  BY <1>8
  <2> QED  BY Zenon, <2>1, <1>1, <1>6, <1>7, <1>8 DEF RunOK
<1> QED  BY Zenon, <1>3, <1>4, <1>9, OwnStep

\* A step that leaves the inbox and the carrier alone and adds ACKs that may be there.
LEMMA AcksGrow ==
    ASSUME IInv, UNCHANGED <<pool, sealed, inboxVars, sent>>,
           \A b \in Ack : acks[b] # "absent" => acks'[b] # "absent",
           \A b \in Ack : acks'[b] # "absent" => acks[b] # "absent" \/ Legit(b[1], b[2])
    PROVE  InboxOK' /\ AcksLegit' /\ Owned' /\ DeliveredAccepted'
<1>1. InboxOK'  BY Zenon, InboxKept DEF IInv
<1>2. taken' = taken /\ evicted' = evicted  BY Zenon DEF inboxVars
<1>3. AcksLegit'  BY Zenon, <1>2, LegitKept DEF IInv, AcksLegit
<1>4. Owned'
  <2>1. \A m : Acked(m) => Acked(m)'  BY Zenon DEF Acked
  <2> QED  BY Zenon, <2>1, <1>2, LegitKept DEF IInv, Owned
<1>5. DeliveredAccepted'  BY Zenon, <1>2, LegitKept DEF IInv, DeliveredAccepted
<1> QED  BY Zenon, <1>1, <1>3, <1>4, <1>5

\* enqueue adds at most one ACK, below the cap, and takes none away.
LEMMA EnqueueAckKeeps ==
    ASSUME IInv, NEW p \in Procs, EnqueueAck(p)
    PROVE  IInv'
<1>1. PICK m, a, r : /\ m = Head(run[p].batch) /\ a = AckOf(p)
                     /\ r = [run[p] EXCEPT !.step = "hand"]
  BY Zenon
<1>2. run[p].step = "ack" /\ UNCHANGED <<pool, sealed, inboxVars, sent, slips, now>>
  BY Zenon DEF EnqueueAck
<1>3. run[p].step # "idle" /\ run[p].step \in {"stamp", "ack", "hand"}  BY <1>2
<1>4. /\ m \in Msgs /\ run[p].batch # <<>> /\ run[p] \in Run /\ run[p].at \in Stamps
      /\ Accepted(m) /\ Legit(m, run[p].at)
  BY Zenon, <1>1, <1>2, <1>3, RunFacts DEF RunOK
<1>5. a = <<m, run[p].at>> /\ a \in Ack /\ a[1] = m /\ a[2] = run[p].at
  BY Zenon, <1>1, <1>4 DEF AckOf, Ack
<1>6. slips' \in 0 .. MaxSlips  BY Zenon, <1>2 DEF IInv, StoresTyped
<1>7. CASE run' = [run EXCEPT ![p] = Raised] /\ acks' = acks
  <2>1. run' = [run EXCEPT ![p] = Idle]  BY Zenon, <1>7 DEF Raised
  <2> QED  BY Zenon, <1>2, <1>6, <1>7, <2>1, IdleOK, OwnStep
<1>8. CASE /\ ~(acks[a] = "absent" /\ Cardinality(QueuedAcks) >= AckCap)
           /\ acks' = [acks EXCEPT ![a] = IF acks[a] = "absent" THEN "queued" ELSE acks[a]]
           /\ run' = [run EXCEPT ![p] = r]
  <2>1. r \in Run /\ r.step = "hand" /\ r.batch = run[p].batch /\ r.at = run[p].at
    BY Zenon, <1>1, <1>4 DEF Run, Steps
  <2>2. PICK v : v = IF acks[a] = "absent" THEN "queued" ELSE acks[a]  BY Zenon
  <2>3. acks \in [Ack -> AckStates]  BY Zenon DEF IInv, StoresTyped
  <2>4. v \in AckStates /\ v # "absent" /\ (acks[a] # "absent" => v = acks[a])
    BY Zenon, <1>5, <2>2, <2>3 DEF AckStates
  <2>5. /\ acks' \in [Ack -> AckStates]
        /\ \A b \in Ack : acks'[b] = IF b = a THEN v ELSE acks[b]
    BY Zenon, <1>5, <1>8, <2>2, <2>3, <2>4
  <2>6. \A b \in Ack : acks[b] # "absent" => acks'[b] # "absent"  BY Zenon, <2>4, <2>5
  <2>7. \A b \in Ack : acks'[b] # "absent" => acks[b] # "absent" \/ Legit(b[1], b[2])
    BY Zenon, <1>4, <1>5, <2>5
  <2>8. InboxOK' /\ AcksLegit' /\ Owned' /\ DeliveredAccepted'
    BY Zenon, <1>2, <2>6, <2>7, AcksGrow
  <2>9. StoresTyped'  BY Zenon, <1>2, <2>5 DEF IInv, StoresTyped
  <2>10. CapKept'
    <3>1. CASE acks[a] = "absent"
      <4>1. v = "queued"  BY Zenon, <2>2, <3>1
      <4>2. QueuedAcks' = QueuedAcks \cup {a}  BY Zenon, <1>5, <2>5, <4>1 DEF QueuedAcks
      <4>3. a \notin QueuedAcks  BY Zenon, <3>1 DEF QueuedAcks
      <4>4. IsFiniteSet(QueuedAcks) /\ ~(Cardinality(QueuedAcks) >= AckCap)
        BY Zenon, <1>8, <3>1 DEF IInv, CapKept
      <4>5. IsFiniteSet(QueuedAcks') /\ Cardinality(QueuedAcks') = Cardinality(QueuedAcks) + 1
        BY Zenon, <4>2, <4>3, <4>4, FS_AddElement
      <4>6. Cardinality(QueuedAcks) \in Nat  BY Zenon, <4>4, FS_CardinalityType
      <4> QED  BY <4>4, <4>5, <4>6, HandoverConstants DEF CapKept
    <3>2. CASE acks[a] # "absent"
      <4>1. \A b \in Ack : acks'[b] = acks[b]  BY Zenon, <2>4, <2>5, <3>2
      <4>2. QueuedAcks' = QueuedAcks  BY Zenon, <4>1 DEF QueuedAcks
      <4> QED  BY Zenon, <4>2 DEF IInv, CapKept
    <3> QED  BY Zenon, <3>1, <3>2
  <2>11. taken' = taken /\ evicted' = evicted  BY Zenon, <1>2 DEF inboxVars
  <2>12. RunOK(r)'
    <3>1. acks'[<<m, r.at>>] # "absent"  BY Zenon, <1>5, <2>1, <2>4, <2>5
    <3>2. r.step \notin {"idle", "ack"} /\ r.batch # <<>>  BY <2>1, <1>4
    <3>3. Accepted(m)'  BY Zenon, <1>4, <2>11, LegitKept
    <3>4. Head(r.batch) = m  BY Zenon, <1>1, <2>1
    <3> QED  BY Zenon, <3>1, <3>2, <3>3, <3>4, <2>1 DEF RunOK
  <2>13. RunsOK'  BY Zenon, <1>8, <2>6, <2>11, <2>12, RunStep
  <2> QED  BY Zenon, <2>8, <2>9, <2>10, <2>13 DEF IInv
<1> QED  BY Zenon, <1>1, <1>7, <1>8 DEF EnqueueAck

\* The copy leaves the carrier of a call that has done the rest.
LEMMA HandOverKeeps ==
    ASSUME IInv, NEW p \in Procs, HandOver(p)
    PROVE  IInv'
<1>1. PICK m, k : m = Head(run[p].batch) /\ k = NextCourier(run[p])  BY Zenon
<1>2. run[p].step = "hand" /\ UNCHANGED <<sealed, inboxVars, acks, sent, slips, now>>
  BY Zenon DEF HandOver
<1>3. run[p].step # "idle" /\ run[p].step \in {"stamp", "ack", "hand"}  BY <1>2
<1>4. /\ m \in Msgs /\ run[p].at \in Stamps /\ RunOK(run[p]) /\ run[p] \in Run
      /\ Accepted(m) /\ acks[<<m, run[p].at>>] # "absent"
  BY Zenon, <1>1, <1>2, <1>3, RunFacts DEF RunOK
<1>5. Acked(m)
  <2>1. <<m, run[p].at>> \in Ack /\ <<m, run[p].at>>[1] = m  BY Zenon, <1>4 DEF Ack
  <2> QED  BY Zenon, <2>1, <1>4 DEF Acked
<1>6. slips' \in 0 .. MaxSlips  BY Zenon, <1>2 DEF IInv, StoresTyped
<1>7. taken' = taken /\ evicted' = evicted  BY Zenon, <1>2 DEF inboxVars
<1>8. CASE pool' = pool /\ run' = [run EXCEPT ![p] = Raised]
  <2>1. run' = [run EXCEPT ![p] = Idle]  BY Zenon, <1>8 DEF Raised
  <2> QED  BY Zenon, <1>2, <1>6, <1>8, <2>1, IdleOK, OwnStep
<1>9. CASE /\ m \in Carried(pool) /\ pool' = Without(pool, m)
           /\ run' = [run EXCEPT ![p] = k]
  <2>1. RunOK(k)  BY Zenon, <1>1, <1>3, <1>4, NextCourierOK
  <2>2. pool \in Seq(Msgs)  BY Zenon DEF IInv, StoresTyped
  <2>3. /\ pool' \in Seq(Msgs)
        /\ \A x \in Msgs : x # m /\ x \in Carried(pool) => x \in Carried(pool')
    BY Zenon, <1>9, <2>2, WithoutKeepsOthers
  <2>4. StoresTyped' /\ InboxOK' /\ CapKept'
    BY Zenon, <1>2, <2>3, InboxKept DEF IInv, StoresTyped, CapKept, QueuedAcks
  <2>5. AcksLegit' /\ DeliveredAccepted'
    BY Zenon, <1>2, <1>7, LegitKept DEF IInv, AcksLegit, DeliveredAccepted
  <2>6. Owned'
    <3> SUFFICES ASSUME NEW x \in sealed, x \notin Carried(pool')
                 PROVE  Accepted(x)' /\ Acked(x)'
      BY Zenon, <1>2 DEF Owned
    <3>1. x \in Msgs  BY Zenon DEF IInv, StoresTyped
    <3>2. Accepted(x) /\ Acked(x)  BY Zenon, <1>4, <1>5, <2>3, <3>1 DEF IInv, Owned
    <3> QED  BY Zenon, <3>2, <1>2, <1>7 DEF Accepted, Acked
  <2>7. RunOK(k)'  BY Zenon, <2>1, <1>2, <1>7, RunOKKept
  <2>8. RunsOK'  BY Zenon, <1>2, <1>7, <1>9, <2>7, RunStep
  <2> QED  BY Zenon, <2>4, <2>5, <2>6, <2>8 DEF IInv
<1> QED  BY Zenon, <1>1, <1>8, <1>9 DEF HandOver
-----------------------------------------------------------------------------
(* The inbox's other callers *)

LEMMA MarkProcessedKeeps ==
    ASSUME IInv, NEW m \in Msgs, MarkProcessed(m)
    PROVE  IInv'
<1>1. /\ inbox' = [inbox EXCEPT ![m].pending = FALSE] /\ done' = done \cup {m}
      /\ UNCHANGED <<pool, sealed, taken, evicted, acks, sent, run, slips, now>>
  BY Zenon DEF MarkProcessed
<1>2. inbox \in [Msgs -> Entry]  BY Zenon DEF IInv, InboxOK
<1>3. /\ inbox' \in [Msgs -> Entry]
      /\ \A x \in Msgs : inbox'[x].at = inbox[x].at
      /\ \A x \in Msgs : x # m => inbox'[x] = inbox[x]
  BY Zenon, <1>1, <1>2 DEF Entry
<1>4. \A x \in Msgs : Kept(x) => Kept(x)'  BY Zenon, <1>1, <1>3 DEF Kept
<1>5. done' \subseteq Msgs  BY Zenon, <1>1 DEF IInv, InboxOK
<1>6. \A x \in evicted : Accepted(x)'  BY Zenon, <1>1 DEF IInv, InboxOK, Accepted
<1>7. InboxOK'
  <2>1. ASSUME NEW x \in Msgs, inbox'[x].at # 0 PROVE <<x, inbox'[x].at>> \in taken'
    <3>1. inbox'[x].at = inbox[x].at  BY Zenon, <1>3
    <3>2. <<x, inbox[x].at>> \in taken  BY Zenon, <2>1, <3>1 DEF IInv, InboxOK
    <3>3. taken' = taken  BY Zenon, <1>1
    <3> QED BY <3>1, <3>2, <3>3
  <2>2. \A x \in Msgs \ evicted', t \in Time : <<x, t>> \in taken' => t = inbox'[x].at
    BY Zenon, <1>1, <1>3 DEF IInv, InboxOK
  <2>3. \A x \in Msgs, t \in Time : <<x, t>> \in taken' => Kept(x)' /\ t < Expires[x]
    BY Zenon, <1>1, <1>4 DEF IInv, InboxOK
  <2>4. taken' \subseteq Msgs \X Time /\ evicted' \subseteq Msgs
    BY Zenon, <1>1 DEF IInv, InboxOK
  <2>5. \A x \in evicted' : Accepted(x)'  BY Zenon, <1>1, <1>6
  <2> QED BY Zenon, <1>3, <1>5, <2>1, <2>2, <2>3, <2>4, <2>5 DEF InboxOK
<1>8. StoresTyped'  BY Zenon, <1>1 DEF IInv, StoresTyped
<1>9. CapKept' /\ AcksLegit' /\ Owned' /\ DeliveredAccepted'  BY Zenon, <1>1, Grown
<1>10. RunsOK'  BY Zenon, <1>1, RunsKept
<1> QED  BY Zenon, <1>7, <1>8, <1>9, <1>10 DEF IInv

\* What leaves the cache has been processed.
LEMMA EvictKeeps ==
    ASSUME IInv, NEW m \in Msgs, Evict(m)
    PROVE  IInv'
<1>1. /\ inbox[m].at # 0 /\ ~inbox[m].pending /\ slips < MaxSlips /\ slips' = slips + 1
      /\ inbox' = [inbox EXCEPT ![m] = Unknown] /\ evicted' = evicted \cup {m}
      /\ UNCHANGED <<pool, sealed, taken, done, acks, sent, run, now>>
  BY Zenon DEF Evict
<1>2. inbox \in [Msgs -> Entry]  BY Zenon DEF IInv, InboxOK
<1>3. Unknown \in Entry /\ Unknown.at = 0  BY HandoverConstants DEF Unknown, Entry
<1>4. /\ inbox' \in [Msgs -> Entry]
      /\ \A x \in Msgs : inbox'[x] = IF x = m THEN Unknown ELSE inbox[x]
  BY Zenon, <1>1, <1>2, <1>3
<1>5. <<m, inbox[m].at>> \in taken /\ taken \subseteq Msgs \X Time
  BY Zenon, <1>1 DEF IInv, InboxOK
<1>6. inbox[m].at \in Time  BY <1>5
<1>7. m \in done /\ Accepted(m)
  <2>1. Kept(m)  BY Zenon, <1>5, <1>6 DEF IInv, InboxOK
  <2> QED  BY Zenon, <2>1, <1>1, <1>5, <1>6 DEF Kept, Accepted
<1>8. \A x \in Msgs : Kept(x) => Kept(x)'  BY Zenon, <1>1, <1>4, <1>7 DEF Kept
<1>9. \A x \in Msgs : inbox'[x].at # 0 => <<x, inbox'[x].at>> \in taken'
  BY Zenon, <1>1, <1>3, <1>4 DEF IInv, InboxOK
<1>10. \A x \in Msgs \ evicted', t \in Time : <<x, t>> \in taken' => t = inbox'[x].at
  BY Zenon, <1>1, <1>4 DEF IInv, InboxOK
<1>11. \A x \in Msgs, t \in Time : <<x, t>> \in taken' => Kept(x)' /\ t < Expires[x]
  BY Zenon, <1>1, <1>8 DEF IInv, InboxOK
<1>12. \A x \in evicted' : Accepted(x)'  BY Zenon, <1>1, <1>7 DEF IInv, InboxOK, Accepted
<1>13. taken' \subseteq Msgs \X Time /\ done' \subseteq Msgs /\ evicted' \subseteq Msgs
  BY Zenon, <1>1 DEF IInv, InboxOK
<1>14. InboxOK'  BY Zenon, <1>4, <1>9, <1>10, <1>11, <1>12, <1>13 DEF InboxOK
<1>15. slips' \in 0 .. MaxSlips  BY <1>1, HandoverConstants DEF IInv, StoresTyped
<1>16. StoresTyped'  BY Zenon, <1>1, <1>15 DEF IInv, StoresTyped
<1>17. CapKept' /\ AcksLegit' /\ Owned' /\ DeliveredAccepted'  BY Zenon, <1>1, Grown
<1>18. RunsOK'  BY Zenon, <1>1, RunsKept
<1> QED  BY Zenon, <1>14, <1>16, <1>17, <1>18 DEF IInv
-----------------------------------------------------------------------------
(* The sender, the ACK's way back and the clock *)

LEMMA SealKeeps ==
    ASSUME IInv, NEW m \in Msgs, Seal(m)
    PROVE  IInv'
<1>1. pool \in Seq(Msgs)  BY Zenon DEF IInv, StoresTyped
<1>2. /\ pool' = Append(pool, m) /\ sealed' = sealed \cup {m}
      /\ sent' = [sent EXCEPT ![m] = "queued"]
      /\ UNCHANGED <<inboxVars, acks, run, slips, now>>
  BY Zenon DEF Seal
<1>3. /\ pool' \in Seq(Msgs) /\ Len(pool') = Len(pool) + 1 /\ pool'[Len(pool) + 1] = m
      /\ \A i \in 1 .. Len(pool) : pool'[i] = pool[i]
  BY <1>1, <1>2
<1>4. m \in Carried(pool') /\ \A x \in Msgs : x \in Carried(pool) => x \in Carried(pool')
  <2>1. Len(pool) + 1 \in 1 .. Len(pool')  BY <1>1, <1>3
  <2>2. \A i \in 1 .. Len(pool) : i \in 1 .. Len(pool')  BY <1>1, <1>3
  <2> QED BY <1>3, <2>1, <2>2 DEF Carried
<1>5. taken' = taken /\ evicted' = evicted  BY Zenon, <1>2 DEF inboxVars
<1>6. StoresTyped' /\ InboxOK' /\ CapKept'
  BY Zenon, <1>2, <1>3, InboxKept DEF IInv, StoresTyped, CapKept, QueuedAcks
<1>7. Owned'
  <2> SUFFICES ASSUME NEW x \in sealed', x \notin Carried(pool')
               PROVE  Accepted(x)' /\ Acked(x)'
    BY Zenon DEF Owned
  <2>1. x \in sealed /\ x \in Msgs  BY Zenon, <1>2, <1>4 DEF IInv, StoresTyped
  <2>2. Accepted(x) /\ Acked(x)  BY Zenon, <1>4, <2>1 DEF IInv, Owned
  <2> QED BY Zenon, <2>2, <1>2, <1>5 DEF Accepted, Acked
<1>8. AcksLegit'  BY Zenon, <1>2, <1>5, LegitKept DEF IInv, AcksLegit
<1>9. DeliveredAccepted'
  <2>1. \A x \in Msgs : sent'[x] = "delivered" => sent[x] = "delivered"
    BY <1>2 DEF IInv, StoresTyped
  <2> QED BY Zenon, <2>1, <1>5, LegitKept DEF IInv, DeliveredAccepted
<1>10. RunsOK'  BY Zenon, <1>2, <1>5, RunsKept
<1> QED BY Zenon, <1>6, <1>7, <1>8, <1>9, <1>10 DEF IInv

\* An expired ACK is still known to the outbox.
LEMMA ExpireAckKeeps ==
    ASSUME IInv, NEW a \in Ack, ExpireAck(a)
    PROVE  IInv'
<1>1. /\ acks[a] = "queued" /\ acks' = [acks EXCEPT ![a] = "expired"]
      /\ UNCHANGED <<pool, sealed, inboxVars, sent, run, slips, now>>
  BY Zenon DEF ExpireAck
<1>2. acks \in [Ack -> AckStates]  BY Zenon DEF IInv, StoresTyped
<1>3. /\ acks' \in [Ack -> AckStates]
      /\ \A b \in Ack : acks'[b] = IF b = a THEN "expired" ELSE acks[b]
  BY Zenon, <1>1, <1>2 DEF AckStates
<1>4. \A b \in Ack : acks[b] # "absent" <=> acks'[b] # "absent"
  BY Zenon, <1>1, <1>3
<1>5. StoresTyped'  BY Zenon, <1>1, <1>3 DEF IInv, StoresTyped
<1>6. CapKept'
  <2>1. QueuedAcks' \subseteq QueuedAcks  BY Zenon, <1>3 DEF QueuedAcks
  <2>2. IsFiniteSet(QueuedAcks') /\ Cardinality(QueuedAcks') <= Cardinality(QueuedAcks)
    BY Zenon, <2>1, FS_Subset DEF IInv, CapKept
  <2>3. Cardinality(QueuedAcks) \in Nat /\ Cardinality(QueuedAcks') \in Nat
    BY Zenon, <2>2, FS_CardinalityType DEF IInv, CapKept
  <2> QED BY <2>2, <2>3, HandoverConstants DEF IInv, CapKept
<1>7. InboxOK' /\ AcksLegit' /\ Owned' /\ DeliveredAccepted'  BY Zenon, <1>1, <1>4, AcksGrow
<1>8. RunsOK'
  <2>1. taken' = taken /\ evicted' = evicted  BY Zenon, <1>1 DEF inboxVars
  <2> QED BY Zenon, <2>1, <1>1, <1>4, RunsKept
<1> QED BY Zenon, <1>5, <1>6, <1>7, <1>8 DEF IInv

\* A step of the sender's outbox or of the clock.
LEMMA SentStep ==
    ASSUME IInv, UNCHANGED <<pool, sealed, inboxVars, acks, run, slips>>, now' \in Time,
           sent' \in [Msgs -> {"absent", "queued", "delivered", "expired"}],
           \A m \in Msgs : sent'[m] = "delivered" => sent[m] = "delivered" \/ Accepted(m)
    PROVE  IInv'
<1>1. taken' = taken /\ evicted' = evicted  BY Zenon DEF inboxVars
<1>2. StoresTyped' /\ InboxOK' /\ CapKept'
  BY Zenon, InboxKept DEF IInv, StoresTyped, CapKept, QueuedAcks
<1>3. AcksLegit' /\ DeliveredAccepted'
  BY Zenon, <1>1, LegitKept DEF IInv, AcksLegit, DeliveredAccepted
<1>4. Owned'  BY Zenon, <1>1 DEF IInv, Owned, Accepted, Acked
<1>5. RunsOK'  BY Zenon, <1>1, RunsKept
<1> QED BY Zenon, <1>2, <1>3, <1>4, <1>5 DEF IInv

LEMMA HandleAckKeeps ==
    ASSUME IInv, NEW a \in Ack, HandleAck(a)
    PROVE  IInv'
<1>1. /\ acks[a] # "absent" /\ sent' = [sent EXCEPT ![a[1]] = "delivered"]
      /\ UNCHANGED <<pool, sealed, inboxVars, acks, run, slips, now>>
  BY Zenon DEF HandleAck
<1>2. a[1] \in Msgs /\ a[2] \in Stamps  BY Zenon DEF Ack
<1>3. Accepted(a[1])
  <2>1. Legit(a[1], a[2])  BY Zenon, <1>1 DEF IInv, AcksLegit
  <2>2. CASE a[1] \in evicted  BY Zenon, <2>2 DEF IInv, InboxOK
  <2>3. CASE <<a[1], a[2]>> \in taken
    <3>1. a[2] \in Time  BY <2>3 DEF IInv, InboxOK
    <3> QED BY Zenon, <2>3, <3>1 DEF Accepted
  <2> QED BY Zenon, <2>1, <2>2, <2>3 DEF Legit
<1>4. /\ sent' \in [Msgs -> {"absent", "queued", "delivered", "expired"}]
      /\ \A m \in Msgs : m # a[1] => sent'[m] = sent[m]
  BY Zenon, <1>1, <1>2 DEF IInv, StoresTyped
<1>5. now' \in Time  BY Zenon, <1>1 DEF IInv, StoresTyped
<1> QED BY Zenon, <1>1, <1>3, <1>4, <1>5, SentStep

LEMMA ExpireSentKeeps ==
    ASSUME IInv, NEW m \in Msgs, ExpireSent(m)
    PROVE  IInv'
<1>1. /\ sent' = [sent EXCEPT ![m] = "expired"]
      /\ UNCHANGED <<pool, sealed, inboxVars, acks, run, slips, now>>
  BY Zenon DEF ExpireSent
<1>2. /\ sent' \in [Msgs -> {"absent", "queued", "delivered", "expired"}]
      /\ \A x \in Msgs : sent'[x] = "delivered" => sent[x] = "delivered"
  BY <1>1 DEF IInv, StoresTyped
<1>3. now' \in Time  BY Zenon, <1>1 DEF IInv, StoresTyped
<1> QED BY Zenon, <1>1, <1>2, <1>3, SentStep

LEMMA TickKeeps ==
    ASSUME IInv, Tick
    PROVE  IInv'
<1>1. UNCHANGED <<pool, sealed, inboxVars, acks, sent, run, slips>>  BY Zenon DEF Tick
<1>2. now' \in Time  BY HandoverConstants DEF Tick, IInv, StoresTyped, Time
<1> QED BY Zenon, <1>1, <1>2, SentStep DEF IInv, StoresTyped

-----------------------------------------------------------------------------
(* The theorems *)

LEMMA InitHolds == Init => IInv
<1> SUFFICES ASSUME Init PROVE IInv
  BY Zenon
<1>1. 1 \in Time /\ 0 \in 0 .. MaxSlips
  BY HandoverConstants DEF Time
<1>2. StoresTyped
  <2>1. \A a \in Ack : acks[a] = "absent"  BY Zenon DEF Init
  <2> QED BY <1>1 DEF Init, StoresTyped, AckStates
<1>3. InboxOK
  <2>1. Unknown \in Entry /\ Unknown.at = 0  BY HandoverConstants DEF Unknown, Entry
  <2>2. \A m \in Msgs : inbox[m] = Unknown  BY Zenon DEF Init
  <2>3. inbox \in [Msgs -> Entry]  BY Zenon, <2>1 DEF Init
  <2>4. taken = {} /\ done = {} /\ evicted = {}  BY Zenon DEF Init
  <2> QED BY Zenon, <2>1, <2>2, <2>3, <2>4 DEF InboxOK
<1>4. CapKept
  <2>1. QueuedAcks = {}  BY Zenon DEF Init, QueuedAcks
  <2> QED BY <2>1, FS_EmptySet, HandoverConstants DEF CapKept
<1>5. AcksLegit /\ Owned /\ DeliveredAccepted
  BY Zenon DEF Init, AcksLegit, Owned, DeliveredAccepted
<1>6. RunsOK
  <2>1. Idle \in Run  BY Zenon, IdleOK DEF RunOK
  <2> QED BY Zenon, <2>1, IdleOK DEF Init, RunsOK
<1> QED BY Zenon, <1>2, <1>3, <1>4, <1>5, <1>6 DEF IInv

LEMMA NextKeeps == IInv /\ [Next]_vars => IInv'
<1> SUFFICES ASSUME IInv, [Next]_vars PROVE IInv'
  BY Zenon
<1>1. CASE UNCHANGED vars
  <2>1. UNCHANGED <<pool, sealed, inboxVars, acks, sent, run, slips, now>>
    BY Zenon, <1>1 DEF vars, inboxVars
  <2> QED BY Zenon, <2>1, SentStep DEF IInv, StoresTyped
<1>2. ASSUME NEW p \in Procs, Drain(p) \/ Step(p) \/ Crash(p)
      PROVE  IInv'
  BY Zenon, <1>2, DrainKeeps, RejectKeeps, AdmitKeeps, StampKeeps, EnqueueAckKeeps,
     HandOverKeeps, CrashKeeps DEF Step
<1>3. ASSUME NEW m \in Msgs, Seal(m) \/ ExpireSent(m) \/ MarkProcessed(m) \/ Evict(m)
      PROVE  IInv'
  BY Zenon, <1>3, SealKeeps, ExpireSentKeeps, MarkProcessedKeeps, EvictKeeps
<1>4. ASSUME NEW a \in Ack, HandleAck(a) \/ ExpireAck(a)
      PROVE  IInv'
  BY Zenon, <1>4, HandleAckKeeps, ExpireAckKeeps
<1> QED BY Zenon, <1>1, <1>2, <1>3, <1>4, TickKeeps DEF Next

\* Every call of process_handover, every crash and everything the inbox's other
\* callers, the network and the outboxes do keep the strengthened invariant.
THEOREM Inductive == Spec => []IInv
BY InitHolds, NextKeeps, PTL DEF Spec

\* Whatever dies between two calls of process_handover, a copy that left the
\* carrier waits in the inbox or was processed, and an ACK of it is in the ACK outbox.
THEOREM RemovedIsOwned == Spec => []RemovedMeansOwned
<1>1. IInv => RemovedMeansOwned
  <2> SUFFICES ASSUME IInv PROVE RemovedMeansOwned
    BY Zenon
  <2>1. \A p \in Procs : run[p].step # "idle" => run[p].batch # <<>>
    BY Zenon DEF IInv, RunsOK, RunOK
  <2>2. TypeOK
    BY Zenon, <2>1 DEF IInv, StoresTyped, InboxOK, CapKept, RunsOK, TypeOK, Run, Steps, AckStates
  <2>3. \A m \in Msgs : Accepted(m) => Kept(m)
    BY Zenon DEF IInv, InboxOK, Accepted
  <2> QED BY Zenon, <2>2, <2>3 DEF IInv, StoresTyped, Owned, Acked, RemovedMeansOwned
<1> QED BY <1>1, Inductive, PTL

\* Every ACK bears the time of an acceptance, always the same one of a message that
\* the replay cache has not let go, however often and by however many processes it is
\* taken over; after an eviction there may be others, and one with created_at_ms.
THEOREM OneAck == Spec => []OneAckPerMessage
<1>1. IInv => OneAckPerMessage
  <2> SUFFICES ASSUME IInv PROVE OneAckPerMessage
    BY Zenon
  <2>1. ASSUME NEW a \in Ack, acks[a] # "absent"
        PROVE  /\ a \in taken \/ (a[1] \in evicted /\ a[2] = Created[a[1]])
               /\ a[1] \in Msgs /\ (a[1] \notin evicted => a[2] = inbox[a[1]].at)
    <3>1. a = <<a[1], a[2]>> /\ a[1] \in Msgs  BY DEF Ack
    <3>2. Legit(a[1], a[2])  BY Zenon, <2>1 DEF IInv, AcksLegit
    <3>4. a \in taken \/ (a[1] \in evicted /\ a[2] = Created[a[1]])
      BY Zenon, <3>1, <3>2 DEF Legit
    <3>3. ASSUME a[1] \notin evicted PROVE a[2] = inbox[a[1]].at
      <4>1. <<a[1], a[2]>> \in taken  BY Zenon, <3>2, <3>3 DEF Legit
      <4>2. a[2] \in Time  BY <4>1 DEF IInv, InboxOK
      <4> QED BY Zenon, <3>1, <3>3, <4>1, <4>2 DEF IInv, InboxOK
    <3> QED BY Zenon, <3>1, <3>3, <3>4
  <2>2. ASSUME NEW a \in Ack, NEW b \in Ack, a[1] = b[1], acks[a] # "absent",
               acks[b] # "absent", a[1] \notin evicted
        PROVE  a = b
    <3>1. a = <<a[1], a[2]>> /\ b = <<b[1], b[2]>>  BY DEF Ack
    <3>2. a[2] = inbox[a[1]].at  BY Zenon, <2>1, <2>2
    <3>3. b[2] = inbox[b[1]].at  BY Zenon, <2>1, <2>2
    <3>4. a[2] = b[2]  BY Zenon, <3>2, <3>3, <2>2
    <3> QED BY Zenon, <3>1, <3>4, <2>2
  <2> QED BY Zenon, <2>1, <2>2 DEF OneAckPerMessage
<1> QED BY <1>1, Inductive, PTL

\* The sender's outbox never says delivered of a message the inbox did not
\* accept at a time before it expired.
THEOREM DeliveredIsAccepted == Spec => []DeliveredMeansAccepted
<1>1. IInv => DeliveredMeansAccepted
  <2> SUFFICES ASSUME IInv, NEW m \in Msgs, sent[m] = "delivered"
               PROVE  Kept(m) /\ \E t \in Time : <<m, t>> \in taken /\ t < Expires[m]
    BY Zenon DEF DeliveredMeansAccepted
  <2>1. PICK t \in Time : <<m, t>> \in taken
    BY Zenon DEF IInv, DeliveredAccepted, Accepted
  <2> QED BY Zenon, <2>1 DEF IInv, InboxOK
<1> QED BY <1>1, Inductive, PTL
=============================================================================
