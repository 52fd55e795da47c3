--------------------------- MODULE SpineLogProofs ---------------------------
(***************************************************************************)
(* Proofs about SpineLog, for any number of processes, requests, batches,  *)
(* crashes and failing writes: the file can always be recovered, and the   *)
(* log implements EventLog.                                                *)
(*                                                                         *)
(* The inductive invariant says where the disk may be at each step of a    *)
(* call, and of every call what its requests have to do with the events    *)
(* that are, or will be after the next recovery, in the log.  One lemma    *)
(* for each action shows that it keeps the invariant and is a step of the  *)
(* abstract log; the lemmas they share come first.                         *)
(***************************************************************************)
EXTENDS SpineLog, TLAPS

-----------------------------------------------------------------------------
(* The inductive invariant *)

\* The line of the intent is not complete in the file.
Pending == intent # NoIntent /\ Len(log) = intent.base

\* The events that will be in the file when an intent that is there is completed.
Events == IF Pending THEN Append(log, intent.event) ELSE log

ReqsOf(events) == {events[i].req : i \in DOMAIN events}

\* What a call still has to give an intent.
Rest(j) == IF j.step = "record" THEN Tail(j.todo) ELSE j.todo

\* The requests whose callers wait for a call or are in doubt.
Held(j) == Range(j.batch) \cup ReqsOf(j.wrote)

\* r and s compete for one event.
Rivals(r, s) == r = s \/ SameKey(r, s)

\* What the fields of a call have to do with its step.
Shape(j) ==
    /\ j.step = "idle" => j = Idle
    /\ j.step = "unsure" => j.batch = <<>> /\ j.todo = <<>> /\ j.wrote # <<>>
    /\ j.step \in {"recover", "rewrite", "verify"} =>
          /\ j.todo = <<>>
          /\ \/ j.goal = "append" /\ j.wrote = <<>>
             \/ j.goal = "reconcile" /\ j.batch = <<>> /\ j.wrote # <<>>
    /\ j.step \in {"record", "clear", "finish"} => j.wrote # <<>>
    /\ j.step \in {"intent", "record"} => j.todo # <<>>
    /\ j.step = "finish" => j.todo = <<>>

\* Where the disk is at each step of a call.
OnDisk(j) ==
    /\ j.step = "rewrite" => Pending /\ ~torn
    /\ j.step = "verify" => intent = NoIntent
    /\ j.step \in {"intent", "clear", "finish"} => ~Pending
    /\ j.step = "record" => intent = [base |-> Len(log), event |-> Head(j.todo)] /\ ~torn

\* Requests that are held are neither free nor answered.
HeldOK(j, ans) == \A r \in Held(j) : ans[r] = "asked"

\* An event in doubt is the only one its request can have given, and a plain append
\* has given none before its intent.
WroteOK(j, E) ==
    /\ \A i, k \in DOMAIN j.wrote : j.wrote[i].req = j.wrote[k].req => i = k
    /\ \A i \in DOMAIN j.wrote : \A k \in DOMAIN E : E[k].req = j.wrote[i].req => E[k] = j.wrote[i]
    /\ \A r \in Range(j.batch) \ ReqsOf(j.wrote) : KeyOf[r] = None => r \notin ReqsOf(E)

\* The events a call has prepared continue the chain, have no rivals, and together
\* with the log answer the batch.
PlanOK(j, E) ==
    /\ ReqsOf(j.todo) \subseteq Range(j.batch) /\ ReqsOf(j.wrote) \subseteq Range(j.batch)
    /\ \A i \in DOMAIN Rest(j) : Rest(j)[i].seq = Len(E) + i - 1
    /\ \A i \in DOMAIN Rest(j) : \A k \in DOMAIN E : ~Rivals(E[k].req, Rest(j)[i].req)
    /\ \A i, k \in DOMAIN j.todo : Rivals(j.todo[i].req, j.todo[k].req) => i = k
    /\ \A i \in DOMAIN Rest(j) : Rest(j)[i].req \notin ReqsOf(j.wrote)
    /\ \A r \in Range(j.batch) : \E s \in ReqsOf(E) \cup ReqsOf(Rest(j)) :
          Rivals(s, r) /\ ValOf[s] = ValOf[r]

JobOK(p, j) ==
    /\ j.step \notin {"idle", "unsure"} <=> lock = p
    /\ Shape(j) /\ OnDisk(j)
    /\ HeldOK(j, answer) /\ WroteOK(j, Events)
    /\ j.step \in {"intent", "record", "clear", "finish"} => PlanOK(j, Events)

\* An index that is built is that of the events.
CacheOK(c) == c.built => c.owners = ReqsOf(c.events)

\* The requests of different calls are different.
Apart == \A p, q \in Procs : p # q => Held(job[p]) \cap Held(job[q]) = {}

\* A plain append that may be asked has no event.
Unused == \A r \in Requests : KeyOf[r] = None /\ answer[r] = "none" => r \notin ReqsOf(Events)

IInv ==
    /\ AlwaysRecoverable
    /\ \A p \in Procs : CacheOK(cache[p]) /\ JobOK(p, job[p])
    /\ Apart /\ Unused

-----------------------------------------------------------------------------
(* Sequences of events *)

LEMMA RangeRequested ==
    ASSUME NEW s
    PROVE  Range(Requested(s)) = ReqsOf(s)
BY Zenon DEF Range, Requested, ReqsOf

LEMMA EventSeqs ==
    ASSUME NEW s \in Seq(Event)
    PROVE  /\ Len(s) \in Nat /\ DOMAIN s = 1 .. Len(s)
           /\ \A i \in DOMAIN s : s[i] \in Event /\ s[i].req \in Requests
           /\ ReqsOf(s) \in SUBSET Requests
<1>1. Len(s) \in Nat /\ DOMAIN s = 1 .. Len(s) /\ \A i \in DOMAIN s : s[i] \in Event
  OBVIOUS
<1>2. \A x \in Event : x.req \in Requests
  BY Zenon DEF Event
<1> QED BY Zenon, <1>1, <1>2 DEF ReqsOf

LEMMA ReqsAppend ==
    ASSUME NEW s \in Seq(Event), NEW e \in Event
    PROVE  /\ ReqsOf(Append(s, e)) = ReqsOf(s) \cup {e.req}
           /\ Append(s, e) \in Seq(Event)
           /\ Len(Append(s, e)) = Len(s) + 1
           /\ DOMAIN Append(s, e) = 1 .. Len(s) + 1
           /\ Append(s, e)[Len(s) + 1] = e
           /\ \A i \in 1 .. Len(s) : Append(s, e)[i] = s[i]
<1>1. /\ Append(s, e) \in Seq(Event)
      /\ Len(Append(s, e)) = Len(s) + 1
      /\ DOMAIN Append(s, e) = 1 .. Len(s) + 1
      /\ Append(s, e)[Len(s) + 1] = e
      /\ \A i \in 1 .. Len(s) : Append(s, e)[i] = s[i]
  OBVIOUS
<1>2. DOMAIN s = 1 .. Len(s) /\ Len(s) \in Nat
  OBVIOUS
<1>3. ASSUME NEW t, t = Append(s, e) PROVE ReqsOf(t) = ReqsOf(s) \cup {e.req}
  <2>1. /\ DOMAIN t = 1 .. Len(s) + 1 /\ t[Len(s) + 1] = e
        /\ \A i \in 1 .. Len(s) : t[i] = s[i]
    BY Zenon, <1>1, <1>3
  <2>2. \A x \in ReqsOf(t) : x \in ReqsOf(s) \cup {e.req}
    BY <1>2, <2>1 DEF ReqsOf
  <2>3. \A x \in ReqsOf(s) \cup {e.req} : x \in ReqsOf(t)
    BY <1>2, <2>1 DEF ReqsOf
  <2> QED BY Zenon, <2>2, <2>3
<1> QED BY Zenon, <1>1, <1>3

LEMMA HeadAndTail ==
    ASSUME NEW s \in Seq(Event), s # <<>>
    PROVE  /\ Head(s) \in Event /\ Head(s) = s[1] /\ 1 \in DOMAIN s
           /\ Tail(s) \in Seq(Event) /\ DOMAIN Tail(s) = 1 .. Len(s) - 1
           /\ \A i \in DOMAIN Tail(s) : i + 1 \in DOMAIN s /\ Tail(s)[i] = s[i + 1]
           /\ ReqsOf(Tail(s)) \subseteq ReqsOf(s)
           /\ Head(s).req \in ReqsOf(s)
           /\ \A i \in DOMAIN s : i # 1 => i - 1 \in DOMAIN Tail(s) /\ Tail(s)[i - 1] = s[i]
<1>1. Len(s) \in Nat /\ Len(s) # 0 /\ DOMAIN s = 1 .. Len(s)
  OBVIOUS
<1>2. /\ Head(s) \in Event /\ Head(s) = s[1] /\ 1 \in DOMAIN s
      /\ Tail(s) \in Seq(Event) /\ DOMAIN Tail(s) = 1 .. Len(s) - 1
  BY <1>1
<1>3. \A i \in 1 .. Len(s) - 1 : Tail(s)[i] = s[i + 1]
  BY <1>1
<1>4. ReqsOf(Tail(s)) \subseteq ReqsOf(s)
  BY <1>1, <1>2, <1>3 DEF ReqsOf
<1>5. Head(s).req \in ReqsOf(s)
  BY Zenon, <1>2 DEF ReqsOf
<1> QED BY <1>1, <1>2, <1>3, <1>4, <1>5
-----------------------------------------------------------------------------
(* What a write does to the events *)

\* What is on the disk, and the number of failures, have their types.
DiskTyped ==
    /\ log \in Seq(Event) /\ torn \in BOOLEAN
    /\ intent \in {NoIntent} \cup [base: Nat, event: Event]
    /\ faults \in 0 .. MaxFaults

\* A failure is counted, or there is none.
Counts == Fault \/ TwoFaults \/ UNCHANGED faults

\* The disk is as good as before, and has the same events.
KeepsEvents == DiskTyped' /\ Recoverable' /\ Events' = Events

LEMMA DiskFacts ==
    ASSUME AlwaysRecoverable
    PROVE  /\ TypeOK /\ DiskTyped /\ Recoverable
           /\ Events \in Seq(Event) /\ log \in Seq(Event) /\ Len(log) \in Nat
           /\ intent # NoIntent => intent.base \in Nat /\ intent.event \in Event
           /\ ~Pending => Events = log /\ ~torn
           /\ Pending => Events = Append(log, intent.event)
BY DEF AlwaysRecoverable, Recoverable, DiskTyped, TypeOK, Events, Pending

LEMMA Counted == ASSUME DiskTyped, Counts PROVE faults' \in 0 .. MaxFaults
BY SpineConstants DEF DiskTyped, Counts, Fault, TwoFaults

\* Nothing is written, or bytes of a line whose intent is there.
LEMMA DiskTears ==
    ASSUME AlwaysRecoverable, UNCHANGED <<log, intent>>, Counts, torn' \in BOOLEAN, torn' => Pending
    PROVE  KeepsEvents /\ Pending' = Pending
<1>1. Events' = Events /\ Pending' = Pending
  BY Zenon DEF Events, Pending
<1>2. DiskTyped'
  BY Zenon, DiskFacts, Counted DEF DiskTyped
<1>3. Recoverable'
  BY Zenon DEF AlwaysRecoverable, Recoverable, Pending
<1> QED BY Zenon, <1>1, <1>2, <1>3 DEF KeepsEvents

LEMMA DiskSame ==
    ASSUME AlwaysRecoverable, UNCHANGED <<log, torn, intent>>, Counts
    PROVE  KeepsEvents /\ Pending' = Pending
<1>1. torn' \in BOOLEAN /\ (torn' => Pending)
  BY Zenon, DiskFacts DEF DiskTyped
<1> QED BY Zenon, <1>1, DiskTears

\* The intent of a complete line goes.
LEMMA DiskClears ==
    ASSUME AlwaysRecoverable, UNCHANGED <<log, torn>>, intent' = NoIntent, Counts, ~Pending
    PROVE  KeepsEvents /\ ~Pending'
<1>1. Events' = Events /\ ~Pending' /\ ~torn
  BY Zenon, DiskFacts DEF Events, Pending
<1>2. DiskTyped'
  BY Zenon, DiskFacts, Counted DEF DiskTyped
<1>3. Recoverable'
  BY Zenon, <1>1 DEF AlwaysRecoverable, Recoverable
<1> QED BY Zenon, <1>1, <1>2, <1>3 DEF KeepsEvents

\* The line of the intent is written.
LEMMA DiskCompletes ==
    ASSUME AlwaysRecoverable, Pending, ~torn, log' = Append(log, intent.event),
           UNCHANGED <<torn, intent>>, Counts
    PROVE  KeepsEvents /\ ~Pending'
<1>1. /\ log \in Seq(Event) /\ Len(log) \in Nat /\ intent.event \in Event
      /\ intent # NoIntent /\ intent.base = Len(log) /\ intent.event.seq = Len(log)
      /\ DOMAIN log = 1 .. Len(log)
  BY DiskFacts DEF Recoverable, Pending
<1>2. /\ Len(log') = Len(log) + 1 /\ DOMAIN log' = 1 .. Len(log) + 1
      /\ log'[Len(log) + 1] = intent.event /\ log' \in Seq(Event)
      /\ \A i \in 1 .. Len(log) : log'[i] = log[i]
  BY Zenon, <1>1, ReqsAppend
<1>3. Events' = Events /\ ~Pending'
  BY <1>1, <1>2 DEF Events, Pending
<1>4. DiskTyped'
  BY Zenon, <1>2, DiskFacts, Counted DEF DiskTyped
<1>5. \A i \in DOMAIN log' : log'[i].seq = i - 1
  BY <1>1, <1>2 DEF AlwaysRecoverable, Recoverable
<1>6. /\ ~torn' /\ intent'.event.seq = intent'.base /\ Len(log') > intent'.base
      /\ log'[intent'.base + 1] = intent'.event
  BY <1>1, <1>2
<1>7. Recoverable'
  BY Zenon, <1>5, <1>6 DEF Recoverable
<1> QED BY Zenon, <1>3, <1>4, <1>7 DEF KeepsEvents

\* An intent is written.
LEMMA DiskCommits ==
    ASSUME AlwaysRecoverable, ~Pending, NEW e \in Event, e.seq = Len(log),
           intent' = [base |-> Len(log), event |-> e], UNCHANGED <<log, torn>>, Counts
    PROVE  DiskTyped' /\ Recoverable' /\ Events' = Append(Events, e) /\ Pending'
<1>1. Len(log) \in Nat /\ intent' # NoIntent /\ intent'.base = Len(log) /\ intent'.event = e
  BY DiskFacts DEF NoIntent
<1>2. Events' = Append(Events, e) /\ Pending'
  BY Zenon, <1>1 DEF Events, Pending
<1>3. DiskTyped'
  BY Zenon, <1>1, DiskFacts, Counted DEF DiskTyped
<1>4. Recoverable'
  BY Zenon, <1>1 DEF AlwaysRecoverable, Recoverable
<1> QED BY Zenon, <1>2, <1>3, <1>4

-----------------------------------------------------------------------------
(* What a process remembers *)

LEMMA NothingOK == Nothing \in Memory /\ CacheOK(Nothing)
<1>1. Nothing \in Memory
  BY DEF Nothing, Memory
<1>2. CacheOK(Nothing)
  BY Zenon DEF Nothing, CacheOK
<1> QED BY Zenon, <1>1, <1>2

LEMMA RememberedOK ==
    ASSUME NEW c \in Memory, CacheOK(c), NEW events \in Seq(Event)
    PROVE  /\ Remembered(c, events) \in Memory /\ CacheOK(Remembered(c, events))
           /\ Remembered(c, events).events = events
<1>1. PICK d : d = Remembered(c, events)
  BY Zenon
<1>2. CASE IsRestriction(c.events, events)
  <2> DEFINE more == {events[i].req : i \in Len(c.events) + 1 .. Len(events)}
             own  == IF c.built THEN c.owners \cup more ELSE {}
  <2>1. d = [valid |-> TRUE, events |-> events, built |-> c.built, owners |-> own]
    BY Zenon, <1>1, <1>2 DEF Remembered
  <2>2. /\ c.built \in BOOLEAN /\ c.owners \in SUBSET Requests /\ c.events \in Seq(Event)
        /\ Len(c.events) \in Nat /\ DOMAIN c.events = 1 .. Len(c.events)
        /\ Len(events) \in Nat /\ DOMAIN events = 1 .. Len(events)
        /\ \A i \in DOMAIN events : events[i].req \in Requests
    <3>1. c.built \in BOOLEAN /\ c.owners \in SUBSET Requests /\ c.events \in Seq(Event)
      BY Zenon DEF Memory
    <3> QED BY Zenon, <3>1, EventSeqs
  <2>3. \A i \in DOMAIN c.events : i \in DOMAIN events /\ c.events[i] = events[i]
    BY Zenon, <1>2 DEF IsRestriction
  <2>4. own \in SUBSET Requests
    BY <2>2
  <2>5. ASSUME c.built PROVE own = ReqsOf(events)
    <3>1. own = ReqsOf(c.events) \cup more
      BY Zenon, <2>5 DEF CacheOK
    <3>2. \A x \in ReqsOf(c.events) \cup more : x \in ReqsOf(events)
      BY <2>2, <2>3 DEF ReqsOf
    <3>3. ASSUME NEW i \in DOMAIN events PROVE events[i].req \in ReqsOf(c.events) \cup more
      <4>1. CASE i \in DOMAIN c.events
        BY Zenon, <2>3, <4>1 DEF ReqsOf
      <4>2. CASE i \notin DOMAIN c.events
        BY <2>2, <4>2
      <4> QED BY Zenon, <4>1, <4>2
    <3>4. \A x \in ReqsOf(events) : x \in ReqsOf(c.events) \cup more
      BY Zenon, <3>3 DEF ReqsOf
    <3> QED BY Zenon, <3>1, <3>2, <3>4
  <2> HIDE DEF own
  <2>6. d \in Memory /\ d.events = events
    BY Zenon, <2>1, <2>2, <2>4 DEF Memory
  <2>7. CacheOK(d)
    BY Zenon, <2>1, <2>5 DEF CacheOK
  <2> QED BY Zenon, <1>1, <2>6, <2>7
<1>3. CASE ~IsRestriction(c.events, events)
  <2>1. d = [valid |-> TRUE, events |-> events, built |-> FALSE, owners |-> {}]
    BY Zenon, <1>1, <1>3 DEF Remembered, Nothing
  <2>2. d \in Memory /\ d.events = events /\ CacheOK(d)
    BY Zenon, <2>1 DEF Memory, CacheOK
  <2> QED BY Zenon, <1>1, <2>2
<1> QED BY Zenon, <1>2, <1>3

LEMMA IndexedOK ==
    ASSUME NEW c \in Memory, CacheOK(c)
    PROVE  /\ Indexed(c) \in Memory /\ CacheOK(Indexed(c))
           /\ Indexed(c).owners = ReqsOf(c.events)
<1> DEFINE own == IF c.built THEN c.owners ELSE Range(Requested(c.events))
<1>1. own = ReqsOf(c.events)
  BY Zenon, RangeRequested DEF CacheOK
<1>2. c.events \in Seq(Event) /\ ReqsOf(c.events) \in SUBSET Requests
  <2>1. c.events \in Seq(Event)
    BY Zenon DEF Memory
  <2> QED BY Zenon, <2>1, EventSeqs
<1>3. PICK d : d = [valid |-> c.valid, events |-> c.events, built |-> TRUE, owners |-> own]
  BY Zenon
<1>4. Indexed(c) = d
  BY Zenon, <1>3 DEF Indexed
<1> HIDE DEF own
<1>5. d \in Memory /\ CacheOK(d) /\ d.owners = ReqsOf(c.events)
  BY Zenon, <1>1, <1>2, <1>3 DEF Memory, CacheOK
<1> QED BY Zenon, <1>4, <1>5

\* The cached events are used only if they are those of the file.
LEMMA KnownIsLog == ASSUME NEW p PROVE Known(p) = log
BY Zenon DEF Known
-----------------------------------------------------------------------------
(* A step of one process, seen by the others *)

LEMMA JobTypes ==
    ASSUME NEW j \in Job
    PROVE  /\ j.batch \in Seq(Requests) /\ Range(j.batch) \subseteq Requests
           /\ j.todo \in Seq(Event) /\ j.wrote \in Seq(Event)
           /\ Held(j) \subseteq Requests
           /\ \A i \in DOMAIN j.wrote : j.wrote[i].req \in Held(j)
<1>1. j.batch \in Batches \cup {<<>>} /\ j.todo \in Seq(Event) /\ j.wrote \in Seq(Event)
  BY Zenon DEF Job
<1>2. j.batch \in Seq(Requests)
  <2>1. <<>> \in Seq(Requests)
    OBVIOUS
  <2> QED BY Zenon, <1>1, <2>1, SpineConstants
<1>3. Range(j.batch) \subseteq Requests
  BY <1>2 DEF Range
<1>4. ReqsOf(j.wrote) \in SUBSET Requests
  BY Zenon, <1>1, EventSeqs
<1> QED BY Zenon, <1>1, <1>2, <1>3, <1>4 DEF Held, ReqsOf

\* The events stay, or that of a request that p holds is added.
Grows(p) ==
    Events' = Events \/ \E e \in Event : Events' = Append(Events, e) /\ e.req \in Held(job[p])

LEMMA WroteGrows ==
    ASSUME NEW E \in Seq(Event), NEW e \in Event, NEW j \in Job, WroteOK(j, E), e.req \notin Held(j)
    PROVE  WroteOK(j, Append(E, e))
<1>1. PICK F : F = Append(E, e)
  BY Zenon
<1>2. /\ ReqsOf(F) = ReqsOf(E) \cup {e.req} /\ DOMAIN F = 1 .. Len(E) + 1
      /\ F[Len(E) + 1] = e /\ \A i \in 1 .. Len(E) : F[i] = E[i]
  BY Zenon, <1>1, ReqsAppend
<1>3. Len(E) \in Nat /\ DOMAIN E = 1 .. Len(E)
  OBVIOUS
<1>4. ASSUME NEW i \in DOMAIN j.wrote, NEW k \in DOMAIN F, F[k].req = j.wrote[i].req
      PROVE  F[k] = j.wrote[i]
  <2>1. k # Len(E) + 1
    BY Zenon, <1>2, <1>4, JobTypes
  <2>2. k \in DOMAIN E /\ F[k] = E[k]
    BY <1>2, <1>3, <2>1
  <2> QED BY Zenon, <1>4, <2>2 DEF WroteOK
<1>5. \A r \in Range(j.batch) \ ReqsOf(j.wrote) : KeyOf[r] = None => r \notin ReqsOf(F)
  BY Zenon, <1>2 DEF WroteOK, Held
<1>6. WroteOK(j, F)
  BY Zenon, <1>4, <1>5 DEF WroteOK
<1> QED BY Zenon, <1>1, <1>6

LEMMA OthersKeep ==
    ASSUME IInv, NEW p \in Procs, NEW q \in Procs, q # p, job'[q] = job[q],
           \/ lock \in {p, None} /\ lock' \in {p, None} /\ Grows(p)
           \/ UNCHANGED <<log, torn, intent, lock>>,
           \A r \in Requests : answer[r] = "asked" /\ r \notin Held(job[p]) => answer'[r] = "asked"
    PROVE  JobOK(q, job[q])'
<1>1. PICK j : j = job[q]
  BY Zenon
<1>2. PICK H : H = Held(job[p])
  BY Zenon
<1>3. j \in Job /\ JobOK(q, j) /\ Held(j) \cap H = {} /\ Held(j) \subseteq Requests
  <2>1. j \in Job
    BY Zenon, <1>1 DEF IInv, AlwaysRecoverable, TypeOK
  <2>2. JobOK(q, j) /\ Held(j) \cap H = {}
    BY Zenon, <1>1, <1>2 DEF IInv, Apart
  <2> QED BY Zenon, <2>1, <2>2, JobTypes
<1>4. HeldOK(j, answer)'
  BY Zenon, <1>2, <1>3 DEF JobOK, HeldOK
<1>5. CASE lock \in {p, None} /\ lock' \in {p, None} /\ Grows(p)
  <2>1. q # None
    BY Zenon, SpineConstants
  <2>2. j.step \in {"idle", "unsure"} /\ lock' # q
    BY Zenon, <1>3, <1>5, <2>1 DEF JobOK
  <2>3. OnDisk(j)'
    BY Zenon, <2>2 DEF OnDisk
  <2>4. Events \in Seq(Event) /\ WroteOK(j, Events)
    BY Zenon, <1>3, DiskFacts DEF IInv, JobOK
  <2>5. WroteOK(j, Events)'
    <3>1. CASE Events' = Events
      BY Zenon, <2>4, <3>1
    <3>2. CASE \E e \in Event : Events' = Append(Events, e) /\ e.req \in H
      <4>1. PICK e \in Event : Events' = Append(Events, e) /\ e.req \in H
        BY Zenon, <3>2
      <4>2. e.req \notin Held(j)
        BY Zenon, <1>3, <4>1
      <4>3. WroteOK(j, Append(Events, e))
        BY Zenon, <1>3, <2>4, <4>2, WroteGrows
      <4> QED BY Zenon, <4>1, <4>3
    <3> QED BY Zenon, <1>2, <1>5, <3>1, <3>2 DEF Grows
  <2>6. JobOK(q, j)'
    BY Zenon, <1>3, <1>4, <2>2, <2>3, <2>5 DEF JobOK
  <2> QED BY Zenon, <1>1, <2>6
<1>6. CASE UNCHANGED <<log, torn, intent, lock>>
  <2>1. Events' = Events /\ Pending' = Pending
    BY Zenon, <1>6 DEF Events, Pending
  <2>2. OnDisk(j)'
    BY Zenon, <1>3, <1>6, <2>1 DEF OnDisk, JobOK
  <2>3. JobOK(q, j)'
    BY Zenon, <1>3, <1>4, <1>6, <2>1, <2>2 DEF JobOK
  <2> QED BY Zenon, <1>1, <2>3
<1> QED BY Zenon, <1>5, <1>6

\* A step of p that keeps what is said of p keeps the invariant.
LEMMA Frame ==
    ASSUME IInv, NEW p \in Procs, AlwaysRecoverable',
           \A q \in Procs : q # p => job'[q] = job[q] /\ cache'[q] = cache[q],
           CacheOK(cache[p])', JobOK(p, job[p])', Unused',
           \/ lock \in {p, None} /\ lock' \in {p, None} /\ Grows(p)
           \/ UNCHANGED <<log, torn, intent, lock>>,
           \A r \in Requests : answer[r] = "asked" /\ r \notin Held(job[p]) => answer'[r] = "asked",
           \A r \in Held(job'[p]) : r \in Held(job[p]) \/ answer[r] = "none"
    PROVE  IInv'
<1>1. ASSUME NEW q \in Procs PROVE CacheOK(cache[q])' /\ JobOK(q, job[q])'
  <2>1. CASE q = p
    BY Zenon, <2>1
  <2>2. CASE q # p
    <3>1. CacheOK(cache[q])'
      BY Zenon, <2>2 DEF IInv, CacheOK
    <3>2. JobOK(q, job[q])'
      BY Zenon, <2>2, OthersKeep
    <3> QED BY Zenon, <3>1, <3>2
  <2> QED BY Zenon, <2>1, <2>2
<1>2. ASSUME NEW q \in Procs, q # p PROVE Held(job'[p]) \cap Held(job'[q]) = {}
  <2>1. job'[q] = job[q] /\ Held(job[p]) \cap Held(job[q]) = {}
    BY Zenon, <1>2 DEF IInv, Apart
  <2>2. \A r \in Held(job[q]) : answer[r] = "asked"
    BY Zenon DEF IInv, JobOK, HeldOK
  <2> QED BY Zenon, <2>1, <2>2
<1>3. Apart'
  <2>1. ASSUME NEW q \in Procs, NEW s \in Procs, q # s PROVE Held(job'[q]) \cap Held(job'[s]) = {}
    <3>1. CASE q # p /\ s # p
      BY Zenon, <2>1, <3>1 DEF IInv, Apart
    <3>2. CASE q = p \/ s = p
      BY Zenon, <1>2, <2>1, <3>2
    <3> QED BY Zenon, <3>1, <3>2
  <2> QED BY Zenon, <2>1 DEF Apart
<1> QED BY Zenon, <1>1, <1>3 DEF IInv

-----------------------------------------------------------------------------
(* A step of one process, seen by the abstract log *)

LEMMA SameRivals == ASSUME NEW r, NEW s PROVE Log!SameKey(r, s) <=> Rivals(r, s)
BY Zenon DEF Log!SameKey, Rivals, SameKey, None

Answers(a) == {r \in Requests : answer[r] = a}

LEMMA LogStutters ==
    ASSUME Events' = Events, Answers("done")' = Answers("done")
    PROVE  UNCHANGED <<Committed, {r \in Requests : answer[r] = "done"}>>
BY Zenon DEF Events, Pending, Committed, Requested, Answers

LEMMA LogCommits ==
    ASSUME AlwaysRecoverable, NEW e \in Event, Events' = Append(Events, e),
           \A k \in DOMAIN Events : ~Rivals(Events[k].req, e.req),
           Answers("done")' = Answers("done")
    PROVE  Log!Next
<1>1. PICK E : E = Events
  BY Zenon
<1>2. /\ E \in Seq(Event) /\ Committed = Requested(E) /\ Committed' = Requested(Append(E, e))
      /\ e.req \in Requests
  BY Zenon, <1>1, DiskFacts, EventSeqs DEF Committed, Events, Pending, Event
<1>3. /\ Append(E, e) \in Seq(Event) /\ DOMAIN Append(E, e) = 1 .. Len(E) + 1
      /\ Append(E, e)[Len(E) + 1] = e /\ \A i \in 1 .. Len(E) : Append(E, e)[i] = E[i]
  BY Zenon, <1>2, ReqsAppend
<1>4. Len(E) \in Nat /\ DOMAIN E = 1 .. Len(E) /\ \A i \in DOMAIN E : E[i].req \in Requests
  BY Zenon, <1>2, EventSeqs
<1>5. /\ Requested(E) \in Seq(Requests) /\ Len(Requested(E)) = Len(E)
      /\ \A i \in 1 .. Len(E) : Requested(E)[i] = E[i].req
  BY <1>4 DEF Requested
<1>6. Requested(Append(E, e)) = Append(Requested(E), e.req)
  BY <1>2, <1>3, <1>4, <1>5 DEF Requested
<1>7. \A i \in DOMAIN Committed : ~Log!SameKey(Committed[i], e.req)
  BY Zenon, <1>1, <1>2, <1>4, <1>5, SameRivals DEF Requested
<1>8. Log!Commit(e.req)
  BY Zenon, <1>2, <1>6, <1>7 DEF Log!Commit, Answers
<1> QED BY Zenon, <1>2, <1>8 DEF Log!Next

LEMMA LogTells ==
    ASSUME AlwaysRecoverable, Events' = Events, NEW R \in SUBSET Requests,
           Answers("done")' = Answers("done") \cup R,
           \A r \in R : \E s \in ReqsOf(Events) : Rivals(s, r) /\ ValOf[s] = ValOf[r]
    PROVE  Log!Next
<1>1. Committed = Requested(Events) /\ Committed' = Committed
  BY Zenon DEF Committed, Events, Pending, Requested
<1>2. \A r \in R : \E i \in DOMAIN Committed :
          Log!SameKey(Committed[i], r) /\ ValOf[Committed[i]] = ValOf[r]
  BY <1>1, SameRivals DEF Requested, ReqsOf
<1>3. Log!Tell(R)
  BY Zenon, <1>1, <1>2 DEF Log!Tell, Answers
<1> QED BY Zenon, <1>3 DEF Log!Next

\* What a step has to do besides: be one of the abstract log.
Simulates == Log!Next \/ UNCHANGED <<Committed, {r \in Requests : answer[r] = "done"}>>

-----------------------------------------------------------------------------
(* Facts that the actions share *)

Answer == {"none", "asked", "done", "conflict", "lost"}

LEMMA Facts ==
    ASSUME IInv, NEW p \in Procs
    PROVE  /\ AlwaysRecoverable /\ p # None
           /\ job \in [Procs -> Job] /\ job[p] \in Job /\ JobOK(p, job[p])
           /\ cache \in [Procs -> Memory] /\ cache[p] \in Memory /\ CacheOK(cache[p])
           /\ answer \in [Requests -> Answer] /\ lock \in Procs \cup {None}
           /\ Events \in Seq(Event) /\ log \in Seq(Event) /\ Len(log) \in Nat
BY Zenon, DiskFacts, SpineConstants DEF IInv, AlwaysRecoverable, TypeOK, Answer

LEMMA AnsweredFacts ==
    ASSUME answer \in [Requests -> Answer], NEW R, NEW a \in Answer, answer' = Answered(R, a)
    PROVE  /\ answer' \in [Requests -> Answer]
           /\ \A r \in Requests : answer'[r] = IF r \in R THEN a ELSE answer[r]
<1>1. \A r \in Requests : answer[r] \in Answer
  BY Zenon
<1>2. answer' = [r \in Requests |-> IF r \in R THEN a ELSE answer[r]]
  BY Zenon DEF Answered
<1>3. answer' \in [Requests -> Answer]
  BY Zenon, <1>1, <1>2
<1> QED BY Zenon, <1>2, <1>3

\* p remembers something that is so.
Remembers(p) == \E c \in Memory : CacheOK(c) /\ cache' = [cache EXCEPT ![p] = c]

LEMMA Memories ==
    ASSUME IInv, NEW p \in Procs,
           \/ cache' = cache
           \/ cache' = [cache EXCEPT ![p] = Nothing]
           \/ cache' = [cache EXCEPT ![p] = Remembered(cache[p], log)]
    PROVE  Remembers(p)
<1>1. cache = [cache EXCEPT ![p] = cache[p]] /\ cache[p] \in Memory /\ CacheOK(cache[p])
  BY Zenon, Facts
<1>2. Remembered(cache[p], log) \in Memory /\ CacheOK(Remembered(cache[p], log))
  BY Zenon, Facts, RememberedOK
<1> QED BY Zenon, <1>1, <1>2, NothingOK DEF Remembers

LEMMA Types ==
    ASSUME IInv, NEW p \in Procs, NEW k \in Job, job' = [job EXCEPT ![p] = k], Remembers(p),
           DiskTyped', Recoverable', lock' \in {p, None, lock}, answer' \in [Requests -> Answer]
    PROVE  /\ AlwaysRecoverable' /\ job'[p] = k /\ CacheOK(cache[p])'
           /\ \A q \in Procs : q # p => job'[q] = job[q] /\ cache'[q] = cache[q]
<1>1. PICK c \in Memory : CacheOK(c) /\ cache' = [cache EXCEPT ![p] = c]
  BY Zenon DEF Remembers
<1>2. /\ job' \in [Procs -> Job] /\ cache' \in [Procs -> Memory] /\ lock' \in Procs \cup {None}
      /\ job'[p] = k /\ cache'[p] = c
      /\ \A q \in Procs : q # p => job'[q] = job[q] /\ cache'[q] = cache[q]
  BY Zenon, <1>1, Facts
<1>3. AlwaysRecoverable'
  BY Zenon, <1>2 DEF AlwaysRecoverable, TypeOK, DiskTyped, Answer
<1> QED BY Zenon, <1>1, <1>2, <1>3

LEMMA EmptyFacts == Range(<<>>) = {} /\ ReqsOf(<<>>) = {}
BY DEF Range, ReqsOf

LEMMA IdleOK ==
    /\ Idle \in Job /\ Held(Idle) = {} /\ Shape(Idle) /\ Idle.step = "idle"
    /\ \A E : WroteOK(Idle, E)
<1>1. /\ Idle.step = "idle"
      /\ Idle.batch = <<>> /\ Idle.todo = <<>> /\ Idle.wrote = <<>> /\ Idle.goal = None
  BY Zenon DEF Idle
<1>2. Idle \in Job
  <2>1. <<>> \in Seq(Event) /\ <<>> \in Batches \cup {<<>>}
    OBVIOUS
  <2> QED BY Zenon, <2>1 DEF Idle, Job
<1>3. Held(Idle) = {} /\ \A E : WroteOK(Idle, E)
  BY <1>1, EmptyFacts DEF Held, WroteOK
<1> QED BY Zenon, <1>1, <1>2, <1>3 DEF Shape

LEMMA UnsureOK ==
    ASSUME NEW w \in Seq(Event), w # <<>>, NEW k, k = Unsure(w)
    PROVE  /\ k \in Job /\ k.step = "unsure" /\ Shape(k) /\ Held(k) = ReqsOf(w)
           /\ k.batch = <<>> /\ k.wrote = w
<1>1. <<>> \in Seq(Event) /\ <<>> \in Batches \cup {<<>>}
  OBVIOUS
<1>2. k.step = "unsure" /\ k.batch = <<>> /\ k.todo = <<>> /\ k.wrote = w
  BY Zenon DEF Unsure
<1>3. k \in Job
  BY Zenon, <1>1 DEF Unsure, Job
<1> QED BY Zenon, <1>2, <1>3, EmptyFacts DEF Shape, Held

\* An event that was prepared gets its intent.
Commits(p, R) ==
    \E e \in Event : /\ Events' = Append(Events, e) /\ e.req \in Held(job[p]) \ R
                     /\ \A i \in DOMAIN Events : ~Rivals(Events[i].req, e.req)

\* There is an event for every request of R.
Present(R) == \A r \in R : \E s \in ReqsOf(Events) : Rivals(s, r) /\ ValOf[s] = ValOf[r]

\* p has, or takes, the lock and goes on with the call k, or gives the lock back; and
\* the callers of R hear a.
LEMMA Moves ==
    ASSUME IInv, NEW p \in Procs, NEW k \in Job, NEW R \in SUBSET Requests, NEW a \in Answer,
           job' = [job EXCEPT ![p] = k], Remembers(p), answer' = Answered(R, a),
           lock \in {p, None}, lock' \in {p, None}, DiskTyped', Recoverable',
           k.step \notin {"idle", "unsure"} <=> lock' = p,
           Shape(k), OnDisk(k)', WroteOK(k, Events'),
           k.step \in {"intent", "record", "clear", "finish"} => PlanOK(k, Events'),
           \A r \in R : r \in Held(job[p]) \/ (a = "asked" /\ answer[r] = "none"),
           \A r \in Held(k) : IF r \in R THEN a = "asked" ELSE r \in Held(job[p]),
           Events' = Events \/ (a # "done" /\ Commits(p, R)),
           a = "none" => \A r \in R : KeyOf[r] = None => r \notin ReqsOf(Events),
           a = "done" => Present(R)
    PROVE  IInv' /\ Simulates
<1>1. PICK H : H = Held(job[p])
  BY Zenon
<1>2. H \subseteq Requests /\ \A r \in H : answer[r] = "asked"
  BY Zenon, <1>1, Facts, JobTypes DEF JobOK, HeldOK
<1>3. /\ answer' \in [Requests -> Answer]
      /\ \A r \in Requests : answer'[r] = IF r \in R THEN a ELSE answer[r]
  BY Zenon, Facts, AnsweredFacts
<1>4. /\ AlwaysRecoverable' /\ job'[p] = k /\ CacheOK(cache[p])'
      /\ \A q \in Procs : q # p => job'[q] = job[q] /\ cache'[q] = cache[q]
  BY Zenon, <1>3, Types
<1>5. HeldOK(k, answer)'
  BY Zenon, <1>1, <1>2, <1>3 DEF HeldOK
<1>6. JobOK(p, job[p])'
  BY Zenon, <1>4, <1>5 DEF JobOK
<1>7. Unused'
  <2> SUFFICES ASSUME NEW r \in Requests, KeyOf[r] = None, answer'[r] = "none"
               PROVE  r \notin ReqsOf(Events')
    BY Zenon DEF Unused
  <2>1. r \notin ReqsOf(Events)
    BY Zenon, <1>3 DEF IInv, Unused
  <2>2. CASE Commits(p, R)
    <3>1. PICK e \in Event : Events' = Append(Events, e) /\ e.req \in H \ R
      BY Zenon, <1>1, <2>2 DEF Commits
    <3>2. ReqsOf(Events') = ReqsOf(Events) \cup {e.req}
      BY <3>1, Facts, ReqsAppend
    <3> QED BY Zenon, <1>2, <1>3, <2>1, <3>1, <3>2
  <2> QED BY Zenon, <2>1, <2>2
<1>8. IInv'
  <2>1. Grows(p)
    BY Zenon DEF Grows, Commits
  <2>2. /\ \A r \in Requests : answer[r] = "asked" /\ r \notin Held(job[p]) => answer'[r] = "asked"
        /\ \A r \in Held(job'[p]) : r \in Held(job[p]) \/ answer[r] = "none"
    BY Zenon, <1>3, <1>4
  <2> QED BY Zenon, <1>4, <1>6, <1>7, <2>1, <2>2, Frame
<1>9. Simulates
  <2>1. CASE a = "done"
    <3>1. Answers("done")' = Answers("done") \cup R
      BY Zenon, <1>3, <2>1 DEF Answers
    <3> QED BY Zenon, <2>1, <3>1, Facts, LogTells DEF Simulates, Present
  <2>2. CASE a # "done"
    <3>1. Answers("done")' = Answers("done")
      BY Zenon, <1>1, <1>2, <1>3, <2>2 DEF Answers
    <3>2. CASE Events' = Events
      BY Zenon, <3>1, <3>2, LogStutters DEF Simulates
    <3>3. CASE Commits(p, R)
      BY Zenon, <3>1, <3>3, Facts, LogCommits DEF Simulates, Commits
    <3> QED BY Zenon, <2>2, <3>2, <3>3
  <2> QED BY Zenon, <2>1, <2>2
<1> QED BY Zenon, <1>8, <1>9

\* p goes on with its call, whose requests stay the same.
LEMMA GoesOn ==
    ASSUME IInv, NEW p \in Procs, NEW k \in Job, job' = [job EXCEPT ![p] = k], Remembers(p),
           k.batch = job[p].batch, k.wrote = job[p].wrote, answer' = answer,
           lock \in {p, None}, lock' = p, k.step \notin {"idle", "unsure"},
           KeepsEvents, Shape(k), OnDisk(k)',
           k.step \in {"intent", "record", "clear", "finish"} => PlanOK(k, Events)
    PROVE  IInv' /\ Simulates
<1>1. PICK R : R = {}
  BY Zenon
<1>2. answer' = Answered(R, "none")
  BY Zenon, <1>1, Facts DEF Answered
<1>3. Held(k) = Held(job[p])
  BY Zenon DEF Held
<1>4. WroteOK(k, Events')
  BY Facts DEF KeepsEvents, JobOK, WroteOK
<1>5. /\ R \in SUBSET Requests /\ "none" \in Answer /\ \A r \in R : FALSE
      /\ DiskTyped' /\ Recoverable' /\ Events' = Events
  BY Zenon, <1>1 DEF KeepsEvents, Answer
<1> QED BY Zenon, <1>2, <1>3, <1>4, <1>5, Moves

\* What the step of a call may be after the recovery, or the loop over the events,
\* did nothing else with it, and where the disk has to be then.
NextStep(j, s) ==
    \/ j.step \in {"recover", "rewrite"} /\ s \in {"recover", "rewrite", "verify"}
    \/ j.step = "clear" /\ s = IF j.todo = <<>> THEN "finish" ELSE "intent"

ReadyFor(s) ==
    /\ s = "rewrite" => Pending /\ ~torn
    /\ s = "verify" => intent = NoIntent
    /\ s \in {"intent", "finish"} => ~Pending

LEMMA StepsOn ==
    ASSUME IInv, NEW p \in Procs, NEW s, job' = [job EXCEPT ![p].step = s], Remembers(p),
           answer' = answer, lock' = lock, KeepsEvents, NextStep(job[p], s), ReadyFor(s)'
    PROVE  IInv' /\ Simulates
<1>1. PICK j : j = job[p]
  BY Zenon
<1>2. PICK k : k = [j EXCEPT !.step = s]
  BY Zenon
<1>3. j \in Job /\ Shape(j) /\ lock = p /\ (j.step = "clear" => PlanOK(j, Events))
  BY Zenon, <1>1, Facts DEF JobOK, NextStep
<1>4. /\ k \in Job /\ k.step = s /\ k.goal = j.goal /\ k.batch = j.batch
      /\ k.todo = j.todo /\ k.wrote = j.wrote
  BY Zenon, <1>1, <1>2, <1>3 DEF Job, NextStep
<1>5. Shape(k) /\ OnDisk(k)'
  <2>1. Shape(k)
    BY Zenon, <1>1, <1>3, <1>4 DEF Shape, NextStep
  <2>2. OnDisk(k)'
    BY Zenon, <1>1, <1>4 DEF OnDisk, NextStep, ReadyFor
  <2> QED BY Zenon, <2>1, <2>2
<1>6. k.step \in {"intent", "record", "clear", "finish"} => PlanOK(k, Events)
  <2> SUFFICES ASSUME k.step \in {"intent", "record", "clear", "finish"} PROVE PlanOK(k, Events)
    BY Zenon
  <2>1. PlanOK(j, Events) /\ Rest(k) = Rest(j)
    BY Zenon, <1>1, <1>3, <1>4 DEF Rest, NextStep
  <2> QED BY Zenon, <1>4, <2>1 DEF PlanOK
<1>7. job' = [job EXCEPT ![p] = k]
  BY Zenon, <1>1, <1>2
<1>8. k.step \notin {"idle", "unsure"}
  BY Zenon, <1>4 DEF NextStep
<1> QED BY Zenon, <1>1, <1>3, <1>4, <1>5, <1>6, <1>7, <1>8, GoesOn

\* The call returns or raises, with the disk as it is.
LEMMA Returns ==
    ASSUME IInv, NEW p \in Procs, NEW a \in {"done", "conflict", "none"}, lock = p,
           Return(p, Range(job[p].batch), a), Remembers(p), KeepsEvents,
           a = "done" => Present(Range(job[p].batch)),
           a = "none" => job[p].wrote = <<>>
    PROVE  IInv' /\ Simulates
<1>1. PICK R : R = Range(job[p].batch)
  BY Zenon
<1>2. /\ job' = [job EXCEPT ![p] = Idle] /\ lock' = None /\ answer' = Answered(R, a) /\ a \in Answer
  BY Zenon, <1>1 DEF Return, Answer
<1>3. R \in SUBSET Requests /\ R \subseteq Held(job[p])
  BY Zenon, <1>1, Facts, JobTypes DEF Held
<1>4. a = "none" => \A r \in R : KeyOf[r] = None => r \notin ReqsOf(Events)
  BY Zenon, <1>1, Facts, EmptyFacts DEF JobOK, WroteOK
<1>5. OnDisk(Idle)' /\ WroteOK(Idle, Events')
  BY Zenon, IdleOK DEF OnDisk
<1> QED BY Zenon, <1>1, <1>2, <1>3, <1>4, <1>5, Facts, IdleOK, Moves DEF KeepsEvents

\* Where an event of w has a request, it is the one that w has.
Settled(w, E) ==
    /\ \A i, k \in DOMAIN w : w[i].req = w[k].req => i = k
    /\ \A i \in DOMAIN w : \A k \in DOMAIN E : E[k].req = w[i].req => E[k] = w[i]

\* The call ends with the events w in doubt.
LEMMA Unsettled ==
    ASSUME IInv, NEW p \in Procs, NEW w \in Seq(Event), w # <<>>, lock = p, lock' = None,
           job' = [job EXCEPT ![p] = Unsure(w)], Remembers(p),
           answer' = Answered(Range(job[p].batch) \ Range(Requested(w)), "none"),
           ReqsOf(job[p].wrote) \subseteq ReqsOf(w), ReqsOf(w) \subseteq Held(job[p]),
           DiskTyped', Recoverable', Settled(w, Events'),
           Events' = Events \/ Commits(p, Range(job[p].batch) \ ReqsOf(w))
    PROVE  IInv' /\ Simulates
<1>1. PICK k : k = Unsure(w)
  BY Zenon
<1>2. PICK R : R = Range(job[p].batch) \ ReqsOf(w)
  BY Zenon
<1>3. /\ k \in Job /\ k.step = "unsure" /\ Shape(k) /\ Held(k) = ReqsOf(w)
      /\ k.batch = <<>> /\ k.wrote = w
  BY Zenon, <1>1, UnsureOK
<1>4. /\ job' = [job EXCEPT ![p] = k] /\ answer' = Answered(R, "none") /\ p # None /\ "none" \in Answer
  BY Zenon, <1>1, <1>2, Facts, RangeRequested DEF Answer
<1>5. R \in SUBSET Requests /\ R \subseteq Held(job[p]) /\ R \cap Held(k) = {}
  BY Zenon, <1>2, <1>3, Facts, JobTypes DEF Held
<1>6. OnDisk(k)' /\ WroteOK(k, Events')
  BY Zenon, <1>3, EmptyFacts DEF OnDisk, WroteOK, Settled
<1>7. \A r \in R : KeyOf[r] = None => r \notin ReqsOf(Events)
  BY Zenon, <1>2, Facts DEF JobOK, WroteOK
<1>8. Events' = Events \/ Commits(p, R)
  BY Zenon, <1>2
<1>9. /\ \A r \in R : r \in Held(job[p])
      /\ \A r \in Held(k) : r \notin R /\ r \in Held(job[p])
      /\ lock' # p /\ k.step \in {"idle", "unsure"} /\ lock' \in {p, None}
      /\ k.step \notin {"intent", "record", "clear", "finish"}
  BY Zenon, <1>3, <1>4, <1>5
<1> QED BY Zenon, <1>3, <1>4, <1>5, <1>6, <1>7, <1>8, <1>9, Moves

-----------------------------------------------------------------------------
(* The prepared events *)

LEMMA SamePlan ==
    ASSUME NEW j \in Job, NEW k \in Job, NEW E, PlanOK(j, E),
           k.batch = j.batch, k.wrote = j.wrote, Rest(k) = Rest(j), j.todo # <<>> \/ k.todo = j.todo,
           k.todo = j.todo \/ k.todo = Tail(j.todo)
    PROVE  PlanOK(k, E)
<1>1. CASE k.todo = j.todo
  BY Zenon, <1>1 DEF PlanOK
<1>2. CASE k.todo = Tail(j.todo) /\ j.todo # <<>>
  <2>1. j.todo \in Seq(Event) /\ Len(j.todo) \in Nat
    BY JobTypes
  <2>2. /\ DOMAIN k.todo = 1 .. Len(j.todo) - 1 /\ ReqsOf(k.todo) \subseteq ReqsOf(j.todo)
        /\ \A i \in DOMAIN k.todo : i + 1 \in DOMAIN j.todo /\ k.todo[i] = j.todo[i + 1]
    BY <1>2, <2>1, HeadAndTail
  <2>3. \A i, n \in DOMAIN k.todo : Rivals(k.todo[i].req, k.todo[n].req) => i = n
    <3> SUFFICES ASSUME NEW i \in DOMAIN k.todo, NEW n \in DOMAIN k.todo,
                        Rivals(k.todo[i].req, k.todo[n].req)
                 PROVE  i = n
      BY Zenon
    <3>1. i \in Int /\ n \in Int
      BY <2>1, <2>2
    <3>2. i + 1 = n + 1
      BY Zenon, <2>2 DEF PlanOK
    <3> QED BY <3>1, <3>2
  <2>4. ReqsOf(k.todo) \subseteq Range(k.batch)
    BY Zenon, <2>2 DEF PlanOK
  <2> QED BY Zenon, <2>3, <2>4 DEF PlanOK
<1> QED BY Zenon, <1>1, <1>2

\* The first prepared event e, and the events w in doubt once its intent may be there.
NextOK(E, j, e, w) ==
    /\ e \in Event /\ e.seq = Len(E) /\ e.req \in Range(j.batch)
    /\ \A k \in DOMAIN E : ~Rivals(E[k].req, e.req)
    /\ w \in Seq(Event) /\ w # <<>>
    /\ ReqsOf(w) = ReqsOf(j.wrote) \cup {e.req} /\ ReqsOf(w) \subseteq Range(j.batch)
    /\ Settled(w, E) /\ Settled(w, Append(E, e))

LEMMA NextEvent ==
    ASSUME NEW E \in Seq(Event), NEW j \in Job, j.step = "intent", j.todo # <<>>,
           PlanOK(j, E), WroteOK(j, E),
           NEW e, e = Head(j.todo), NEW w, w = Append(j.wrote, e)
    PROVE  NextOK(E, j, e, w)
<1>1. /\ j.todo \in Seq(Event) /\ j.wrote \in Seq(Event) /\ Rest(j) = j.todo
      /\ Len(j.wrote) \in Nat /\ DOMAIN j.wrote = 1 .. Len(j.wrote) /\ Len(E) \in Nat
  BY JobTypes DEF Rest
<1>2. e \in Event /\ e = j.todo[1] /\ 1 \in DOMAIN j.todo /\ e.req \in ReqsOf(j.todo)
  BY Zenon, <1>1, HeadAndTail
<1>3. e.seq = Len(E) + 1 - 1 /\ \A k \in DOMAIN E : ~Rivals(E[k].req, e.req)
  BY Zenon, <1>1, <1>2 DEF PlanOK
<1>4. e.req \notin ReqsOf(j.wrote) /\ e.req \in Range(j.batch)
  BY Zenon, <1>1, <1>2 DEF PlanOK
<1>5. /\ ReqsOf(w) = ReqsOf(j.wrote) \cup {e.req} /\ w \in Seq(Event)
      /\ DOMAIN w = 1 .. Len(j.wrote) + 1 /\ w[Len(j.wrote) + 1] = e
      /\ \A i \in 1 .. Len(j.wrote) : w[i] = j.wrote[i]
  BY <1>1, <1>2, ReqsAppend
<1>6. ReqsOf(w) \subseteq Range(j.batch) /\ w # <<>>
  <2>1. ReqsOf(w) \subseteq Range(j.batch)
    BY Zenon, <1>4, <1>5 DEF PlanOK
  <2>2. w # <<>>
    BY <1>1, <1>5
  <2> QED BY Zenon, <2>1, <2>2
<1>7. \A i \in DOMAIN w : i # Len(j.wrote) + 1 =>
          i \in DOMAIN j.wrote /\ w[i] = j.wrote[i] /\ w[i].req # e.req
  BY <1>1, <1>4, <1>5 DEF ReqsOf
<1>8. \A i, k \in DOMAIN w : w[i].req = w[k].req => i = k
  <2> SUFFICES ASSUME NEW i \in DOMAIN w, NEW k \in DOMAIN w, w[i].req = w[k].req
               PROVE  i = k
    BY Zenon
  <2>1. CASE i # Len(j.wrote) + 1 /\ k # Len(j.wrote) + 1
    BY <1>7, <2>1 DEF WroteOK
  <2>2. CASE i = Len(j.wrote) + 1 \/ k = Len(j.wrote) + 1
    BY Zenon, <1>5, <1>7, <2>2
  <2> QED BY Zenon, <2>1, <2>2
<1>9. \A i \in DOMAIN w : \A k \in DOMAIN E : E[k].req = w[i].req => E[k] = w[i]
  BY <1>3, <1>5, <1>7 DEF WroteOK, Rivals
<1>10. \A i \in DOMAIN w : e.req = w[i].req => e = w[i]
  BY Zenon, <1>5, <1>7
<1>11. e.seq = Len(E)
  BY <1>1, <1>3
<1>12. Settled(w, E)
  BY Zenon, <1>8, <1>9 DEF Settled
<1>13. Settled(w, Append(E, e))
  <2>1. \A k \in DOMAIN Append(E, e) :
           (k \in DOMAIN E /\ Append(E, e)[k] = E[k]) \/ Append(E, e)[k] = e
    BY <1>1, <1>2, EventSeqs, ReqsAppend
  <2> QED BY <1>8, <1>9, <1>10, <2>1 DEF Settled
<1> QED BY Zenon, <1>2, <1>3, <1>4, <1>5, <1>6, <1>11, <1>12, <1>13 DEF NextOK

LEMMA Advances ==
    ASSUME NEW E \in Seq(Event), NEW j \in Job, j.step = "intent", j.todo # <<>>,
           PlanOK(j, E), WroteOK(j, E),
           NEW k \in Job, k.step = "record", k.batch = j.batch, k.todo = j.todo,
           k.wrote = Append(j.wrote, Head(j.todo)),
           NEW F, F = Append(E, Head(j.todo))
    PROVE  PlanOK(k, F) /\ WroteOK(k, F)
<1>1. PICK e : e = Head(j.todo)
  BY Zenon
<1>2. PICK w : w = k.wrote
  BY Zenon
<1>3. NextOK(E, j, e, w)
  BY Zenon, <1>1, <1>2, NextEvent
<1>4. /\ ReqsOf(F) = ReqsOf(E) \cup {e.req} /\ Len(F) = Len(E) + 1 /\ Len(E) \in Nat
      /\ DOMAIN F = 1 .. Len(E) + 1 /\ F[Len(E) + 1] = e
      /\ \A i \in 1 .. Len(E) : F[i] = E[i]
      /\ DOMAIN E = 1 .. Len(E)
  BY <1>1, <1>3, ReqsAppend DEF NextOK
<1>5. \A i \in DOMAIN F : (i \in DOMAIN E /\ F[i] = E[i]) \/ F[i] = e
  BY <1>4
<1>6. WroteOK(k, F)
  <2>1. Settled(w, F)
    BY Zenon, <1>1, <1>3 DEF NextOK
  <2>2. \A r \in Range(k.batch) \ ReqsOf(w) : KeyOf[r] = None => r \notin ReqsOf(F)
    BY Zenon, <1>3, <1>4 DEF WroteOK, NextOK
  <2> QED BY Zenon, <1>2, <2>1, <2>2 DEF WroteOK, Settled
<1>7. PICK t : t = Tail(j.todo)
  BY Zenon
<1>8. /\ e = j.todo[1] /\ 1 \in DOMAIN j.todo /\ Rest(k) = t /\ Rest(j) = j.todo
      /\ DOMAIN t = 1 .. Len(j.todo) - 1 /\ Len(j.todo) \in Nat
      /\ \A i \in DOMAIN t : i + 1 \in DOMAIN j.todo /\ t[i] = j.todo[i + 1]
      /\ \A i \in DOMAIN j.todo : i # 1 => i - 1 \in DOMAIN t /\ t[i - 1] = j.todo[i]
  <2>1. j.todo \in Seq(Event) /\ Len(j.todo) \in Nat
    BY JobTypes
  <2>2. Rest(k) = t /\ Rest(j) = j.todo
    BY Zenon, <1>7 DEF Rest
  <2> QED BY <1>1, <1>7, <2>1, <2>2, HeadAndTail
<1>9. \A i \in DOMAIN j.todo :
          /\ j.todo[i].seq = Len(E) + i - 1 /\ j.todo[i].req \notin ReqsOf(j.wrote)
          /\ \A n \in DOMAIN E : ~Rivals(E[n].req, j.todo[i].req)
  BY Zenon, <1>8 DEF PlanOK
<1>10. ASSUME NEW i \in DOMAIN t
       PROVE  /\ t[i].seq = Len(F) + i - 1 /\ t[i].req \notin ReqsOf(w)
              /\ \A n \in DOMAIN F : ~Rivals(F[n].req, t[i].req)
  <2>1. 1 # i + 1 /\ i \in Int /\ i + 1 \in DOMAIN j.todo /\ t[i] = j.todo[i + 1]
    BY <1>8
  <2>2. ~Rivals(e.req, t[i].req)
    BY Zenon, <1>8, <2>1 DEF PlanOK
  <2>3. t[i].seq = Len(E) + (i + 1) - 1 /\ t[i].req \notin ReqsOf(j.wrote)
        /\ \A n \in DOMAIN E : ~Rivals(E[n].req, t[i].req)
    BY Zenon, <1>9, <2>1
  <2>4. t[i].seq = Len(F) + i - 1
    BY <1>4, <2>1, <2>3
  <2>5. t[i].req \notin ReqsOf(w)
    BY Zenon, <1>3, <2>2, <2>3 DEF NextOK, Rivals
  <2>6. \A n \in DOMAIN F : ~Rivals(F[n].req, t[i].req)
    BY Zenon, <1>5, <2>2, <2>3
  <2> QED BY Zenon, <2>4, <2>5, <2>6
<1>11. ASSUME NEW x \in ReqsOf(j.todo) PROVE x = e.req \/ x \in ReqsOf(t)
  <2>1. PICK i \in DOMAIN j.todo : x = j.todo[i].req
    BY Zenon DEF ReqsOf
  <2>2. CASE i = 1
    BY Zenon, <1>8, <2>1, <2>2
  <2>3. CASE i # 1
    BY Zenon, <1>8, <2>1, <2>3 DEF ReqsOf
  <2> QED BY Zenon, <2>2, <2>3
<1>12. \A r \in Range(k.batch) : \E s \in ReqsOf(F) \cup ReqsOf(t) :
          Rivals(s, r) /\ ValOf[s] = ValOf[r]
  BY <1>4, <1>8, <1>11 DEF PlanOK
<1>13. /\ ReqsOf(k.todo) \subseteq Range(k.batch) /\ ReqsOf(k.wrote) \subseteq Range(k.batch)
       /\ \A i, n \in DOMAIN k.todo : Rivals(k.todo[i].req, k.todo[n].req) => i = n
  BY Zenon, <1>2, <1>3 DEF PlanOK, NextOK
<1>14. PlanOK(k, F)
  BY Zenon, <1>2, <1>8, <1>10, <1>12, <1>13 DEF PlanOK
<1> QED BY Zenon, <1>6, <1>14

\* The events in doubt after the first one is settled.
LEMMA RestInDoubt ==
    ASSUME NEW j \in Job, NEW E, WroteOK(j, E), Len(j.wrote) # 1, j.wrote # <<>>,
           NEW w, w = Tail(j.wrote)
    PROVE  /\ w \in Seq(Event) /\ w # <<>> /\ ReqsOf(w) \subseteq ReqsOf(j.wrote)
           /\ Head(j.wrote).req \notin ReqsOf(w)
           /\ WroteOK(Unsure(w), E)
<1>1. PICK s : s = j.wrote
  BY Zenon
<1>2. s \in Seq(Event) /\ s # <<>> /\ Len(s) \in Nat /\ DOMAIN s = 1 .. Len(s) /\ Len(s) # 1
  BY <1>1, JobTypes
<1>3. /\ Head(s) = s[1] /\ w \in Seq(Event) /\ DOMAIN w = 1 .. Len(s) - 1
      /\ \A i \in DOMAIN w : w[i] = s[i + 1] /\ i + 1 \in DOMAIN s
      /\ 1 \in DOMAIN s
  BY Zenon, <1>1, <1>2, HeadAndTail
<1>4. \A i, k \in DOMAIN s : s[i].req = s[k].req => i = k
  BY Zenon, <1>1 DEF WroteOK
<1>5. ReqsOf(w) \subseteq ReqsOf(s)
  BY <1>3 DEF ReqsOf
<1>6. Head(s).req \notin ReqsOf(w) /\ w # <<>>
  <2>1. ASSUME NEW i \in DOMAIN w PROVE w[i].req # Head(s).req
    <3>1. i \in Nat /\ i + 1 # 1
      BY <1>2, <1>3
    <3> QED BY Zenon, <1>3, <1>4, <3>1
  <2>2. 1 \in DOMAIN w
    <3>1. Len(s) # 0
      BY <1>2
    <3> QED BY <1>2, <1>3, <3>1
  <2>3. Head(s).req \notin ReqsOf(w)
    BY Zenon, <2>1 DEF ReqsOf
  <2>4. DOMAIN w # {} => w # <<>>
    OBVIOUS
  <2> QED BY Zenon, <2>2, <2>3, <2>4
<1>7. ASSUME NEW i \in DOMAIN w, NEW k \in DOMAIN w, w[i].req = w[k].req PROVE i = k
  <2>1. i \in Int /\ k \in Int /\ i + 1 = k + 1
    BY <1>2, <1>3, <1>4, <1>7
  <2> QED BY <2>1
<1>8. \A i \in DOMAIN w : \A k \in DOMAIN E : E[k].req = w[i].req => E[k] = w[i]
  BY <1>1, <1>3 DEF WroteOK
<1>9. PICK u : u = Unsure(w)
  BY Zenon
<1>10. u.wrote = w /\ u.batch = <<>>
  BY Zenon, <1>9 DEF Unsure
<1>11. WroteOK(u, E)
  BY <1>7, <1>8, <1>10, EmptyFacts DEF WroteOK
<1> QED BY Zenon, <1>1, <1>3, <1>5, <1>6, <1>9, <1>11

-----------------------------------------------------------------------------
(* The plan of a call *)

\* What is planned is part of the batch, without rivals in the log or in the plan,
\* and every other payload of the batch has one.
PlanFor(plan, b, owners) ==
    /\ plan \in Seq(Requests) /\ Len(plan) <= Len(b)
    /\ \A i \in DOMAIN plan : \E n \in DOMAIN b : plan[i] = b[n]
    /\ \A i \in DOMAIN plan : \A s \in owners : ~SameKey(plan[i], s)
    /\ \A i, n \in DOMAIN plan : i < n => ~SameKey(plan[n], plan[i])
    /\ \A n \in DOMAIN b : \/ \E i \in DOMAIN plan : plan[i] = b[n]
                           \/ \E s \in owners : SameKey(b[n], s)
                           \/ \E i \in DOMAIN plan : SameKey(b[n], plan[i])

LEMMA PlansFacts ==
    ASSUME NEW b \in Seq(Requests), NEW owners, NEW at \in Plans(b, owners),
           NEW plan, plan = [i \in DOMAIN at |-> b[at[i]]]
    PROVE  PlanFor(plan, b, owners)
<1>1. PICK n \in 0 .. Len(b) : at \in [1 .. n -> DOMAIN b]
  BY Zenon DEF Plans
<1>2. /\ n \in Nat /\ n <= Len(b) /\ DOMAIN plan = 1 .. n /\ DOMAIN at = 1 .. n
      /\ \A i \in 1 .. n : at[i] \in DOMAIN b /\ plan[i] = b[at[i]] /\ b[at[i]] \in Requests
  BY <1>1
<1>3. plan \in Seq(Requests) /\ Len(plan) = n
  BY <1>2
<1>4. /\ \A i, m \in DOMAIN at : i < m => at[i] < at[m]
      /\ \A m \in DOMAIN b : m \notin Range(at) <=>
            \E s \in owners \cup {b[at[i]] : i \in {i \in DOMAIN at : at[i] < m}} : SameKey(b[m], s)
  BY Zenon DEF Plans
<1>5. \A m \in 1 .. n : at[m] \in DOMAIN b /\ at[m] \in Range(at)
  BY Zenon, <1>2 DEF Range
<1>6. \A m \in 1 .. n : \A s \in owners : ~SameKey(plan[m], s)
  BY Zenon, <1>2, <1>4, <1>5
<1>7. ASSUME NEW i \in 1 .. n, NEW m \in 1 .. n, i < m PROVE ~SameKey(plan[m], plan[i])
  <2>1. b[at[i]] \in {b[at[l]] : l \in {l \in DOMAIN at : at[l] < at[m]}}
    BY Zenon, <1>2, <1>4, <1>7
  <2> QED BY Zenon, <1>2, <1>4, <1>5, <2>1
<1>8. ASSUME NEW m \in DOMAIN b
      PROVE  \/ \E i \in 1 .. n : plan[i] = b[m]
             \/ \E s \in owners : SameKey(b[m], s)
             \/ \E i \in 1 .. n : SameKey(b[m], plan[i])
  <2>1. CASE m \in Range(at)
    BY Zenon, <1>2, <2>1 DEF Range
  <2>2. CASE m \notin Range(at)
    BY <1>2, <1>4, <2>2
  <2> QED BY Zenon, <2>1, <2>2
<1>9. /\ plan \in Seq(Requests) /\ Len(plan) <= Len(b)
      /\ \A i \in DOMAIN plan : \E m \in DOMAIN b : plan[i] = b[m]
  BY Zenon, <1>2, <1>3
<1>10. DOMAIN plan = 1 .. n
  BY Zenon, <1>2
<1> QED BY Zenon, <1>6, <1>7, <1>8, <1>9, <1>10 DEF PlanFor

\* What is prepared for a batch without conflicts.
LEMMA PlansWell ==
    ASSUME NEW E \in Seq(Event), NEW j \in Job, j.wrote = <<>>, WroteOK(j, E),
           NEW owners, owners = IF \E r \in Range(j.batch) : KeyOf[r] # None THEN ReqsOf(E) ELSE {},
           ~Conflicts(j.batch, owners),
           NEW at \in Plans(j.batch, owners), NEW todo, todo = Prepared(at, j.batch, E),
           NEW k, k.step = "intent", k.batch = j.batch, k.todo = todo, k.wrote = <<>>
    PROVE  todo \in Seq(Event) /\ PlanOK(k, E)
<1>1. PICK b : b = j.batch
  BY Zenon
<1>2. PICK plan : plan = [i \in DOMAIN at |-> b[at[i]]]
  BY Zenon
<1>3. /\ b \in Seq(Requests) /\ Len(b) \in Nat /\ DOMAIN b = 1 .. Len(b)
      /\ \A i \in DOMAIN b : b[i] \in Range(b) /\ b[i] \in Requests
      /\ \A r \in Range(b) : \E i \in DOMAIN b : b[i] = r
  BY <1>1, JobTypes DEF Range
<1>4. PlanFor(plan, b, owners)
  BY Zenon, <1>1, <1>2, <1>3, PlansFacts
<1>5. /\ plan \in Seq(Requests) /\ Len(plan) \in Nat /\ DOMAIN plan = 1 .. Len(plan)
      /\ Len(plan) <= Len(b) /\ \A i \in DOMAIN plan : plan[i] \in Requests
      /\ \A i \in DOMAIN plan : \E n \in DOMAIN b : plan[i] = b[n]
  BY <1>3, <1>4 DEF PlanFor
<1>6. Len(E) \in Nat /\ DOMAIN E = 1 .. Len(E)
  BY Zenon, EventSeqs
<1>7. /\ DOMAIN todo = DOMAIN plan
      /\ \A i \in DOMAIN todo : todo[i].req = plan[i] /\ todo[i].seq = Len(E) + i - 1
  BY <1>1, <1>2 DEF Prepared
<1>8. todo \in Seq(Event)
  <2>1. todo = [i \in 1 .. Len(plan) |-> [req |-> b[at[i]], seq |-> Len(E) + i - 1]]
    <3>1. DOMAIN at = 1 .. Len(plan)
      BY Zenon, <1>2, <1>5
    <3> QED BY Zenon, <1>1, <3>1 DEF Prepared
  <2>2. \A i \in 1 .. Len(plan) : [req |-> b[at[i]], seq |-> Len(E) + i - 1] \in Event
    <3>1. \A i \in 1 .. Len(plan) : b[at[i]] \in Requests
      BY Zenon, <1>2, <1>5
    <3> QED BY <1>5, <1>6, <3>1 DEF Event
  <2> QED BY <1>5, <2>1, <2>2
<1>9. ReqsOf(todo) \subseteq Range(b)
  <2>1. \A i \in DOMAIN plan : plan[i] \in Range(b)
    BY Zenon, <1>3, <1>5
  <2>2. \A i \in DOMAIN todo : todo[i].req \in Range(b)
    BY Zenon, <1>7, <2>1
  <2> QED BY Zenon, <2>2 DEF ReqsOf
<1>10. \/ \A i \in DOMAIN b : KeyOf[b[i]] # None
       \/ Len(b) <= 1 /\ \A i \in DOMAIN b : KeyOf[b[i]] = None
  <2>1. b \in Batches \cup {<<>>}
    BY Zenon, <1>1 DEF Job
  <2>2. CASE b = <<>>
    BY <2>2
  <2>3. CASE b \in Batches /\ Len(b) > 1
    BY Zenon, <2>3, SpineConstants DEF None
  <2>4. CASE Len(b) <= 1
    <3>1. \A i, n \in DOMAIN b : i = n
      BY <1>3, <2>4
    <3> QED BY Zenon, <2>4, <3>1
  <2> QED BY <1>3, <2>1, <2>2, <2>3, <2>4
<1>11. /\ \A i \in DOMAIN plan : \A n \in DOMAIN E : ~Rivals(E[n].req, plan[i])
       /\ \A i, n \in DOMAIN plan : Rivals(plan[i], plan[n]) => i = n
  <2>1. CASE \A i \in DOMAIN b : KeyOf[b[i]] # None
    <3>1. \A i \in DOMAIN plan : KeyOf[plan[i]] # None
      BY Zenon, <1>5, <2>1
    <3>2. DOMAIN plan # {} => owners = ReqsOf(E)
      BY Zenon, <1>1, <1>3, <1>5, <2>1
    <3>3. \A i \in DOMAIN plan : \A s \in owners : ~Rivals(s, plan[i])
      BY Zenon, <1>4, <3>1 DEF PlanFor, Rivals, SameKey
    <3>4. \A i, n \in DOMAIN plan : i < n => ~Rivals(plan[i], plan[n]) /\ ~Rivals(plan[n], plan[i])
      BY Zenon, <1>4, <3>1 DEF PlanFor, Rivals, SameKey
    <3>5. \A i \in DOMAIN plan : \A n \in DOMAIN E : ~Rivals(E[n].req, plan[i])
      BY Zenon, <3>2, <3>3 DEF ReqsOf
    <3>6. \A i, n \in DOMAIN plan : Rivals(plan[i], plan[n]) => i = n
      BY <1>5, <3>4
    <3> QED BY Zenon, <3>5, <3>6
  <2>2. CASE Len(b) <= 1 /\ \A i \in DOMAIN b : KeyOf[b[i]] = None
    <3>1. \A i \in DOMAIN plan : KeyOf[plan[i]] = None /\ plan[i] \in Range(b)
      BY <1>3, <1>5, <2>2
    <3>2. \A i \in DOMAIN plan : plan[i] \notin ReqsOf(E)
      BY Zenon, <1>1, <3>1, EmptyFacts DEF WroteOK
    <3>3. \A i \in DOMAIN plan : \A n \in DOMAIN E : ~Rivals(E[n].req, plan[i])
      BY Zenon, <3>1, <3>2 DEF ReqsOf, Rivals, SameKey
    <3>4. \A i, n \in DOMAIN plan : i = n
      BY <1>3, <1>5, <2>2
    <3> QED BY Zenon, <3>3, <3>4
  <2> QED BY Zenon, <1>10, <2>1, <2>2
<1>12. \A i, n \in DOMAIN b : SameKey(b[i], b[n]) => ValOf[b[i]] = ValOf[b[n]]
  <2>1. ASSUME NEW i \in DOMAIN b, NEW n \in DOMAIN b, n < i, SameKey(b[i], b[n])
        PROVE  ValOf[b[i]] = ValOf[b[n]]
    <3>1. n \in 1 .. i - 1
      BY <1>3, <2>1
    <3> QED BY Zenon, <1>1, <2>1, <3>1 DEF Conflicts
  <2>2. ASSUME NEW i \in DOMAIN b, NEW n \in DOMAIN b, SameKey(b[i], b[n])
        PROVE  SameKey(b[n], b[i])
    BY Zenon, <2>2 DEF SameKey
  <2> QED BY <1>3, <2>1, <2>2
<1>13. \A r \in Range(b) : \E s \in ReqsOf(E) \cup ReqsOf(todo) : Rivals(s, r) /\ ValOf[s] = ValOf[r]
  <2> SUFFICES ASSUME NEW n \in DOMAIN b
               PROVE  \E s \in ReqsOf(E) \cup ReqsOf(todo) : Rivals(s, b[n]) /\ ValOf[s] = ValOf[b[n]]
    BY <1>3
  <2>1. \A i \in DOMAIN plan : plan[i] \in ReqsOf(todo)
    BY Zenon, <1>7 DEF ReqsOf
  <2>2. CASE \E i \in DOMAIN plan : plan[i] = b[n]
    BY Zenon, <2>1, <2>2 DEF Rivals
  <2>3. CASE \E s \in owners : SameKey(b[n], s)
    <3>1. PICK s \in owners : SameKey(b[n], s)
      BY Zenon, <2>3
    <3>2. ValOf[b[n]] = ValOf[s]
      BY Zenon, <1>1, <3>1 DEF Conflicts
    <3>3. s \in ReqsOf(E) /\ Rivals(s, b[n])
      BY Zenon, <3>1 DEF Rivals, SameKey
    <3> QED BY Zenon, <3>2, <3>3
  <2>4. CASE \E i \in DOMAIN plan : SameKey(b[n], plan[i])
    <3>1. PICK i \in DOMAIN plan : SameKey(b[n], plan[i])
      BY Zenon, <2>4
    <3>2. ValOf[b[n]] = ValOf[plan[i]] /\ Rivals(plan[i], b[n])
      BY Zenon, <1>5, <1>12, <3>1 DEF Rivals, SameKey
    <3> QED BY Zenon, <2>1, <3>2
  <2> QED BY Zenon, <1>3, <1>4, <2>2, <2>3, <2>4 DEF PlanFor
<1>14. PlanOK(k, E)
  <2>1. Rest(k) = todo /\ ReqsOf(k.wrote) = {}
    BY Zenon, EmptyFacts DEF Rest
  <2> QED BY <1>1, <1>7, <1>9, <1>11, <1>13, <2>1 DEF PlanOK
<1> QED BY Zenon, <1>8, <1>14

-----------------------------------------------------------------------------
(* The start of a call *)

LEMMA AskKeeps ==
    ASSUME IInv, NEW p \in Procs, NEW batch \in Batches, Ask(p, batch)
    PROVE  IInv' /\ Simulates
<1>1. PICK k : k = [step |-> "recover", goal |-> "append", batch |-> batch, todo |-> <<>>,
                    wrote |-> <<>>]
  BY Zenon
<1>2. PICK R : R = Range(batch)
  BY Zenon
<1>3. /\ job' = [job EXCEPT ![p] = k] /\ lock = None /\ lock' = p /\ cache' = cache
      /\ UNCHANGED <<log, torn, intent>> /\ Counts /\ answer' = Answered(R, "asked")
  BY Zenon, <1>1, <1>2 DEF Ask, Counts
<1>4. \A r \in R : answer[r] = "none"
  BY Zenon, <1>2 DEF Ask, Range
<1>5. /\ k \in Job /\ k.step = "recover" /\ k.goal = "append" /\ k.batch = batch
      /\ k.todo = <<>> /\ k.wrote = <<>>
  <2>1. <<>> \in Seq(Event) /\ batch \in Batches \cup {<<>>}
    OBVIOUS
  <2> QED BY Zenon, <1>1, <2>1 DEF Job
<1>6. Held(k) = R /\ R \in SUBSET Requests /\ "asked" \in Answer
  BY Zenon, <1>2, <1>5, JobTypes, EmptyFacts DEF Held, Answer
<1>7. Remembers(p) /\ DiskTyped' /\ Recoverable' /\ Events' = Events
  BY Zenon, <1>3, Facts, Memories, DiskSame DEF KeepsEvents
<1>8. Shape(k) /\ OnDisk(k)'
  BY Zenon, <1>5 DEF Shape, OnDisk
<1>9. WroteOK(k, Events)
  BY <1>2, <1>4, <1>5, <1>6 DEF WroteOK, IInv, Unused
<1> QED BY Zenon, <1>3, <1>4, <1>5, <1>6, <1>7, <1>8, <1>9, Moves

LEMMA ReconcileKeeps ==
    ASSUME IInv, NEW p \in Procs, Reconcile(p)
    PROVE  IInv' /\ Simulates
<1>1. PICK j : j = job[p]
  BY Zenon
<1>2. PICK k : k = [j EXCEPT !.step = "recover", !.goal = "reconcile"]
  BY Zenon
<1>3. j \in Job /\ j.step = "unsure" /\ Shape(j)
  BY Zenon, <1>1, Facts DEF Reconcile, JobOK
<1>4. /\ k \in Job /\ k.step = "recover" /\ k.goal = "reconcile" /\ k.batch = j.batch
      /\ k.todo = j.todo /\ k.wrote = j.wrote
  BY Zenon, <1>2, <1>3 DEF Job
<1>5. /\ job' = [job EXCEPT ![p] = k] /\ lock = None /\ lock' = p /\ answer' = answer
      /\ cache' = cache /\ UNCHANGED <<log, torn, intent>> /\ Counts
  BY Zenon, <1>1, <1>2 DEF Reconcile, Counts
<1>6. Remembers(p) /\ KeepsEvents
  BY Zenon, <1>5, Facts, Memories, DiskSame
<1>7. Shape(k) /\ OnDisk(k)'
  BY Zenon, <1>3, <1>4 DEF Shape, OnDisk
<1> QED BY Zenon, <1>1, <1>4, <1>5, <1>6, <1>7, GoesOn

-----------------------------------------------------------------------------
(* Recovery *)

LEMMA RecoverNothingKeeps ==
    ASSUME IInv, NEW p \in Procs, RecoverNothing(p)
    PROVE  IInv' /\ Simulates
<1>1. PICK s : s = "verify"
  BY Zenon
<1>2. /\ job' = [job EXCEPT ![p].step = s] /\ job[p].step = "recover" /\ intent' = NoIntent
      /\ UNCHANGED <<log, torn, intent, cache>> /\ lock' = lock /\ answer' = answer /\ Counts
  BY Zenon, <1>1 DEF RecoverNothing, Counts
<1>3. Remembers(p) /\ KeepsEvents
  BY Zenon, <1>2, Facts, Memories, DiskSame
<1>4. NextStep(job[p], s) /\ ReadyFor(s)'
  BY Zenon, <1>1, <1>2 DEF NextStep, ReadyFor
<1> QED BY Zenon, <1>2, <1>3, <1>4, StepsOn

LEMMA RecoverWrittenKeeps ==
    ASSUME IInv, NEW p \in Procs, RecoverWritten(p)
    PROVE  IInv' /\ Simulates
<1>1. PICK s : s = "verify"
  BY Zenon
<1>2. /\ job' = [job EXCEPT ![p].step = s] /\ job[p].step = "recover" /\ intent' = NoIntent
      /\ cache' = [cache EXCEPT ![p] = Remembered(cache[p], log)]
      /\ UNCHANGED <<log, torn>> /\ lock' = lock /\ answer' = answer /\ Counts
      /\ intent # NoIntent /\ Len(log) > intent.base
  BY Zenon, <1>1 DEF RecoverWritten, Counts
<1>3. ~Pending
  BY <1>2, Facts, DiskFacts DEF Pending
<1>4. Remembers(p) /\ KeepsEvents
  BY Zenon, <1>2, <1>3, Facts, Memories, DiskClears
<1>5. NextStep(job[p], s) /\ ReadyFor(s)'
  BY Zenon, <1>1, <1>2 DEF NextStep, ReadyFor
<1> QED BY Zenon, <1>2, <1>4, <1>5, StepsOn

LEMMA RecoverTruncateKeeps ==
    ASSUME IInv, NEW p \in Procs, RecoverTruncate(p)
    PROVE  IInv' /\ Simulates
<1>1. PICK s : s = "rewrite"
  BY Zenon
<1>2. /\ job' = [job EXCEPT ![p].step = s] /\ job[p].step = "recover" /\ torn' = FALSE /\ Pending
      /\ UNCHANGED <<log, intent, cache>> /\ lock' = lock /\ answer' = answer /\ Counts
  BY Zenon, <1>1 DEF RecoverTruncate, Counts, Pending
<1>3. Remembers(p) /\ KeepsEvents /\ Pending'
  BY Zenon, <1>2, Facts, Memories, DiskTears
<1>4. NextStep(job[p], s) /\ ReadyFor(s)'
  BY Zenon, <1>1, <1>2, <1>3 DEF NextStep, ReadyFor
<1> QED BY Zenon, <1>2, <1>3, <1>4, StepsOn

LEMMA RecoverWriteKeeps ==
    ASSUME IInv, NEW p \in Procs, RecoverWrite(p)
    PROVE  IInv' /\ Simulates
<1>1. PICK s : s = "recover"
  BY Zenon
<1>2. /\ job' = [job EXCEPT ![p].step = s] /\ job[p].step = "rewrite"
      /\ log' = Append(log, intent.event)
      /\ UNCHANGED <<torn, intent, cache>> /\ lock' = lock /\ answer' = answer /\ Counts
  BY Zenon, <1>1 DEF RecoverWrite, Counts
<1>3. Pending /\ ~torn
  BY Zenon, <1>2, Facts DEF JobOK, OnDisk
<1>4. Remembers(p) /\ KeepsEvents
  BY Zenon, <1>2, <1>3, Facts, Memories, DiskCompletes
<1>5. NextStep(job[p], s) /\ ReadyFor(s)'
  BY Zenon, <1>1, <1>2 DEF NextStep, ReadyFor
<1> QED BY Zenon, <1>2, <1>4, <1>5, StepsOn

LEMMA RecoverFailsKeeps ==
    ASSUME IInv, NEW p \in Procs, RecoverFails(p)
    PROVE  IInv' /\ Simulates
<1>1. PICK j : j = job[p]
  BY Zenon
<1>2. /\ j \in Job /\ j.step \in {"recover", "rewrite"} /\ Shape(j) /\ OnDisk(j) /\ lock = p
      /\ WroteOK(j, Events) /\ j.wrote \in Seq(Event)
  BY Zenon, <1>1, Facts, JobTypes DEF RecoverFails, JobOK
<1>3. lock' = None /\ Counts /\ intent # NoIntent
  BY Zenon DEF RecoverFails, Counts
<1>4. Remembers(p)
  <2>1. \/ cache' = [cache EXCEPT ![p] = Nothing]
        \/ cache' = [cache EXCEPT ![p] = Remembered(cache[p], log)]
        \/ cache' = [cache EXCEPT ![p] = cache[p]]
    BY Zenon DEF RecoverFails
  <2>2. [cache EXCEPT ![p] = cache[p]] = cache
    BY Zenon, Facts
  <2> QED BY Zenon, <2>1, <2>2, Memories
<1>5. KeepsEvents
  <2>1. CASE j.step = "recover" /\ torn' \in {torn, FALSE} /\ UNCHANGED <<log, intent>>
    <3>1. CASE torn' = torn
      BY Zenon, <1>3, <2>1, <3>1, Facts, DiskSame
    <3>2. CASE torn' = FALSE
      BY Zenon, <1>3, <2>1, <3>2, Facts, DiskTears
    <3> QED BY Zenon, <2>1, <3>1, <3>2
  <2>2. CASE Len(log) > intent.base /\ intent' = NoIntent /\ UNCHANGED <<log, torn>>
    <3>1. ~Pending
      BY <1>3, <2>2, Facts, DiskFacts DEF Pending
    <3> QED BY Zenon, <1>3, <2>2, <3>1, Facts, DiskClears
  <2>3. CASE j.step = "rewrite" /\ torn' \in BOOLEAN /\ UNCHANGED <<log, intent>>
    BY Zenon, <1>2, <1>3, <2>3, Facts, DiskTears DEF OnDisk
  <2>4. CASE j.step = "rewrite" /\ log' = Append(log, intent.event) /\ UNCHANGED <<torn, intent>>
    BY Zenon, <1>2, <1>3, <2>4, Facts, DiskCompletes DEF OnDisk
  <2> QED BY Zenon, <1>1, <2>1, <2>2, <2>3, <2>4 DEF RecoverFails
<1>6. CASE j.goal = "append"
  <2>1. Return(p, Range(job[p].batch), "none") /\ job[p].wrote = <<>>
    BY Zenon, <1>1, <1>2, <1>6 DEF RecoverFails, Return, Shape
  <2> QED BY Zenon, <1>2, <1>4, <1>5, <2>1, Returns
<1>7. CASE j.goal # "append"
  <2>1. /\ job' = [job EXCEPT ![p] = Unsure(j.wrote)] /\ answer' = answer
        /\ j.batch = <<>> /\ j.wrote # <<>>
    BY Zenon, <1>1, <1>2, <1>7 DEF RecoverFails, Shape
  <2>2. PICK R : R = Range(j.batch) \ Range(Requested(j.wrote))
    BY Zenon
  <2>3. answer' = Answered(R, "none")
    BY Zenon, <2>1, <2>2, Facts, EmptyFacts DEF Answered
  <2>4. Settled(j.wrote, Events') /\ ReqsOf(j.wrote) \subseteq Held(j)
    BY Zenon, <1>2, <1>5 DEF KeepsEvents, WroteOK, Settled, Held
  <2> QED BY Zenon, <1>1, <1>2, <1>3, <1>4, <1>5, <2>1, <2>2, <2>3, <2>4, Unsettled DEF KeepsEvents
<1> QED BY Zenon, <1>6, <1>7

-----------------------------------------------------------------------------
(* Writing *)

LEMMA WriteIntentKeeps ==
    ASSUME IInv, NEW p \in Procs, WriteIntent(p)
    PROVE  IInv' /\ Simulates
<1>1. PICK j : j = job[p]
  BY Zenon
<1>2. PICK e : e = Head(j.todo)
  BY Zenon
<1>3. PICK w : w = Append(j.wrote, e)
  BY Zenon
<1>4. /\ j \in Job /\ j.step = "intent" /\ Shape(j) /\ ~Pending /\ lock = p /\ j.todo # <<>>
      /\ PlanOK(j, Events) /\ WroteOK(j, Events) /\ Events = log /\ ~torn
  BY Zenon, <1>1, Facts, DiskFacts DEF WriteIntent, JobOK, OnDisk, Shape
<1>5. NextOK(Events, j, e, w)
  BY Zenon, <1>2, <1>3, <1>4, Facts, NextEvent
<1>6. /\ e \in Event /\ w \in Seq(Event) /\ e.seq = Len(log) /\ w # <<>>
      /\ e.req \in Range(j.batch) /\ ReqsOf(w) \subseteq Range(j.batch)
      /\ ReqsOf(j.wrote) \subseteq Range(j.batch)
      /\ \A i \in DOMAIN Events : ~Rivals(Events[i].req, e.req)
  BY Zenon, <1>4, <1>5 DEF NextOK, PlanOK
<1>7. PICK k : k = [j EXCEPT !.step = "record", !.wrote = w]
  BY Zenon
<1>8. /\ k \in Job /\ k.step = "record" /\ k.goal = j.goal /\ k.batch = j.batch
      /\ k.todo = j.todo /\ k.wrote = w
  BY Zenon, <1>4, <1>6, <1>7 DEF Job
<1>9. /\ job' = [job EXCEPT ![p] = k] /\ intent' = [base |-> Len(log), event |-> e]
      /\ lock' = p /\ UNCHANGED <<log, torn>> /\ answer' = answer /\ Counts
  BY Zenon, <1>1, <1>2, <1>3, <1>4, <1>7 DEF WriteIntent, Counts
<1>10. Remembers(p)
  <2>1. PICK c : c = [cache[p] EXCEPT !.valid = FALSE]
    BY Zenon
  <2>2. cache[p] \in Memory /\ CacheOK(cache[p])
    BY Zenon, Facts
  <2>3. c \in Memory /\ CacheOK(c)
    BY Zenon, <2>1, <2>2 DEF Memory, CacheOK
  <2> QED BY Zenon, <2>1, <2>3 DEF WriteIntent, Remembers
<1>11. DiskTyped' /\ Recoverable' /\ Events' = Append(Events, e)
  BY Zenon, <1>4, <1>6, <1>9, Facts, DiskCommits
<1>12. PlanOK(k, Events') /\ WroteOK(k, Events')
  BY Zenon, <1>2, <1>3, <1>4, <1>8, <1>11, Facts, Advances
<1>13. Held(k) = Held(j) /\ e.req \in Held(j)
  BY Zenon, <1>6, <1>8 DEF Held
<1>14. Shape(k) /\ OnDisk(k)'
  <2>1. Shape(k)
    BY Zenon, <1>4, <1>6, <1>8 DEF Shape
  <2>2. OnDisk(k)'
    BY Zenon, <1>2, <1>4, <1>8, <1>9 DEF OnDisk
  <2> QED BY Zenon, <2>1, <2>2
<1>15. PICK R : R = {}
  BY Zenon
<1>16. /\ answer' = Answered(R, "none") /\ R \in SUBSET Requests /\ "none" \in Answer
       /\ \A r \in R : FALSE
  BY Zenon, <1>9, <1>15, Facts DEF Answered, Answer
<1>17. Commits(p, R)
  BY Zenon, <1>1, <1>6, <1>11, <1>13, <1>16 DEF Commits
<1> QED BY Zenon, <1>1, <1>4, <1>8, <1>9, <1>10, <1>11, <1>12, <1>13, <1>14, <1>16, <1>17, Moves

LEMMA WriteRecordKeeps ==
    ASSUME IInv, NEW p \in Procs, WriteRecord(p)
    PROVE  IInv' /\ Simulates
<1>1. PICK j : j = job[p]
  BY Zenon
<1>2. /\ j \in Job /\ j.step = "record" /\ Shape(j) /\ OnDisk(j) /\ lock = p
      /\ PlanOK(j, Events) /\ j.todo # <<>>
  BY Zenon, <1>1, Facts DEF WriteRecord, JobOK, Shape
<1>3. PICK k : k = [j EXCEPT !.step = "clear", !.todo = Tail(j.todo)]
  BY Zenon
<1>4. /\ k \in Job /\ k.step = "clear" /\ k.goal = j.goal /\ k.batch = j.batch
      /\ k.todo = Tail(j.todo) /\ k.wrote = j.wrote
  <2>1. Tail(j.todo) \in Seq(Event)
    BY Zenon, <1>2, JobTypes, HeadAndTail
  <2> QED BY Zenon, <1>2, <1>3, <2>1 DEF Job
<1>5. Pending /\ ~torn /\ intent.event = Head(j.todo)
  BY <1>2, Facts DEF OnDisk, Pending, NoIntent
<1>6. /\ job' = [job EXCEPT ![p] = k] /\ lock' = p /\ answer' = answer /\ Counts
      /\ cache' = cache /\ UNCHANGED <<torn, intent>> /\ log' = Append(log, intent.event)
  BY Zenon, <1>1, <1>2, <1>3, <1>5 DEF WriteRecord, Counts
<1>7. Remembers(p) /\ KeepsEvents /\ ~Pending'
  BY Zenon, <1>5, <1>6, Facts, Memories, DiskCompletes
<1>8. Shape(k) /\ OnDisk(k)'
  BY Zenon, <1>2, <1>4, <1>7 DEF Shape, OnDisk
<1>9. PlanOK(k, Events)
  BY Zenon, <1>2, <1>4, SamePlan DEF Rest
<1> QED BY Zenon, <1>1, <1>2, <1>4, <1>6, <1>7, <1>8, <1>9, GoesOn

LEMMA ClearIntentKeeps ==
    ASSUME IInv, NEW p \in Procs, ClearIntent(p)
    PROVE  IInv' /\ Simulates
<1>1. PICK s : s = IF job[p].todo = <<>> THEN "finish" ELSE "intent"
  BY Zenon
<1>2. /\ job' = [job EXCEPT ![p].step = s] /\ job[p].step = "clear" /\ Counts
      /\ UNCHANGED <<log, torn, cache>> /\ lock' = lock /\ answer' = answer
      /\ intent' = intent \/ intent' = NoIntent
  BY Zenon, <1>1 DEF ClearIntent, Counts
<1>3. ~Pending
  BY Zenon, <1>2, Facts DEF JobOK, OnDisk
<1>4. Remembers(p) /\ KeepsEvents /\ ~Pending'
  BY <1>2, <1>3, Facts, Memories, DiskSame, DiskClears
<1>5. NextStep(job[p], s) /\ ReadyFor(s)'
  BY Zenon, <1>1, <1>2, <1>4 DEF NextStep, ReadyFor
<1> QED BY Zenon, <1>2, <1>4, <1>5, StepsOn

\* SpineAppendOutcomeUnknown is raised for the events w.
LEMMA UnknownKeeps ==
    ASSUME IInv, NEW p \in Procs, NEW w \in Seq(Event), w # <<>>, Unknown(p, w), lock = p,
           ReqsOf(job[p].wrote) \subseteq ReqsOf(w), ReqsOf(w) \subseteq Range(job[p].batch),
           DiskTyped', Recoverable', Settled(w, Events'),
           Events' = Events \/ Commits(p, Range(job[p].batch) \ ReqsOf(w))
    PROVE  IInv' /\ Simulates
<1>1. Remembers(p)
  BY Zenon, Memories DEF Unknown
<1>2. ReqsOf(w) \subseteq Held(job[p])
  BY Zenon DEF Held
<1> QED BY Zenon, <1>1, <1>2, Unsettled DEF Unknown

\* The events written so far are in doubt, and the disk keeps its events.
LEMMA WrittenInDoubt ==
    ASSUME IInv, NEW p \in Procs, job[p].step \in {"intent", "record", "finish"},
           job[p].wrote # <<>>, Unknown(p, job[p].wrote), KeepsEvents
    PROVE  IInv' /\ Simulates
<1>1. PICK j : j = job[p]
  BY Zenon
<1>2. /\ j \in Job /\ j.wrote \in Seq(Event) /\ lock = p /\ PlanOK(j, Events) /\ WroteOK(j, Events)
  BY Zenon, <1>1, Facts, JobTypes DEF JobOK
<1>3. ReqsOf(j.wrote) \subseteq Range(j.batch) /\ Settled(j.wrote, Events')
  BY Zenon, <1>2 DEF PlanOK, WroteOK, Settled, KeepsEvents
<1> QED BY Zenon, <1>1, <1>2, <1>3, UnknownKeeps DEF KeepsEvents

LEMMA IntentFailsKeeps ==
    ASSUME IInv, NEW p \in Procs, IntentFails(p)
    PROVE  IInv' /\ Simulates
<1>1. PICK j : j = job[p]
  BY Zenon
<1>2. PICK e : e = Head(j.todo)
  BY Zenon
<1>3. PICK w : w = Append(j.wrote, e)
  BY Zenon
<1>4. /\ j \in Job /\ j.step = "intent" /\ ~Pending /\ lock = p /\ j.todo # <<>>
      /\ PlanOK(j, Events) /\ WroteOK(j, Events) /\ Events = log
  BY Zenon, <1>1, Facts, DiskFacts DEF IntentFails, JobOK, OnDisk, Shape
<1>5. NextOK(Events, j, e, w)
  BY Zenon, <1>2, <1>3, <1>4, Facts, NextEvent
<1>6. e \in Event /\ e.seq = Len(log) /\ Len(log) \in Nat
  BY Zenon, <1>4, <1>5, Facts DEF NextOK
<1>7. /\ intent' = intent \/ intent' = [base |-> Len(log), event |-> e]
      /\ \/ Unknown(p, w)
         \/ intent' = NoIntent /\ j.wrote # <<>> /\ Unknown(p, j.wrote)
         \/ /\ intent' = NoIntent /\ j.wrote = <<>>
            /\ Return(p, Range(j.batch), "none") /\ cache' = [cache EXCEPT ![p] = Nothing]
      /\ UNCHANGED <<log, torn>> /\ Counts
  BY Zenon, <1>1, <1>2, <1>3 DEF IntentFails, Counts
<1>8. \/ KeepsEvents
      \/ DiskTyped' /\ Recoverable' /\ Events' = Append(Events, e) /\ intent' # NoIntent
  <2>1. CASE intent' = intent
    BY Zenon, <1>7, <2>1, Facts, DiskSame
  <2>2. CASE intent' = [base |-> Len(log), event |-> e]
    BY <1>4, <1>6, <1>7, <2>2, Facts, DiskCommits DEF NoIntent
  <2> QED BY Zenon, <1>7, <2>1, <2>2
<1>9. CASE Unknown(p, w)
  <2>1. /\ w \in Seq(Event) /\ w # <<>> /\ ReqsOf(w) \subseteq Range(job[p].batch)
        /\ ReqsOf(job[p].wrote) \subseteq ReqsOf(w)
    BY Zenon, <1>1, <1>5 DEF NextOK
  <2>2. /\ DiskTyped' /\ Recoverable' /\ Settled(w, Events')
        /\ Events' = Events \/ Commits(p, Range(job[p].batch) \ ReqsOf(w))
    <3>1. CASE KeepsEvents
      BY Zenon, <1>5, <3>1 DEF NextOK, KeepsEvents
    <3>2. CASE DiskTyped' /\ Recoverable' /\ Events' = Append(Events, e)
      BY Zenon, <1>1, <1>5, <3>2 DEF NextOK, Commits, Held
    <3> QED BY Zenon, <1>8, <3>1, <3>2
  <2> QED BY Zenon, <1>4, <1>7, <1>9, <2>1, <2>2, UnknownKeeps
<1>10. CASE intent' = NoIntent /\ j.wrote # <<>> /\ Unknown(p, j.wrote)
  BY Zenon, <1>1, <1>4, <1>7, <1>8, <1>10, WrittenInDoubt
<1>11. CASE /\ intent' = NoIntent /\ j.wrote = <<>>
             /\ Return(p, Range(j.batch), "none") /\ cache' = [cache EXCEPT ![p] = Nothing]
  <2>1. Return(p, Range(job[p].batch), "none") /\ Remembers(p) /\ KeepsEvents
    BY Zenon, <1>1, <1>7, <1>8, <1>11, Memories
  <2> QED BY Zenon, <1>1, <1>4, <1>11, <2>1, Returns
<1> QED BY Zenon, <1>7, <1>9, <1>10, <1>11

LEMMA RecordFailsKeeps ==
    ASSUME IInv, NEW p \in Procs, RecordFails(p)
    PROVE  IInv' /\ Simulates
<1>1. /\ job[p].step = "record" /\ Unknown(p, job[p].wrote) /\ Counts /\ intent' = intent
      /\ \/ torn' \in BOOLEAN /\ log' = log
         \/ log' = Append(log, Head(job[p].todo)) /\ torn' = torn
  BY Zenon DEF RecordFails, Counts
<1>2. /\ intent = [base |-> Len(log), event |-> Head(job[p].todo)] /\ ~torn
      /\ job[p].wrote # <<>> /\ Len(log) \in Nat
  BY Zenon, <1>1, Facts DEF JobOK, OnDisk, Shape
<1>3. Pending /\ intent.event = Head(job[p].todo)
  BY <1>2 DEF Pending, NoIntent
<1>4. KeepsEvents
  <2>1. CASE torn' \in BOOLEAN /\ log' = log
    BY Zenon, <1>1, <1>3, <2>1, Facts, DiskTears
  <2>2. CASE log' = Append(log, Head(job[p].todo)) /\ torn' = torn
    BY Zenon, <1>1, <1>2, <1>3, <2>2, Facts, DiskCompletes
  <2> QED BY Zenon, <1>1, <2>1, <2>2
<1> QED BY Zenon, <1>1, <1>2, <1>4, WrittenInDoubt

LEMMA FinishFailsKeeps ==
    ASSUME IInv, NEW p \in Procs, FinishFails(p)
    PROVE  IInv' /\ Simulates
<1>1. /\ job[p].step = "finish" /\ Unknown(p, job[p].wrote) /\ Counts
      /\ UNCHANGED <<log, torn, intent>>
  BY Zenon DEF FinishFails, Counts
<1>2. job[p].wrote # <<>> /\ KeepsEvents
  BY Zenon, <1>1, Facts, DiskSame DEF JobOK, Shape
<1> QED BY Zenon, <1>1, <1>2, WrittenInDoubt

LEMMA FinishKeeps ==
    ASSUME IInv, NEW p \in Procs, Finish(p)
    PROVE  IInv' /\ Simulates
<1>1. PICK j : j = job[p]
  BY Zenon
<1>2. j.step = "finish" /\ j.todo = <<>> /\ lock = p /\ PlanOK(j, Events)
  BY Zenon, <1>1, Facts DEF Finish, JobOK, Shape
<1>3. Present(Range(j.batch))
  <2>1. ReqsOf(Rest(j)) = {}
    BY Zenon, <1>2, EmptyFacts DEF Rest
  <2> QED BY Zenon, <1>2, <2>1 DEF PlanOK, Present
<1>4. /\ cache' = [cache EXCEPT ![p] = Remembered(cache[p], log)]
      /\ Return(p, Range(job[p].batch), "done") /\ UNCHANGED <<log, torn, intent>> /\ Counts
  BY Zenon DEF Finish, Counts
<1>5. Remembers(p) /\ KeepsEvents
  BY Zenon, <1>4, Facts, Memories, DiskSame
<1> QED BY Zenon, <1>1, <1>2, <1>3, <1>4, <1>5, Returns

-----------------------------------------------------------------------------
(* The plan of a call, and a caller in doubt *)

LEMMA PlanKeeps ==
    ASSUME IInv, NEW p \in Procs, Plan(p)
    PROVE  IInv' /\ Simulates
<1> DEFINE unique == \E r \in Range(job[p].batch) : KeyOf[r] # None
<1>1. PICK j : j = job[p]
  BY Zenon
<1>2. /\ j \in Job /\ j.step = "verify" /\ j.goal = "append" /\ j.todo = <<>> /\ j.wrote = <<>>
      /\ lock = p /\ intent = NoIntent /\ WroteOK(j, Events) /\ ~Pending /\ Events = log
  BY Zenon, <1>1, Facts, DiskFacts DEF Plan, JobOK, Shape, OnDisk, Pending
<1>3. PICK now : now = Remembered(cache[p], Known(p))
  BY Zenon
<1>4. now \in Memory /\ CacheOK(now) /\ now.events = log
  BY Zenon, <1>3, Facts, KnownIsLog, RememberedOK
<1>5. Indexed(now) \in Memory /\ CacheOK(Indexed(now)) /\ Indexed(now).owners = ReqsOf(log)
  BY Zenon, <1>4, IndexedOK
<1>6. PICK owners : owners = IF unique THEN ReqsOf(log) ELSE {}
  BY Zenon
<1>7. owners = IF unique THEN Indexed(now).owners ELSE {}
  BY Zenon, <1>5, <1>6
<1>8. /\ \E c \in {now, Indexed(now)} : cache' = [cache EXCEPT ![p] = c]
      /\ UNCHANGED <<log, torn, intent>> /\ Counts
      /\ \/ Conflicts(j.batch, owners) /\ Return(p, Range(j.batch), "conflict")
         \/ /\ ~Conflicts(j.batch, owners)
            /\ \E at \in Plans(j.batch, owners) :
                  \/ at = <<>> /\ Return(p, Range(j.batch), "done")
                  \/ /\ at # <<>> /\ UNCHANGED <<lock, answer>>
                     /\ job' = [job EXCEPT ![p] = [j EXCEPT !.step = "intent",
                                                   !.todo = Prepared(at, j.batch, log)]]
  BY Zenon, <1>1, <1>3, <1>7, KnownIsLog DEF Plan, Counts
<1>9. Remembers(p) /\ KeepsEvents /\ Pending' = Pending
  BY Zenon, <1>4, <1>5, <1>8, Facts, DiskSame DEF Remembers
<1>10. CASE Conflicts(j.batch, owners) /\ Return(p, Range(j.batch), "conflict")
  BY Zenon, <1>1, <1>2, <1>9, <1>10, Returns
<1>11. ASSUME NEW at \in Plans(j.batch, owners), ~Conflicts(j.batch, owners),
              \/ at = <<>> /\ Return(p, Range(j.batch), "done")
              \/ /\ at # <<>> /\ UNCHANGED <<lock, answer>>
                 /\ job' = [job EXCEPT ![p] = [j EXCEPT !.step = "intent",
                                               !.todo = Prepared(at, j.batch, log)]]
       PROVE  IInv' /\ Simulates
  <2>1. PICK todo : todo = Prepared(at, j.batch, log)
    BY Zenon
  <2>2. PICK k : k = [j EXCEPT !.step = "intent", !.todo = todo]
    BY Zenon
  <2>3. /\ k.step = "intent" /\ k.batch = j.batch /\ k.wrote = <<>> /\ k.todo = todo
    BY Zenon, <1>2, <2>2 DEF Job
  <2>4. todo \in Seq(Event) /\ PlanOK(k, Events)
    <3>1. owners = IF \E r \in Range(j.batch) : KeyOf[r] # None THEN ReqsOf(log) ELSE {}
      BY Zenon, <1>1, <1>6
    <3>2. log \in Seq(Event) /\ WroteOK(j, log)
      BY Zenon, <1>2, Facts
    <3>3. todo \in Seq(Event) /\ PlanOK(k, log)
      BY Zenon, <1>2, <1>11, <2>1, <2>3, <3>1, <3>2, PlansWell
    <3> QED BY Zenon, <1>2, <3>3
  <2>5. DOMAIN todo = DOMAIN at
    BY Zenon, <2>1 DEF Prepared
  <2>6. CASE at = <<>> /\ Return(p, Range(j.batch), "done")
    <3>1. ReqsOf(Rest(k)) = {}
      BY <2>3, <2>5, <2>6 DEF Rest, ReqsOf
    <3>2. Present(Range(j.batch))
      BY Zenon, <2>3, <2>4, <3>1 DEF PlanOK, Present
    <3> QED BY Zenon, <1>1, <1>2, <1>9, <2>6, <3>2, Returns
  <2>7. CASE /\ at # <<>> /\ UNCHANGED <<lock, answer>>
             /\ job' = [job EXCEPT ![p] = [j EXCEPT !.step = "intent",
                                           !.todo = Prepared(at, j.batch, log)]]
    <3>1. job' = [job EXCEPT ![p] = k] /\ k \in Job
      BY Zenon, <1>2, <2>1, <2>2, <2>4, <2>7 DEF Job
    <3>2. todo # <<>>
      <4>1. PICK n \in 0 .. Len(j.batch) : at \in [1 .. n -> DOMAIN j.batch]
        BY Zenon DEF Plans
      <4>2. DOMAIN at # {}
        BY <2>7, <4>1
      <4> QED BY <2>5, <4>2
    <3>3. Shape(k) /\ OnDisk(k)'
      BY Zenon, <1>2, <1>9, <2>3, <3>2 DEF Shape, OnDisk
    <3> QED BY Zenon, <1>1, <1>2, <1>9, <2>3, <2>4, <2>7, <3>1, <3>3, GoesOn
  <2> QED BY Zenon, <1>11, <2>6, <2>7
<1> QED BY Zenon, <1>8, <1>10, <1>11

LEMMA ResolveKeeps ==
    ASSUME IInv, NEW p \in Procs, Resolve(p)
    PROVE  IInv' /\ Simulates
<1>1. PICK j : j = job[p]
  BY Zenon
<1>2. PICK e : e = Head(j.wrote)
  BY Zenon
<1>3. PICK w : w = Tail(j.wrote)
  BY Zenon
<1>4. PICK R : R = {e.req}
  BY Zenon
<1>5. PICK a : a = IF e \in Range(log) THEN "done" ELSE "none"
  BY Zenon
<1>6. PICK k : k = IF Len(j.wrote) = 1 THEN Idle ELSE Unsure(w)
  BY Zenon
<1>7. /\ j \in Job /\ j.step = "verify" /\ j.wrote # <<>> /\ j.wrote \in Seq(Event)
      /\ lock = p /\ WroteOK(j, Events) /\ Events = log
  BY Zenon, <1>1, Facts, DiskFacts, JobTypes DEF Resolve, JobOK, Shape, OnDisk, Pending
<1>8. /\ job' = [job EXCEPT ![p] = k] /\ answer' = Answered(R, a)
      /\ cache' = [cache EXCEPT ![p] = Remembered(cache[p], log)]
      /\ lock' = None /\ UNCHANGED <<log, torn, intent>> /\ Counts
  <2>1. Known(p) = log
    BY Zenon, KnownIsLog
  <2>2. cache' = [cache EXCEPT ![p] = Remembered(cache[p], log)] /\ answer' = Answered(R, a)
    BY Zenon, <1>1, <1>2, <1>4, <1>5, <2>1 DEF Resolve
  <2>3. job' = [job EXCEPT ![p] = k]
    BY Zenon, <1>1, <1>3, <1>6 DEF Resolve
  <2> QED BY Zenon, <2>2, <2>3 DEF Resolve, Counts
<1>9. Remembers(p) /\ DiskTyped' /\ Recoverable' /\ Events' = Events
  BY Zenon, <1>8, Facts, Memories, DiskSame DEF KeepsEvents
<1>10. 1 \in DOMAIN j.wrote /\ e = j.wrote[1] /\ e.req \in ReqsOf(j.wrote)
  BY Zenon, <1>2, <1>7, HeadAndTail
<1>11. ReqsOf(j.wrote) \subseteq Held(j) /\ Held(j) \subseteq Requests
  BY Zenon, <1>7, JobTypes DEF Held
<1>12. Len(j.wrote) # 1 =>
           /\ w \in Seq(Event) /\ w # <<>> /\ ReqsOf(w) \subseteq ReqsOf(j.wrote)
           /\ e.req \notin ReqsOf(w) /\ WroteOK(Unsure(w), Events)
  BY Zenon, <1>2, <1>3, <1>7, RestInDoubt
<1>13. /\ k \in Job /\ k.step \in {"idle", "unsure"} /\ Shape(k) /\ WroteOK(k, Events)
       /\ \A r \in Held(k) : r \in Held(j) /\ r # e.req
  BY <1>6, <1>11, <1>12, IdleOK, UnsureOK
<1>14. OnDisk(k)'
  BY Zenon, <1>13 DEF OnDisk
<1>15. a = "none" => \A r \in R : KeyOf[r] = None => r \notin ReqsOf(Events)
  <2>1. ASSUME e.req \in ReqsOf(log) PROVE e \in Range(log)
    <3>1. PICK n \in DOMAIN log : log[n].req = e.req
      BY Zenon, <2>1 DEF ReqsOf
    <3>2. log[n] = e
      BY Zenon, <1>7, <1>10, <3>1 DEF WroteOK
    <3> QED BY Zenon, <3>2 DEF Range
  <2> QED BY Zenon, <1>4, <1>5, <1>7, <2>1
<1>16. a = "done" => Present(R)
  <2>1. e \in Range(log) => e.req \in ReqsOf(log)
    BY Zenon DEF Range, ReqsOf
  <2> QED BY Zenon, <1>4, <1>5, <1>7, <2>1 DEF Present, Rivals
<1>17. /\ R \in SUBSET Requests /\ a \in Answer /\ \A r \in R : r \in Held(job[p])
       /\ \A r \in Held(k) : r \notin R /\ r \in Held(job[p])
       /\ lock' # p /\ lock' \in {p, None} /\ k.step \notin {"intent", "record", "clear", "finish"}
  BY Zenon, <1>1, <1>4, <1>5, <1>8, <1>10, <1>11, <1>13, Facts DEF Answer
<1> QED BY Zenon, <1>7, <1>8, <1>9, <1>13, <1>14, <1>15, <1>16, <1>17, Moves

-----------------------------------------------------------------------------
(* Crashes, and the theorems *)

LEMMA CrashKeeps ==
    ASSUME IInv, NEW p \in Procs, Crash(p)
    PROVE  IInv' /\ Simulates
<1>1. PICK j : j = job[p]
  BY Zenon
<1>2. JobOK(p, j) /\ OnDisk(j)
  BY Zenon, <1>1, Facts DEF JobOK
<1>3. /\ job' = [job EXCEPT ![p] = Idle] /\ cache' = [cache EXCEPT ![p] = Nothing]
      /\ log' = log /\ intent' = intent /\ Counts
      /\ lock' = IF lock = p THEN None ELSE lock
      /\ torn' \in IF j.step \in {"record", "rewrite"} THEN BOOLEAN ELSE {torn}
  BY Zenon, <1>1 DEF Crash, Counts
<1>4. answer' = [r \in Requests |->
                    IF r \notin Held(j) \/ answer[r] # "asked" THEN answer[r]
                    ELSE IF KeyOf[r] = None THEN "lost" ELSE "none"]
  BY Zenon, <1>1, RangeRequested DEF Crash, Held
<1>5. /\ answer' \in [Requests -> Answer]
      /\ \A r \in Requests : r \notin Held(j) => answer'[r] = answer[r]
      /\ \A r \in Requests : answer'[r] = "done" <=> answer[r] = "done"
      /\ \A r \in Requests : KeyOf[r] = None /\ answer'[r] = "none" => answer[r] = "none"
  <2>1. \A r \in Requests : answer[r] \in Answer
    BY Zenon, Facts
  <2>2. "lost" \in Answer /\ "none" \in Answer
    BY Zenon DEF Answer
  <2>3. answer' \in [Requests -> Answer]
    BY Zenon, <1>4, <2>1, <2>2
  <2>4. \A r \in Requests : answer'[r] = IF r \notin Held(j) \/ answer[r] # "asked" THEN answer[r]
                                         ELSE IF KeyOf[r] = None THEN "lost" ELSE "none"
    BY Zenon, <1>4
  <2> QED BY Zenon, <2>3, <2>4
<1>6. KeepsEvents
  <2>1. CASE j.step \in {"record", "rewrite"}
    <3>1. Pending
      BY <1>2, <2>1, Facts DEF OnDisk, Pending, NoIntent
    <3> QED BY Zenon, <1>3, <2>1, <3>1, Facts, DiskTears
  <2>2. CASE j.step \notin {"record", "rewrite"}
    BY Zenon, <1>3, <2>2, Facts, DiskSame
  <2> QED BY Zenon, <2>1, <2>2
<1>7. /\ AlwaysRecoverable' /\ job'[p] = Idle /\ CacheOK(cache[p])'
      /\ \A q \in Procs : q # p => job'[q] = job[q] /\ cache'[q] = cache[q]
  <2>1. Remembers(p) /\ lock' \in {p, None, lock}
    BY Zenon, <1>3, Memories
  <2> QED BY Zenon, <1>3, <1>5, <1>6, <2>1, IdleOK, Types DEF KeepsEvents
<1>8. JobOK(p, job[p])'
  <2>1. lock' # p
    BY Zenon, <1>3, Facts
  <2>2. HeldOK(Idle, answer)' /\ OnDisk(Idle)'
    BY Zenon, IdleOK DEF HeldOK, OnDisk
  <2> QED BY Zenon, <1>7, <2>1, <2>2, IdleOK DEF JobOK
<1>9. Unused'
  BY Zenon, <1>5, <1>6 DEF KeepsEvents, IInv, Unused
<1>10. \/ lock \in {p, None} /\ lock' \in {p, None} /\ Grows(p)
       \/ UNCHANGED <<log, torn, intent, lock>>
  <2>1. CASE lock = p
    BY Zenon, <1>3, <1>6, <2>1 DEF KeepsEvents, Grows
  <2>2. CASE lock # p
    <3>1. j.step \in {"idle", "unsure"}
      BY Zenon, <1>2, <2>2 DEF JobOK
    <3> QED BY Zenon, <1>3, <2>2, <3>1
  <2> QED BY Zenon, <2>1, <2>2
<1>11. /\ \A r \in Requests : answer[r] = "asked" /\ r \notin Held(job[p]) => answer'[r] = "asked"
       /\ \A r \in Held(job'[p]) : r \in Held(job[p]) \/ answer[r] = "none"
  BY Zenon, <1>1, <1>5, <1>7, IdleOK
<1>12. IInv'
  BY Zenon, <1>7, <1>8, <1>9, <1>10, <1>11, Frame
<1>13. Simulates
  <2>1. Answers("done")' = Answers("done")
    BY Zenon, <1>5 DEF Answers
  <2> QED BY Zenon, <1>6, <2>1, LogStutters DEF KeepsEvents, Simulates
<1> QED BY Zenon, <1>12, <1>13

LEMMA InitHolds == Init => IInv
<1> SUFFICES ASSUME Init PROVE IInv
  BY Zenon
<1>1. TypeOK
  <2>1. job \in [Procs -> Job] /\ cache \in [Procs -> Memory]
    BY Zenon, IdleOK, NothingOK DEF Init
  <2>2. <<>> \in Seq(Event) /\ 0 \in 0 .. MaxFaults
    BY SpineConstants
  <2>3. answer \in [Requests -> {"none", "asked", "done", "conflict", "lost"}]
    BY Zenon DEF Init
  <2> QED BY Zenon, <2>1, <2>2, <2>3 DEF Init, TypeOK
<1>2. AlwaysRecoverable /\ ~Pending /\ Events = <<>>
  BY <1>1 DEF Init, AlwaysRecoverable, Recoverable, Pending, Events
<1>3. ASSUME NEW p \in Procs PROVE CacheOK(cache[p]) /\ JobOK(p, job[p])
  <2>1. job[p] = Idle /\ cache[p] = Nothing /\ lock # p
    BY Zenon, SpineConstants DEF Init
  <2>2. OnDisk(Idle) /\ HeldOK(Idle, answer)
    BY Zenon, IdleOK DEF OnDisk, HeldOK
  <2>3. JobOK(p, Idle)
    BY Zenon, <2>1, <2>2, IdleOK DEF JobOK
  <2> QED BY Zenon, <2>1, <2>3, NothingOK
<1>4. Apart
  BY Zenon, IdleOK DEF Apart, Init
<1>5. Unused
  BY Zenon, <1>2, EmptyFacts DEF Unused
<1> QED BY Zenon, <1>2, <1>3, <1>4, <1>5 DEF IInv

LEMMA NextKeeps ==
    ASSUME IInv, Next
    PROVE  IInv' /\ Simulates
<1>1. PICK p \in Procs : (\E batch \in Batches : Ask(p, batch)) \/ Step(p) \/ Fail(p)
  BY Zenon DEF Next
<1>2. CASE \E batch \in Batches : Ask(p, batch)
  BY Zenon, <1>2, AskKeeps
<1>3. CASE Step(p)
  BY Zenon, <1>3, ReconcileKeeps, RecoverNothingKeeps, RecoverWrittenKeeps, RecoverTruncateKeeps,
     RecoverWriteKeeps, PlanKeeps, ResolveKeeps, WriteIntentKeeps, WriteRecordKeeps,
     ClearIntentKeeps, FinishKeeps DEF Step
<1>4. CASE Fail(p)
  BY Zenon, <1>4, RecoverFailsKeeps, IntentFailsKeeps, RecordFailsKeeps, FinishFailsKeeps,
     CrashKeeps DEF Fail
<1> QED BY Zenon, <1>1, <1>2, <1>3, <1>4

LEMMA Inductive == Spec => []IInv
<1>1. IInv /\ [Next]_vars => IInv'
  <2> SUFFICES ASSUME IInv, [Next]_vars PROVE IInv'
    BY Zenon
  <2>1. CASE Next
    BY Zenon, <2>1, NextKeeps
  <2>2. CASE UNCHANGED vars
    BY Zenon, <2>2 DEF vars, IInv, AlwaysRecoverable, Recoverable, TypeOK, JobOK, OnDisk, HeldOK, Apart, Unused,
                Events, Pending
  <2> QED BY Zenon, <2>1, <2>2
<1> QED BY <1>1, InitHolds, PTL DEF Spec

\* Whatever the number of processes, of requests and of crashes and failing writes,
\* no check of the recovery or of the verification ever refuses the file: its lines
\* are a chain, and an incomplete line has an intent that continues them.
THEOREM SpineAlwaysRecoverable == Spec => []AlwaysRecoverable
<1>1. IInv => AlwaysRecoverable
  BY Zenon DEF IInv
<1> QED BY <1>1, Inductive, PTL

\* SpineLog implements EventLog: an event is in the log from the moment its intent
\* is durable, nothing is ever taken out, a request, and a semantic key, gives at
\* most one event however its calls fail and are asked again, and a caller is told
\* "done" only of what is there.
THEOREM SpineImplementsEventLog == Spec => ImplementsEventLog
<1>1. Init => Log!Init
  <2> SUFFICES ASSUME Init PROVE Log!Init
    BY Zenon
  <2>1. Committed = <<>>
    BY DEF Init, Committed, Requested
  <2>2. {r \in Requests : answer[r] = "done"} = {}
    BY Zenon DEF Init
  <2> QED BY Zenon, <2>1, <2>2 DEF Log!Init
<1>2. IInv /\ [Next]_vars => [Log!Next]_<<Committed, {r \in Requests : answer[r] = "done"}>>
  <2> SUFFICES ASSUME IInv, [Next]_vars
               PROVE  Simulates
    BY Zenon DEF Simulates
  <2>1. CASE Next
    BY Zenon, <2>1, NextKeeps
  <2>2. CASE UNCHANGED vars
    BY Zenon, <2>2 DEF vars, Simulates, Committed, Requested
  <2> QED BY Zenon, <2>1, <2>2
<1> QED BY <1>1, <1>2, Inductive, PTL DEF Spec, ImplementsEventLog, Log!Spec
=============================================================================
