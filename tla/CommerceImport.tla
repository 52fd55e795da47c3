---------------------------- MODULE CommerceImport ----------------------------
(***************************************************************************)
(* The receiving side of commerce replication: the sync endpoint of        *)
(* nth_dao/web/commerce_api.py, the import journal of                      *)
(* nth_dao/commerce/provisional.py, and the order and trade stores it      *)
(* writes.                                                                 *)
(*                                                                         *)
(* A bundle is a signed order with the trade chain so far.  The import     *)
(* writes a marker, the trade, the order, and removes the marker, under    *)
(* the marker's lock; a trade without its order is hidden.  Requests run   *)
(* concurrently, the local party signs further events, each write may be   *)
(* the last one before a crash, and a maintenance pass deals with markers  *)
(* that are left: it removes those whose order is there and quarantines    *)
(* the trades of the others once they are old.                             *)
(*                                                                         *)
(* One order is modelled.  Orders share no file; they meet only in the     *)
(* maintenance pass, which visits them one after the other.  The branch    *)
(* of the pass for a trade whose head is not the marker's is left out:     *)
(* HiddenTradeIsJournaled shows that no import can lead to it.  So are     *)
(* unreadable files, which every store refuses to overwrite, and audit     *)
(* records of markers that are removed or moved without a trade.           *)
(***************************************************************************)
EXTENDS Naturals, Sequences

CONSTANTS
    Event,          \* signed trade events
    Messages,       \* bundles of the order, as signed by the other party
    ChainOf,        \* the trade chain each carries
    LocalSteps,     \* pairs <<event, next event the local party may sign>>
    Handlers,       \* concurrent requests at the sync endpoint
    NoMessage,
    MaxFaults       \* bound on crashes and failed writes

ASSUME ImportConstants ==
    /\ ChainOf \in [Messages -> Seq(Event) \ {<<>>}]
    /\ LocalSteps \subseteq Event \X Event
    /\ NoMessage \notin Messages
    /\ {"nobody", "maintenance"} \cap Handlers = {}
    /\ MaxFaults \in Nat

VARIABLES
    trade,          \* trades/<order>.json, <<>> when there is none
    order,          \* is the order stored, and with it the trade visible
    marker,         \* provisional_imports/<order>.json
    quarantine,     \* quarantine/: the trade and the marker moved there
    inbox,          \* messages with a durable receipt
    refused,        \* messages answered 409, which the sender's outbox has blocked
    audit,          \* records about the trade in import_reconciliation.jsonl
    lock,           \* holder of the marker's lock
    job,            \* where each request is, and its message
    pass,           \* where the maintenance pass is
    age,            \* age of each message
    faults

vars == <<trade, order, marker, quarantine, inbox, refused, audit, lock, job,
          pass, age, faults>>

Nobody == "nobody"
Maintenance == "maintenance"

Ages == {"young", "old", "expired"}
Places == {"idle", "valid", "marked", "traded", "ordered", "imported"}
Stops == {"idle", "completed", "empty", "requested", "moved", "stored"}
Kinds == {"orphan_quarantine_requested", "orphan_quarantined"}

Idle == [at |-> "idle", msg |-> NoMessage]

Init ==
    /\ trade = <<>>
    /\ order = FALSE
    /\ marker = NoMessage
    /\ quarantine = [trade |-> <<>>, marker |-> NoMessage]
    /\ inbox = {} /\ refused = {}
    /\ audit = {}
    /\ lock = Nobody
    /\ job = [h \in Handlers |-> Idle]
    /\ pass = "idle"
    /\ age = [m \in Messages |-> "young"]
    /\ faults = 0

-----------------------------------------------------------------------------
(***************************************************************************)
(* The stores.                                                             *)
(***************************************************************************)

\* The events of s are the first ones of t.
IsPrefix(s, t) == Len(s) <= Len(t) /\ s = SubSeq(t, 1, Len(s))

\* A remote chain is taken only when it extends the local one.
Fits(m) == IsPrefix(trade, ChainOf[m])

\* A marker of another message, or of another chain, is a binding conflict.
Binds(m) == marker \in {NoMessage, m}

\* The other party sends a bundle once it has what the local party signed.
Sent(m) ==
    \A i \in 2 .. Len(ChainOf[m]) :
        <<ChainOf[m][i - 1], ChainOf[m][i]>> \in LocalSteps =>
            IsPrefix(SubSeq(ChainOf[m], 1, i), trade)

-----------------------------------------------------------------------------
(***************************************************************************)
(* A request at the sync endpoint.                                         *)
(***************************************************************************)

Go(h, place) == job' = [job EXCEPT ![h].at = place]
Leave(h) == job' = [job EXCEPT ![h] = Idle]

\* Status 409.
Refuse(m) == refused' = refused \union {m}

\* Faulty variant: a bundle that does not fit is answered as if it might fit later.
ReceiveAskingAgain(h, m) ==
    /\ job[h].at = "idle"
    /\ Sent(m)
    /\ age[m] # "expired"
    /\ m \notin inbox
    /\ Fits(m)
    /\ job' = [job EXCEPT ![h] = [at |-> "valid", msg |-> m]]
    /\ UNCHANGED <<trade, order, marker, quarantine, inbox, refused, audit, lock,
                   pass, age, faults>>

\* The envelope is fresh and has no receipt; the bundle is validated.
Receive(h, m) ==
    /\ job[h].at = "idle"
    /\ Sent(m)
    /\ age[m] # "expired"
    /\ m \notin inbox
    /\ \/ /\ Fits(m)
          /\ job' = [job EXCEPT ![h] = [at |-> "valid", msg |-> m]]
          /\ UNCHANGED refused
       \/ /\ ~Fits(m)
          /\ Refuse(m)
          /\ UNCHANGED job
    /\ UNCHANGED <<trade, order, marker, quarantine, inbox, audit, lock, pass,
                   age, faults>>

\* The marker's lock is taken, and the marker written unless it is there.
Mark(h) ==
    /\ job[h].at = "valid"
    /\ lock = Nobody
    /\ \/ /\ Binds(job[h].msg)
          /\ marker' = job[h].msg
          /\ lock' = h
          /\ Go(h, "marked")
          /\ UNCHANGED refused
       \/ /\ ~Binds(job[h].msg)
          /\ Leave(h)
          /\ Refuse(job[h].msg)
          /\ UNCHANGED <<marker, lock>>
    /\ UNCHANGED <<trade, order, quarantine, inbox, audit, pass, age, faults>>

\* The trade is validated again and written.  A refusal leaves the marker.
ImportTrade(h) ==
    /\ job[h].at = "marked"
    /\ \/ /\ Fits(job[h].msg)
          /\ trade' = ChainOf[job[h].msg]
          /\ Go(h, "traded")
          /\ UNCHANGED <<lock, refused>>
       \/ /\ ~Fits(job[h].msg)
          /\ Leave(h)
          /\ Refuse(job[h].msg)
          /\ lock' = Nobody
          /\ UNCHANGED trade
    /\ UNCHANGED <<order, marker, quarantine, inbox, audit, pass, age, faults>>

ImportOrder(h) ==
    /\ job[h].at = "traded"
    /\ order' = TRUE
    /\ Go(h, "ordered")
    /\ UNCHANGED <<trade, marker, quarantine, inbox, refused, audit, lock, pass, age,
                   faults>>

Unmark(h) ==
    /\ job[h].at = "ordered"
    /\ marker' = NoMessage
    /\ lock' = Nobody
    /\ Go(h, "imported")
    /\ UNCHANGED <<trade, order, quarantine, inbox, refused, audit, pass, age, faults>>

Acknowledge(h) ==
    /\ job[h].at = "imported"
    /\ inbox' = inbox \union {job[h].msg}
    /\ Leave(h)
    /\ UNCHANGED <<trade, order, marker, quarantine, refused, audit, lock, pass, age,
                   faults>>

\* The events that are legal after the last one, and not signed by the other.
Extensions == {e[2] : e \in {s \in LocalSteps : trade # <<>> /\ s[1] = trade[Len(trade)]}}

\* deliver, dispute: the local party signs the next event of a visible order.
SignOnHidden(e) ==
    /\ e \in Extensions
    /\ trade' = Append(trade, e)
    /\ UNCHANGED <<order, marker, quarantine, inbox, refused, audit, lock, job, pass,
                   age, faults>>

Sign(e) ==
    /\ order
    /\ e \in Extensions
    /\ trade' = Append(trade, e)
    /\ UNCHANGED <<order, marker, quarantine, inbox, refused, audit, lock, job, pass,
                   age, faults>>

-----------------------------------------------------------------------------
(***************************************************************************)
(* The maintenance pass over the markers.                                  *)
(***************************************************************************)

OldAnyhow == age[marker] # "young"
Orphan == ~order /\ age[marker] # "young"

\* The marker is loaded under its lock.  A young one without order stays.
Inspect ==
    /\ pass = "idle"
    /\ lock = Nobody
    /\ marker # NoMessage
    /\ lock' = Maintenance
    /\ \/ /\ ~Orphan
          /\ order
          /\ pass' = "completed"
          /\ UNCHANGED audit
       \/ /\ Orphan
          /\ trade = <<>>
          /\ pass' = "empty"
          /\ UNCHANGED audit
       \/ /\ Orphan
          /\ trade = ChainOf[marker]
          /\ audit' = audit \union {"orphan_quarantine_requested"}
          /\ pass' = "requested"
    /\ UNCHANGED <<trade, order, marker, quarantine, inbox, refused, job, age, faults>>

\* The order is there, and the marker of no more use.
CompleteKeepingMarker ==
    /\ pass = "completed"
    /\ lock' = Nobody
    /\ pass' = "idle"
    /\ UNCHANGED <<trade, order, marker, quarantine, inbox, refused, audit, job, age, faults>>

Complete ==
    /\ pass = "completed"
    /\ marker' = NoMessage
    /\ lock' = Nobody
    /\ pass' = "idle"
    /\ UNCHANGED <<trade, order, quarantine, inbox, refused, audit, job, age, faults>>

\* The trade is moved, unless an earlier one of the order is in its place.
MoveTradeOver ==
    /\ pass = "requested"
    /\ quarantine' = [quarantine EXCEPT !.trade = trade]
    /\ trade' = <<>>
    /\ pass' = "moved"
    /\ UNCHANGED <<order, marker, inbox, refused, audit, lock, job, age, faults>>

MoveTrade ==
    /\ pass = "requested"
    /\ \/ /\ quarantine.trade = <<>>
          /\ quarantine' = [quarantine EXCEPT !.trade = trade]
          /\ trade' = <<>>
          /\ pass' = "moved"
          /\ UNCHANGED lock
       \/ /\ quarantine.trade # <<>>
          /\ pass' = "idle"
          /\ lock' = Nobody
          /\ UNCHANGED <<trade, quarantine>>
    /\ UNCHANGED <<order, marker, inbox, refused, audit, job, age, faults>>

\* The marker follows.  One that is in its place makes the pass fail.
MoveMarker ==
    /\ pass \in {"empty", "moved"}
    /\ \/ /\ quarantine.marker = NoMessage
          /\ quarantine' = [quarantine EXCEPT !.marker = marker]
          /\ marker' = NoMessage
          /\ IF pass = "moved"
             THEN pass' = "stored" /\ UNCHANGED lock
             ELSE pass' = "idle" /\ lock' = Nobody
       \/ /\ quarantine.marker # NoMessage
          /\ pass' = "idle"
          /\ lock' = Nobody
          /\ UNCHANGED <<marker, quarantine>>
    /\ UNCHANGED <<trade, order, inbox, refused, audit, job, age, faults>>

Report ==
    /\ pass = "stored"
    /\ audit' = audit \union {"orphan_quarantined"}
    /\ pass' = "idle"
    /\ lock' = Nobody
    /\ UNCHANGED <<trade, order, marker, quarantine, inbox, refused, job, age, faults>>

-----------------------------------------------------------------------------
(***************************************************************************)
(* Time and faults.                                                        *)
(***************************************************************************)

\* orphan_after_s passes before the 30 days in which an envelope is taken.
\* The age of a message that has its receipt is of no use to anyone.
Older(m) ==
    /\ m \notin inbox
    /\ age[m] # "expired"
    /\ age' = [age EXCEPT ![m] = IF @ = "young" THEN "old" ELSE "expired"]
    /\ UNCHANGED <<trade, order, marker, quarantine, inbox, refused, audit, lock, job,
                   pass, faults>>

\* A write fails: the request ends, and its lock is released.
Fail(h) ==
    /\ job[h].at # "idle"
    /\ faults < MaxFaults
    /\ faults' = faults + 1
    /\ Leave(h)
    /\ lock' = IF lock = h THEN Nobody ELSE lock
    /\ UNCHANGED <<trade, order, marker, quarantine, inbox, refused, audit, pass, age>>

\* The process dies.
Crash ==
    /\ pass # "idle" \/ \E h \in Handlers : job[h].at # "idle"
    /\ faults < MaxFaults
    /\ faults' = faults + 1
    /\ job' = [h \in Handlers |-> Idle]
    /\ pass' = "idle"
    /\ lock' = Nobody
    /\ UNCHANGED <<trade, order, marker, quarantine, inbox, refused, audit, age>>

Step(h) ==
    \/ ImportTrade(h)
    \/ ImportOrder(h)
    \/ Unmark(h)
    \/ Acknowledge(h)

Pass == Complete \/ MoveTrade \/ MoveMarker \/ Report

Next ==
    \/ \E h \in Handlers :
          \/ \E m \in Messages : Receive(h, m)
          \/ Mark(h)
          \/ Step(h)
          \/ Fail(h)
    \/ \E e \in Extensions : Sign(e)
    \/ Inspect
    \/ Pass
    \/ \E m \in Messages : Older(m)
    \/ Crash

Spec == Init /\ [][Next]_vars

(***************************************************************************)
(* The sender's outbox retries what is neither acknowledged nor refused,   *)
(* its operator may dispatch again what is refused, a request that waits   *)
(* for a lock gets it, the reconciler repeats its pass, and time passes.   *)
(* Nothing makes the local party sign.                                     *)
(***************************************************************************)
FairSpec ==
    /\ Spec
    /\ \A m \in Messages : SF_vars(m \notin refused /\ \E h \in Handlers : Receive(h, m))
    /\ \A h \in Handlers : SF_vars(Mark(h)) /\ WF_vars(Step(h))
    /\ SF_vars(Inspect)
    /\ WF_vars(Pass)
    /\ \A m \in Messages : WF_vars(age[m] = "young" /\ Older(m))

-----------------------------------------------------------------------------
(***************************************************************************)
(* Properties.                                                             *)
(***************************************************************************)

\* The pairs of events that one of the two parties may sign in a row.
Steps ==
    LocalSteps \union
        UNION {{<<ChainOf[m][i - 1], ChainOf[m][i]>> : i \in 2 .. Len(ChainOf[m])} :
               m \in Messages}

\* A chain both parties can accept: each event may follow the one before it.
IsChain(c) ==
    /\ c \in Seq(Event)
    /\ \A i \in 2 .. Len(c) : <<c[i - 1], c[i]>> \in Steps

\* Every variable has its type, stored chains are legal, and the marker's lock is
\* held by the request or pass that is between taking and releasing it.
TypeOK ==
    /\ IsChain(trade)
    /\ order \in BOOLEAN
    /\ marker \in Messages \union {NoMessage}
    /\ quarantine \in [trade: Seq(Event), marker: Messages \union {NoMessage}]
    /\ IsChain(quarantine.trade)
    /\ inbox \subseteq Messages /\ refused \subseteq Messages
    /\ audit \subseteq Kinds
    /\ lock \in Handlers \union {Nobody, Maintenance}
    /\ job \in [Handlers -> [at: Places, msg: Messages \union {NoMessage}]]
    /\ \A h \in Handlers :
          job[h].at \in {"marked", "traded", "ordered"} <=> lock = h
    /\ pass \in Stops
    /\ pass # "idle" <=> lock = Maintenance
    /\ age \in [Messages -> Ages]
    /\ faults \in 0 .. MaxFaults

\* A trade without its order is always named, with its exact chain, by the
\* marker: whatever a crash leaves hidden, import_bundle can finish and
\* reconcile can find, and the head that reconcile compares never differs.
HiddenTradeIsJournaled ==
    trade # <<>> /\ ~order =>
        marker # NoMessage /\ trade = ChainOf[marker]

\* Once the order is visible its trade is there, and it contains every chain
\* for which sync gave a receipt: reconcile never quarantines the trade of a
\* visible order, and no import goes back behind a receipt.
ReceiptsAreKept ==
    /\ order => trade # <<>>
    /\ \A m \in inbox : order /\ IsPrefix(ChainOf[m], trade)

\* The types are right, what is in quarantine is one chain, and the receipts say
\* the truth of the order and its trade.
StoresAgree == TypeOK /\ ReceiptsAreKept

\* A signed chain only grows, or is moved whole to a place that was empty,
\* after the audit says so; and what is in quarantine stays there.  This is
\* about import_verified_events and quarantine_verified_orphan.
NothingSignedIsLost ==
    [][/\ \/ IsPrefix(trade, trade')
          \/ /\ trade' = <<>>
             /\ quarantine.trade = <<>>
             /\ quarantine'.trade = trade
             /\ "orphan_quarantine_requested" \in audit
       /\ quarantine.trade # <<>> => quarantine'.trade = quarantine.trade]_vars

\* A second import of an order that was left incomplete when the quarantine
\* already holds something of that order.
Jammed ==
    /\ ~order
    /\ marker # NoMessage
    /\ quarantine # [trade |-> <<>>, marker |-> NoMessage]

\* No marker stays for ever: the import that is repeated, or the maintenance
\* pass, removes it, unless the place it would be moved to is taken.
LeftoversAreCleared ==
    marker # NoMessage ~> (marker = NoMessage \/ Jammed)

\* A bundle gets its receipt, whatever crashed before, unless its envelope expires or it
\* is answered 409, after which the sender blocks it; and that happens only when the local
\* chain is not the start of its own or the marker of another bundle stands: what an
\* earlier attempt has left, marker and trade, never makes the receiver refuse it.
EveryBundleIsSettled ==
    /\ \A m \in Messages : Sent(m) ~> (m \in inbox \/ m \in refused \/ age[m] = "expired")
    /\ [][\A m \in refused' \ refused : ~Fits(m) \/ marker \notin {NoMessage, m}]_vars

=============================================================================
