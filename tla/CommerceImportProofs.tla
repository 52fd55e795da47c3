------------------------ MODULE CommerceImportProofs ------------------------
(* What CommerceImport guarantees for every order, that is for all chains,  *)
(* numbers of bundles and requests, and any number of faults.               *)
EXTENDS CommerceImport, TLAPS

\* What a request has done: from the marker to its removal it is the one the
\* marker names, after the trade was written the trade has its chain, and after
\* the order was written the order is there.
RequestsOnCourse ==
    \A h \in Handlers :
        /\ job[h].at # "idle" => job[h].msg \in Messages
        /\ job[h].at \in {"marked", "traded", "ordered"} => marker = job[h].msg
        /\ job[h].at \in {"traded", "ordered", "imported"} =>
              IsPrefix(ChainOf[job[h].msg], trade)
        /\ job[h].at \in {"ordered", "imported"} => order

\* What the maintenance pass knows while it holds the lock: which of its
\* branches it is in still says what it found.
PassOnCourse ==
    /\ pass = "completed" => order
    /\ pass \in {"empty", "requested", "moved", "stored"} => ~order
    /\ pass \in {"empty", "moved", "stored"} => trade = <<>>
    /\ pass = "requested" =>
          /\ marker \in Messages
          /\ "orphan_quarantine_requested" \in audit

\* The inductive invariant.
IInv ==
    /\ TypeOK
    /\ RequestsOnCourse
    /\ PassOnCourse
    /\ HiddenTradeIsJournaled
    /\ ReceiptsAreKept

-----------------------------------------------------------------------------
(* Prefixes of chains *)

LEMMA PrefixReflexive ==
    ASSUME NEW s \in Seq(Event)
    PROVE  IsPrefix(s, s)
BY DEF IsPrefix

LEMMA PrefixTransitive ==
    ASSUME NEW s \in Seq(Event), NEW t \in Seq(Event), NEW u \in Seq(Event),
           IsPrefix(s, t), IsPrefix(t, u)
    PROVE  IsPrefix(s, u)
BY DEF IsPrefix

LEMMA PrefixOfAppend ==
    ASSUME NEW s \in Seq(Event), NEW e \in Event
    PROVE  IsPrefix(s, Append(s, e))
BY DEF IsPrefix

LEMMA OnlyEmptyIsPrefixOfEmpty ==
    ASSUME NEW s \in Seq(Event), IsPrefix(s, <<>>)
    PROVE  s = <<>>
BY DEF IsPrefix

LEMMA EmptyIsChain == IsChain(<<>>)
BY DEF IsChain

LEMMA BundleIsChain ==
    ASSUME NEW m \in Messages
    PROVE  IsChain(ChainOf[m])
BY ImportConstants DEF IsChain, Steps

\* What the local party signs extends a legal chain to a legal chain.
LEMMA ExtensionIsChain ==
    ASSUME IsChain(trade), NEW e \in Extensions
    PROVE  e \in Event /\ IsChain(Append(trade, e))
<1>1. trade # <<>> /\ <<trade[Len(trade)], e>> \in LocalSteps /\ e \in Event
  BY ImportConstants DEF Extensions
<1>2. trade \in Seq(Event)
  BY Zenon DEF IsChain
<1>3. Append(trade, e) \in Seq(Event) /\ Len(Append(trade, e)) = Len(trade) + 1
  BY <1>1, <1>2
<1>4. ASSUME NEW i \in 2 .. Len(trade) + 1
      PROVE  <<Append(trade, e)[i - 1], Append(trade, e)[i]>> \in Steps
  <2>1. CASE i <= Len(trade)
    BY <1>1, <1>2, <2>1 DEF IsChain
  <2>2. CASE i = Len(trade) + 1
    BY <1>1, <1>2, <2>2 DEF Steps
  <2> QED BY <1>2, <2>1, <2>2
<1> QED BY Zenon, <1>1, <1>3, <1>4 DEF IsChain

-----------------------------------------------------------------------------
(* The inductive invariant *)

LEMMA InitEstablishes == Init => IInv
<1> SUFFICES ASSUME Init PROVE IInv
  BY Zenon
<1>1. TypeOK
  <2>1. /\ IsChain(trade) /\ IsChain(quarantine.trade)
        /\ quarantine \in [trade: Seq(Event), marker: Messages \union {NoMessage}]
    BY Zenon, EmptyIsChain DEF Init, IsChain
  <2>2. job \in [Handlers -> [at: Places, msg: Messages \union {NoMessage}]]
    BY Zenon DEF Init, Idle, Places
  <2>3. \A h \in Handlers : job[h].at \in {"marked", "traded", "ordered"} <=> lock = h
    BY Zenon, ImportConstants DEF Init, Idle, Nobody
  <2>4. age \in [Messages -> Ages] /\ faults \in 0 .. MaxFaults
    BY ImportConstants DEF Init, Ages
  <2> QED
    BY Zenon, <2>1, <2>2, <2>3, <2>4 DEF Init, TypeOK, Nobody, Maintenance, Stops
<1>2. RequestsOnCourse /\ PassOnCourse /\ HiddenTradeIsJournaled /\ ReceiptsAreKept
  BY Zenon DEF Init, Idle, RequestsOnCourse, PassOnCourse, HiddenTradeIsJournaled, ReceiptsAreKept
<1> QED BY Zenon, <1>1, <1>2 DEF IInv

\* Steps that leave the trade, the order, the marker and the receipts alone.
LEMMA QuietStep ==
    ASSUME IInv, UNCHANGED <<trade, order, marker, inbox>>
    PROVE  HiddenTradeIsJournaled' /\ ReceiptsAreKept'
BY Zenon DEF IInv, HiddenTradeIsJournaled, ReceiptsAreKept

LEMMA ReceiveKeeps ==
    ASSUME IInv, NEW h \in Handlers, NEW m \in Messages, Receive(h, m)
    PROVE  IInv'
<1>0. /\ job[h].at = "idle"
      /\ UNCHANGED <<trade, order, marker, quarantine, inbox, audit, lock, pass, age, faults>>
  BY Zenon DEF Receive
<1>1. CASE Fits(m)
  <2>1. refused' = refused /\ job' = [job EXCEPT ![h] = [at |-> "valid", msg |-> m]]
    BY Zenon, <1>1 DEF Receive
  <2>2. TypeOK'
    BY Zenon, <1>0, <2>1 DEF IInv, TypeOK, IsChain, Places
  <2>3. RequestsOnCourse'
    BY Zenon, <1>0, <2>1 DEF IInv, TypeOK, RequestsOnCourse
  <2> QED BY Zenon, <1>0, <2>2, <2>3, QuietStep DEF IInv, PassOnCourse
<1>2. CASE ~Fits(m)
  <2>1. refused' = refused \union {m} /\ job' = job
    BY Zenon, <1>2 DEF Receive, Refuse
  <2>2. TypeOK'
    BY Zenon, <1>0, <2>1 DEF IInv, TypeOK, IsChain
  <2>3. RequestsOnCourse'
    BY Zenon, <1>0, <2>1 DEF IInv, RequestsOnCourse
  <2> QED BY Zenon, <1>0, <2>2, <2>3, QuietStep DEF IInv, PassOnCourse
<1> QED BY Zenon, <1>1, <1>2

LEMMA MarkKeeps ==
    ASSUME IInv, NEW h \in Handlers, Mark(h)
    PROVE  IInv'
<1>0. job[h].msg \in Messages /\ job[h] \in [at: Places, msg: Messages \union {NoMessage}]
  BY Zenon DEF IInv, TypeOK, RequestsOnCourse, Mark
<1>a. pass = "idle" /\ \A g \in Handlers : job[g].at \notin {"marked", "traded", "ordered"}
  BY Zenon, ImportConstants DEF IInv, TypeOK, Mark, Nobody, Maintenance
<1>1. CASE Binds(job[h].msg)
  <2>0. marker' = job[h].msg /\ lock' = h /\ job' = [job EXCEPT ![h].at = "marked"]
    BY Zenon, <1>1 DEF Mark, Go
  <2>1. TypeOK'
    BY Zenon, <1>0, <1>a, <2>0, ImportConstants
    DEF IInv, TypeOK, Mark, IsChain, Places, Nobody, Maintenance
  <2>2. RequestsOnCourse'
    BY Zenon, <1>0, <1>a, <2>0 DEF IInv, TypeOK, RequestsOnCourse, Mark
  <2>3. PassOnCourse'
    BY Zenon, <1>a DEF PassOnCourse, Mark
  <2>4. HiddenTradeIsJournaled'
    BY Zenon, <1>1, <2>0 DEF IInv, HiddenTradeIsJournaled, Binds, Mark
  <2>5. ReceiptsAreKept'
    BY Zenon DEF IInv, ReceiptsAreKept, Mark
  <2> QED BY Zenon, <2>1, <2>2, <2>3, <2>4, <2>5 DEF IInv
<1>2. CASE ~Binds(job[h].msg)
  <2>0. /\ job' = [job EXCEPT ![h] = Idle] /\ UNCHANGED <<marker, lock>>
        /\ refused' = refused \union {job[h].msg}
    BY Zenon, <1>2 DEF Mark, Leave, Refuse
  <2>1. TypeOK'
    BY Zenon, <1>0, <1>a, <2>0 DEF IInv, TypeOK, Mark, IsChain, Places, Idle
  <2>2. RequestsOnCourse'
    BY Zenon, <1>0, <1>a, <2>0 DEF IInv, TypeOK, RequestsOnCourse, Mark, Idle
  <2>3. PassOnCourse'
    BY Zenon, <1>a DEF PassOnCourse, Mark
  <2> QED BY Zenon, <2>0, <2>1, <2>2, <2>3, QuietStep DEF IInv, Mark
<1> QED BY Zenon, <1>1, <1>2

\* While a request holds the lock the maintenance pass is idle, and no other
\* request is between its marker and the removal of it.
LEMMA LockExcludes ==
    ASSUME IInv, NEW h \in Handlers, job[h].at \in {"marked", "traded", "ordered"}
    PROVE  /\ lock = h
           /\ pass = "idle"
           /\ job[h].msg \in Messages /\ marker = job[h].msg
           /\ \A g \in Handlers \ {h} : job[g].at \notin {"marked", "traded", "ordered"}
BY Zenon, ImportConstants DEF IInv, TypeOK, RequestsOnCourse, Maintenance

LEMMA ImportTradeKeeps ==
    ASSUME IInv, NEW h \in Handlers, ImportTrade(h)
    PROVE  IInv'
<1> DEFINE m == job[h].msg
<1>0. /\ lock = h /\ pass = "idle" /\ m \in Messages /\ marker = m
      /\ \A g \in Handlers \ {h} : job[g].at \notin {"marked", "traded", "ordered"}
  BY Zenon, LockExcludes DEF ImportTrade
<1>1. CASE Fits(m)
  <2>0. /\ trade' = ChainOf[m] /\ job' = [job EXCEPT ![h].at = "traded"]
        /\ UNCHANGED <<order, marker, quarantine, inbox, refused, audit, lock, pass, age,
                       faults>>
    BY Zenon, <1>1 DEF ImportTrade, Go
  <2>1. /\ trade \in Seq(Event) /\ ChainOf[m] \in Seq(Event) /\ ChainOf[m] # <<>>
        /\ \A k \in Messages : ChainOf[k] \in Seq(Event)
    BY Zenon, <1>0, ImportConstants DEF IInv, TypeOK, IsChain
  <2>2. TypeOK'
    <3>1. IsChain(trade)' /\ IsChain(quarantine.trade)'
      BY Zenon, <1>0, <2>0, BundleIsChain DEF IInv, TypeOK, IsChain
    <3> QED BY <1>0, <2>0, <3>1 DEF IInv, TypeOK, Places
  <2>3. ASSUME NEW k \in Messages, IsPrefix(ChainOf[k], trade)
        PROVE  IsPrefix(ChainOf[k], trade')
    BY Zenon, <1>1, <2>0, <2>1, <2>3, PrefixTransitive DEF Fits
  <2>4. RequestsOnCourse'
    <3> SUFFICES ASSUME NEW g \in Handlers
                 PROVE  /\ job'[g].at # "idle" => job'[g].msg \in Messages
                        /\ job'[g].at \in {"marked", "traded", "ordered"} => marker' = job'[g].msg
                        /\ job'[g].at \in {"traded", "ordered", "imported"} =>
                              IsPrefix(ChainOf[job'[g].msg], trade')
                        /\ job'[g].at \in {"ordered", "imported"} => order'
      BY Zenon DEF RequestsOnCourse
    <3>1. CASE g = h
      <4>1. job'[g].at = "traded" /\ job'[g].msg = m
        BY Zenon, <2>0, <3>1 DEF IInv, TypeOK
      <4> QED BY Zenon, <1>0, <2>0, <2>1, <4>1, PrefixReflexive
    <3>2. CASE g # h
      <4>1. job'[g] = job[g]
        BY Zenon, <2>0, <3>2 DEF IInv, TypeOK
      <4> QED BY Zenon, <1>0, <2>0, <2>3, <3>2, <4>1 DEF IInv, RequestsOnCourse
    <3> QED BY Zenon, <3>1, <3>2
  <2>5. PassOnCourse'
    BY Zenon, <1>0, <2>0 DEF PassOnCourse
  <2>6. HiddenTradeIsJournaled'
    BY Zenon, <1>0, <2>0, ImportConstants DEF HiddenTradeIsJournaled
  <2>7. ReceiptsAreKept'
    BY Zenon, <2>0, <2>1, <2>3 DEF IInv, TypeOK, ReceiptsAreKept
  <2> QED BY Zenon, <2>2, <2>4, <2>5, <2>6, <2>7 DEF IInv
<1>2. CASE ~Fits(m)
  <2>0. /\ job' = [job EXCEPT ![h] = Idle] /\ lock' = Nobody
        /\ refused' = refused \union {m}
        /\ UNCHANGED <<trade, order, marker, quarantine, inbox, audit, pass, age, faults>>
    BY Zenon, <1>2 DEF ImportTrade, Leave, Refuse
  <2>1. TypeOK'
    BY Zenon, <1>0, <2>0, ImportConstants
    DEF IInv, TypeOK, IsChain, Places, Idle, Nobody, Maintenance
  <2>2. RequestsOnCourse'
    BY Zenon, <2>0 DEF IInv, TypeOK, RequestsOnCourse, Idle
  <2>3. PassOnCourse'
    BY Zenon, <1>0, <2>0 DEF PassOnCourse
  <2> QED BY Zenon, <2>0, <2>1, <2>2, <2>3, QuietStep DEF IInv
<1> QED BY Zenon, <1>1, <1>2

LEMMA ImportOrderKeeps ==
    ASSUME IInv, NEW h \in Handlers, ImportOrder(h)
    PROVE  IInv'
<1>0. /\ lock = h /\ pass = "idle" /\ job[h].msg \in Messages
      /\ IsPrefix(ChainOf[job[h].msg], trade) /\ trade \in Seq(Event)
  BY Zenon, LockExcludes DEF ImportOrder, IInv, TypeOK, IsChain, RequestsOnCourse
<1>1. TypeOK'
  BY <1>0 DEF IInv, TypeOK, ImportOrder, Go, IsChain, Places
<1>2. RequestsOnCourse'
  BY <1>0 DEF IInv, TypeOK, RequestsOnCourse, ImportOrder, Go
<1>3. PassOnCourse'
  BY Zenon, <1>0 DEF PassOnCourse, ImportOrder
<1>4. trade # <<>>
  BY Zenon, <1>0, ImportConstants, OnlyEmptyIsPrefixOfEmpty
<1>5. HiddenTradeIsJournaled' /\ ReceiptsAreKept'
  BY Zenon, <1>4 DEF IInv, HiddenTradeIsJournaled, ReceiptsAreKept, ImportOrder
<1> QED BY Zenon, <1>1, <1>2, <1>3, <1>5 DEF IInv

LEMMA UnmarkKeeps ==
    ASSUME IInv, NEW h \in Handlers, Unmark(h)
    PROVE  IInv'
<1>0. /\ lock = h /\ pass = "idle" /\ order
      /\ \A g \in Handlers \ {h} : job[g].at \notin {"marked", "traded", "ordered"}
  BY Zenon, LockExcludes DEF Unmark, IInv, RequestsOnCourse
<1>1. TypeOK'
  <2>1. /\ marker' = NoMessage /\ lock' = Nobody /\ job' = [job EXCEPT ![h].at = "imported"]
        /\ UNCHANGED <<trade, order, quarantine, inbox, refused, audit, pass, age, faults>>
    BY Zenon DEF Unmark, Go
  <2>2. job' \in [Handlers -> [at: Places, msg: Messages \union {NoMessage}]]
    BY Zenon, <2>1 DEF IInv, TypeOK, Places
  <2>3. \A g \in Handlers : job'[g].at \in {"marked", "traded", "ordered"} <=> lock' = g
    <3>1. Nobody \notin Handlers
      BY Zenon, ImportConstants DEF Nobody
    <3>2. job'[h].at = "imported"
      BY <2>1, <1>0 DEF IInv, TypeOK
    <3>3. \A g \in Handlers \ {h} : job'[g].at = job[g].at
      BY <2>1, <1>0 DEF IInv, TypeOK
    <3>4. \A g \in Handlers \ {h} : job[g].at \notin {"marked", "traded", "ordered"}
      BY Zenon, <1>0 DEF IInv, TypeOK
    <3> QED BY <2>1, <3>1, <3>2, <3>3, <3>4
  <2>4. Nobody # Maintenance
    BY DEF Nobody, Maintenance
  <2> QED BY Zenon, <1>0, <2>1, <2>2, <2>3, <2>4 DEF IInv, TypeOK, IsChain
<1>2. RequestsOnCourse'
  BY <1>0 DEF IInv, TypeOK, RequestsOnCourse, Unmark, Go
<1>3. PassOnCourse'
  BY Zenon, <1>0 DEF PassOnCourse, Unmark
<1>4. HiddenTradeIsJournaled' /\ ReceiptsAreKept'
  BY Zenon, <1>0 DEF IInv, HiddenTradeIsJournaled, ReceiptsAreKept, Unmark
<1> QED BY Zenon, <1>1, <1>2, <1>3, <1>4 DEF IInv

LEMMA AcknowledgeKeeps ==
    ASSUME IInv, NEW h \in Handlers, Acknowledge(h)
    PROVE  IInv'
<1>0. job[h].msg \in Messages /\ order /\ IsPrefix(ChainOf[job[h].msg], trade)
  BY Zenon DEF Acknowledge, IInv, RequestsOnCourse
<1>1. TypeOK'
  BY Zenon, <1>0 DEF IInv, TypeOK, Acknowledge, Leave, Idle, IsChain, Places
<1>2. RequestsOnCourse'
  BY Zenon DEF IInv, TypeOK, RequestsOnCourse, Acknowledge, Leave, Idle
<1>3. PassOnCourse'
  BY Zenon DEF IInv, PassOnCourse, Acknowledge
<1>4. HiddenTradeIsJournaled' /\ ReceiptsAreKept'
  BY Zenon, <1>0 DEF IInv, HiddenTradeIsJournaled, ReceiptsAreKept, Acknowledge
<1> QED BY Zenon, <1>1, <1>2, <1>3, <1>4 DEF IInv

LEMMA SignKeeps ==
    ASSUME IInv, NEW e \in Extensions, Sign(e)
    PROVE  IInv'
<1>0. /\ e \in Event /\ IsChain(trade') /\ trade' = Append(trade, e) /\ order
      /\ trade \in Seq(Event) /\ trade' \in Seq(Event) /\ trade' # <<>>
      /\ UNCHANGED <<order, marker, quarantine, inbox, refused, audit, lock, job, pass, age,
                     faults>>
  <2>1. IsChain(trade)
    BY Zenon DEF IInv, TypeOK
  <2>2. e \in Event /\ IsChain(Append(trade, e))
    BY Zenon, <2>1, ExtensionIsChain
  <2>3. trade \in Seq(Event)
    BY Zenon, <2>1 DEF IsChain
  <2>4. Append(trade, e) \in Seq(Event) /\ Append(trade, e) # <<>>
    <3>1. Append(trade, e) \in Seq(Event)
      BY Zenon, <2>2 DEF IsChain
    <3>2. Len(Append(trade, e)) = Len(trade) + 1 /\ Len(trade) \in Nat
      BY <2>2, <2>3
    <3> QED BY <3>1, <3>2
  <2> QED BY Zenon, <2>2, <2>3, <2>4 DEF Sign
<1>1. ASSUME NEW k \in Messages, IsPrefix(ChainOf[k], trade)
      PROVE  IsPrefix(ChainOf[k], trade')
  BY Zenon, <1>0, <1>1, ImportConstants, PrefixOfAppend, PrefixTransitive
<1>2. TypeOK'
  BY Zenon, <1>0 DEF IInv, TypeOK, IsChain
<1>3. RequestsOnCourse'
  BY Zenon, <1>0, <1>1 DEF IInv, RequestsOnCourse
<1>4. PassOnCourse'
  BY Zenon, <1>0 DEF IInv, TypeOK, PassOnCourse, Stops
<1>5. HiddenTradeIsJournaled' /\ ReceiptsAreKept'
  BY Zenon, <1>0, <1>1 DEF IInv, TypeOK, HiddenTradeIsJournaled, ReceiptsAreKept
<1> QED BY Zenon, <1>2, <1>3, <1>4, <1>5 DEF IInv

\* A step of the pass that holds the lock finds no request under way.
LEMMA PassExcludes ==
    ASSUME IInv, pass # "idle"
    PROVE  /\ lock = Maintenance
           /\ \A g \in Handlers : job[g].at \notin {"marked", "traded", "ordered"}
BY Zenon, ImportConstants DEF IInv, TypeOK, Maintenance

LEMMA InspectKeeps ==
    ASSUME IInv, Inspect
    PROVE  IInv'
<1>0. \A g \in Handlers : job[g].at \notin {"marked", "traded", "ordered"}
  BY Zenon, ImportConstants DEF IInv, TypeOK, Inspect, Nobody
<1>1. TypeOK'
  BY Zenon, <1>0, ImportConstants
  DEF IInv, TypeOK, Inspect, IsChain, Stops, Kinds, Nobody, Maintenance
<1>2. RequestsOnCourse'
  BY Zenon DEF IInv, RequestsOnCourse, Inspect
<1>3. PassOnCourse'
  BY Zenon DEF IInv, TypeOK, PassOnCourse, Inspect, Orphan
<1> QED BY Zenon, <1>1, <1>2, <1>3, QuietStep DEF IInv, Inspect

LEMMA CompleteKeeps ==
    ASSUME IInv, Complete
    PROVE  IInv'
<1>0. order /\ lock = Maintenance
      /\ \A g \in Handlers : job[g].at \notin {"marked", "traded", "ordered"}
  BY Zenon, PassExcludes DEF IInv, PassOnCourse, Complete
<1>1. TypeOK'
  BY Zenon, <1>0, ImportConstants
  DEF IInv, TypeOK, Complete, IsChain, Stops, Nobody, Maintenance
<1>2. RequestsOnCourse'
  BY Zenon, <1>0 DEF IInv, RequestsOnCourse, Complete
<1>3. PassOnCourse'
  BY Zenon DEF PassOnCourse, Complete
<1>4. HiddenTradeIsJournaled' /\ ReceiptsAreKept'
  BY Zenon, <1>0 DEF IInv, HiddenTradeIsJournaled, ReceiptsAreKept, Complete
<1> QED BY Zenon, <1>1, <1>2, <1>3, <1>4 DEF IInv

LEMMA MoveTradeKeeps ==
    ASSUME IInv, MoveTrade
    PROVE  IInv'
<1>0. /\ ~order /\ lock = Maintenance /\ inbox = {}
      /\ \A g \in Handlers :
            job[g].at \notin {"marked", "traded", "ordered", "imported"}
  BY Zenon, PassExcludes DEF IInv, PassOnCourse, RequestsOnCourse, ReceiptsAreKept, MoveTrade
<1>1. CASE quarantine.trade = <<>>
  <2>0. /\ quarantine' = [quarantine EXCEPT !.trade = trade] /\ trade' = <<>>
        /\ pass' = "moved"
        /\ UNCHANGED <<order, marker, inbox, refused, audit, lock, job, age, faults>>
    BY Zenon, <1>1 DEF MoveTrade
  <2>1. /\ IsChain(trade') /\ IsChain(quarantine'.trade)
        /\ quarantine' \in [trade: Seq(Event), marker: Messages \union {NoMessage}]
    BY Zenon, <2>0, EmptyIsChain DEF IInv, TypeOK, IsChain
  <2>2. TypeOK'
    BY Zenon, <1>0, <2>0, <2>1 DEF IInv, TypeOK, IsChain, Stops, Maintenance
  <2>3. RequestsOnCourse'
    BY Zenon, <1>0, <2>0 DEF IInv, RequestsOnCourse
  <2>4. PassOnCourse' /\ HiddenTradeIsJournaled' /\ ReceiptsAreKept'
    BY Zenon, <1>0, <2>0 DEF PassOnCourse, HiddenTradeIsJournaled, ReceiptsAreKept
  <2> QED BY Zenon, <2>2, <2>3, <2>4 DEF IInv
<1>2. CASE quarantine.trade # <<>>
  <2>0. /\ pass' = "idle" /\ lock' = Nobody
        /\ UNCHANGED <<trade, order, marker, quarantine, inbox, refused, audit, job, age, faults>>
    BY Zenon, <1>2 DEF MoveTrade
  <2>1. TypeOK'
    BY Zenon, <1>0, <2>0, ImportConstants
    DEF IInv, TypeOK, IsChain, Stops, Nobody, Maintenance
  <2>2. RequestsOnCourse' /\ PassOnCourse'
    BY Zenon, <2>0 DEF IInv, RequestsOnCourse, PassOnCourse
  <2> QED BY Zenon, <2>0, <2>1, <2>2, QuietStep DEF IInv
<1> QED BY Zenon, <1>1, <1>2

LEMMA MoveMarkerKeeps ==
    ASSUME IInv, MoveMarker
    PROVE  IInv'
<1>0. /\ trade = <<>> /\ ~order /\ lock = Maintenance
      /\ \A g \in Handlers : job[g].at \notin {"marked", "traded", "ordered"}
  BY Zenon, PassExcludes DEF IInv, PassOnCourse, MoveMarker
<1>1. /\ marker' \in Messages \union {NoMessage}
      /\ quarantine' \in [trade: Seq(Event), marker: Messages \union {NoMessage}]
      /\ quarantine'.trade = quarantine.trade
  BY Zenon DEF IInv, TypeOK, MoveMarker
<1>2. \/ pass' = "idle" /\ lock' = Nobody
      \/ pass' = "stored" /\ lock' = lock
  BY Zenon DEF MoveMarker
<1>3. TypeOK'
  BY Zenon, <1>0, <1>1, <1>2, ImportConstants
  DEF IInv, TypeOK, MoveMarker, IsChain, Stops, Nobody, Maintenance
<1>4. RequestsOnCourse'
  BY Zenon, <1>0 DEF IInv, RequestsOnCourse, MoveMarker
<1>5. PassOnCourse'
  BY Zenon, <1>0, <1>2 DEF PassOnCourse, MoveMarker
<1>6. HiddenTradeIsJournaled' /\ ReceiptsAreKept'
  BY Zenon, <1>0 DEF IInv, HiddenTradeIsJournaled, ReceiptsAreKept, MoveMarker
<1> QED BY Zenon, <1>3, <1>4, <1>5, <1>6 DEF IInv

LEMMA ReportKeeps ==
    ASSUME IInv, Report
    PROVE  IInv'
<1>0. lock = Maintenance
      /\ \A g \in Handlers : job[g].at \notin {"marked", "traded", "ordered"}
  BY Zenon, PassExcludes DEF Report
<1>1. TypeOK'
  BY Zenon, <1>0, ImportConstants
  DEF IInv, TypeOK, Report, IsChain, Stops, Kinds, Nobody, Maintenance
<1>2. RequestsOnCourse' /\ PassOnCourse'
  BY Zenon DEF IInv, RequestsOnCourse, PassOnCourse, Report
<1> QED BY Zenon, <1>1, <1>2, QuietStep DEF IInv, Report

LEMMA OlderKeeps ==
    ASSUME IInv, NEW m \in Messages, Older(m)
    PROVE  IInv'
<1>1. TypeOK'
  BY Zenon DEF IInv, TypeOK, Older, IsChain, Ages
<1>2. RequestsOnCourse' /\ PassOnCourse'
  BY Zenon DEF IInv, RequestsOnCourse, PassOnCourse, Older
<1> QED BY Zenon, <1>1, <1>2, QuietStep DEF IInv, Older

LEMMA FailKeeps ==
    ASSUME IInv, NEW h \in Handlers, Fail(h)
    PROVE  IInv'
<1>1. TypeOK'
  <2>1. /\ job' \in [Handlers -> [at: Places, msg: Messages \union {NoMessage}]]
        /\ faults' \in 0 .. MaxFaults
        /\ lock' \in Handlers \union {Nobody, Maintenance}
    BY ImportConstants DEF IInv, TypeOK, Fail, Leave, Idle, Places
  <2>2. \A g \in Handlers : job'[g].at \in {"marked", "traded", "ordered"} <=> lock' = g
    BY Zenon, ImportConstants DEF IInv, TypeOK, Fail, Leave, Idle, Nobody
  <2>3. pass' # "idle" <=> lock' = Maintenance
    BY Zenon, ImportConstants DEF IInv, TypeOK, Fail, Nobody, Maintenance
  <2> QED BY Zenon, <2>1, <2>2, <2>3 DEF IInv, TypeOK, Fail, IsChain
<1>2. RequestsOnCourse'
  BY Zenon DEF IInv, TypeOK, RequestsOnCourse, Fail, Leave, Idle
<1>3. PassOnCourse'
  BY Zenon DEF IInv, PassOnCourse, Fail
<1> QED BY Zenon, <1>1, <1>2, <1>3, QuietStep DEF IInv, Fail

LEMMA CrashKeeps ==
    ASSUME IInv, Crash
    PROVE  IInv'
<1>1. TypeOK'
  <2>1. /\ job' \in [Handlers -> [at: Places, msg: Messages \union {NoMessage}]]
        /\ faults' \in 0 .. MaxFaults
    BY ImportConstants DEF IInv, TypeOK, Crash, Idle, Places
  <2>2. \A g \in Handlers : job'[g].at \in {"marked", "traded", "ordered"} <=> lock' = g
    BY Zenon, ImportConstants DEF Crash, Idle, Nobody
  <2> QED BY Zenon, <2>1, <2>2 DEF IInv, TypeOK, Crash, IsChain, Stops, Nobody, Maintenance
<1>2. RequestsOnCourse' /\ PassOnCourse'
  BY Zenon DEF RequestsOnCourse, PassOnCourse, Crash, Idle
<1> QED BY Zenon, <1>1, <1>2, QuietStep DEF IInv, Crash

LEMMA StepKeeps == IInv /\ [Next]_vars => IInv'
<1> SUFFICES ASSUME IInv, [Next]_vars PROVE IInv'
  BY Zenon
<1>1. CASE UNCHANGED vars
  BY Zenon, <1>1 DEF IInv, TypeOK, IsChain, RequestsOnCourse, PassOnCourse,
              HiddenTradeIsJournaled, ReceiptsAreKept, vars
<1>2. CASE \E h \in Handlers : \E m \in Messages : Receive(h, m)
  BY Zenon, <1>2, ReceiveKeeps
<1>3. CASE \E h \in Handlers : Mark(h)
  BY Zenon, <1>3, MarkKeeps
<1>4. CASE \E h \in Handlers : Step(h)
  BY Zenon, <1>4, ImportTradeKeeps, ImportOrderKeeps, UnmarkKeeps, AcknowledgeKeeps DEF Step
<1>5. CASE \E h \in Handlers : Fail(h)
  BY Zenon, <1>5, FailKeeps
<1>6. CASE \E e \in Extensions : Sign(e)
  BY Zenon, <1>6, SignKeeps
<1>7. CASE Inspect \/ Pass
  BY Zenon, <1>7, InspectKeeps, CompleteKeeps, MoveTradeKeeps, MoveMarkerKeeps, ReportKeeps
  DEF Pass
<1>8. CASE \E m \in Messages : Older(m)
  BY Zenon, <1>8, OlderKeeps
<1>9. CASE Crash
  BY Zenon, <1>9, CrashKeeps
<1> QED BY Zenon, <1>1, <1>2, <1>3, <1>4, <1>5, <1>6, <1>7, <1>8, <1>9 DEF Next

-----------------------------------------------------------------------------
(* The theorems *)

LEMMA Inductive == Spec => []IInv
BY InitEstablishes, StepKeeps, PTL DEF Spec

\* Requests and maintenance passes never hold the marker's lock together, and
\* every chain that is stored or quarantined is legal, however many requests,
\* bundles and faults there are.
THEOREM TypeCorrect == Spec => []TypeOK
<1>1. IInv => TypeOK
  BY Zenon DEF IInv
<1> QED BY <1>1, Inductive, PTL

\* Whatever crash or refusal ends an import, a trade that is hidden is named
\* with its exact chain by a marker.
THEOREM HiddenTradesAreJournaled == Spec => []HiddenTradeIsJournaled
<1>1. IInv => HiddenTradeIsJournaled
  BY Zenon DEF IInv
<1> QED BY <1>1, Inductive, PTL

\* A receipt means that the trade is visible and contains the chain of the
\* bundle, and it does so for ever.
THEOREM StoresStayInAgreement == Spec => []StoresAgree
<1>1. IInv => StoresAgree
  BY Zenon DEF IInv, StoresAgree
<1> QED BY <1>1, Inductive, PTL

\* A step of the system extends the chain, keeps it, or moves it whole to an
\* empty place in quarantine after the audit record.
LEMMA StepLosesNothing ==
    ASSUME IInv, [Next]_vars
    PROVE  \/ UNCHANGED vars
           \/ /\ \/ IsPrefix(trade, trade')
                 \/ /\ trade' = <<>>
                    /\ quarantine.trade = <<>>
                    /\ quarantine'.trade = trade
                    /\ "orphan_quarantine_requested" \in audit
              /\ quarantine.trade # <<>> => quarantine'.trade = quarantine.trade
<1>0. trade \in Seq(Event) /\ IsPrefix(trade, trade)
  BY Zenon, PrefixReflexive DEF IInv, TypeOK, IsChain
<1>1. CASE UNCHANGED <<trade, quarantine>>
  BY Zenon, <1>0, <1>1
<1>2. ASSUME NEW h \in Handlers, ImportTrade(h)
      PROVE  IsPrefix(trade, trade') /\ UNCHANGED quarantine
  BY Zenon, <1>0, <1>2 DEF ImportTrade, Fits
<1>3. ASSUME NEW e \in Extensions, Sign(e)
      PROVE  IsPrefix(trade, trade') /\ UNCHANGED quarantine
  BY Zenon, <1>0, <1>3, ExtensionIsChain, PrefixOfAppend DEF Sign, IInv, TypeOK
<1>4. CASE MoveTrade
  BY Zenon, <1>0, <1>4 DEF MoveTrade, IInv, TypeOK, PassOnCourse
<1>5. CASE MoveMarker
  BY Zenon, <1>0, <1>5 DEF MoveMarker, IInv, TypeOK
<1>6. \/ UNCHANGED <<trade, quarantine>>
      \/ \E h \in Handlers : ImportTrade(h)
      \/ \E e \in Extensions : Sign(e)
      \/ MoveTrade \/ MoveMarker
  BY Zenon DEF Next, vars, Receive, Mark, Step, ImportOrder, Unmark, Acknowledge, Fail,
         Inspect, Pass, Complete, Report, Older, Crash
<1> QED BY Zenon, <1>1, <1>2, <1>3, <1>4, <1>5, <1>6

\* No step of a request, of the local party, of maintenance or of a crash
\* shortens or forks what was signed, or overwrites what is in quarantine.
THEOREM NothingIsEverLost == Spec => NothingSignedIsLost
<1>1. IInv /\ [Next]_vars =>
        [/\ \/ IsPrefix(trade, trade')
            \/ /\ trade' = <<>>
               /\ quarantine.trade = <<>>
               /\ quarantine'.trade = trade
               /\ "orphan_quarantine_requested" \in audit
         /\ quarantine.trade # <<>> => quarantine'.trade = quarantine.trade]_vars
  BY Zenon, StepLosesNothing
<1> QED BY <1>1, Inductive, PTL DEF Spec, NothingSignedIsLost

=============================================================================
