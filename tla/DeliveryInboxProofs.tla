------------------------- MODULE DeliveryInboxProofs -------------------------
(***************************************************************************)
(* Proofs about DeliveryInbox, for any number of processes, envelopes and  *)
(* nonces and any bounds of the cache and the journal.                     *)
(*                                                                         *)
(* MemoryIsTheFold is not inductive: a process may go on with a journal    *)
(* that does not fold.  What is inductive is that a fingerprint that is    *)
(* current always goes with the journal's fold, folding or not.  Then the  *)
(* fold takes every event a process writes.                                *)
(***************************************************************************)
EXTENDS DeliveryInbox, WellFoundedInduction, TLAPS

-----------------------------------------------------------------------------
(* The replay cache *)

\* No two entries have one (sender, nonce) pair.
Unique(cache) ==
    \A i, j \in DOMAIN cache : Nonce[cache[i].msg] = Nonce[cache[j].msg] => i = j

\* A set of natural numbers that is not empty has a least element.
LEMMA LeastElement ==
    ASSUME NEW T \in SUBSET Nat, T # {}
    PROVE  \E x \in T : \A y \in T : x <= y
<1> DEFINE R == OpToRel(<, Nat)
<1>1. IsWellFoundedOn(R, Nat)
  BY Zenon, NatLessThanWellFounded
<1>2. \A x, y \in Nat : x < y => <<x, y>> \in R
  BY Zenon DEF OpToRel
<1> HIDE DEF R
<1>3. PICK x \in T : \A y \in T : ~(<<y, x>> \in R)
  BY Zenon, <1>1, WFMin
<1>4. \A y \in T : ~(y < x)
  BY Zenon, <1>2, <1>3
<1>5. \A y \in T : x <= y
  BY <1>4
<1> QED BY Zenon, <1>5

\* The victim, if there is one, is a processed entry of a full cache.
LEMMA VictimFacts ==
    ASSUME NEW c \in Seq(Entry)
    PROVE  \/ Victim(c) = {}
           \/ \E i \in DOMAIN c : ~c[i].pending /\ Victim(c) = {c[i].msg}
<1> DEFINE idle == {i \in DOMAIN c : ~c[i].pending}
           v    == CHOOSE i \in idle : \A j \in idle : i <= j
<1>1. CASE Len(c) < MaxEntries \/ idle = {}
  BY Zenon, <1>1 DEF Victim
<1>2. CASE ~(Len(c) < MaxEntries \/ idle = {})
  <2>1. idle \in SUBSET Nat /\ idle # {}
    BY <1>2
  <2>2. v \in idle
    <3> HIDE DEF idle
    <3> QED BY Zenon, <2>1, LeastElement
  <2>3. Victim(c) = {c[v].msg}
    BY Zenon, <1>2 DEF Victim
  <2> HIDE DEF v
  <2> QED BY Zenon, <2>2, <2>3
<1> QED BY Zenon, <1>1, <1>2

\* Eviction takes one entry, if any, and leaves the others as they are and in
\* their order.
LEMMA EvictedFacts ==
    ASSUME NEW c \in Seq(Entry), NEW victim
    PROVE  /\ Evicted(c, victim) \in Seq(Entry)
           /\ Len(Evicted(c, victim)) <= Len(c)
           /\ victim \cap Ids(c) # {} => Len(Evicted(c, victim)) = Len(c) - 1
           /\ Unique(c) => Unique(Evicted(c, victim))
           /\ Ids(Evicted(c, victim)) \subseteq Ids(c)
           /\ \A i \in DOMAIN c : c[i].msg \notin victim =>
                \E j \in DOMAIN Evicted(c, victim) : Evicted(c, victim)[j] = c[i]
<1> DEFINE gone  == {i \in DOMAIN c : c[i].msg \in victim}
           place == CHOOSE i \in gone : TRUE
           n     == Len(c) - 1
           t     == [j \in 1 .. n |-> IF j < place THEN c[j] ELSE c[j + 1]]
<1>1. CASE gone = {}
  <2>1. Evicted(c, victim) = c
    BY Zenon, <1>1 DEF Evicted
  <2>2. victim \cap Ids(c) = {}
    BY Zenon, <1>1 DEF Ids
  <2> QED BY <2>1, <2>2
<1>2. CASE gone # {}
  <2>1. place \in 1 .. Len(c) /\ c[place].msg \in victim
    BY <1>2
  <2>2. Evicted(c, victim) = t
    BY Zenon, <1>2 DEF Evicted
  <2> HIDE DEF place
  <2>3. n \in Nat /\ \A j \in 1 .. n : j \in 1 .. Len(c) /\ j + 1 \in 1 .. Len(c)
    BY <2>1
  <2>4. \A j \in 1 .. n : (IF j < place THEN c[j] ELSE c[j + 1]) \in Entry
    BY <2>3
  <2>5. n = Len(c) - 1
    BY Zenon
  <2> HIDE DEF n
  <2>6. t \in [1 .. n -> Entry] /\ \A j \in 1 .. n : t[j] = IF j < place THEN c[j] ELSE c[j + 1]
    BY Zenon, <2>4
  <2> HIDE DEF t
  <2>7. t \in Seq(Entry) /\ DOMAIN t = 1 .. n /\ Len(t) = n
    BY <2>3, <2>6
  <2>8. Unique(c) => Unique(t)
    <3> SUFFICES ASSUME Unique(c), NEW i \in 1 .. n, NEW j \in 1 .. n,
                        Nonce[t[i].msg] = Nonce[t[j].msg]
                 PROVE  i = j
      BY Zenon, <2>7 DEF Unique
    <3> DEFINE k == IF i < place THEN i ELSE i + 1
               l == IF j < place THEN j ELSE j + 1
    <3>1. k \in DOMAIN c /\ l \in DOMAIN c /\ t[i] = c[k] /\ t[j] = c[l]
      BY <2>3, <2>6
    <3>2. k = l
      BY Zenon, <3>1 DEF Unique
    <3> QED BY <2>1, <3>2
  <2>9. Ids(t) \subseteq Ids(c)
    <3> SUFFICES ASSUME NEW j \in 1 .. n
                 PROVE  t[j].msg \in Ids(c)
      BY Zenon, <2>7 DEF Ids
    <3>1. j \in DOMAIN c /\ j + 1 \in DOMAIN c
      BY <2>3
    <3>2. t[j] = c[j] \/ t[j] = c[j + 1]
      BY Zenon, <2>6
    <3> QED BY Zenon, <3>1, <3>2 DEF Ids
  <2>10. ASSUME NEW i \in DOMAIN c, c[i].msg \notin victim
         PROVE  \E j \in DOMAIN t : t[j] = c[i]
    <3>1. i # place /\ i \in 1 .. Len(c)
      BY <2>1, <2>10
    <3>2. CASE i < place
      <4>1. i \in 1 .. n
        BY <2>1, <2>5, <3>1, <3>2
      <4>2. t[i] = c[i]
        BY Zenon, <2>6, <3>2, <4>1
      <4> QED BY Zenon, <2>7, <4>1, <4>2
    <3>3. CASE place < i
      <4>1. i - 1 \in 1 .. n /\ ~(i - 1 < place) /\ (i - 1) + 1 = i
        BY <2>1, <2>5, <3>1, <3>3
      <4>2. t[i - 1] = c[i]
        BY Zenon, <2>6, <4>1
      <4> QED BY Zenon, <2>7, <4>1, <4>2
    <3> QED BY <2>1, <3>1, <3>2, <3>3
  <2> QED BY <2>2, <2>3, <2>5, <2>7, <2>8, <2>9, <2>10
<1> QED BY Zenon, <1>1, <1>2
\* A cache as the bounds and the checks of accept() leave it.
CacheOK(c) == c \in Seq(Entry) /\ Len(c) <= MaxEntries /\ Unique(c)

\* The fold lets the victim go: its only entry is processed.
LEMMA VictimIsProcessed ==
    ASSUME NEW c, CacheOK(c)
    PROVE  Victim(c) \subseteq Ids(c) \ PendingIds(c)
<1>1. c \in Seq(Entry) /\ Unique(c)
  BY Zenon DEF CacheOK
<1>2. CASE Victim(c) = {}
  BY Zenon, <1>2
<1>3. ASSUME NEW i \in DOMAIN c, ~c[i].pending, Victim(c) = {c[i].msg}
      PROVE  Victim(c) \subseteq Ids(c) \ PendingIds(c)
  <2>1. c[i].msg \in Ids(c)
    BY Zenon DEF Ids
  <2>2. c[i].msg \notin PendingIds(c)
    <3> SUFFICES ASSUME NEW j \in DOMAIN c, c[j].pending, c[j].msg = c[i].msg
                 PROVE  FALSE
      BY Zenon DEF PendingIds
    <3>1. j = i
      BY Zenon, <1>1 DEF Unique
    <3> QED BY Zenon, <3>1, <1>3
  <2> QED BY Zenon, <1>3, <2>1, <2>2
<1> QED BY Zenon, <1>1, <1>2, <1>3, VictimFacts

\* What _remember_locked makes of the cache.
LEMMA RememberFacts ==
    ASSUME NEW c, CacheOK(c), NEW e \in Entry, ~NonceUsed(c, e.msg), HasRoom(c)
    PROVE  /\ CacheOK(Remember(c, e, Victim(c)))
           /\ \A i \in DOMAIN c : c[i].pending =>
                \E j \in DOMAIN Remember(c, e, Victim(c)) : Remember(c, e, Victim(c))[j] = c[i]
<1> DEFINE k == Evicted(c, Victim(c))
           t == Remember(c, e, Victim(c))
<1>1. c \in Seq(Entry) /\ Len(c) <= MaxEntries /\ Unique(c)
  BY Zenon DEF CacheOK
<1>2. /\ k \in Seq(Entry) /\ Len(k) <= Len(c) /\ Unique(k) /\ Ids(k) \subseteq Ids(c)
      /\ Victim(c) \cap Ids(c) # {} => Len(k) = Len(c) - 1
      /\ \A i \in DOMAIN c : c[i].msg \notin Victim(c) => \E j \in DOMAIN k : k[j] = c[i]
  BY Zenon, <1>1, EvictedFacts
<1>3. t = Append(k, e)
  BY Zenon DEF Remember
<1> HIDE DEF k, t
<1>4. /\ t \in Seq(Entry) /\ Len(t) = Len(k) + 1 /\ DOMAIN t = 1 .. Len(k) + 1
      /\ t[Len(k) + 1] = e /\ \A i \in 1 .. Len(k) : t[i] = k[i]
  BY <1>2, <1>3
<1>5. Len(t) <= MaxEntries
  <2>1. CASE Len(c) < MaxEntries
    BY <1>1, <1>2, <1>4, <2>1, InboxConstants
  <2>2. CASE Victim(c) # {}
    <3>1. Victim(c) \cap Ids(c) # {}
      BY Zenon, <2>2, VictimIsProcessed
    <3> QED BY <1>1, <1>2, <1>4, <3>1, InboxConstants
  <2> QED BY Zenon, <2>1, <2>2 DEF HasRoom
<1>6. \A i \in 1 .. Len(k) : Nonce[k[i].msg] # Nonce[e.msg]
  <2> SUFFICES ASSUME NEW i \in 1 .. Len(k) PROVE Nonce[k[i].msg] # Nonce[e.msg]
    BY Zenon
  <2>1. k[i].msg \in Ids(c)
    <3>1. i \in DOMAIN k
      BY <1>2
    <3>2. k[i].msg \in Ids(k)
      BY Zenon, <3>1 DEF Ids
    <3> QED BY Zenon, <1>2, <3>2
  <2> QED BY Zenon, <2>1 DEF NonceUsed
<1>7. Unique(t)
  <2> SUFFICES ASSUME NEW i \in 1 .. Len(k) + 1, NEW j \in 1 .. Len(k) + 1,
                      Nonce[t[i].msg] = Nonce[t[j].msg]
               PROVE  i = j
    BY Zenon, <1>4 DEF Unique
  <2>1. CASE i \in 1 .. Len(k) /\ j \in 1 .. Len(k)
    <3>1. i \in DOMAIN k /\ j \in DOMAIN k /\ t[i] = k[i] /\ t[j] = k[j]
      BY <1>2, <1>4, <2>1
    <3> QED BY Zenon, <3>1, <1>2 DEF Unique
  <2>2. CASE i = Len(k) + 1 /\ j \in 1 .. Len(k)
    BY Zenon, <1>4, <1>6, <2>2
  <2>3. CASE i \in 1 .. Len(k) /\ j = Len(k) + 1
    BY Zenon, <1>4, <1>6, <2>3
  <2> QED BY <1>2, <2>1, <2>2, <2>3
<1>8. ASSUME NEW i \in DOMAIN c, c[i].pending
      PROVE  \E j \in DOMAIN t : t[j] = c[i]
  <2>1. c[i].msg \in PendingIds(c)
    BY Zenon, <1>8 DEF PendingIds
  <2>2. c[i].msg \notin Victim(c)
    BY Zenon, <2>1, VictimIsProcessed
  <2>3. PICK j \in DOMAIN k : k[j] = c[i]
    BY Zenon, <1>2, <2>2
  <2>4. j \in 1 .. Len(k) /\ j \in DOMAIN t
    BY <1>2, <1>4
  <2> QED BY Zenon, <1>4, <2>3, <2>4
<1> QED BY Zenon, <1>4, <1>5, <1>7, <1>8 DEF CacheOK, t

\* mark_processed keeps every entry, its message and the time of its acceptance.
LEMMA ProcessedFacts ==
    ASSUME NEW c, CacheOK(c), NEW m
    PROVE  /\ CacheOK(Processed(c, m))
           /\ DOMAIN Processed(c, m) = DOMAIN c
           /\ \A i \in DOMAIN c : /\ Processed(c, m)[i].msg = c[i].msg
                                  /\ Processed(c, m)[i].at = c[i].at
<1> DEFINE f(i) == IF c[i].msg = m THEN [c[i] EXCEPT !.pending = FALSE] ELSE c[i]
           t    == [i \in DOMAIN c |-> f(i)]
<1>1. c \in Seq(Entry) /\ Len(c) <= MaxEntries /\ Unique(c)
  BY Zenon DEF CacheOK
<1>2. ASSUME NEW i \in DOMAIN c
      PROVE  f(i) \in Entry /\ f(i).msg = c[i].msg /\ f(i).at = c[i].at
  <2>1. c[i] \in Entry
    BY <1>1
  <2>2. [c[i] EXCEPT !.pending = FALSE] \in Entry
    BY Zenon, <2>1 DEF Entry
  <2>3. /\ [c[i] EXCEPT !.pending = FALSE].msg = c[i].msg
        /\ [c[i] EXCEPT !.pending = FALSE].at = c[i].at
    BY Zenon, <2>1 DEF Entry
  <2> QED BY Zenon, <2>1, <2>2, <2>3
<1>3. t = Processed(c, m)
  BY Zenon DEF Processed
<1> HIDE DEF f
<1>4. t \in [DOMAIN c -> Entry] /\ \A i \in DOMAIN c : t[i] = f(i)
  BY Zenon, <1>2
<1> HIDE DEF t
<1>5. t \in Seq(Entry) /\ Len(t) = Len(c) /\ DOMAIN t = DOMAIN c
  BY <1>1, <1>4
<1>6. \A i \in DOMAIN c : t[i].msg = c[i].msg /\ t[i].at = c[i].at
  BY Zenon, <1>2, <1>4
<1>7. Unique(t)
  BY Zenon, <1>1, <1>5, <1>6 DEF Unique
<1> QED BY Zenon, <1>1, <1>3, <1>5, <1>6, <1>7 DEF CacheOK
-----------------------------------------------------------------------------
(* The inductive invariant *)

StateTyped ==
    /\ torn \in BOOLEAN /\ corrupt \in BOOLEAN
    /\ size \in Nat
    /\ up \in [Procs -> BOOLEAN] /\ fresh \in [Procs -> BOOLEAN]
    /\ checked \in [Procs -> [msg: Msgs, at: 0 .. MaxTime] \cup {Idle}]
    /\ taken \in Msgs \cup {"none"}
    /\ now \in 0 .. MaxTime

MemTyped == mem \in [Procs -> Seq(Entry)] /\ \A p \in Procs : Len(mem[p]) <= MaxEntries

\* A current fingerprint goes with the journal's fold.
FreshIsFold == \A p \in Procs : fresh[p] => mem[p] = disk

IInv == StateTyped /\ CacheOK(disk) /\ MemTyped /\ FreshIsFold

\* So every operation works on the journal's fold.
LEMMA CacheIsDisk ==
    ASSUME IInv, NEW p \in Procs
    PROVE  Cache(p) = disk
BY Zenon DEF IInv, FreshIsFold, Cache

LEMMA LoadedSizeTyped ==
    ASSUME IInv, NEW p \in Procs
    PROVE  LoadedSize(p) \in Nat
<1>1. size \in Nat /\ Len(disk) \in Nat
  BY DEF IInv, StateTyped, CacheOK
<1> QED BY Zenon, <1>1 DEF LoadedSize

\* An operation of p that leaves p with the cache c and the journal's fold alone.
LEMMA RefoldKeeps ==
    ASSUME IInv, NEW p \in Procs, NEW c, c \in {disk, mem[p], <<>>},
           StateTyped', disk' = disk, mem' = [mem EXCEPT ![p] = c],
           \A q \in Procs : fresh'[q] => (q = p /\ c = disk) \/ (q # p /\ fresh[q])
    PROVE  IInv'
<1>1. mem \in [Procs -> Seq(Entry)] /\ disk \in Seq(Entry) /\ Len(disk) <= MaxEntries
  BY Zenon DEF IInv, MemTyped, CacheOK
<1>2. c \in Seq(Entry) /\ Len(c) <= MaxEntries
  <2>1. Len(mem[p]) <= MaxEntries /\ mem[p] \in Seq(Entry)
    BY Zenon, <1>1 DEF IInv, MemTyped
  <2>2. <<>> \in Seq(Entry) /\ Len(<<>>) <= MaxEntries
    BY InboxConstants
  <2> QED BY Zenon, <1>1, <2>1, <2>2
<1>3. mem' \in [Procs -> Seq(Entry)] /\ \A q \in Procs : mem'[q] = IF q = p THEN c ELSE mem[q]
  BY Zenon, <1>1, <1>2
<1>4. MemTyped'
  BY Zenon, <1>2, <1>3 DEF IInv, MemTyped
<1>5. FreshIsFold'
  BY Zenon, <1>3 DEF IInv, FreshIsFold
<1>6. CacheOK(disk')
  BY Zenon DEF IInv
<1> QED BY Zenon, <1>4, <1>5, <1>6 DEF IInv

\* An operation that appends an event the fold takes, and what it makes of the
\* journal: only a torn tail can spoil it.
LEMMA WriteFacts ==
    ASSUME IInv, NEW p \in Procs, NEW c, CacheOK(c), NEW accepted, accepted,
           Write(p, c, accepted, c)
    PROVE  /\ disk' = c
           /\ CacheOK(disk') /\ MemTyped' /\ FreshIsFold'
           /\ torn' \in BOOLEAN /\ corrupt' \in BOOLEAN /\ size' \in Nat
           /\ fresh' \in [Procs -> BOOLEAN]
           /\ ~corrupt /\ corrupt' => torn
<1> DEFINE lines == LoadedSize(p) + 1
<1>1. c \in Seq(Entry) /\ Len(c) \in Nat /\ Len(c) <= MaxEntries
  BY DEF CacheOK
<1>2. /\ torn' = FALSE /\ mem' = [mem EXCEPT ![p] = c] /\ fresh' = [q \in Procs |-> q = p]
  BY Zenon DEF Write
<1>3. \/ /\ disk' = c /\ corrupt' = FALSE /\ size' = Len(c)
      \/ /\ size' = lines /\ disk' = c
         /\ corrupt' = (corrupt \/ (torn /\ ~Compacts(p)))
  <2>1. CASE /\ lines > MaxJournal /\ disk' = Rewritten(c) /\ corrupt' = FALSE
             /\ size' = Len(Rewritten(c))
    BY Zenon, <2>1 DEF Rewritten
  <2>2. CASE /\ disk' = IF accepted THEN c ELSE disk
             /\ corrupt' = (corrupt \/ (torn /\ ~Compacts(p)) \/ ~accepted)
             /\ size' = lines
    <3>1. disk' = c
      BY Zenon, <2>2
    <3>2. corrupt' = (corrupt \/ (torn /\ ~Compacts(p)))
      BY Zenon, <2>2
    <3> QED BY Zenon, <2>2, <3>1, <3>2
  <2> QED BY Zenon, <2>1, <2>2 DEF Write
<1>4. disk' = c /\ CacheOK(disk')
  BY Zenon, <1>3
<1>5. size' \in Nat
  <2>1. LoadedSize(p) \in Nat
    BY Zenon, LoadedSizeTyped
  <2> QED BY <1>1, <1>3, <2>1
<1>6. corrupt' \in BOOLEAN /\ (~corrupt /\ corrupt' => torn)
  BY Zenon, <1>3
<1>7. mem \in [Procs -> Seq(Entry)]
  BY Zenon DEF IInv, MemTyped
<1>8. mem' \in [Procs -> Seq(Entry)] /\ \A q \in Procs : mem'[q] = IF q = p THEN c ELSE mem[q]
  BY Zenon, <1>1, <1>2, <1>7
<1>9. MemTyped'
  BY Zenon, <1>1, <1>8 DEF IInv, MemTyped
<1>10. fresh' \in [Procs -> BOOLEAN] /\ \A q \in Procs : fresh'[q] => q = p
  BY Zenon, <1>2
<1>11. FreshIsFold'
  BY Zenon, <1>4, <1>8, <1>10 DEF FreshIsFold
<1> QED BY Zenon, <1>2, <1>4, <1>5, <1>6, <1>9, <1>10, <1>11

-----------------------------------------------------------------------------
(* Operations *)

\* What an accept() that succeeds does to the journal.
LEMMA AcceptFacts ==
    ASSUME IInv, NEW p \in Procs, Accept(p)
    PROVE  /\ IInv'
           /\ taken' \in Msgs /\ ~NonceUsed(disk, taken')
           /\ \A i \in DOMAIN disk : disk[i].pending => \E j \in DOMAIN disk' : disk'[j] = disk[i]
           /\ ~corrupt /\ corrupt' => torn
<1> DEFINE m == checked[p].msg
           e == [msg |-> m, pending |-> TRUE, at |-> checked[p].at]
           t == Remember(disk, e, Victim(disk))
           a == /\ m \notin Ids(disk) /\ ~NonceUsed(disk, m)
                /\ Victim(disk) \subseteq Ids(disk) \ PendingIds(disk)
<1>1. Cache(p) = disk
  BY Zenon, CacheIsDisk
<1>2. checked[p] \in [msg: Msgs, at: 0 .. MaxTime]
  BY Zenon DEF IInv, StateTyped, Accept
<1>3. m \in Msgs /\ e \in Entry /\ e.msg = m
  BY Zenon, <1>2 DEF Entry
<1>4. /\ m \notin Ids(disk) /\ ~NonceUsed(disk, m) /\ HasRoom(disk)
      /\ Write(p, t, a, t)
      /\ taken' = m /\ checked' = [checked EXCEPT ![p] = Idle] /\ UNCHANGED <<up, now>>
  BY Zenon, <1>1 DEF Accept
<1>5. CacheOK(disk)
  BY Zenon DEF IInv
<1>6. a
  BY Zenon, <1>4, <1>5, VictimIsProcessed
<1> HIDE DEF e, m
<1>7. /\ CacheOK(t)
      /\ \A i \in DOMAIN disk : disk[i].pending => \E j \in DOMAIN t : t[j] = disk[i]
  BY Zenon, <1>3, <1>4, <1>5, RememberFacts
<1> HIDE DEF t, a
<1>8. /\ disk' = t
      /\ CacheOK(disk') /\ MemTyped' /\ FreshIsFold'
      /\ torn' \in BOOLEAN /\ corrupt' \in BOOLEAN /\ size' \in Nat
      /\ fresh' \in [Procs -> BOOLEAN]
      /\ ~corrupt /\ corrupt' => torn
  BY Zenon, <1>4, <1>6, <1>7, WriteFacts
<1>9. checked' \in [Procs -> [msg: Msgs, at: 0 .. MaxTime] \cup {Idle}]
  BY Zenon, <1>4 DEF IInv, StateTyped
<1>10. StateTyped'
  BY Zenon, <1>3, <1>4, <1>8, <1>9 DEF IInv, StateTyped
<1>11. IInv'
  BY Zenon, <1>8, <1>10 DEF IInv
<1> QED BY Zenon, <1>3, <1>4, <1>7, <1>8, <1>11

LEMMA MarkProcessedFacts ==
    ASSUME IInv, NEW p \in Procs, NEW m \in Msgs, MarkProcessed(p, m)
    PROVE  /\ IInv'
           /\ taken' = "none"
           /\ \A i \in DOMAIN disk : \E j \in DOMAIN disk' :
                disk'[j].msg = disk[i].msg /\ disk'[j].at = disk[i].at
           /\ ~corrupt /\ corrupt' => torn
<1> DEFINE t == Processed(disk, m)
           a == m \in PendingIds(disk)
<1>1. Cache(p) = disk
  BY Zenon, CacheIsDisk
<1>2. /\ a /\ Write(p, t, a, t)
      /\ taken' = "none" /\ UNCHANGED <<up, checked, now>>
  BY Zenon, <1>1 DEF MarkProcessed
<1>3. CacheOK(disk)
  BY Zenon DEF IInv
<1>4. /\ CacheOK(t) /\ DOMAIN t = DOMAIN disk
      /\ \A i \in DOMAIN disk : t[i].msg = disk[i].msg /\ t[i].at = disk[i].at
  BY Zenon, <1>3, ProcessedFacts
<1> HIDE DEF t, a
<1>5. /\ disk' = t
      /\ CacheOK(disk') /\ MemTyped' /\ FreshIsFold'
      /\ torn' \in BOOLEAN /\ corrupt' \in BOOLEAN /\ size' \in Nat
      /\ fresh' \in [Procs -> BOOLEAN]
      /\ ~corrupt /\ corrupt' => torn
  BY Zenon, <1>2, <1>4, WriteFacts
<1>6. StateTyped'
  BY Zenon, <1>2, <1>5 DEF IInv, StateTyped
<1>7. IInv'
  BY Zenon, <1>5, <1>6 DEF IInv
<1> QED BY Zenon, <1>2, <1>4, <1>5, <1>7
LEMMA ValidateKeeps ==
    ASSUME IInv, NEW p \in Procs, NEW m \in Msgs, Validate(p, m)
    PROVE  IInv'
<1>1. /\ checked' = [checked EXCEPT ![p] = [msg |-> m, at |-> now]] /\ taken' = "none"
      /\ UNCHANGED <<disk, torn, corrupt, size, up, mem, fresh, now>>
  BY Zenon DEF Validate
<1>2. now \in 0 .. MaxTime
  BY Zenon DEF IInv, StateTyped
<1>3. [msg |-> m, at |-> now] \in [msg: Msgs, at: 0 .. MaxTime]
  BY Zenon, <1>2
<1>4. checked' \in [Procs -> [msg: Msgs, at: 0 .. MaxTime] \cup {Idle}]
  BY Zenon, <1>1, <1>3 DEF IInv, StateTyped
<1>5. StateTyped'
  BY Zenon, <1>1, <1>4 DEF IInv, StateTyped
<1> QED BY Zenon, <1>1, <1>5 DEF IInv, MemTyped, FreshIsFold

LEMMA RefuseKeeps ==
    ASSUME IInv, NEW p \in Procs, Refuse(p)
    PROVE  IInv'
<1> DEFINE c == IF Ready(p) THEN Cache(p) ELSE mem[p]
<1>1. /\ mem' = [mem EXCEPT ![p] = c]
      /\ size' = IF Ready(p) THEN LoadedSize(p) ELSE size
      /\ torn' = (torn /\ ~(Ready(p) /\ Compacts(p)))
      /\ fresh' = [q \in Procs |->
            IF q = p THEN Ready(p) ELSE fresh[q] /\ ~(Ready(p) /\ Compacts(p))]
      /\ checked' = [checked EXCEPT ![p] = Idle] /\ taken' = "none"
      /\ UNCHANGED <<disk, corrupt, up, now>>
  BY Zenon DEF Refuse
<1>2. Ready(p) => c = disk
  BY Zenon, CacheIsDisk
<1>3. c \in {disk, mem[p], <<>>}
  BY Zenon, <1>2
<1> HIDE DEF c
<1>4. size' \in Nat
  BY Zenon, <1>1, LoadedSizeTyped DEF IInv, StateTyped
<1>5. torn' \in BOOLEAN
  BY Zenon, <1>1
<1>6. fresh' \in [Procs -> BOOLEAN]
  <2>1. Ready(p) \in BOOLEAN
    BY Zenon DEF IInv, StateTyped, Ready
  <2> QED BY Zenon, <1>1, <2>1
<1>7. \A q \in Procs : fresh'[q] => (q = p /\ c = disk) \/ (q # p /\ fresh[q])
  BY Zenon, <1>1, <1>2
<1>8. checked' \in [Procs -> [msg: Msgs, at: 0 .. MaxTime] \cup {Idle}]
  BY Zenon, <1>1 DEF IInv, StateTyped
<1>9. StateTyped'
  BY Zenon, <1>1, <1>4, <1>5, <1>6, <1>8 DEF IInv, StateTyped
<1> QED BY Zenon, <1>1, <1>3, <1>7, <1>9, RefoldKeeps

LEMMA ReadKeeps ==
    ASSUME IInv, NEW p \in Procs, Read(p)
    PROVE  IInv'
<1>1. /\ mem' = [mem EXCEPT ![p] = disk] /\ size' = LoadedSize(p)
      /\ torn' = (torn /\ ~Compacts(p))
      /\ fresh' = [q \in Procs |-> q = p \/ (fresh[q] /\ ~Compacts(p))]
      /\ taken' = "none" /\ UNCHANGED <<disk, corrupt, up, checked, now>>
  BY Zenon DEF Read
<1>2. size' \in Nat /\ torn' \in BOOLEAN
  BY Zenon, <1>1, LoadedSizeTyped
<1>3. fresh' \in [Procs -> BOOLEAN]
  BY Zenon, <1>1
<1>4. \A q \in Procs : fresh'[q] => q = p \/ fresh[q]
  BY Zenon, <1>1
<1>5. StateTyped'
  BY Zenon, <1>1, <1>2, <1>3 DEF IInv, StateTyped
<1> QED BY Zenon, <1>1, <1>4, <1>5, RefoldKeeps

LEMMA StartKeeps ==
    ASSUME IInv, NEW p \in Procs, Start(p)
    PROVE  IInv'
<1>1. /\ mem' = [mem EXCEPT ![p] = disk] /\ size' = LoadedSize(p)
      /\ up' = [up EXCEPT ![p] = TRUE] /\ torn' = (torn /\ ~Compacts(p))
      /\ fresh' = [q \in Procs |-> q = p \/ (fresh[q] /\ ~Compacts(p))]
      /\ taken' = "none" /\ UNCHANGED <<disk, corrupt, checked, now>>
  BY Zenon DEF Start
<1>2. size' \in Nat /\ torn' \in BOOLEAN
  BY Zenon, <1>1, LoadedSizeTyped
<1>3. fresh' \in [Procs -> BOOLEAN] /\ up' \in [Procs -> BOOLEAN]
  BY Zenon, <1>1 DEF IInv, StateTyped
<1>4. \A q \in Procs : fresh'[q] => q = p \/ fresh[q]
  BY Zenon, <1>1
<1>5. StateTyped'
  BY Zenon, <1>1, <1>2, <1>3 DEF IInv, StateTyped
<1> QED BY Zenon, <1>1, <1>4, <1>5, RefoldKeeps

LEMMA CrashKeeps ==
    ASSUME IInv, NEW p \in Procs, Crash(p)
    PROVE  IInv'
<1>1. /\ mem' = [mem EXCEPT ![p] = <<>>] /\ up' = [up EXCEPT ![p] = FALSE]
      /\ fresh' = [fresh EXCEPT ![p] = FALSE] /\ checked' = [checked EXCEPT ![p] = Idle]
      /\ taken' = "none" /\ UNCHANGED <<disk, torn, corrupt, size, now>>
  BY Zenon DEF Crash
<1>2. /\ fresh' \in [Procs -> BOOLEAN] /\ up' \in [Procs -> BOOLEAN]
      /\ checked' \in [Procs -> [msg: Msgs, at: 0 .. MaxTime] \cup {Idle}]
  BY Zenon, <1>1 DEF IInv, StateTyped
<1>3. \A q \in Procs : fresh'[q] => q # p /\ fresh[q]
  BY Zenon, <1>1 DEF IInv, StateTyped
<1>4. StateTyped'
  BY Zenon, <1>1, <1>2 DEF IInv, StateTyped
<1> QED BY Zenon, <1>1, <1>3, <1>4, RefoldKeeps

LEMMA TearKeeps ==
    ASSUME IInv, NEW p \in Procs, Tear(p)
    PROVE  IInv'
<1>1. PICK alive \in BOOLEAN :
        /\ up' = [up EXCEPT ![p] = alive]
        /\ mem' = [mem EXCEPT ![p] = IF alive THEN Cache(p) ELSE <<>>]
  BY Zenon DEF Tear
<1>2. /\ torn' = TRUE /\ fresh' = [q \in Procs |-> FALSE]
      /\ checked' = [checked EXCEPT ![p] = Idle]
      /\ size' = LoadedSize(p)
      /\ taken' = "none" /\ UNCHANGED <<disk, corrupt, now>>
  BY Zenon DEF Tear
<1>3. /\ fresh' \in [Procs -> BOOLEAN] /\ up' \in [Procs -> BOOLEAN]
      /\ checked' \in [Procs -> [msg: Msgs, at: 0 .. MaxTime] \cup {Idle}]
  BY Zenon, <1>1, <1>2 DEF IInv, StateTyped
<1>4. \A q \in Procs : ~fresh'[q]
  BY Zenon, <1>2
<1>5. StateTyped'
  BY Zenon, <1>2, <1>3, LoadedSizeTyped DEF IInv, StateTyped
<1> DEFINE c == IF alive THEN Cache(p) ELSE <<>>
<1>6. c \in {disk, mem[p], <<>>} /\ mem' = [mem EXCEPT ![p] = c]
  BY Zenon, <1>1, CacheIsDisk
<1> HIDE DEF c
<1> QED BY Zenon, <1>2, <1>4, <1>5, <1>6, RefoldKeeps

LEMMA TickKeeps ==
    ASSUME IInv, Tick
    PROVE  IInv'
<1>1. taken' = "none" /\ UNCHANGED <<disk, torn, corrupt, size, up, mem, fresh, checked>>
  BY Zenon DEF Tick
<1>2. now' \in 0 .. MaxTime
  BY InboxConstants DEF Tick, IInv, StateTyped
<1>3. StateTyped'
  BY Zenon, <1>1, <1>2 DEF IInv, StateTyped
<1> QED BY Zenon, <1>1, <1>3 DEF IInv, MemTyped, FreshIsFold

-----------------------------------------------------------------------------
(* The theorems *)

LEMMA InitHolds == Init => IInv
<1> SUFFICES ASSUME Init PROVE IInv
  BY Zenon
<1>1. StateTyped
  <2>1. size \in Nat /\ now \in 0 .. MaxTime
    BY InboxConstants DEF Init
  <2>2. up \in [Procs -> BOOLEAN] /\ fresh \in [Procs -> BOOLEAN]
    BY Zenon DEF Init
  <2>3. checked \in [Procs -> [msg: Msgs, at: 0 .. MaxTime] \cup {Idle}]
    BY Zenon DEF Init
  <2> QED BY Zenon, <2>1, <2>2, <2>3 DEF Init, StateTyped
<1>2. CacheOK(disk)
  BY InboxConstants DEF Init, CacheOK, Unique
<1>3. MemTyped
  BY InboxConstants DEF Init, MemTyped
<1>4. FreshIsFold
  BY Zenon DEF Init, FreshIsFold
<1> QED BY Zenon, <1>1, <1>2, <1>3, <1>4 DEF IInv

LEMMA NextKeeps == IInv /\ [Next]_vars => IInv'
<1> SUFFICES ASSUME IInv, [Next]_vars PROVE IInv'
  BY Zenon
<1>1. CASE UNCHANGED vars
  BY Zenon, <1>1 DEF vars, IInv, StateTyped, MemTyped, FreshIsFold
<1>2. ASSUME NEW p \in Procs, NEW m \in Msgs, Validate(p, m) \/ MarkProcessed(p, m)
      PROVE  IInv'
  BY Zenon, <1>2, ValidateKeeps, MarkProcessedFacts
<1>3. ASSUME NEW p \in Procs, Accept(p) \/ Refuse(p) \/ Read(p)
      PROVE  IInv'
  BY Zenon, <1>3, AcceptFacts, RefuseKeeps, ReadKeeps
<1>4. ASSUME NEW p \in Procs, Start(p) \/ Crash(p) \/ Tear(p)
      PROVE  IInv'
  BY Zenon, <1>4, StartKeeps, CrashKeeps, TearKeeps
<1> QED BY Zenon, <1>1, <1>2, <1>3, <1>4, TickKeeps DEF Next

\* Every step of every process, of a crash and of a torn append included, keeps
\* the strengthened invariant of the replay cache.
THEOREM Inductive == Spec => []IInv
BY InitHolds, NextKeeps, PTL DEF Spec

\* A step that is neither an acceptance nor a mark_processed leaves the
\* journal's fold and its shape alone.
LEMMA OtherSteps ==
    ASSUME IInv, Next
    PROVE  \/ \E p \in Procs : Accept(p)
           \/ \E p \in Procs, m \in Msgs : MarkProcessed(p, m)
           \/ disk' = disk /\ corrupt' = corrupt /\ taken' = "none"
BY Zenon DEF Next, Validate, Refuse, Read, Start, Crash, Tear, Tick

\* A process that skips the re-fold holds the journal's fold, in its order.
THEOREM InboxMemoryIsTheFold == Spec => []MemoryIsTheFold
<1>1. IInv => MemoryIsTheFold
  BY Zenon DEF IInv, FreshIsFold, MemoryIsTheFold
<1> QED BY <1>1, Inductive, PTL

\* No interleaving of accept() in several processes gets a message or a nonce
\* into the cache twice, or the cache beyond its bound.
THEOREM InboxNoReplayCached == Spec => []NoReplayCached
<1>1. IInv => NoReplayCached
  BY Zenon DEF IInv, StateTyped, MemTyped, CacheOK, Unique, NoReplayCached, TypeOK
<1> QED BY <1>1, Inductive, PTL

\* accept() never succeeds for a nonce the journal remembers, however long before
\* the commit it was checked.
THEOREM InboxRememberedIsRefused == Spec => RememberedIsRefused
<1> DEFINE A == taken' # "none" => ~NonceUsed(disk, taken')
<1>1. IInv /\ [Next]_vars => [A]_vars
  <2> SUFFICES ASSUME IInv, Next PROVE A
    BY Zenon
  <2>1. ASSUME NEW p \in Procs, Accept(p) PROVE A
    BY Zenon, <2>1, AcceptFacts
  <2>2. ASSUME NEW p \in Procs, NEW m \in Msgs, MarkProcessed(p, m) PROVE A
    BY Zenon, <2>2, MarkProcessedFacts
  <2> QED BY Zenon, <2>1, <2>2, OtherSteps
<1> QED BY <1>1, Inductive, PTL DEF Spec, RememberedIsRefused

\* An accepted message that is still to be processed is never lost, by eviction
\* or compaction, and keeps the time of its acceptance.
THEOREM InboxPendingNeverLost == Spec => PendingNeverLost
<1> DEFINE A == \A i \in DOMAIN disk : disk[i].pending =>
                   \E j \in DOMAIN disk' : /\ disk'[j].msg = disk[i].msg
                                           /\ disk'[j].at = disk[i].at
<1>1. IInv /\ [Next]_vars => [A]_vars
  <2> SUFFICES ASSUME IInv, Next PROVE A
    BY Zenon
  <2>1. ASSUME NEW p \in Procs, Accept(p) PROVE A
    <3>1. \A i \in DOMAIN disk : disk[i].pending => \E j \in DOMAIN disk' : disk'[j] = disk[i]
      BY Zenon, <2>1, AcceptFacts
    <3> QED BY Zenon, <3>1
  <2>2. ASSUME NEW p \in Procs, NEW m \in Msgs, MarkProcessed(p, m) PROVE A
    BY Zenon, <2>2, MarkProcessedFacts
  <2>3. CASE disk' = disk
    BY Zenon, <2>3
  <2> QED BY Zenon, <2>1, <2>2, <2>3, OtherSteps
<1> QED BY <1>1, Inductive, PTL DEF Spec, PendingNeverLost

\* A step that makes a folding journal unreadable writes after a torn tail.
THEOREM InboxOnlyGluingCorrupts == Spec => OnlyGluingCorrupts
<1> DEFINE A == ~corrupt /\ corrupt' => torn
<1>1. IInv /\ [Next]_vars => [A]_vars
  <2> SUFFICES ASSUME IInv, Next PROVE A
    BY Zenon
  <2>1. ASSUME NEW p \in Procs, Accept(p) PROVE A
    BY Zenon, <2>1, AcceptFacts
  <2>2. ASSUME NEW p \in Procs, NEW m \in Msgs, MarkProcessed(p, m) PROVE A
    BY Zenon, <2>2, MarkProcessedFacts
  <2> QED BY Zenon, <2>1, <2>2, OtherSteps
<1> QED BY <1>1, Inductive, PTL DEF Spec, OnlyGluingCorrupts
=============================================================================
