------------------------------- MODULE EventLog -------------------------------
(***************************************************************************)
(* What the signed event log of a node promises to those who write to it:  *)
(* entries are only ever appended, one at a time; a request gives at most  *)
(* one entry, and requests with the same semantic key give one entry       *)
(* between them; whoever is told that a request is in the log can rely on  *)
(* it.  SpineLog implements this with an intent file, a recovery by any    *)
(* process and a retry protocol.                                           *)
(***************************************************************************)
EXTENDS Naturals, Sequences

CONSTANTS
    Requests,  \* requests to append an event
    KeyOf,     \* the semantic key of each request's payload, or "none"
    ValOf      \* the rest of its payload

VARIABLES
    entries,   \* the requests whose events are in the log, in order
    told       \* requests whose callers were told that the event is there

Init == entries = <<>> /\ told = {}

\* r and s compete for one entry.
SameKey(r, s) == r = s \/ (KeyOf[r] # "none" /\ KeyOf[r] = KeyOf[s])

Commit(r) ==
    /\ \A i \in DOMAIN entries : ~SameKey(entries[i], r)
    /\ entries' = Append(entries, r)
    /\ UNCHANGED told

\* Several callers that asked in one batch are told at once.
Tell(R) ==
    /\ \A r \in R : \E i \in DOMAIN entries :
          SameKey(entries[i], r) /\ ValOf[entries[i]] = ValOf[r]
    /\ told' = told \cup R
    /\ UNCHANGED entries

Next ==
    \/ \E r \in Requests : Commit(r)
    \/ \E R \in SUBSET Requests : Tell(R)

Spec == Init /\ [][Next]_<<entries, told>>
=============================================================================
