--------------------------- MODULE StoreLifecycle ---------------------------
(***************************************************************************)
(* What the storage manager promises about the life of a task store, with *)
(* no files, locks or clock: a store is registered under a key that has    *)
(* none; it may be marked for reclaim; a pass of the collector hands the   *)
(* marks it made to the next pass; a store is removed only when it is      *)
(* marked and its mark was handed over by an earlier, finished pass (spec  *)
(* 4.6 steps 3-4), or by CleanUp once it has begun (4.6, "bypasses         *)
(* thresholds and grace").  A restart loses everything but what reload     *)
(* brings back, unmarked.                                                  *)
(***************************************************************************)
CONSTANTS Keys

VARIABLES
    live,     \* keys with a store in the manager's map
    marked,   \* live keys whose store is marked for reclaim
    handed,   \* keys the previous finished pass handed over for reclaim
    closing   \* CleanUp has begun

vars == <<live, marked, handed, closing>>

Init == live = {} /\ marked = {} /\ handed = {} /\ closing = FALSE

Add(k) ==
    /\ k \notin live
    /\ live' = live \cup {k}
    /\ UNCHANGED <<marked, handed, closing>>

MarkSome(S) ==
    /\ S # {} /\ S \subseteq live
    /\ marked' = marked \cup S
    /\ UNCHANGED <<live, handed, closing>>

\* A pass ends and hands over some of the marks it holds; keys that are
\* no longer live may be among them.
HandOver(S) ==
    /\ handed = {}
    /\ S \cap live \subseteq marked
    /\ handed' = S
    /\ UNCHANGED <<live, marked, closing>>

Remove(k) ==
    /\ k \in handed \cap marked
    /\ live' = live \ {k}
    /\ marked' = marked \ {k}
    /\ handed' = handed \ {k}
    /\ UNCHANGED closing

\* A handed-over key that is no longer live is dropped.
Release(k) ==
    /\ k \in handed \ live
    /\ handed' = handed \ {k}
    /\ UNCHANGED <<live, marked, closing>>

Close ==
    /\ ~closing
    /\ closing' = TRUE
    /\ UNCHANGED <<live, marked, handed>>

ForceRemove(k) ==
    /\ closing
    /\ k \in live
    /\ live' = live \ {k}
    /\ marked' = marked \ {k}
    /\ UNCHANGED <<handed, closing>>

Recover ==
    /\ live' \in SUBSET Keys
    /\ marked' = {}
    /\ handed' = {}
    /\ closing' = FALSE

Next ==
    \/ \E k \in Keys : Add(k) \/ Remove(k) \/ Release(k) \/ ForceRemove(k)
    \/ \E S \in SUBSET Keys : MarkSome(S) \/ HandOver(S)
    \/ Close
    \/ Recover

Spec == Init /\ [][Next]_vars

=============================================================================
