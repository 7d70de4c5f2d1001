---------------------------- MODULE UsageLedger -----------------------------
(***************************************************************************)
(* What the usage stream of crates/routeplane/src/observability.rs promises *)
(* its callers: every event handed to record_usage is settled exactly once, *)
(* either retained for its tenant or counted as dropped, and once the engine*)
(* stops accepting nothing stays unsettled.                                 *)
(***************************************************************************)
EXTENDS Integers, FiniteSets

CONSTANT Event

VARIABLES
    pending,    \* events handed over and not yet settled
    retained,   \* events that reached a tenant's ring
    dropped,    \* events that were dropped
    drops,      \* the sum of the drop counters
    open        \* the engine accepts events

vars == <<pending, retained, dropped, drops, open>>

Init == pending = {} /\ retained = {} /\ dropped = {} /\ drops = 0 /\ open = TRUE

Record(e) ==
    /\ e \notin pending \cup retained \cup dropped
    /\ pending' = pending \cup {e}
    /\ UNCHANGED <<retained, dropped, drops, open>>

\* Once closed, an event may be dropped on arrival.
Refuse(e) ==
    /\ ~open
    /\ e \notin pending \cup retained \cup dropped
    /\ dropped' = dropped \cup {e}
    /\ drops' = drops + 1
    /\ UNCHANGED <<pending, retained, open>>

Retain(e) ==
    /\ e \in pending
    /\ pending' = pending \ {e}
    /\ retained' = retained \cup {e}
    /\ UNCHANGED <<dropped, drops, open>>

\* Several events at once: an aborted writer drops all it held.
Drop(S) ==
    /\ S # {}
    /\ pending' = pending \ S
    /\ dropped' = dropped \cup S
    /\ drops' = drops + Cardinality(S)
    /\ UNCHANGED <<retained, open>>

Close ==
    /\ open' = FALSE
    /\ UNCHANGED <<pending, retained, dropped, drops>>

Next ==
    \/ \E e \in Event : Record(e) \/ Refuse(e) \/ Retain(e)
    \/ \E S \in SUBSET pending : Drop(S)
    \/ Close

Settle == (\E e \in Event : Retain(e)) \/ (\E S \in SUBSET pending : Drop(S))

Spec == Init /\ [][Next]_vars /\ WF_vars(~open /\ Settle)
=============================================================================
