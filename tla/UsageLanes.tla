----------------------------- MODULE UsageLanes -----------------------------
(***************************************************************************)
(* The usage-event engine of crates/routeplane/src/observability.rs: request*)
(* threads admit events into one bounded lane per tenant, a writer task     *)
(* moves them into per-tenant rings, and shutdown drains                    *)
(* the lanes within a time limit or abandons them.                          *)
(*                                                                          *)
(* Every atomic and every channel operation is a step.  An event is the     *)
(* thread that recorded it and its number; what the reports make of its     *)
(* fields is in UsageReports.                                               *)
(***************************************************************************)
EXTENDS Integers, Sequences, FiniteSets, SequencesExt

CONSTANTS
    Producer,     \* request threads
    NumTenants,   \* configured tenants, in sorted order
    INGEST_CHANNEL_CAPACITY,
    MAX_RETAINED_EVENTS,
    MaxEvents     \* bound: events recorded in all

Tenant == 1..NumTenants
Unregistered == 0        \* no tenant, or one that was not configured
Reason == {"unregistered_tenant", "zero_share", "full", "closed"}
Event == Producer \X (1..MaxEvents)

\* What the constants are.
Configured ==
    IsFiniteSet(Producer) /\ {NumTenants, INGEST_CHANNEL_CAPACITY, MAX_RETAINED_EVENTS, MaxEvents} \subseteq Nat

VARIABLES
    accepting,    \* AtomicBool
    slots,        \* free permits of each lane's semaphore
    lane,         \* the bounded channels
    scheduled,    \* one AtomicBool per lane
    ready,        \* the ready channel
    ring,         \* recent_events: <<sequence, event>>
    sequence,     \* AtomicU64
    drops,        \* admission_drops, by reason
    usage_evictions,
    shutdown,     \* the watch channel
    writer_task,  \* "running", "drain", "done" or "aborted"
    awaited,      \* shutdown() took the JoinHandle
    wpc, turn, hand, round,   \* writer: place, lane, QueuedUsage in hand, drain progress
    pc, at, next,             \* per thread: place, tenant, number of its event
    kept, lost    \* history: events retained by each tenant, events dropped

engineVars == <<accepting, slots, drops, shutdown, writer_task, awaited>>
writerVars == <<ring, sequence, usage_evictions, wpc, turn, hand, round, kept>>
threadVars == <<pc, at, next>>
vars == <<engineVars, writerVars, threadVars, lane, scheduled, ready, lost>>

\* partition(): the quotient each, the remainder to the first tenants.
partition(total, t) == total \div NumTenants + (IF t <= total % NumTenants THEN 1 ELSE 0)

\* A tenant with a zero share of either resource gets no lane.
HasLane(t) ==
    /\ t # Unregistered
    /\ partition(INGEST_CHANNEL_CAPACITY, t) > 0
    /\ partition(MAX_RETAINED_EVENTS, t) > 0
Lanes == {t \in Tenant : HasLane(t)}

\* ObservabilityEngine::new: each lane starts with its share of permits.
Init ==
    /\ accepting = TRUE
    /\ slots = [t \in Lanes |-> partition(INGEST_CHANNEL_CAPACITY, t)]
    /\ lane = [t \in Lanes |-> <<>>]
    /\ scheduled = [t \in Lanes |-> FALSE]
    /\ ready = <<>>
    /\ ring = [t \in Lanes |-> <<>>]
    /\ sequence = 0
    /\ drops = [r \in Reason |-> 0]
    /\ usage_evictions = 0
    /\ shutdown = FALSE /\ writer_task = "running" /\ awaited = FALSE
    /\ wpc = "select" /\ turn = 0 /\ hand = <<>> /\ round = FALSE
    /\ pc = [p \in Producer |-> "idle"]
    /\ at = [p \in Producer |-> 0]
    /\ next = [p \in Producer |-> 0]
    /\ kept = [t \in Lanes |-> <<>>]
    /\ lost = {}

-----------------------------------------------------------------------------
\* Request threads: record_usage and admit_usage

Goto(p, where) == pc' = [pc EXCEPT ![p] = where]
EventOf(p) == <<p, next[p]>>
Offered == {e \in Event : e[2] <= next[e[1]]}

record_drop(reason, S) ==
    /\ drops' = [drops EXCEPT ![reason] = @ + Cardinality(S)]
    /\ lost' = lost \cup S

\* record_usage hands the event over; admit_usage loads accepting.
RecordUsage(p, t) ==
    /\ pc[p] = "idle" /\ Cardinality(Offered) < MaxEvents
    /\ at' = [at EXCEPT ![p] = t]
    /\ next' = [next EXCEPT ![p] = @ + 1]
    /\ IF accepting
       THEN Goto(p, "acquire") /\ UNCHANGED <<drops, lost>>
       ELSE record_drop("closed", {<<p, next[p] + 1>>}) /\ UNCHANGED pc
    /\ UNCHANGED <<accepting, slots, shutdown, writer_task, awaited, writerVars, lane, scheduled, ready>>

\* The tenant's registration, its lane and its permit, each with its own reason.
Acquire(p) ==
    /\ pc[p] = "acquire"
    /\ \/ /\ at[p] = Unregistered
          /\ record_drop("unregistered_tenant", {EventOf(p)})
          /\ Goto(p, "idle") /\ UNCHANGED slots
       \/ /\ at[p] \in Tenant \ Lanes
          /\ record_drop("zero_share", {EventOf(p)})
          /\ Goto(p, "idle") /\ UNCHANGED slots
       \/ /\ at[p] \in Lanes /\ slots[at[p]] = 0
          /\ record_drop("full", {EventOf(p)})
          /\ Goto(p, "idle") /\ UNCHANGED slots
       \/ /\ at[p] \in Lanes /\ slots[at[p]] > 0
          /\ slots' = [slots EXCEPT ![at[p]] = @ - 1]
          /\ Goto(p, "send") /\ UNCHANGED <<drops, lost>>
    /\ UNCHANGED <<accepting, shutdown, writer_task, awaited, writerVars, at, next, lane, scheduled, ready>>

Closed == writer_task # "running"

\* The returned QueuedUsage is forgotten: its permit never comes back.
TrySendMutant(p) ==
    /\ pc[p] = "send"
    /\ IF Closed
       THEN record_drop("closed", {EventOf(p)}) /\ Goto(p, "idle") /\ UNCHANGED <<slots, lane>>
       ELSE /\ lane' = [lane EXCEPT ![at[p]] = Append(@, EventOf(p))]
            /\ Goto(p, "sched")
            /\ UNCHANGED <<slots, drops, lost>>
    /\ UNCHANGED <<accepting, shutdown, writer_task, awaited, writerVars, at, next, scheduled, ready>>

\* tx.try_send: a closed lane hands the QueuedUsage back and its drop releases
\* the permit and settles the event as closed.
TrySend(p) ==
    /\ pc[p] = "send"
    /\ IF Closed
       THEN /\ record_drop("closed", {EventOf(p)})
            /\ slots' = [slots EXCEPT ![at[p]] = @ + 1]
            /\ Goto(p, "idle") /\ UNCHANGED lane
       ELSE /\ lane' = [lane EXCEPT ![at[p]] = Append(@, EventOf(p))]
            /\ Goto(p, "sched")
            /\ UNCHANGED <<slots, drops, lost>>
    /\ UNCHANGED <<accepting, shutdown, writer_task, awaited, writerVars, at, next, scheduled, ready>>

\* compare_exchange(false, true): the winner owes the ready channel a token.
Schedule(p) ==
    /\ pc[p] = "sched"
    /\ Goto(p, IF scheduled[at[p]] THEN "idle" ELSE "token")
    /\ scheduled' = [scheduled EXCEPT ![at[p]] = TRUE]
    /\ UNCHANGED <<engineVars, writerVars, at, next, lane, ready, lost>>

\* ready_tx.try_send, of one place per lane; a refused token clears the bit.
SendToken(p) ==
    /\ pc[p] = "token"
    /\ IF writer_task \in {"running", "drain"} /\ Len(ready) < Cardinality(Lanes)
       THEN ready' = Append(ready, at[p]) /\ UNCHANGED scheduled
       ELSE scheduled' = [scheduled EXCEPT ![at[p]] = FALSE] /\ UNCHANGED ready
    /\ Goto(p, "idle")
    /\ UNCHANGED <<engineVars, writerVars, at, next, lane, lost>>

-----------------------------------------------------------------------------
\* The writer task

\* select!: the shutdown signal, or the next ready lane, whose head is taken.
Select ==
    /\ writer_task = "running" /\ wpc = "select"
    /\ \/ shutdown /\ writer_task' = "drain" /\ wpc' = "drain" /\ round' = FALSE
          /\ turn' = 0 /\ UNCHANGED <<ready, hand, lane>>
       \/ /\ ready # <<>>
          /\ turn' = Head(ready) /\ ready' = Tail(ready)
          /\ LET q == lane[Head(ready)] IN
               IF q = <<>>
               THEN wpc' = "empty" /\ UNCHANGED <<hand, lane>>
               ELSE /\ hand' = <<Head(q)>> /\ lane' = [lane EXCEPT ![Head(ready)] = Tail(q)]
                    /\ wpc' = "retain"
          /\ UNCHANGED <<writer_task, round>>
    /\ UNCHANGED <<accepting, slots, drops, shutdown, awaited, ring, sequence, usage_evictions, kept, threadVars, scheduled, lost>>

\* A token for an empty lane only clears the bit.
EmptyTurn ==
    /\ writer_task = "running" /\ wpc = "empty"
    /\ scheduled' = [scheduled EXCEPT ![turn] = FALSE]
    /\ wpc' = "select"
    /\ UNCHANGED <<engineVars, ring, sequence, usage_evictions, turn, hand, round, kept, threadVars, lane, ready, lost>>

Alive == writer_task \in {"running", "drain"}

\* An off-by-one: the ring holds one event more than its share.
RetainMutant ==
    /\ Alive /\ wpc = "retain" 
    /\ LET full == Len(ring[turn]) > partition(MAX_RETAINED_EVENTS, turn)
           room == IF full THEN Tail(ring[turn]) ELSE ring[turn]
       IN  /\ ring' = [ring EXCEPT ![turn] = Append(room, <<sequence, hand[1]>>)]
           /\ usage_evictions' = usage_evictions + (IF full THEN 1 ELSE 0)
    /\ sequence' = sequence + 1
    /\ kept' = [kept EXCEPT ![turn] = Append(@, hand[1])]
    /\ slots' = [slots EXCEPT ![turn] = @ + 1]
    /\ hand' = <<>>
    /\ wpc' = IF writer_task = "drain" THEN "drain" ELSE "clear"
    /\ UNCHANGED <<accepting, drops, shutdown, writer_task, awaited, turn, round, threadVars, lane, scheduled, ready, lost>>

\* dispatch_queued_usage and try_retain_queued_usage: the event takes the next
\* sequence number, retries try_lock while a reader holds the ring (a stuttering
\* step), pushes out the oldest event of a full ring, gives its permit back.
Retain ==
    /\ Alive /\ wpc = "retain" 
    /\ LET full == Len(ring[turn]) >= partition(MAX_RETAINED_EVENTS, turn)
           room == IF full THEN Tail(ring[turn]) ELSE ring[turn]
       IN  /\ ring' = [ring EXCEPT ![turn] = Append(room, <<sequence, hand[1]>>)]
           /\ usage_evictions' = usage_evictions + (IF full THEN 1 ELSE 0)
    /\ sequence' = sequence + 1
    /\ kept' = [kept EXCEPT ![turn] = Append(@, hand[1])]
    /\ slots' = [slots EXCEPT ![turn] = @ + 1]
    /\ hand' = <<>>
    /\ wpc' = IF writer_task = "drain" THEN "drain" ELSE "clear"
    /\ UNCHANGED <<accepting, drops, shutdown, writer_task, awaited, turn, round, threadVars, lane, scheduled, ready, lost>>

\* After the turn: clear the bit, look again, and take the bit back for what
\* arrived meanwhile.
ClearBit ==
    /\ writer_task = "running" /\ wpc = "clear"
    /\ scheduled' = [scheduled EXCEPT ![turn] = FALSE]
    /\ wpc' = "look"
    /\ UNCHANGED <<engineVars, ring, sequence, usage_evictions, turn, hand, round, kept, threadVars, lane, ready, lost>>

LookAgain ==
    /\ writer_task = "running" /\ wpc = "look"
    /\ IF lane[turn] # <<>> /\ ~scheduled[turn]
       THEN scheduled' = [scheduled EXCEPT ![turn] = TRUE] /\ wpc' = "requeue"
       ELSE UNCHANGED scheduled /\ wpc' = "select"
    /\ UNCHANGED <<engineVars, ring, sequence, usage_evictions, turn, hand, round, kept, threadVars, lane, ready, lost>>

Requeue ==
    /\ writer_task = "running" /\ wpc = "requeue"
    /\ IF Len(ready) < Cardinality(Lanes)
       THEN ready' = Append(ready, turn) /\ UNCHANGED scheduled
       ELSE scheduled' = [scheduled EXCEPT ![turn] = FALSE] /\ UNCHANGED ready
    /\ wpc' = "select"
    /\ UNCHANGED <<engineVars, ring, sequence, usage_evictions, turn, hand, round, kept, threadVars, lane, lost>>

\* The drain of the closed lanes: one event per lane and round, until a round
\* finds nothing; then the task ends.
Drain ==
    /\ writer_task = "drain" /\ wpc = "drain"
    /\ LET t == turn + 1 IN
         \/ /\ t <= NumTenants
            /\ turn' = t
            /\ IF t \in Lanes /\ lane[t] # <<>>
               THEN /\ hand' = <<Head(lane[t])>> /\ lane' = [lane EXCEPT ![t] = Tail(@)]
                    /\ round' = TRUE /\ wpc' = "retain"
               ELSE UNCHANGED <<hand, lane, round, wpc>>
            /\ UNCHANGED writer_task
         \/ /\ t > NumTenants /\ round
            /\ turn' = 0 /\ round' = FALSE
            /\ UNCHANGED <<hand, lane, wpc, writer_task>>
         \/ /\ t > NumTenants /\ ~round
            /\ writer_task' = "done"
            /\ UNCHANGED <<hand, lane, wpc, turn, round>>
    /\ UNCHANGED <<accepting, slots, drops, shutdown, awaited, ring, sequence, usage_evictions, kept, threadVars, scheduled, ready, lost>>

-----------------------------------------------------------------------------
\* Shutdown

\* shutdown(): stop accepting, signal, and take the task once.
Shutdown ==
    /\ ~awaited
    /\ accepting' = FALSE /\ shutdown' = TRUE /\ awaited' = TRUE
    /\ UNCHANGED <<slots, drops, writer_task, writerVars, threadVars, lane, scheduled, ready, lost>>

Abandoned == {hand[i] : i \in 1..Len(hand)} \cup UNION {ToSet(lane[t]) : t \in Lanes}

\* The abandoned events vanish without being counted.
ShutdownTimeoutMutant ==
    /\ awaited /\ Alive
    /\ writer_task' = "aborted"
    /\ hand' = <<>> /\ lane' = [t \in Lanes |-> <<>>]
    /\ slots' = [t \in Lanes |-> slots[t] + Len(lane[t]) + (IF turn = t THEN Len(hand) ELSE 0)]
    /\ lost' = lost \cup Abandoned
    /\ UNCHANGED <<accepting, drops, shutdown, awaited, ring, sequence, usage_evictions, wpc, turn, round, kept, threadVars, scheduled, ready>>

\* The bound passes first: the task is aborted, and everything it held drops,
\* each QueuedUsage settling as closed and releasing its permit.
ShutdownTimeout ==
    /\ awaited /\ Alive
    /\ writer_task' = "aborted"
    /\ hand' = <<>> /\ lane' = [t \in Lanes |-> <<>>]
    /\ slots' = [t \in Lanes |-> slots[t] + Len(lane[t]) + (IF turn = t THEN Len(hand) ELSE 0)]
    /\ record_drop("closed", Abandoned)
    /\ UNCHANGED <<accepting, shutdown, awaited, ring, sequence, usage_evictions, wpc, turn, round, kept, threadVars, scheduled, ready>>

Writer == Select \/ EmptyTurn \/ Retain \/ ClearBit \/ LookAgain \/ Requeue \/ Drain
Step(p) == Acquire(p) \/ TrySend(p) \/ Schedule(p) \/ SendToken(p)

Next ==
    \/ \E p \in Producer, t \in 0..NumTenants : RecordUsage(p, t)
    \/ \E p \in Producer : Step(p)
    \/ Writer
    \/ Shutdown \/ ShutdownTimeout

\* Request threads are scheduled and the timer of shutdown() fires; nothing is
\* assumed of the writer task, which may starve behind readers of a ring.
Spec ==
    /\ Init /\ [][Next]_vars
    /\ \A p \in Producer : WF_vars(Step(p))
    /\ WF_vars(ShutdownTimeout)

-----------------------------------------------------------------------------
\* A permit is held exactly by an event between try_acquire and its settlement:
\* whatever the order of sends, turns and shutdown, none leaks and none is
\* returned twice (the slots Semaphore of UsageLane).
PermitsBalance == \A t \in Lanes :
    slots[t] + Len(lane[t]) + (IF turn = t THEN Len(hand) ELSE 0)
             + Cardinality({p \in Producer : pc[p] = "send" /\ at[p] = t})
        = partition(INGEST_CHANNEL_CAPACITY, t)

\* The events that were retained once and pushed out since, by tenant and number.
Missing == UNION {{t} \X (1..(Len(kept[t]) - Len(ring[t]))) : t \in Lanes}

\* A tenant's ring is the newest part of what was retained for it, in the order
\* of its sequence numbers, and every missing event is one counted eviction.
RingIsLatest ==
    /\ \A t \in Lanes :
         LET missing == Len(kept[t]) - Len(ring[t]) IN
         /\ Len(ring[t]) <= partition(MAX_RETAINED_EVENTS, t)
         /\ \A i \in 1..Len(ring[t]) : ring[t][i][2] = kept[t][missing + i]
         /\ \A i, j \in 1..Len(ring[t]) : i < j => ring[t][i][1] < ring[t][j][1]
    /\ usage_evictions = Cardinality(Missing)

-----------------------------------------------------------------------------
\* What the engine promises: see UsageLedger.
Kept == UNION {ToSet(kept[t]) : t \in Lanes}

Ledger == INSTANCE UsageLedger WITH
    pending <- Offered \ (Kept \cup lost),
    retained <- Kept,
    dropped <- lost,
    drops <- drops["unregistered_tenant"] + drops["zero_share"] + drops["full"] + drops["closed"],
    open <- accepting

\* The lanes implement the ledger: each recorded event is retained or counted
\* under one drop reason, exactly once, and after shutdown() every event still
\* in flight is settled (UsageSettlement, dispatch_queued_usage, shutdown).
UsageSettlesOnce == Ledger!Spec
=============================================================================
