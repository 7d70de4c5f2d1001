----------------------------- MODULE WriteLanes -----------------------------
(***************************************************************************)
(* The write-behind path of the exact-match cache (crates/cache/src/lib.rs):*)
(* request threads push inserts into one bounded lane per tenant, a         *)
(* scheduled bit per lane admits at most one ready token, and one writer    *)
(* thread drains the lanes an operation per turn.                           *)
(*                                                                          *)
(* Every atomic operation and every channel operation is one action.  The   *)
(* entry an insert carries is abstracted to its cost in bytes; the map the  *)
(* writer maintains (CacheCore::apply_insert) is not part of this module,   *)
(* done[l] records the order in which lane l's operations reach it.  The    *)
(* drop counters are metrics nothing reads back, and are left out.          *)
(***************************************************************************)
EXTENDS Integers, Sequences, FiniteSets, Functions

CONSTANTS
    Producer,      \* request threads calling ExactCache::insert
    Flusher,       \* threads calling ExactCache::flush
    NumLanes,      \* one lane per configured tenant
    LaneCapacity,  \* WRITE_LANE_CAPACITY
    WriterBudget,  \* writer_budgets: queued bytes a lane may hold
    Cost,          \* the entry costs that occur
    MaxOps         \* bound: operations each thread starts

ASSUME ThreadAssumption ==
    IsFiniteSet(Producer) /\ IsFiniteSet(Flusher) /\ Producer \cap Flusher = {}
ASSUME LaneAssumption == NumLanes \in Nat \ {0} /\ LaneCapacity \in Nat \ {0}
ASSUME CostAssumption == WriterBudget \in Nat /\ Cost \subseteq Nat
ASSUME MaxOpsAssumption == MaxOps \in Nat

Lane == 1..NumLanes
Thread == Producer \cup Flusher

\* LaneOp: an Insert of a producer, or the Barrier of a flusher (cost 0).
Op == [by : Thread, n : 0..MaxOps, cost : Cost \cup {0}]

VARIABLES
    lane,        \* the bounded channels
    pending,     \* pending[l]: the writer's Option<LaneOp>, as a sequence
    scheduled,   \* the AtomicBool of each lane
    ready,       \* the ready channel
    localReady,  \* the writer's own FIFO
    queued,      \* queued_bytes
    pc, at, cost, seen, left,   \* per thread: place, lane, cost, loaded bytes, ops left
    acks,        \* acknowledgements each flusher has received
    wpc, turn, hand,            \* the writer: place, lane of its turn, operation in hand
    closed,      \* the senders are gone (ExactCache::shutdown)
    sent, done,  \* history: operations sent to and applied from each lane
    mark         \* history: how much was sent to each lane when a flush began

threadVars == <<pc, at, cost, seen, left>>
writerVars == <<pending, localReady, wpc, turn, hand>>
vars == <<lane, scheduled, ready, queued, threadVars, acks, writerVars, closed, sent, done, mark>>

Goto(p, where) == pc' = [pc EXCEPT ![p] = where]

TypeOK ==
    /\ lane \in [Lane -> Seq(Op)] /\ \A l \in Lane : Len(lane[l]) <= LaneCapacity
    /\ pending \in [Lane -> Seq(Op)] /\ \A l \in Lane : Len(pending[l]) <= 1
    /\ scheduled \in [Lane -> BOOLEAN]
    /\ ready \in Seq(Lane) /\ localReady \in Seq(Lane)
    /\ queued \in [Lane -> Nat]
    /\ pc \in [Thread -> {"idle", "reserve", "send", "undo", "sched", "token", "await"}]
    /\ at \in [Thread -> Lane]
    /\ cost \in [Thread -> Cost \cup {0}]
    /\ seen \in [Thread -> Nat]
    /\ left \in [Thread -> 0..MaxOps]
    /\ acks \in [Flusher -> 0..NumLanes]
    /\ wpc \in {"next", "take", "clear", "apply", "finish", "fin_clear", "fin_check", "fin_cas", "done"}
    /\ turn \in Lane
    /\ hand \in Seq(Op) /\ Len(hand) <= 1
    /\ closed \in BOOLEAN
    /\ sent \in [Lane -> Seq(Op)] /\ done \in [Lane -> Seq(Op)]
    /\ mark \in [Flusher -> [Lane -> Nat]]

Init ==
    /\ lane = [l \in Lane |-> <<>>]
    /\ pending = [l \in Lane |-> <<>>]
    /\ scheduled = [l \in Lane |-> FALSE]
    /\ ready = <<>> /\ localReady = <<>>
    /\ queued = [l \in Lane |-> 0]
    /\ pc = [p \in Thread |-> "idle"]
    /\ at = [p \in Thread |-> 1]
    /\ cost = [p \in Thread |-> 0]
    /\ seen = [p \in Thread |-> 0]
    /\ left = [p \in Thread |-> MaxOps]
    /\ acks = [f \in Flusher |-> 0]
    /\ wpc = "next" /\ turn = 1 /\ hand = <<>>
    /\ closed = FALSE
    /\ sent = [l \in Lane |-> <<>>]
    /\ done = [l \in Lane |-> <<>>]
    /\ mark = [f \in Flusher |-> [l \in Lane |-> 0]]

-----------------------------------------------------------------------------
\* Request threads

\* try_insert up to the load of queued_bytes.  An entry larger than the lane's
\* budget is dropped before it touches anything.
TryInsert(p, l, c) ==
    /\ pc[p] = "idle" /\ left[p] > 0 /\ ~closed
    /\ c <= WriterBudget
    /\ at' = [at EXCEPT ![p] = l]
    /\ cost' = [cost EXCEPT ![p] = c]
    /\ seen' = [seen EXCEPT ![p] = queued[l]]
    /\ left' = [left EXCEPT ![p] = @ - 1]
    /\ Goto(p, "reserve")
    /\ UNCHANGED <<lane, scheduled, ready, queued, acks, writerVars, closed, sent, done, mark>>

\* Without the recheck after a failed exchange.
ReserveBytesMutant(p) ==
    /\ pc[p] = "reserve"
    /\ \/ /\ seen[p] + cost[p] > WriterBudget
          /\ Goto(p, "idle")
          /\ UNCHANGED queued
       \/ /\ seen[p] + cost[p] <= WriterBudget
          /\ queued' = [queued EXCEPT ![at[p]] = @ + cost[p]]
          /\ Goto(p, "send")
    /\ UNCHANGED <<seen, lane, scheduled, ready, at, cost, left, acks, writerVars, closed, sent, done, mark>>

\* One turn of the loop of reserve_bytes: refuse past the budget, else exchange,
\* and on failure go round with the value observed.
ReserveBytes(p) ==
    /\ pc[p] = "reserve"
    /\ \/ /\ seen[p] + cost[p] > WriterBudget
          /\ Goto(p, "idle")
          /\ UNCHANGED <<queued, seen>>
       \/ /\ seen[p] + cost[p] <= WriterBudget
          /\ queued[at[p]] = seen[p]
          /\ queued' = [queued EXCEPT ![at[p]] = @ + cost[p]]
          /\ Goto(p, "send")
          /\ UNCHANGED seen
       \/ /\ seen[p] + cost[p] <= WriterBudget
          /\ queued[at[p]] # seen[p]
          /\ seen' = [seen EXCEPT ![p] = queued[at[p]]]
          /\ UNCHANGED <<queued, pc>>
    /\ UNCHANGED <<lane, scheduled, ready, at, cost, left, acks, writerVars, closed, sent, done, mark>>

Push(p) ==
    LET op == [by |-> p, n |-> left[p], cost |-> cost[p]]
    IN  /\ lane' = [lane EXCEPT ![at[p]] = Append(@, op)]
        /\ sent' = [sent EXCEPT ![at[p]] = Append(@, op)]

\* lanes[i].try_send(Insert): a full lane hands the operation back.
TrySend(p) ==
    /\ pc[p] = "send" /\ p \in Producer
    /\ \/ Len(lane[at[p]]) < LaneCapacity /\ Push(p) /\ Goto(p, "sched")
       \/ Len(lane[at[p]]) >= LaneCapacity /\ UNCHANGED <<lane, sent>> /\ Goto(p, "undo")
    /\ UNCHANGED <<scheduled, ready, queued, at, cost, seen, left, acks, writerVars, closed, done, mark>>

\* The error arm gives the bytes back by hand, and Drop gives them back again.
DropRefusedMutant(p) ==
    /\ pc[p] = "undo"
    /\ queued' = [queued EXCEPT ![at[p]] = @ - 2 * cost[p]]
    /\ Goto(p, "idle")
    /\ UNCHANGED <<lane, scheduled, ready, at, cost, seen, left, acks, writerVars, closed, sent, done, mark>>

\* The refused operation drops: ReservedInsert::drop releases its bytes.
DropRefused(p) ==
    /\ pc[p] = "undo"
    /\ queued' = [queued EXCEPT ![at[p]] = @ - cost[p]]
    /\ Goto(p, "idle")
    /\ UNCHANGED <<lane, scheduled, ready, at, cost, seen, left, acks, writerVars, closed, sent, done, mark>>

\* flush(): a Barrier into every lane in turn (send blocks while a lane is full).
Flush(f) ==
    /\ pc[f] = "idle" /\ left[f] > 0 /\ ~closed
    /\ at' = [at EXCEPT ![f] = 1]
    /\ left' = [left EXCEPT ![f] = @ - 1]
    /\ acks' = [acks EXCEPT ![f] = 0]
    /\ mark' = [mark EXCEPT ![f] = [l \in Lane |-> Len(sent[l])]]
    /\ Goto(f, "send")
    /\ UNCHANGED <<lane, scheduled, ready, queued, cost, seen, writerVars, closed, sent, done>>

SendBarrier(f) ==
    /\ pc[f] = "send" /\ f \in Flusher
    /\ Len(lane[at[f]]) < LaneCapacity
    /\ Push(f)
    /\ Goto(f, "sched")
    /\ UNCHANGED <<scheduled, ready, queued, at, cost, seen, left, acks, writerVars, closed, done, mark>>

\* Where a thread goes when schedule() returns: an insert is over, a flush goes
\* on to the next lane and then waits for its acknowledgements.
Scheduled(p) ==
    \/ p \in Producer /\ Goto(p, "idle") /\ UNCHANGED at
    \/ p \in Flusher /\ at[p] < NumLanes /\ Goto(p, "send") /\ at' = [at EXCEPT ![p] = @ + 1]
    \/ p \in Flusher /\ at[p] = NumLanes /\ Goto(p, "await") /\ UNCHANGED at

\* The bit tested, then set: a store in place of the exchange.
ScheduleMutant(p) ==
    /\ pc[p] = "sched"
    /\ scheduled' = [scheduled EXCEPT ![at[p]] = TRUE]
    /\ Goto(p, "token") /\ UNCHANGED at
    /\ UNCHANGED <<lane, ready, queued, cost, seen, left, acks, writerVars, closed, sent, done, mark>>

\* schedule(): exchange the bit; the winner owes the ready channel a token.
Schedule(p) ==
    /\ pc[p] = "sched"
    /\ \/ /\ ~scheduled[at[p]]
          /\ scheduled' = [scheduled EXCEPT ![at[p]] = TRUE]
          /\ Goto(p, "token") /\ UNCHANGED at
       \/ scheduled[at[p]] /\ Scheduled(p) /\ UNCHANGED scheduled
    /\ UNCHANGED <<lane, ready, queued, cost, seen, left, acks, writerVars, closed, sent, done, mark>>

\* ready.try_send: TokenUnique says why the channel is never full here.
SendToken(p) ==
    /\ pc[p] = "token"
    /\ ready' = Append(ready, at[p])
    /\ Scheduled(p)
    /\ UNCHANGED <<lane, scheduled, queued, cost, seen, left, acks, writerVars, closed, sent, done, mark>>

\* Content with the first acknowledgement.
AcknowledgedMutant(f) ==
    /\ pc[f] = "await" /\ acks[f] > 0
    /\ Goto(f, "idle")
    /\ UNCHANGED <<lane, scheduled, ready, queued, at, cost, seen, left, acks, writerVars, closed, sent, done, mark>>

\* ack_rx.recv() for every lane.
Acknowledged(f) ==
    /\ pc[f] = "await" /\ acks[f] = NumLanes
    /\ Goto(f, "idle")
    /\ UNCHANGED <<lane, scheduled, ready, queued, at, cost, seen, left, acks, writerVars, closed, sent, done, mark>>

\* shutdown() consumes the cache: no thread is inside it, and the senders drop.
Shutdown ==
    /\ ~closed /\ \A p \in Thread : pc[p] = "idle"
    /\ closed' = TRUE
    /\ UNCHANGED <<lane, scheduled, ready, queued, threadVars, acks, writerVars, sent, done, mark>>

-----------------------------------------------------------------------------
\* The writer thread

\* collect_newly_ready, and the blocking recv of next(): one token moves to the
\* writer's own FIFO.
Collect ==
    /\ wpc = "next" /\ ready # <<>>
    /\ localReady' = Append(localReady, Head(ready))
    /\ ready' = Tail(ready)
    /\ UNCHANGED <<lane, scheduled, queued, threadVars, acks, pending, wpc, turn, hand, closed, sent, done, mark>>

\* try_next: no newer token, so the oldest one has its turn.
Pop ==
    /\ wpc = "next" /\ ready = <<>> /\ localReady # <<>>
    /\ turn' = Head(localReady)
    /\ localReady' = Tail(localReady)
    /\ wpc' = "take"
    /\ UNCHANGED <<lane, scheduled, ready, queued, threadVars, acks, pending, hand, closed, sent, done, mark>>

\* next() returns None: the senders are gone and no token is left.
Exit ==
    /\ wpc = "next" /\ closed /\ ready = <<>> /\ localReady = <<>>
    /\ wpc' = "done"
    /\ UNCHANGED <<lane, scheduled, ready, queued, threadVars, acks, pending, localReady, turn, hand, closed, sent, done, mark>>

\* Reading the lane before the operation kept from the last turn.
TakeReadyMutant ==
    /\ wpc = "take"
    /\ \/ /\ lane[turn] # <<>>
          /\ hand' = <<Head(lane[turn])>>
          /\ lane' = [lane EXCEPT ![turn] = Tail(@)]
          /\ UNCHANGED pending
       \/ /\ lane[turn] = <<>>
          /\ hand' = pending[turn]
          /\ pending' = [pending EXCEPT ![turn] = <<>>]
          /\ UNCHANGED lane
    /\ wpc' = IF hand' = <<>> THEN "clear" ELSE "apply"
    /\ UNCHANGED <<scheduled, ready, queued, threadVars, acks, localReady, turn, closed, sent, done, mark>>

\* take_ready: the pending operation first, else the lane.
TakeReady ==
    /\ wpc = "take"
    /\ \/ /\ pending[turn] # <<>>
          /\ hand' = pending[turn]
          /\ pending' = [pending EXCEPT ![turn] = <<>>]
          /\ wpc' = "apply" /\ UNCHANGED lane
       \/ /\ pending[turn] = <<>> /\ lane[turn] # <<>>
          /\ hand' = <<Head(lane[turn])>>
          /\ lane' = [lane EXCEPT ![turn] = Tail(@)]
          /\ wpc' = "apply" /\ UNCHANGED pending
       \/ /\ pending[turn] = <<>> /\ lane[turn] = <<>>
          /\ wpc' = "clear" /\ UNCHANGED <<hand, lane, pending>>
    /\ UNCHANGED <<scheduled, ready, queued, threadVars, acks, localReady, turn, closed, sent, done, mark>>

\* take_ready on an empty lane: "A stale token is harmless."
ClearStale ==
    /\ wpc = "clear"
    /\ scheduled' = [scheduled EXCEPT ![turn] = FALSE]
    /\ wpc' = "next"
    /\ UNCHANGED <<lane, ready, queued, threadVars, acks, pending, localReady, turn, hand, closed, sent, done, mark>>

\* The writer loop: an Insert is applied and dropped, which releases its bytes;
\* a Barrier is acknowledged (the channel has a slot per lane).
Apply ==
    /\ wpc = "apply"
    /\ done' = [done EXCEPT ![turn] = Append(@, hand[1])]
    /\ \/ /\ hand[1].by \in Producer
          /\ queued' = [queued EXCEPT ![turn] = @ - hand[1].cost]
          /\ UNCHANGED acks
       \/ /\ hand[1].by \in Flusher
          /\ acks' = [acks EXCEPT ![hand[1].by] = @ + 1]
          /\ UNCHANGED queued
    /\ hand' = <<>>
    /\ wpc' = "finish"
    /\ UNCHANGED <<lane, scheduled, ready, threadVars, pending, localReady, turn, closed, sent, mark>>

\* finish_turn: more work keeps the token; a disconnected lane gives it up at
\* once, an empty one after a second look.
FinishTurn ==
    /\ wpc = "finish"
    /\ \/ /\ lane[turn] # <<>>
          /\ pending' = [pending EXCEPT ![turn] = <<Head(lane[turn])>>]
          /\ lane' = [lane EXCEPT ![turn] = Tail(@)]
          /\ localReady' = Append(localReady, turn)
          /\ wpc' = "next" /\ UNCHANGED scheduled
       \/ /\ lane[turn] = <<>> /\ closed
          /\ scheduled' = [scheduled EXCEPT ![turn] = FALSE]
          /\ wpc' = "next" /\ UNCHANGED <<pending, lane, localReady>>
       \/ /\ lane[turn] = <<>> /\ ~closed
          /\ wpc' = "fin_clear" /\ UNCHANGED <<pending, lane, localReady, scheduled>>
    /\ UNCHANGED <<ready, queued, threadVars, acks, turn, hand, closed, sent, done, mark>>

FinishClear ==
    /\ wpc = "fin_clear"
    /\ scheduled' = [scheduled EXCEPT ![turn] = FALSE]
    /\ wpc' = "fin_check"
    /\ UNCHANGED <<lane, ready, queued, threadVars, acks, pending, localReady, turn, hand, closed, sent, done, mark>>

FinishCheck ==
    /\ wpc = "fin_check"
    /\ \/ /\ lane[turn] # <<>>
          /\ pending' = [pending EXCEPT ![turn] = <<Head(lane[turn])>>]
          /\ lane' = [lane EXCEPT ![turn] = Tail(@)]
          /\ wpc' = "fin_cas"
       \/ lane[turn] = <<>> /\ wpc' = "next" /\ UNCHANGED <<pending, lane>>
    /\ UNCHANGED <<scheduled, ready, queued, threadVars, acks, localReady, turn, hand, closed, sent, done, mark>>

\* The discovered operation left to whichever producer comes next.
FinishCasMutant ==
    /\ wpc = "fin_cas"
    /\ wpc' = "next"
    /\ UNCHANGED <<lane, scheduled, ready, queued, threadVars, acks, pending, localReady, turn, hand, closed, sent, done, mark>>

\* Take the token back, unless a producer has just issued one.
FinishCas ==
    /\ wpc = "fin_cas"
    /\ \/ /\ ~scheduled[turn]
          /\ scheduled' = [scheduled EXCEPT ![turn] = TRUE]
          /\ localReady' = Append(localReady, turn)
       \/ scheduled[turn] /\ UNCHANGED <<scheduled, localReady>>
    /\ wpc' = "next"
    /\ UNCHANGED <<lane, ready, queued, threadVars, acks, pending, turn, hand, closed, sent, done, mark>>

Writer ==
    \/ Collect \/ Pop \/ Exit
    \/ TakeReady \/ ClearStale \/ Apply
    \/ FinishTurn \/ FinishClear \/ FinishCheck \/ FinishCas

ThreadStep(p) ==
    \/ ReserveBytes(p) \/ TrySend(p) \/ DropRefused(p) \/ SendBarrier(p)
    \/ Schedule(p) \/ SendToken(p)
    \/ p \in Flusher /\ Acknowledged(p)

Next ==
    \/ \E p \in Producer, l \in Lane, c \in Cost : TryInsert(p, l, c)
    \/ \E f \in Flusher : Flush(f)
    \/ \E p \in Thread : ThreadStep(p)
    \/ Shutdown
    \/ Writer

Spec == Init /\ [][Next]_vars

\* Every thread that is inside an operation is scheduled, the writer included.
\* New operations are not promised.
FairSpec == Spec /\ WF_vars(Writer) /\ \A p \in Thread : WF_vars(ThreadStep(p))

-----------------------------------------------------------------------------
\* Safety

\* Threads that hold a byte reservation of lane l outside the channel.
Reserving(l) == {p \in Producer : at[p] = l /\ pc[p] \in {"send", "undo"}}

Backlog(l) ==
    (IF turn = l THEN hand ELSE <<>>) \o pending[l] \o lane[l]

CostOf(s) == SumFunction([i \in DOMAIN s |-> s[i].cost])

\* queued_bytes is exactly what the live reservations of the lane add up to,
\* on the way in, in the channel, kept by the writer or in its hand, and it
\* never exceeds the lane's share of the writer envelope.
BytesAccounted ==
    \A l \in Lane :
        /\ queued[l] = CostOf(Backlog(l)) + SumFunctionOnSet(cost, Reserving(l))
        /\ queued[l] <= WriterBudget

\* Every operation sent is applied exactly once and in the order its lane
\* received it: what was sent is what was applied, then what is in the writer's
\* hand, then what it kept pending, then what is queued.
FifoExactlyOnce == \A l \in Lane : sent[l] = done[l] \o Backlog(l)

Occurrences(l, s) == Cardinality({i \in DOMAIN s : s[i] = l})

\* Tokens of lane l: owed by a thread, in either queue, or in use by the writer.
Tokens(l) ==
    Occurrences(l, ready) + Occurrences(l, localReady)
    + Cardinality({p \in Thread : pc[p] = "token" /\ at[p] = l})
    + (IF turn = l /\ wpc \in {"take", "clear", "apply", "finish", "fin_clear"} THEN 1 ELSE 0)

\* The scheduled bit stands for one token and no more, so the ready channel,
\* with a slot per tenant and one to spare, is never full when schedule()
\* sends: the failure branch of its try_send needs a dead writer.
TokenUnique == \A l \in Lane : Tokens(l) = IF scheduled[l] THEN 1 ELSE 0

\* The accounts of the lanes: the reserved bytes of a lane are those of the operations
\* somebody still holds, and a scheduled bit stands for exactly one token, so a send to
\* the ready channel cannot find it full (cache/src/lib.rs, WriteAdmission).
LaneBooks == TypeOK /\ BytesAccounted /\ TokenUnique

\* "waits until every previously-queued write has been applied" (flush): a
\* flush returns only when each lane has applied all that was sent to it before
\* the flush began, other producers' writes included.
FlushIsABarrier ==
    [][\A f \in Flusher : pc[f] = "await" /\ pc'[f] = "idle" =>
           \A l \in Lane : Len(done[l]) >= mark[f][l]]_vars

-----------------------------------------------------------------------------
\* Liveness, under FairSpec

\* What the writer discovers in finish_turn it also applies.
PendingApplied == \A l \in Lane : pending[l] # <<>> ~> pending[l] = <<>>

-----------------------------------------------------------------------------
\* "A stale token is harmless" (take_ready): when the writer has gone to sleep
\* and every thread has finished scheduling, no operation is left in a lane.
NothingStranded ==
    (/\ wpc = "next" /\ ready = <<>> /\ localReady = <<>>
     /\ \A p \in Thread : pc[p] \in {"idle", "await"})
        => \A l \in Lane : Backlog(l) = <<>>

=============================================================================
