---------------------------- MODULE ServicesProofs ----------------------------
(***************************************************************************)
(* What the services around the request path promise, for every value of    *)
(* their constants: one section per service with its inductive invariant,   *)
(* and at the end the theorems of the composition Services.                 *)
(***************************************************************************)
EXTENDS Services, FiniteSetTheorems, WellFoundedInduction, TLAPS

\* The quotient bounds the dividend.
LEMMA DivBounds ==
  ASSUME NEW a \in Nat, NEW n \in Nat, n > 0
  PROVE  /\ a \div n \in Nat /\ (a \div n) * n <= a /\ a < (a \div n) * n + n
OBVIOUS

(***************************************************************************)
(* UsageLanes                                                               *)
(***************************************************************************)

Noted == Producer \X Nat
Places == {"idle", "acquire", "send", "sched", "token"}
InTurn == {"empty", "retain", "clear", "look", "requeue"}

\* A thread that holds a permit or a place in a lane has a tenant with a lane.
ThreadsTyped ==
    /\ pc \in [Producer -> Places] /\ DOMAIN at = Producer /\ next \in [Producer -> Nat]
    /\ \A p \in Producer : pc[p] \in {"send", "sched", "token"} => at[p] \in Lanes
LanesTyped ==
    slots \in [Lanes -> Int] /\ lane \in [Lanes -> Seq(Noted)] /\ ready \in Seq(Lanes)
RingsTyped ==
    /\ sequence \in Nat
    /\ ring \in [Lanes -> Seq(Nat \X Noted)] /\ kept \in [Lanes -> Seq(Noted)]
\* An event is in the writer's hand from its lane's turn to its retention, or to the end.
Turns ==
    /\ wpc \in InTurn \cup {"select", "drain"} /\ turn \in Nat
    /\ wpc \in InTurn => turn \in Lanes
    /\ wpc = "retain" /\ Alive => Len(hand) = 1 /\ hand \in Seq(Noted)
    /\ ~(wpc = "retain" /\ Alive) => hand = <<>>

SendersOf(q, a, t) == {p \in Producer : q[p] = "send" /\ a[p] = t}
Balanced(free, queue, tu, held, q, a) == \A t \in Lanes :
    free[t] + Len(queue[t]) + (IF tu = t THEN Len(held) ELSE 0) + Cardinality(SendersOf(q, a, t))
        = partition(INGEST_CHANNEL_CAPACITY, t)

\* What is in a ring is the end of what was retained, in the order of its numbers.
Latest(r, k, n, t) ==
    /\ Len(r) <= partition(MAX_RETAINED_EVENTS, t) /\ Len(r) <= Len(k)
    /\ \A i \in 1..Len(r) : r[i][2] = k[Len(k) - Len(r) + i] /\ r[i][1] < n
    /\ \A i, j \in 1..Len(r) : i < j => r[i][1] < r[j][1]
MissingOf(k, r) == UNION {{t} \X (1..(Len(k[t]) - Len(r[t]))) : t \in Lanes}
Rings ==
    /\ \A t \in Lanes : Latest(ring[t], kept[t], sequence, t)
    /\ IsFiniteSet(MissingOf(kept, ring)) /\ usage_evictions = Cardinality(MissingOf(kept, ring))

UsageInv ==
    /\ ThreadsTyped /\ LanesTyped /\ RingsTyped /\ Turns /\ Rings
    /\ Balanced(slots, lane, turn, hand, pc, at)

LEMMA PartitionNat ==
  ASSUME Configured, NEW t \in Lanes
  PROVE  /\ partition(INGEST_CHANNEL_CAPACITY, t) \in Nat /\ partition(MAX_RETAINED_EVENTS, t) \in Nat
         /\ partition(MAX_RETAINED_EVENTS, t) > 0
<1>1. NumTenants \in Nat /\ INGEST_CHANNEL_CAPACITY \in Nat /\ MAX_RETAINED_EVENTS \in Nat
  BY DEF Configured
<1>2. t \in 1..NumTenants /\ partition(MAX_RETAINED_EVENTS, t) > 0
  BY DEF Lanes, Tenant, HasLane
<1>3. NumTenants > 0
  BY <1>1, <1>2
<1>4. INGEST_CHANNEL_CAPACITY \div NumTenants \in Nat /\ MAX_RETAINED_EVENTS \div NumTenants \in Nat
  BY <1>1, <1>3, DivBounds
<1>5. partition(INGEST_CHANNEL_CAPACITY, t) \in Nat
  BY <1>4 DEF partition
<1>6. partition(MAX_RETAINED_EVENTS, t) \in Nat
  BY <1>4 DEF partition
<1> QED BY <1>2, <1>5, <1>6

LEMMA UsageInit == Configured /\ Init => UsageInv
<1> SUFFICES ASSUME Configured, Init PROVE UsageInv
  OBVIOUS
<1>1. /\ slots = [t \in Lanes |-> partition(INGEST_CHANNEL_CAPACITY, t)]
      /\ lane = [t \in Lanes |-> <<>>] /\ ring = [t \in Lanes |-> <<>>] /\ kept = [t \in Lanes |-> <<>>]
      /\ ready = <<>> /\ sequence = 0 /\ usage_evictions = 0 /\ wpc = "select" /\ turn = 0 /\ hand = <<>>
      /\ pc = [p \in Producer |-> "idle"] /\ at = [p \in Producer |-> 0] /\ next = [p \in Producer |-> 0]
  BY DEF Init
<1>2. ThreadsTyped /\ RingsTyped /\ Turns
  BY <1>1 DEF ThreadsTyped, RingsTyped, Turns, Places, InTurn
<1>3. LanesTyped
  BY <1>1, PartitionNat DEF LanesTyped
<1>4. Balanced(slots, lane, turn, hand, pc, at)
  <2> SUFFICES ASSUME NEW t \in Lanes
               PROVE  slots[t] + Len(lane[t]) + (IF turn = t THEN Len(hand) ELSE 0)
                        + Cardinality(SendersOf(pc, at, t)) = partition(INGEST_CHANNEL_CAPACITY, t)
    BY DEF Balanced
  <2>1. SendersOf(pc, at, t) = {}
    BY <1>1 DEF SendersOf
  <2>2. Cardinality(SendersOf(pc, at, t)) = 0
    BY <2>1, FS_EmptySet
  <2>3. slots[t] = partition(INGEST_CHANNEL_CAPACITY, t) /\ lane[t] = <<>>
    BY <1>1
  <2> QED BY <1>1, <2>2, <2>3, PartitionNat
<1>5. Rings
  <2>1. \A t \in Lanes : ring[t] = <<>> /\ kept[t] = <<>>
    BY <1>1
  <2>2. MissingOf(kept, ring) = {}
    <3>1. \A t \in Lanes : Len(kept[t]) - Len(ring[t]) = 0
      BY <2>1
    <3>2. \A t \in Lanes : 1..(Len(kept[t]) - Len(ring[t])) = {}
      <4>1. 1..0 = {}
        OBVIOUS
      <4> QED BY <3>1, <4>1, Zenon
    <3> QED BY <3>2 DEF MissingOf
  <2>3. ASSUME NEW t \in Lanes PROVE Latest(ring[t], kept[t], sequence, t)
    <3>1. Len(ring[t]) = 0 /\ Len(kept[t]) = 0
      BY <2>1
    <3>2. 0 <= partition(MAX_RETAINED_EVENTS, t) /\ 1..0 = {}
      BY PartitionNat
    <3> QED BY <3>1, <3>2 DEF Latest
  <2> QED BY <1>1, <2>2, <2>3, FS_EmptySet DEF Rings
<1> QED BY <1>2, <1>3, <1>4, <1>5 DEF UsageInv

LEMMA UsageSafe == UsageInv => UsageBooks
<1> SUFFICES ASSUME UsageInv PROVE UsageBooks
  OBVIOUS
<1>1. PermitsBalance
  BY DEF UsageInv, Balanced, PermitsBalance, SendersOf
<1>2. RingIsLatest
  <2>1. Missing = MissingOf(kept, ring)
    BY DEF Missing, MissingOf
  <2>2. ASSUME NEW t \in Lanes
        PROVE  LET missing == Len(kept[t]) - Len(ring[t]) IN
               /\ Len(ring[t]) <= partition(MAX_RETAINED_EVENTS, t)
               /\ \A i \in 1..Len(ring[t]) : ring[t][i][2] = kept[t][missing + i]
               /\ \A i, j \in 1..Len(ring[t]) : i < j => ring[t][i][1] < ring[t][j][1]
    BY DEF UsageInv, Rings, Latest
  <2> QED BY <2>1, <2>2 DEF RingIsLatest, UsageInv, Rings
<1> QED BY <1>1, <1>2 DEF UsageBooks

\* A permit is given back or moves from a sender to a lane.
LEMMA PermitMoves ==
  ASSUME NEW free \in Int, NEW l \in Nat, NEW h \in Nat, NEW b \in Nat, NEW w, NEW v,
         free + l + h + (b + 1) = v, w = free + l + 1
  PROVE  w + h + b = v
OBVIOUS

\* A ring stays the end of what was retained when its oldest event goes or a new one comes.
LEMMA TailLatest ==
  ASSUME NEW t \in Lanes, NEW r \in Seq(Nat \X Noted), NEW k \in Seq(Noted), NEW n \in Nat, r # <<>>,
         Latest(r, k, n, t), Configured
  PROVE  Latest(Tail(r), k, n, t)
<1> DEFINE c == partition(MAX_RETAINED_EVENTS, t)
<1>1. c \in Nat
  BY PartitionNat
<1>2. /\ Len(r) <= c /\ Len(r) <= Len(k)
      /\ \A i \in 1..Len(r) : r[i][2] = k[Len(k) - Len(r) + i] /\ r[i][1] < n
      /\ \A i, j \in 1..Len(r) : i < j => r[i][1] < r[j][1]
  BY DEF Latest
<1> HIDE DEF c
<1>3. /\ Len(r) \in Nat /\ Len(r) > 0 /\ Len(Tail(r)) = Len(r) - 1 /\ Len(k) \in Nat
      /\ \A i \in 1..Len(Tail(r)) : Tail(r)[i] = r[i + 1]
  OBVIOUS
<1>4. Len(Tail(r)) <= c /\ Len(Tail(r)) <= Len(k)
  BY <1>1, <1>2, <1>3
<1>5. ASSUME NEW i \in 1..Len(Tail(r))
      PROVE  Tail(r)[i][2] = k[Len(k) - Len(Tail(r)) + i] /\ Tail(r)[i][1] < n
  <2>1. i + 1 \in 1..Len(r) /\ Len(k) - Len(Tail(r)) + i = Len(k) - Len(r) + (i + 1) /\ Tail(r)[i] = r[i + 1]
    BY <1>3
  <2> QED BY <1>2, <2>1
<1>6. ASSUME NEW i \in 1..Len(Tail(r)), NEW j \in 1..Len(Tail(r)), i < j PROVE Tail(r)[i][1] < Tail(r)[j][1]
  <2>1. i + 1 \in 1..Len(r) /\ j + 1 \in 1..Len(r) /\ i + 1 < j + 1 /\ Tail(r)[i] = r[i + 1] /\ Tail(r)[j] = r[j + 1]
    BY <1>3, <1>6
  <2> QED BY <1>2, <2>1
<1> QED BY <1>4, <1>5, <1>6 DEF Latest, c

LEMMA AppendLatest ==
  ASSUME NEW t \in Lanes, NEW r \in Seq(Nat \X Noted), NEW k \in Seq(Noted), NEW n \in Nat, NEW e \in Noted,
         Len(r) < partition(MAX_RETAINED_EVENTS, t), Latest(r, k, n, t), Configured
  PROVE  Latest(Append(r, <<n, e>>), Append(k, e), n + 1, t)
<1> DEFINE c == partition(MAX_RETAINED_EVENTS, t)
           r2 == Append(r, <<n, e>>)
           k2 == Append(k, e)
<1>1. c \in Nat /\ Len(r) < c
  BY PartitionNat
<1>2. /\ Len(r) <= Len(k)
      /\ \A i \in 1..Len(r) : r[i][2] = k[Len(k) - Len(r) + i] /\ r[i][1] < n
      /\ \A i, j \in 1..Len(r) : i < j => r[i][1] < r[j][1]
  BY DEF Latest
<1>3. /\ Len(r) \in Nat /\ Len(k) \in Nat /\ Len(r2) = Len(r) + 1 /\ Len(k2) = Len(k) + 1
      /\ \A i \in 1..Len(r) : r2[i] = r[i] /\ r[i] \in Nat \X Noted
      /\ \A i \in 1..Len(k) : k2[i] = k[i]
      /\ r2[Len(r) + 1] = <<n, e>> /\ k2[Len(k) + 1] = e
  OBVIOUS
<1>4. <<n, e>>[1] = n /\ <<n, e>>[2] = e
  OBVIOUS
<1> HIDE DEF c, r2, k2
<1>5. Len(r2) <= c /\ Len(r2) <= Len(k2)
  BY <1>1, <1>2, <1>3
<1>6. ASSUME NEW i \in 1..Len(r2) PROVE r2[i][2] = k2[Len(k2) - Len(r2) + i] /\ r2[i][1] < n + 1
  <2>1. CASE i \in 1..Len(r)
    <3>1. Len(k2) - Len(r2) + i = Len(k) - Len(r) + i /\ Len(k) - Len(r) + i \in 1..Len(k)
      BY <1>2, <1>3, <2>1
    <3>2. r[i][1] \in Nat /\ r[i][1] < n /\ r2[i] = r[i] /\ r[i][2] = k[Len(k) - Len(r) + i]
      BY <1>2, <1>3, <2>1
    <3>3. r[i][1] < n + 1
      BY <3>2
    <3> QED BY <1>3, <3>1, <3>2, <3>3
  <2>2. CASE i = Len(r) + 1
    <3>1. Len(k2) - Len(r2) + i = Len(k) + 1 /\ n < n + 1
      BY <1>3, <2>2
    <3> QED BY <1>3, <1>4, <2>2, <3>1
  <2> QED BY <1>3, <2>1, <2>2
<1>7. ASSUME NEW i \in 1..Len(r2), NEW j \in 1..Len(r2), i < j PROVE r2[i][1] < r2[j][1]
  <2>1. i \in 1..Len(r)
    BY <1>3, <1>7
  <2>2. CASE j \in 1..Len(r)
    BY <1>2, <1>3, <1>7, <2>1, <2>2
  <2>3. CASE j = Len(r) + 1
    BY <1>2, <1>3, <1>4, <2>1, <2>3
  <2> QED BY <1>3, <2>2, <2>3
<1> QED BY <1>5, <1>6, <1>7 DEF Latest, c, r2, k2

\* What is missing, and what one more eviction adds to it.
LEMMA MissingIs ==
  ASSUME NEW k, NEW r, NEW z
  PROVE  z \in MissingOf(k, r) <=> \E t \in Lanes : \E i \in 1..(Len(k[t]) - Len(r[t])) : z = <<t, i>>
<1> DEFINE D(t) == 1..(Len(k[t]) - Len(r[t]))
<1>1. z \in MissingOf(k, r) <=> \E t \in Lanes : z \in {t} \X D(t)
  BY DEF MissingOf
<1> HIDE DEF D
<1>2. ASSUME NEW t PROVE z \in {t} \X D(t) <=> \E i \in D(t) : z = <<t, i>>
  OBVIOUS
<1>3. z \in MissingOf(k, r) <=> \E t \in Lanes : \E i \in D(t) : z = <<t, i>>
  BY <1>1, <1>2
<1> QED BY <1>3 DEF D

EvictsOne(k, r, k2, r2, b, gone) ==
    /\ Len(k[b]) - Len(r[b]) = gone /\ Len(k2[b]) - Len(r2[b]) = gone + 1
    /\ \A t \in Lanes : t # b => Len(k2[t]) - Len(r2[t]) = Len(k[t]) - Len(r[t])
LEMMA OneMissing ==
  ASSUME NEW k, NEW r, NEW k2, NEW r2, NEW b \in Lanes, NEW gone \in Nat, EvictsOne(k, r, k2, r2, b, gone)
  PROVE  /\ MissingOf(k2, r2) = MissingOf(k, r) \cup {<<b, gone + 1>>}
         /\ <<b, gone + 1>> \notin MissingOf(k, r)
<1> DEFINE D(t) == 1..(Len(k[t]) - Len(r[t]))
           E(t) == 1..(Len(k2[t]) - Len(r2[t]))
<1>0. /\ Len(k[b]) - Len(r[b]) = gone /\ Len(k2[b]) - Len(r2[b]) = gone + 1
      /\ \A t \in Lanes : t # b => Len(k2[t]) - Len(r2[t]) = Len(k[t]) - Len(r[t])
  BY DEF EvictsOne
<1>1. \A z : z \in MissingOf(k, r) <=> \E t \in Lanes : \E i \in D(t) : z = <<t, i>>
  BY MissingIs
<1>2. \A z : z \in MissingOf(k2, r2) <=> \E t \in Lanes : \E i \in E(t) : z = <<t, i>>
  BY MissingIs
<1>3. D(b) = 1..gone /\ E(b) = 1..(gone + 1) /\ \A t \in Lanes : t # b => E(t) = D(t)
  BY <1>0
<1>4. gone + 1 \notin 1..gone /\ 1..(gone + 1) = (1..gone) \cup {gone + 1}
  OBVIOUS
<1>5. E(b) = D(b) \cup {gone + 1} /\ gone + 1 \notin D(b)
  BY <1>3, <1>4
<1> DEFINE new == gone + 1
<1>6. E(b) = D(b) \cup {new} /\ new \notin D(b) /\ \A t \in Lanes : t # b => E(t) = D(t)
  BY <1>3, <1>5
<1> HIDE DEF D, E, new
<1>7. <<b, new>> \notin MissingOf(k, r)
  BY <1>1, <1>6
<1>8. ASSUME NEW z PROVE z \in MissingOf(k2, r2) <=> z \in MissingOf(k, r) \/ z = <<b, new>>
  <2>1. ASSUME z \in MissingOf(k2, r2) PROVE z \in MissingOf(k, r) \/ z = <<b, new>>
    <3>1. PICK t \in Lanes : \E i \in E(t) : z = <<t, i>>
      BY <1>2, <2>1
    <3>2. PICK i \in E(t) : z = <<t, i>>
      BY <3>1
    <3> QED BY <1>1, <1>6, <3>2
  <2>2. ASSUME z \in MissingOf(k, r) PROVE z \in MissingOf(k2, r2)
    <3>1. PICK t \in Lanes : \E i \in D(t) : z = <<t, i>>
      BY <1>1, <2>2
    <3>2. PICK i \in D(t) : z = <<t, i>>
      BY <3>1
    <3>3. i \in E(t)
      BY <1>6
    <3> QED BY <1>2, <3>2, <3>3
  <2>3. <<b, new>> \in MissingOf(k2, r2)
    <3>1. new \in E(b)
      BY <1>6
    <3> QED BY <1>2, <3>1
  <2> QED BY <2>1, <2>2, <2>3
<1> QED BY <1>7, <1>8 DEF new

LEMMA UsageStep == Configured /\ UsageInv /\ [Next]_vars => UsageInv'
<1> SUFFICES ASSUME Configured, UsageInv, [Next]_vars PROVE UsageInv'
  OBVIOUS
\* The primed parts of the invariant, said in full.
<1> DEFINE Threads2 ==
             /\ pc' \in [Producer -> Places] /\ DOMAIN at' = Producer /\ next' \in [Producer -> Nat]
             /\ \A p \in Producer : pc'[p] \in {"send", "sched", "token"} => at'[p] \in Lanes
           Lanes2 == slots' \in [Lanes -> Int] /\ lane' \in [Lanes -> Seq(Noted)] /\ ready' \in Seq(Lanes)
           RingsTyped2 ==
             /\ sequence' \in Nat
             /\ ring' \in [Lanes -> Seq(Nat \X Noted)] /\ kept' \in [Lanes -> Seq(Noted)]
           Alive2 == writer_task' \in {"running", "drain"}
           Turns2 ==
             /\ wpc' \in InTurn \cup {"select", "drain"} /\ turn' \in Nat
             /\ wpc' \in InTurn => turn' \in Lanes
             /\ wpc' = "retain" /\ Alive2 => Len(hand') = 1 /\ hand' \in Seq(Noted)
             /\ ~(wpc' = "retain" /\ Alive2) => hand' = <<>>
           Rings2 ==
             /\ \A t \in Lanes : Latest(ring'[t], kept'[t], sequence', t)
             /\ IsFiniteSet(MissingOf(kept', ring')) /\ usage_evictions' = Cardinality(MissingOf(kept', ring'))
           Balanced2 == Balanced(slots', lane', turn', hand', pc', at')
<1> SUFFICES Threads2 /\ Lanes2 /\ RingsTyped2 /\ Turns2 /\ Rings2 /\ Balanced2
  BY Zenon DEF UsageInv, ThreadsTyped, LanesTyped, RingsTyped, Turns, Rings, Balanced, Alive, SendersOf, Latest,
     MissingOf, Noted, Places, InTurn, Lanes, HasLane, Tenant, partition, Unregistered
<1>0. /\ ThreadsTyped /\ LanesTyped /\ RingsTyped /\ Turns /\ Rings /\ Balanced(slots, lane, turn, hand, pc, at)
      /\ IsFiniteSet(Producer)
  BY DEF UsageInv, Configured
\* Nothing is retained.
<1>1. ASSUME UNCHANGED <<ring, kept, sequence, usage_evictions>> PROVE RingsTyped2 /\ Rings2
  BY <1>0, <1>1 DEF RingsTyped, Rings
\* The writer does nothing, nor is it stopped.
<1>2. ASSUME UNCHANGED <<wpc, turn, hand, writer_task>> PROVE Turns2
  BY <1>0, <1>2 DEF Turns, Alive
\* No permit moves.
<1>3. ASSUME UNCHANGED <<slots, lane, hand>>, turn' = turn \/ hand = <<>>,
             \A p \in Producer : \/ pc'[p] = pc[p] /\ at'[p] = at[p]
                                 \/ pc[p] # "send" /\ pc'[p] # "send"
      PROVE  Balanced2
  <2>1. \A t : SendersOf(pc', at', t) = SendersOf(pc, at, t)
    BY <1>3 DEF SendersOf
  <2>2. \A t : (IF turn' = t THEN Len(hand') ELSE 0) = (IF turn = t THEN Len(hand) ELSE 0)
    BY <1>3
  <2> QED BY <1>0, <1>3, <2>1, <2>2 DEF Balanced
<1> HIDE DEF RingsTyped2, Turns2, Rings2, Balanced2
\* A thread with a permit settles or sends its event.
<1>4. ASSUME NEW p \in Producer, pc[p] = "send", at[p] \in Lanes, pc'[p] # "send", UNCHANGED <<turn, hand, at>>,
             \A u \in Producer : u # p => pc'[u] = pc[u],
             \A t \in Lanes : t # at[p] => slots'[t] + Len(lane'[t]) = slots[t] + Len(lane[t]),
             slots'[at[p]] + Len(lane'[at[p]]) = slots[at[p]] + Len(lane[at[p]]) + 1
      PROVE  Balanced2
  <2> SUFFICES ASSUME NEW t \in Lanes
               PROVE  slots'[t] + Len(lane'[t]) + (IF turn' = t THEN Len(hand') ELSE 0)
                        + Cardinality(SendersOf(pc', at', t)) = partition(INGEST_CHANNEL_CAPACITY, t)
    BY DEF Balanced2, Balanced
  <2> DEFINE A == SendersOf(pc, at, t)
             B == SendersOf(pc', at', t)
             h == IF turn = t THEN Len(hand) ELSE 0
  <2>1. slots[t] + Len(lane[t]) + h + Cardinality(A) = partition(INGEST_CHANNEL_CAPACITY, t)
    BY <1>0 DEF Balanced
  <2>2. IsFiniteSet(A) /\ IsFiniteSet(B) /\ (IF turn' = t THEN Len(hand') ELSE 0) = h
    BY <1>0, <1>4, FS_Subset DEF SendersOf
  <2>3. Cardinality(A) \in Nat /\ Cardinality(B) \in Nat
    BY <2>2, FS_CardinalityType
  <2>4. slots[t] \in Int /\ lane[t] \in Seq(Noted) /\ h \in Nat
    <3>1. hand \in Seq(Noted)
      <4>1. hand = <<>> \/ hand \in Seq(Noted)
        BY <1>0 DEF Turns
      <4>2. <<>> \in Seq(Noted)
        OBVIOUS
      <4> QED BY <4>1, <4>2, Zenon
    <3> QED BY <1>0, <3>1 DEF LanesTyped
  <2>5. CASE t # at[p]
    <3>1. B = A
      BY <1>4, <2>5 DEF SendersOf
    <3> QED BY <1>4, <2>1, <2>2, <2>5, <3>1
  <2>6. CASE t = at[p]
    <3>1. A = B \cup {p} /\ p \notin B
      BY <1>4, <2>6 DEF SendersOf
    <3> HIDE DEF A, B, h
    <3>2. Cardinality(B \cup {p}) = Cardinality(B) + 1
      BY <2>2, <3>1, FS_AddElement
    <3>3. Cardinality(A) = Cardinality(B) + 1
      BY <3>1, <3>2
    <3>4. Len(lane[t]) \in Nat /\ slots'[t] + Len(lane'[t]) = slots[t] + Len(lane[t]) + 1
      BY <1>4, <2>4, <2>6
    <3> DEFINE w == slots'[t] + Len(lane'[t])
    <3>5. w = slots[t] + Len(lane[t]) + 1
      BY <3>4
    <3> HIDE DEF w
    <3>6. w + h + Cardinality(B) = partition(INGEST_CHANNEL_CAPACITY, t)
      <4>1. slots[t] \in Int /\ Len(lane[t]) \in Nat /\ h \in Nat /\ Cardinality(B) \in Nat
        BY <2>3, <2>4, <3>4
      <4>2. slots[t] + Len(lane[t]) + h + (Cardinality(B) + 1) = partition(INGEST_CHANNEL_CAPACITY, t)
        BY <2>1, <3>3
      <4> QED BY <3>5, <4>1, <4>2, PermitMoves, SMTT(30)
    <3> QED BY <2>2, <3>6 DEF B, w
  <2> QED BY <2>5, <2>6
<1>5. ASSUME UNCHANGED threadVars PROVE Threads2
  BY <1>0, <1>5 DEF threadVars, ThreadsTyped
<1>6. ASSUME UNCHANGED <<slots, lane, ready>> PROVE Lanes2
  BY <1>0, <1>6 DEF LanesTyped
<1>7. ASSUME NEW p \in Producer, NEW where \in Places, Goto(p, where), UNCHANGED <<at, next>>,
             where \in {"send", "sched", "token"} => at[p] \in Lanes
      PROVE  Threads2 /\ pc'[p] = where /\ \A u \in Producer : u # p => pc'[u] = pc[u]
  <2>1. pc' = [pc EXCEPT ![p] = where]
    BY <1>7 DEF Goto
  <2>2. pc'[p] = where /\ \A u \in Producer : u # p => pc'[u] = pc[u]
    BY <1>0, <2>1 DEF ThreadsTyped
  <2>3. pc' \in [Producer -> Places]
    BY <1>0, <2>1 DEF ThreadsTyped
  <2> QED BY <1>0, <1>7, <2>2, <2>3 DEF ThreadsTyped
<1>8. CASE UNCHANGED vars
  <2>1. /\ UNCHANGED <<slots, lane, ready>> /\ UNCHANGED threadVars /\ UNCHANGED <<pc, at, hand, turn>>
        /\ UNCHANGED <<ring, kept, sequence, usage_evictions>> /\ UNCHANGED <<wpc, turn, hand, writer_task>>
    BY <1>8 DEF vars, engineVars, writerVars, threadVars
  <2>2. Balanced2
    BY <1>3, <2>1
  <2> QED BY <1>1, <1>2, <1>5, <1>6, <2>1, <2>2
<1>9. ASSUME NEW p \in Producer, NEW t \in 0..NumTenants, RecordUsage(p, t)
      PROVE  Threads2 /\ Lanes2 /\ RingsTyped2 /\ Turns2 /\ Rings2 /\ Balanced2
  <2>1. /\ UNCHANGED <<slots, lane, ready>> /\ UNCHANGED hand /\ turn' = turn
        /\ UNCHANGED <<ring, kept, sequence, usage_evictions>> /\ UNCHANGED <<wpc, turn, hand, writer_task>>
    BY <1>9 DEF RecordUsage, writerVars
  <2>2. /\ pc[p] = "idle" /\ at' = [at EXCEPT ![p] = t] /\ next' = [next EXCEPT ![p] = @ + 1]
        /\ pc' = [pc EXCEPT ![p] = "acquire"] \/ pc' = pc
    BY <1>9 DEF RecordUsage, Goto
  <2>3. /\ pc'[p] \in {"idle", "acquire"}
        /\ \A u \in Producer : u # p => pc'[u] = pc[u] /\ at'[u] = at[u]
    BY <1>0, <2>2 DEF ThreadsTyped
  <2>4. Threads2
    <3>1. pc' \in [Producer -> Places] /\ DOMAIN at' = Producer /\ next' \in [Producer -> Nat]
      BY <1>0, <2>2 DEF ThreadsTyped, Places
    <3> QED BY <1>0, <2>3, <3>1 DEF ThreadsTyped
  <2>5. Balanced2
    BY <1>3, <2>1, <2>2, <2>3
  <2> QED BY <1>1, <1>2, <1>6, <2>1, <2>4, <2>5
<1>10. ASSUME NEW p \in Producer, Acquire(p)
       PROVE  Threads2 /\ Lanes2 /\ RingsTyped2 /\ Turns2 /\ Rings2 /\ Balanced2
  <2>1. /\ UNCHANGED <<lane, ready>> /\ UNCHANGED <<hand, turn>> /\ UNCHANGED <<at, next>>
        /\ UNCHANGED <<ring, kept, sequence, usage_evictions>> /\ UNCHANGED <<wpc, turn, hand, writer_task>>
        /\ pc[p] = "acquire"
    BY <1>10 DEF Acquire, writerVars
  <2>2. CASE Goto(p, "idle") /\ UNCHANGED slots
    <3>1. Threads2 /\ pc'[p] = "idle" /\ \A u \in Producer : u # p => pc'[u] = pc[u]
      BY <1>7, <2>1, <2>2 DEF Places
    <3>2. Balanced2
      BY <1>3, <2>1, <2>2, <3>1
    <3> QED BY <1>1, <1>2, <1>6, <2>1, <2>2, <3>1, <3>2
  <2>3. CASE at[p] \in Lanes /\ slots' = [slots EXCEPT ![at[p]] = @ - 1] /\ Goto(p, "send")
    <3>1. Threads2 /\ pc'[p] = "send" /\ \A u \in Producer : u # p => pc'[u] = pc[u]
      BY <1>7, <2>1, <2>3 DEF Places
    <3>2. Lanes2
      BY <1>0, <2>1, <2>3 DEF LanesTyped
    <3>3. Balanced2
      <4> SUFFICES ASSUME NEW t \in Lanes
                   PROVE  slots'[t] + Len(lane'[t]) + (IF turn' = t THEN Len(hand') ELSE 0)
                            + Cardinality(SendersOf(pc', at', t)) = partition(INGEST_CHANNEL_CAPACITY, t)
        BY DEF Balanced2, Balanced
      <4> DEFINE A == SendersOf(pc, at, t)
                 B == SendersOf(pc', at', t)
                 h == IF turn = t THEN Len(hand) ELSE 0
      <4>1. slots[t] + Len(lane[t]) + h + Cardinality(A) = partition(INGEST_CHANNEL_CAPACITY, t)
        BY <1>0 DEF Balanced
      <4>2. IsFiniteSet(A) /\ IsFiniteSet(B) /\ (IF turn' = t THEN Len(hand') ELSE 0) = h /\ lane'[t] = lane[t]
        BY <1>0, <2>1, FS_Subset DEF SendersOf
      <4>3. Cardinality(A) \in Nat /\ Cardinality(B) \in Nat
        BY <4>2, FS_CardinalityType
      <4>4. slots[t] \in Int /\ Len(lane[t]) \in Nat /\ h \in Nat
        <5>1. hand = <<>> \/ hand \in Seq(Noted)
          BY <1>0 DEF Turns
        <5>2. Len(hand) \in Nat
          BY <5>1
        <5> QED BY <1>0, <5>2 DEF LanesTyped
      <4>5. CASE t # at[p]
        <5>1. B = A
          BY <2>1, <3>1, <4>5 DEF SendersOf
        <5>2. slots'[t] = slots[t]
          BY <1>0, <2>3, <4>5 DEF LanesTyped
        <5> QED BY <4>1, <4>2, <5>1, <5>2
      <4>6. CASE t = at[p]
        <5>1. B = A \cup {p} /\ p \notin A
          BY <2>1, <3>1, <4>6 DEF SendersOf
        <5>2. slots'[t] = slots[t] - 1
          BY <1>0, <2>3, <4>6 DEF LanesTyped
        <5> HIDE DEF A, B, h
        <5>3. Cardinality(A \cup {p}) = Cardinality(A) + 1
          BY <4>2, <5>1, FS_AddElement
        <5>4. slots'[t] + Len(lane[t]) + h + Cardinality(B) = slots[t] + Len(lane[t]) + h + Cardinality(A)
          BY <4>3, <4>4, <5>1, <5>2, <5>3, SMTT(30)
        <5>5. slots'[t] + Len(lane'[t]) + h + Cardinality(B) = partition(INGEST_CHANNEL_CAPACITY, t)
          BY <4>1, <4>2, <5>4
        <5> QED BY <4>2, <5>5 DEF B
      <4> QED BY <4>5, <4>6
    <3> QED BY <1>1, <1>2, <2>1, <3>1, <3>2, <3>3
  <2> QED BY <1>10, <2>2, <2>3 DEF Acquire
<1>11. ASSUME NEW p \in Producer, TrySend(p)
       PROVE  Threads2 /\ Lanes2 /\ RingsTyped2 /\ Turns2 /\ Rings2 /\ Balanced2
  <2>1. /\ UNCHANGED ready /\ UNCHANGED <<turn, hand, at>> /\ UNCHANGED <<at, next>>
        /\ UNCHANGED <<ring, kept, sequence, usage_evictions>> /\ UNCHANGED <<wpc, turn, hand, writer_task>>
        /\ pc[p] = "send"
    BY <1>11 DEF TrySend, writerVars
  <2>2. at[p] \in Lanes /\ EventOf(p) \in Noted
    BY <1>0, <2>1 DEF ThreadsTyped, EventOf, Noted
  <2>3. CASE slots' = [slots EXCEPT ![at[p]] = @ + 1] /\ Goto(p, "idle") /\ UNCHANGED lane
    <3>1. Threads2 /\ pc'[p] = "idle" /\ \A u \in Producer : u # p => pc'[u] = pc[u]
      BY <1>7, <2>1, <2>3 DEF Places
    <3>2. /\ Lanes2 /\ \A t \in Lanes : t # at[p] => slots'[t] + Len(lane'[t]) = slots[t] + Len(lane[t])
          /\ slots'[at[p]] + Len(lane'[at[p]]) = slots[at[p]] + Len(lane[at[p]]) + 1
      <4>1. slots \in [Lanes -> Int] /\ lane \in [Lanes -> Seq(Noted)] /\ ready \in Seq(Lanes)
        BY <1>0 DEF LanesTyped
      <4>2. Lanes2
        <5>1. slots' \in [Lanes -> Int]
          BY <2>2, <2>3, <4>1
        <5>2. lane' \in [Lanes -> Seq(Noted)] /\ ready' \in Seq(Lanes)
          BY <2>1, <2>3, <4>1, Zenon
        <5> QED BY <5>1, <5>2
      <4>3. \A t \in Lanes : t # at[p] => slots'[t] = slots[t]
        BY <2>3, <4>1
      <4>4. slots'[at[p]] = slots[at[p]] + 1
        BY <2>2, <2>3, <4>1
      <4>5. slots[at[p]] \in Int /\ Len(lane[at[p]]) \in Nat
        BY <2>2, <4>1
      <4>6. slots'[at[p]] + Len(lane'[at[p]]) = slots[at[p]] + Len(lane[at[p]]) + 1
        BY <2>3, <4>4, <4>5
      <4> QED BY <2>3, <4>2, <4>3, <4>6
    <3>3. Balanced2
      BY <1>4, <2>1, <2>2, <3>1, <3>2
    <3> QED BY <1>1, <1>2, <2>1, <3>1, <3>2, <3>3
  <2>4. CASE lane' = [lane EXCEPT ![at[p]] = Append(@, EventOf(p))] /\ Goto(p, "sched") /\ UNCHANGED slots
    <3>1. Threads2 /\ pc'[p] = "sched" /\ \A u \in Producer : u # p => pc'[u] = pc[u]
      BY <1>7, <2>1, <2>2, <2>4 DEF Places
    <3>2. /\ Lanes2 /\ \A t \in Lanes : t # at[p] => slots'[t] + Len(lane'[t]) = slots[t] + Len(lane[t])
          /\ slots'[at[p]] + Len(lane'[at[p]]) = slots[at[p]] + Len(lane[at[p]]) + 1
      <4>1. lane[at[p]] \in Seq(Noted) /\ lane'[at[p]] = Append(lane[at[p]], EventOf(p)) /\ slots[at[p]] \in Int
        BY <1>0, <2>2, <2>4 DEF LanesTyped
      <4>2. Len(lane'[at[p]]) = Len(lane[at[p]]) + 1 /\ Len(lane[at[p]]) \in Nat /\ Append(lane[at[p]], EventOf(p)) \in Seq(Noted)
        BY <2>2, <4>1
      <4>3. Lanes2
        BY <1>0, <2>1, <2>2, <2>4, <4>2 DEF LanesTyped
      <4>4. \A t \in Lanes : t # at[p] => lane'[t] = lane[t]
        BY <1>0, <2>4 DEF LanesTyped
      <4>5. slots'[at[p]] + Len(lane'[at[p]]) = slots[at[p]] + Len(lane[at[p]]) + 1
        BY <2>4, <4>1, <4>2
      <4> QED BY <2>4, <4>3, <4>4, <4>5
    <3>3. Balanced2
      BY <1>4, <2>1, <2>2, <3>1, <3>2
    <3> QED BY <1>1, <1>2, <2>1, <3>1, <3>2, <3>3
  <2> QED BY <1>11, <2>3, <2>4 DEF TrySend
<1>12. ASSUME UNCHANGED <<slots, lane, ready>> \/ (UNCHANGED <<slots, lane>> /\ ready' \in Seq(Lanes)),
              UNCHANGED <<slots, lane, hand>>,
              turn' = turn \/ hand = <<>>, UNCHANGED <<ring, sequence, usage_evictions, kept>>,
              UNCHANGED threadVars, Turns2
       PROVE  Threads2 /\ Lanes2 /\ RingsTyped2 /\ Turns2 /\ Rings2 /\ Balanced2
  <2>1. Threads2 /\ RingsTyped2 /\ Rings2
    BY <1>1, <1>5, <1>12
  <2>2. Lanes2
    BY <1>0, <1>12 DEF LanesTyped
  <2>3. Balanced2
    BY <1>3, <1>12 DEF threadVars
  <2> QED BY <1>12, <2>1, <2>2, <2>3
<1>13. ASSUME NEW p \in Producer, Schedule(p)
       PROVE  Threads2 /\ Lanes2 /\ RingsTyped2 /\ Turns2 /\ Rings2 /\ Balanced2
  <2>1. /\ UNCHANGED <<slots, lane, ready>> /\ UNCHANGED <<slots, lane, hand>> /\ turn' = turn /\ UNCHANGED <<at, next>>
        /\ UNCHANGED <<ring, kept, sequence, usage_evictions>> /\ UNCHANGED <<wpc, turn, hand, writer_task>>
        /\ pc[p] = "sched"
    BY <1>13 DEF Schedule, writerVars, engineVars
  <2>2. at[p] \in Lanes /\ \E where \in {"idle", "token"} : Goto(p, where)
    BY <1>0, <1>13, <2>1 DEF ThreadsTyped, Schedule
  <2>3. PICK where \in {"idle", "token"} : Goto(p, where)
    BY <2>2
  <2>4. Threads2 /\ pc'[p] = where /\ \A u \in Producer : u # p => pc'[u] = pc[u]
    BY <1>7, <2>1, <2>2, <2>3 DEF Places
  <2>5. Balanced2
    BY <1>3, <2>1, <2>4
  <2> QED BY <1>1, <1>2, <1>6, <2>1, <2>4, <2>5
<1>14. ASSUME NEW p \in Producer, SendToken(p)
       PROVE  Threads2 /\ Lanes2 /\ RingsTyped2 /\ Turns2 /\ Rings2 /\ Balanced2
  <2>1. /\ UNCHANGED <<slots, lane, hand>> /\ turn' = turn /\ UNCHANGED <<at, next>>
        /\ UNCHANGED <<ring, kept, sequence, usage_evictions>> /\ UNCHANGED <<wpc, turn, hand, writer_task>>
        /\ pc[p] = "token" /\ Goto(p, "idle") /\ (ready' = Append(ready, at[p]) \/ ready' = ready)
    BY <1>14 DEF SendToken, writerVars, engineVars
  <2>2. at[p] \in Lanes
    BY <1>0, <2>1 DEF ThreadsTyped
  <2>3. Threads2 /\ pc'[p] = "idle" /\ \A u \in Producer : u # p => pc'[u] = pc[u]
    BY <1>7, <2>1 DEF Places
  <2>4. Lanes2
    <3>1. slots \in [Lanes -> Int] /\ lane \in [Lanes -> Seq(Noted)] /\ ready \in Seq(Lanes)
      BY <1>0 DEF LanesTyped
    <3>2. Append(ready, at[p]) \in Seq(Lanes)
      BY <2>2, <3>1
    <3>3. ready' \in Seq(Lanes)
      BY <2>1, <3>1, <3>2, Zenon
    <3> QED BY <2>1, <3>1, <3>3, Zenon
  <2>5. Balanced2
    BY <1>3, <2>1, <2>3
  <2> QED BY <1>1, <1>2, <2>1, <2>3, <2>4, <2>5
\* An event goes from its lane into the writer's hand.
<1>15. ASSUME hand = <<>>, NEW b \in Lanes, lane[b] # <<>>, turn' = b, hand' = <<Head(lane[b])>>,
              lane' = [lane EXCEPT ![b] = Tail(lane[b])], UNCHANGED <<slots, pc, at>>
       PROVE  Balanced2 /\ lane' \in [Lanes -> Seq(Noted)] /\ Len(hand') = 1 /\ hand' \in Seq(Noted)
  <2>1. lane[b] \in Seq(Noted) /\ lane \in [Lanes -> Seq(Noted)] /\ slots \in [Lanes -> Int]
    BY <1>0 DEF LanesTyped
  <2>2. Head(lane[b]) \in Noted /\ Tail(lane[b]) \in Seq(Noted) /\ Len(Tail(lane[b])) = Len(lane[b]) - 1
    BY <1>15, <2>1
  <2>3. lane' \in [Lanes -> Seq(Noted)] /\ Len(hand') = 1 /\ hand' \in Seq(Noted)
    BY <1>15, <2>1, <2>2
  <2>4. Balanced2
    <3> SUFFICES ASSUME NEW t \in Lanes
                 PROVE  slots'[t] + Len(lane'[t]) + (IF turn' = t THEN Len(hand') ELSE 0)
                          + Cardinality(SendersOf(pc', at', t)) = partition(INGEST_CHANNEL_CAPACITY, t)
      BY DEF Balanced2, Balanced
    <3>1. slots[t] + Len(lane[t]) + (IF turn = t THEN Len(hand) ELSE 0) + Cardinality(SendersOf(pc, at, t))
            = partition(INGEST_CHANNEL_CAPACITY, t)
      BY <1>0 DEF Balanced
    <3>2. SendersOf(pc', at', t) = SendersOf(pc, at, t) /\ slots'[t] = slots[t]
      BY <1>15
    <3>3. (IF turn = t THEN Len(hand) ELSE 0) = 0 /\ slots[t] \in Int /\ Len(lane[t]) \in Nat
      BY <1>15, <2>1
    <3>4. Len(lane'[t]) + (IF turn' = t THEN Len(hand') ELSE 0) = Len(lane[t])
      <4>1. CASE t = b
        <5>1. lane'[t] = Tail(lane[b]) /\ Len(hand') = 1
          BY <1>15, <2>1, <2>3, <4>1
        <5> QED BY <1>15, <2>1, <2>2, <4>1, <5>1
      <4>2. CASE t # b
        <5>1. lane'[t] = lane[t]
          BY <1>15, <2>1, <4>2
        <5>2. turn' # t
          BY <1>15, <4>2
        <5> QED BY <3>3, <5>1, <5>2
      <4> QED BY <4>1, <4>2
    <3> DEFINE c == Cardinality(SendersOf(pc, at, t))
               l2 == Len(lane'[t])
               h2 == IF turn' = t THEN Len(hand') ELSE 0
    <3>5. slots[t] + Len(lane[t]) + 0 + c = partition(INGEST_CHANNEL_CAPACITY, t)
      BY <3>1, <3>3
    <3>6. l2 + h2 = Len(lane[t]) /\ l2 \in Nat /\ h2 \in Nat
      <4>1. Len(lane'[t]) \in Nat
        BY <2>3
      <4>2. h2 \in Nat
        BY <2>3
      <4> QED BY <3>4, <4>1, <4>2
    <3>8. c \in Nat
      <4>1. IsFiniteSet(SendersOf(pc, at, t))
        BY <1>0, FS_Subset DEF SendersOf
      <4> QED BY <4>1, FS_CardinalityType
    <3> HIDE DEF c, l2, h2
    <3>7. slots[t] + l2 + h2 + c = partition(INGEST_CHANNEL_CAPACITY, t)
      BY <3>3, <3>5, <3>6, <3>8
    <3> QED BY <3>2, <3>7 DEF c, l2, h2
  <2> QED BY <2>3, <2>4
<1>16. ASSUME Select
       PROVE  Threads2 /\ Lanes2 /\ RingsTyped2 /\ Turns2 /\ Rings2 /\ Balanced2
  <2>1. /\ UNCHANGED slots /\ UNCHANGED <<ring, sequence, usage_evictions, kept>> /\ UNCHANGED threadVars
        /\ wpc = "select" /\ writer_task = "running"
    BY <1>16 DEF Select
  <2>2. hand = <<>>
    BY <1>0, <2>1 DEF Turns
  <2>3. CASE /\ writer_task' = "drain" /\ wpc' = "drain" /\ turn' = 0 /\ UNCHANGED <<ready, hand, lane>>
    <3>1. Turns2
      BY <2>2, <2>3 DEF Turns2, InTurn
    <3>2. UNCHANGED <<slots, lane, ready>> /\ UNCHANGED <<slots, lane, hand>>
      BY <2>1, <2>3
    <3> QED BY <1>12, <2>1, <2>2, <3>1, <3>2
  <2>4. CASE /\ ready # <<>> /\ turn' = Head(ready) /\ ready' = Tail(ready) /\ UNCHANGED writer_task
             /\ lane[Head(ready)] = <<>> /\ wpc' = "empty" /\ UNCHANGED <<hand, lane>>
    <3>1. Head(ready) \in Lanes /\ Tail(ready) \in Seq(Lanes)
      <4>1. ready \in Seq(Lanes)
        BY <1>0 DEF LanesTyped
      <4> QED BY <2>4, <4>1
    <3>2. Turns2
      BY <2>2, <2>4, <3>1 DEF Turns2, InTurn, Lanes, Tenant
    <3>3. UNCHANGED <<slots, lane, hand>> /\ ready' \in Seq(Lanes)
      BY <2>1, <2>4, <3>1
    <3> QED BY <1>12, <2>1, <2>2, <3>2, <3>3
  <2>5. CASE /\ ready # <<>> /\ turn' = Head(ready) /\ ready' = Tail(ready) /\ UNCHANGED writer_task
             /\ lane[Head(ready)] # <<>> /\ wpc' = "retain" /\ hand' = <<Head(lane[Head(ready)])>>
             /\ lane' = [lane EXCEPT ![Head(ready)] = Tail(lane[Head(ready)])]
    <3>1. Head(ready) \in Lanes /\ Tail(ready) \in Seq(Lanes)
      <4>1. ready \in Seq(Lanes)
        BY <1>0 DEF LanesTyped
      <4> QED BY <2>5, <4>1
    <3>2. Balanced2 /\ lane' \in [Lanes -> Seq(Noted)] /\ Len(hand') = 1 /\ hand' \in Seq(Noted)
      BY <1>15, <2>1, <2>2, <2>5, <3>1 DEF threadVars
    <3>3. Turns2
      BY <2>1, <2>5, <3>1, <3>2 DEF Turns2, InTurn, Lanes, Tenant
    <3>4. Lanes2
      BY <1>0, <2>1, <2>5, <3>1, <3>2 DEF LanesTyped
    <3> QED BY <1>1, <1>5, <2>1, <3>2, <3>3, <3>4
  <2> QED BY <1>16, <2>3, <2>4, <2>5 DEF Select
<1>17. ASSUME EmptyTurn \/ ClearBit \/ LookAgain
       PROVE  Threads2 /\ Lanes2 /\ RingsTyped2 /\ Turns2 /\ Rings2 /\ Balanced2
  <2>1. /\ UNCHANGED <<slots, lane, ready>> /\ UNCHANGED <<slots, lane, hand>> /\ turn' = turn
        /\ UNCHANGED <<ring, sequence, usage_evictions, kept>> /\ UNCHANGED threadVars /\ UNCHANGED writer_task
        /\ wpc \in {"empty", "clear", "look"} /\ wpc' \in {"select", "look", "requeue"} /\ (wpc = "empty" => wpc' = "select")
    BY <1>17 DEF EmptyTurn, ClearBit, LookAgain, engineVars
  <2>2. Turns2
    BY <1>0, <2>1 DEF Turns, Turns2, InTurn
  <2> QED BY <1>12, <2>1, <2>2
<1>18. ASSUME Requeue
       PROVE  Threads2 /\ Lanes2 /\ RingsTyped2 /\ Turns2 /\ Rings2 /\ Balanced2
  <2>1. /\ UNCHANGED <<slots, lane, hand>> /\ turn' = turn /\ (ready' = Append(ready, turn) \/ ready' = ready)
        /\ UNCHANGED <<ring, sequence, usage_evictions, kept>> /\ UNCHANGED threadVars /\ UNCHANGED writer_task
        /\ wpc = "requeue" /\ wpc' = "select"
    BY <1>18 DEF Requeue, engineVars
  <2>2. Turns2 /\ turn \in Lanes
    BY <1>0, <2>1 DEF Turns, Turns2, InTurn
  <2>3. ready \in Seq(Lanes) /\ Append(ready, turn) \in Seq(Lanes)
    BY <1>0, <2>2 DEF LanesTyped
  <2>4. ready' \in Seq(Lanes)
    BY <2>1, <2>3, Zenon
  <2> QED BY <1>12, <2>1, <2>2, <2>4
<1>19. ASSUME Drain
       PROVE  Threads2 /\ Lanes2 /\ RingsTyped2 /\ Turns2 /\ Rings2 /\ Balanced2
  <2>1. /\ UNCHANGED <<slots, ready>> /\ UNCHANGED <<ring, sequence, usage_evictions, kept>> /\ UNCHANGED threadVars
        /\ wpc = "drain" /\ turn \in Nat
    BY <1>0, <1>19 DEF Drain, Turns
  <2>2. hand = <<>>
    BY <1>0, <2>1 DEF Turns
  <2>3. CASE UNCHANGED <<hand, lane, wpc>> /\ turn' \in Nat
    <3>1. UNCHANGED <<slots, lane, ready>> /\ UNCHANGED <<slots, lane, hand>>
      BY <2>1, <2>3
    <3>2. Turns2
      BY <2>1, <2>2, <2>3 DEF Turns2, InTurn
    <3> QED BY <1>12, <2>1, <2>2, <3>1, <3>2
  <2>4. CASE /\ turn + 1 \in Lanes /\ lane[turn + 1] # <<>> /\ turn' = turn + 1
             /\ hand' = <<Head(lane[turn + 1])>> /\ lane' = [lane EXCEPT ![turn + 1] = Tail(@)]
             /\ wpc' = "retain"
    <3> DEFINE b == turn + 1
    <3>1. lane' = [lane EXCEPT ![b] = Tail(lane[b])] /\ b \in Nat
      BY <2>1, <2>4
    <3>2. b \in Lanes /\ lane[b] # <<>> /\ turn' = b /\ hand' = <<Head(lane[b])>>
      BY <2>4
    <3> HIDE DEF b
    <3>3. Balanced2 /\ lane' \in [Lanes -> Seq(Noted)] /\ Len(hand') = 1 /\ hand' \in Seq(Noted)
      BY <1>15, <2>1, <2>2, <3>1, <3>2 DEF threadVars
    <3>4. Turns2
      <4>1. writer_task' \in {"running", "drain"}
        BY <1>19, <2>4, <2>1, <1>0 DEF Drain, Lanes, Tenant
      <4> QED BY <2>4, <3>1, <3>2, <3>3, <4>1 DEF Turns2, InTurn
    <3>5. Lanes2
      BY <1>0, <2>1, <3>3 DEF LanesTyped
    <3> QED BY <1>1, <1>5, <2>1, <3>3, <3>4, <3>5
  <2> QED BY <1>19, <2>1, <2>3, <2>4 DEF Drain
<1>20. ASSUME Shutdown
       PROVE  Threads2 /\ Lanes2 /\ RingsTyped2 /\ Turns2 /\ Rings2 /\ Balanced2
  <2>1. /\ UNCHANGED <<slots, lane, ready>> /\ UNCHANGED <<slots, lane, hand>> /\ turn' = turn
        /\ UNCHANGED <<ring, sequence, usage_evictions, kept>> /\ UNCHANGED threadVars
        /\ UNCHANGED <<wpc, turn, hand, writer_task>>
    BY <1>20 DEF Shutdown, writerVars
  <2> QED BY <1>2, <1>12, <2>1
<1>21. ASSUME ShutdownTimeout
       PROVE  Threads2 /\ Lanes2 /\ RingsTyped2 /\ Turns2 /\ Rings2 /\ Balanced2
  <2>1. /\ lane' = [t \in Lanes |-> <<>>] /\ hand' = <<>> /\ UNCHANGED <<wpc, turn, ready>> /\ writer_task' = "aborted"
        /\ slots' = [t \in Lanes |-> slots[t] + Len(lane[t]) + (IF turn = t THEN Len(hand) ELSE 0)]
        /\ UNCHANGED <<ring, kept, sequence, usage_evictions>> /\ UNCHANGED threadVars /\ UNCHANGED <<pc, at>>
    BY <1>21 DEF ShutdownTimeout, threadVars
  <2>2. Turns2
    BY <1>0, <2>1 DEF Turns, Turns2
  <2>3. Len(hand) \in Nat
    <3>1. hand = <<>> \/ hand \in Seq(Noted)
      BY <1>0 DEF Turns
    <3> QED BY <3>1
  <2>4. \A t \in Lanes : slots[t] \in Int /\ Len(lane[t]) \in Nat
    BY <1>0 DEF LanesTyped
  <2>5. Lanes2
    <3>1. lane' \in [Lanes -> Seq(Noted)]
      BY <2>1
    <3>2. slots' \in [Lanes -> Int]
      BY <2>1, <2>3, <2>4
    <3> QED BY <1>0, <2>1, <3>1, <3>2 DEF LanesTyped
  <2>6. Balanced2
    <3> SUFFICES ASSUME NEW t \in Lanes
                 PROVE  slots'[t] + Len(lane'[t]) + (IF turn' = t THEN Len(hand') ELSE 0)
                          + Cardinality(SendersOf(pc', at', t)) = partition(INGEST_CHANNEL_CAPACITY, t)
      BY DEF Balanced2, Balanced
    <3>1. slots[t] + Len(lane[t]) + (IF turn = t THEN Len(hand) ELSE 0) + Cardinality(SendersOf(pc, at, t))
            = partition(INGEST_CHANNEL_CAPACITY, t)
      BY <1>0 DEF Balanced
    <3>2. SendersOf(pc', at', t) = SendersOf(pc, at, t)
      BY <2>1
    <3> DEFINE x == slots[t] + Len(lane[t]) + (IF turn = t THEN Len(hand) ELSE 0)
    <3>3. slots'[t] = x /\ Len(lane'[t]) = 0 /\ (IF turn' = t THEN Len(hand') ELSE 0) = 0
      BY <2>1
    <3>4. x \in Int
      BY <2>3, <2>4
    <3>5. x + Cardinality(SendersOf(pc, at, t)) = partition(INGEST_CHANNEL_CAPACITY, t)
      BY <3>1
    <3> HIDE DEF x
    <3>6. x + 0 + 0 + Cardinality(SendersOf(pc, at, t)) = partition(INGEST_CHANNEL_CAPACITY, t)
      BY <3>4, <3>5
    <3> QED BY <3>2, <3>3, <3>6
  <2> QED BY <1>1, <1>5, <2>1, <2>2, <2>5, <2>6
<1>22. ASSUME Retain
       PROVE  Threads2 /\ Lanes2 /\ RingsTyped2 /\ Turns2 /\ Rings2 /\ Balanced2
  <2> DEFINE c == partition(MAX_RETAINED_EVENTS, turn)
             full == Len(ring[turn]) >= c
             room == IF full THEN Tail(ring[turn]) ELSE ring[turn]
             e == hand[1]
  <2>1. /\ Alive /\ wpc = "retain" /\ UNCHANGED <<turn, lane, ready, writer_task>> /\ UNCHANGED threadVars
        /\ ring' = [ring EXCEPT ![turn] = Append(room, <<sequence, e>>)] /\ sequence' = sequence + 1
        /\ usage_evictions' = usage_evictions + (IF full THEN 1 ELSE 0)
        /\ kept' = [kept EXCEPT ![turn] = Append(kept[turn], e)]
        /\ slots' = [slots EXCEPT ![turn] = slots[turn] + 1]
        /\ hand' = <<>> /\ wpc' \in {"drain", "clear"}
    BY <1>22 DEF Retain
  <2>2. turn \in Lanes /\ turn \in Nat /\ Len(hand) = 1 /\ hand \in Seq(Noted)
    BY <1>0, <2>1 DEF Turns, InTurn
  <2>3. e \in Noted
    BY <2>2
  <2>4. /\ ring \in [Lanes -> Seq(Nat \X Noted)] /\ kept \in [Lanes -> Seq(Noted)] /\ sequence \in Nat
        /\ slots \in [Lanes -> Int] /\ lane \in [Lanes -> Seq(Noted)] /\ ready \in Seq(Lanes)
    BY <1>0 DEF LanesTyped, RingsTyped
  <2>5. c \in Nat /\ c > 0
    BY <2>2, PartitionNat
  <2>6. Latest(ring[turn], kept[turn], sequence, turn) /\ ring[turn] \in Seq(Nat \X Noted) /\ kept[turn] \in Seq(Noted)
    BY <1>0, <2>2, <2>4 DEF Rings
  <2>7. Len(ring[turn]) \in Nat /\ Len(kept[turn]) \in Nat /\ Len(ring[turn]) <= c /\ Len(ring[turn]) <= Len(kept[turn])
    BY <2>6 DEF Latest
  <2>8. /\ room \in Seq(Nat \X Noted) /\ Len(room) < c /\ Latest(room, kept[turn], sequence, turn)
        /\ Len(room) = Len(ring[turn]) - (IF full THEN 1 ELSE 0)
    <3>1. CASE full
      <4>1. ring[turn] # <<>> /\ Tail(ring[turn]) \in Seq(Nat \X Noted) /\ Len(Tail(ring[turn])) = Len(ring[turn]) - 1
        <5>1. ring[turn] # <<>>
          BY <2>5, <2>6, <2>7, <3>1
        <5> QED BY <2>6, <5>1
      <4>2. room = Tail(ring[turn])
        BY <3>1
      <4>3. Latest(room, kept[turn], sequence, turn)
        BY <2>2, <2>4, <2>6, <4>1, <4>2, TailLatest
      <4>4. Len(ring[turn]) - 1 < c
        BY <2>5, <2>7
      <4> QED BY <3>1, <4>1, <4>2, <4>3, <4>4
    <3>2. CASE ~full
      <4>1. room = ring[turn] /\ Len(ring[turn]) < c /\ Len(ring[turn]) = Len(ring[turn]) - 0
        BY <2>5, <2>7, <3>2
      <4> QED BY <2>6, <3>2, <4>1
    <3> QED BY <3>1, <3>2
  <2> HIDE DEF c, full, room, e
  <2>9. Latest(Append(room, <<sequence, e>>), Append(kept[turn], e), sequence + 1, turn)
    BY <2>2, <2>3, <2>4, <2>6, <2>8, AppendLatest DEF c
  <2>10. /\ Append(room, <<sequence, e>>) \in Seq(Nat \X Noted) /\ Append(kept[turn], e) \in Seq(Noted)
         /\ Len(Append(room, <<sequence, e>>)) = Len(room) + 1 /\ Len(Append(kept[turn], e)) = Len(kept[turn]) + 1
    <3>1. <<sequence, e>> \in Nat \X Noted
      BY <2>3, <2>4
    <3> QED BY <2>3, <2>6, <2>8, <3>1
  <2>11. /\ ring'[turn] = Append(room, <<sequence, e>>) /\ kept'[turn] = Append(kept[turn], e)
         /\ \A t \in Lanes : t # turn => ring'[t] = ring[t] /\ kept'[t] = kept[t] /\ slots'[t] = slots[t]
         /\ slots'[turn] = slots[turn] + 1
    BY <2>1, <2>2, <2>4
  <2>12. RingsTyped2
    <3>1. ring' \in [Lanes -> Seq(Nat \X Noted)]
      BY <2>1, <2>2, <2>4, <2>10
    <3>2. kept' \in [Lanes -> Seq(Noted)]
      BY <2>1, <2>2, <2>4, <2>10
    <3>3. sequence' \in Nat
      BY <2>1, <2>4
    <3> QED BY <3>1, <3>2, <3>3 DEF RingsTyped2
  <2>13. ASSUME NEW t \in Lanes PROVE Latest(ring'[t], kept'[t], sequence', t)
    <3>1. CASE t = turn
      BY <2>1, <2>9, <2>11, <3>1
    <3>2. CASE t # turn
      <4>1. Latest(ring[t], kept[t], sequence, t) /\ ring[t] \in Seq(Nat \X Noted)
        BY <1>0, <2>4 DEF Rings
      <4>2. \A i \in 1..Len(ring[t]) : ring[t][i][1] < sequence + 1
        <5> SUFFICES ASSUME NEW i \in 1..Len(ring[t]) PROVE ring[t][i][1] < sequence + 1
          OBVIOUS
        <5>1. ring[t][i] \in Nat \X Noted
          BY <4>1
        <5>2. ring[t][i][1] < sequence /\ ring[t][i][1] \in Nat
          BY <4>1, <5>1 DEF Latest
        <5> QED BY <2>4, <5>2
      <4>3. Latest(ring[t], kept[t], sequence + 1, t)
        BY <4>1, <4>2 DEF Latest
      <4> QED BY <2>1, <2>11, <3>2, <4>3
    <3> QED BY <3>1, <3>2
  <2>14. IsFiniteSet(MissingOf(kept', ring')) /\ usage_evictions' = Cardinality(MissingOf(kept', ring'))
    <3> DEFINE gone == Len(kept[turn]) - Len(ring[turn])
               M == MissingOf(kept, ring)
               N == MissingOf(kept', ring')
    <3>1. IsFiniteSet(M) /\ usage_evictions = Cardinality(M) /\ Cardinality(M) \in Nat
      BY <1>0, FS_CardinalityType DEF Rings
    <3>2. /\ \A t \in Lanes : t # turn => Len(kept'[t]) - Len(ring'[t]) = Len(kept[t]) - Len(ring[t])
          /\ full => Len(kept'[turn]) - Len(ring'[turn]) = gone + 1
          /\ ~full => Len(kept'[turn]) - Len(ring'[turn]) = gone
          /\ gone \in Nat
      <4>1. /\ Len(kept'[turn]) = Len(kept[turn]) + 1
            /\ full => Len(ring'[turn]) = Len(ring[turn])
            /\ ~full => Len(ring'[turn]) = Len(ring[turn]) + 1
        <5>1. Len(kept'[turn]) = Len(kept[turn]) + 1 /\ Len(ring'[turn]) = Len(room) + 1
          BY <2>10, <2>11
        <5>2. CASE full
          BY <2>7, <2>8, <5>1, <5>2
        <5>3. CASE ~full
          BY <2>7, <2>8, <5>1, <5>3
        <5> QED BY <5>2, <5>3
      <4>2. gone \in Nat /\ Len(kept[turn]) \in Nat /\ Len(ring[turn]) \in Nat
        BY <2>7
      <4>3. \A t \in Lanes : t # turn => Len(kept'[t]) - Len(ring'[t]) = Len(kept[t]) - Len(ring[t])
        BY <2>11
      <4>4. ASSUME full PROVE Len(kept'[turn]) - Len(ring'[turn]) = gone + 1
        <5>1. Len(ring'[turn]) = Len(ring[turn]) /\ Len(kept'[turn]) = Len(kept[turn]) + 1
          BY <4>1, <4>4, Zenon
        <5> QED BY <4>2, <5>1
      <4>5. ASSUME ~full PROVE Len(kept'[turn]) - Len(ring'[turn]) = gone
        <5>1. Len(ring'[turn]) = Len(ring[turn]) + 1 /\ Len(kept'[turn]) = Len(kept[turn]) + 1
          BY <4>1, <4>5, Zenon
        <5> QED BY <4>2, <5>1
      <4> QED BY <4>2, <4>3, <4>4, <4>5
    <3>3. CASE ~full
      <4>1. \A t \in Lanes : Len(kept'[t]) - Len(ring'[t]) = Len(kept[t]) - Len(ring[t])
        <5>1. Len(kept'[turn]) - Len(ring'[turn]) = Len(kept[turn]) - Len(ring[turn])
          BY <3>2, <3>3
        <5> HIDE DEF gone
        <5> QED BY <3>2, <5>1
      <4>2. N = M
        BY <4>1 DEF MissingOf
      <4>3. usage_evictions' = usage_evictions
        BY <2>1, <3>1, <3>3
      <4> QED BY <3>1, <4>2, <4>3
    <3>4. CASE full
      <4>1. N = M \cup {<<turn, gone + 1>>} /\ <<turn, gone + 1>> \notin M
        <5>1. Len(kept'[turn]) - Len(ring'[turn]) = gone + 1
          BY <3>2, <3>4
        <5>2. Len(kept[turn]) - Len(ring[turn]) = gone /\ gone \in Nat
          BY <3>2
        <5>3. \A t \in Lanes : t # turn => Len(kept'[t]) - Len(ring'[t]) = Len(kept[t]) - Len(ring[t])
          BY <3>2
        <5>4. EvictsOne(kept, ring, kept', ring', turn, gone)
          BY <5>1, <5>2, <5>3 DEF EvictsOne
        <5> HIDE DEF gone
        <5> QED BY <2>2, <5>2, <5>4, OneMissing
      <4> HIDE DEF M, N, gone
      <4>3. IsFiniteSet(M \cup {<<turn, gone + 1>>}) /\ Cardinality(M \cup {<<turn, gone + 1>>}) = Cardinality(M) + 1
        BY <3>1, <4>1, FS_AddElement
      <4>4. usage_evictions' = Cardinality(M) + 1
        BY <2>1, <3>1, <3>4
      <4>5. IsFiniteSet(N) /\ usage_evictions' = Cardinality(N)
        BY <4>1, <4>3, <4>4
      <4> QED BY <4>5 DEF N
    <3> QED BY <3>3, <3>4
  <2>15. Rings2
    BY <2>13, <2>14 DEF Rings2
  <2>16. Turns2
    BY <2>1, <2>2 DEF Turns2, InTurn
  <2>17. Lanes2
    <3>1. slots' \in [Lanes -> Int]
      BY <2>1, <2>2, <2>4
    <3> QED BY <2>1, <2>4, <3>1, Zenon
  <2>18. Balanced2
    <3> SUFFICES ASSUME NEW t \in Lanes
                 PROVE  slots'[t] + Len(lane'[t]) + (IF turn' = t THEN Len(hand') ELSE 0)
                          + Cardinality(SendersOf(pc', at', t)) = partition(INGEST_CHANNEL_CAPACITY, t)
      BY DEF Balanced2, Balanced
    <3> DEFINE b == Cardinality(SendersOf(pc, at, t))
               v == partition(INGEST_CHANNEL_CAPACITY, t)
    <3>1. slots[t] + Len(lane[t]) + (IF turn = t THEN Len(hand) ELSE 0) + b = v
      BY <1>0 DEF Balanced
    <3>2. SendersOf(pc', at', t) = SendersOf(pc, at, t) /\ lane'[t] = lane[t] /\ Len(hand') = 0
      BY <2>1 DEF threadVars, SendersOf
    <3>3. slots[t] \in Int /\ Len(lane[t]) \in Nat
      BY <2>4
    <3>4. b \in Nat
      <4>1. IsFiniteSet(SendersOf(pc, at, t))
        BY <1>0, FS_Subset DEF SendersOf
      <4> QED BY <4>1, FS_CardinalityType
    <3> HIDE DEF b, v
    <3>5. (IF turn = t THEN Len(hand) ELSE 0) = (IF turn = t THEN 1 ELSE 0)
      BY <2>2
    <3>6. slots'[t] = slots[t] + (IF turn = t THEN 1 ELSE 0)
      BY <2>11, <3>3
    <3>7. slots'[t] + Len(lane[t]) + 0 + b = v
      BY <3>1, <3>3, <3>4, <3>5, <3>6
    <3> QED BY <3>2, <3>7 DEF b, v
  <2>19. Threads2
    BY <1>5, <2>1
  <2> QED BY <2>12, <2>15, <2>16, <2>17, <2>18, <2>19
<1>23. CASE Next
  BY <1>9, <1>10, <1>11, <1>13, <1>14, <1>16, <1>17, <1>18, <1>19, <1>20, <1>21, <1>22, <1>23
     DEF Next, Step, Writer
<1> QED BY <1>8, <1>23

\* The lanes implement the ledger.  Where an event is that is neither retained nor lost: in
\* one place of one lane, in the writer's hand, or with the thread that recorded it.
OfferedBy(n) == {e \in Event : e[2] <= n[e[1]]}
KeptIn(k) == UNION {ToSet(k[t]) : t \in Lanes}
Unsettled(n, k, x) == OfferedBy(n) \ (KeptIn(k) \cup x)
InLane(q, e) == \E t \in Lanes : \E i \in 1..Len(q[t]) : q[t][i] = e
InHand(h, e) == h # <<>> /\ h[1] = e
OnceEach(q) == \A t, u \in Lanes : \A i \in 1..Len(q[t]), j \in 1..Len(q[u]) :
    q[t][i] = q[u][j] => t = u /\ i = j
Sending(c, p) == c[p] \in {"acquire", "send"}
Tracked(q, h, c, n, k, x) ==
    /\ KeptIn(k) \cup x \subseteq OfferedBy(n)
    /\ OnceEach(q)
    /\ \A e : InLane(q, e) => e \in Unsettled(n, k, x) /\ ~InHand(h, e)
    /\ \A e : InHand(h, e) => e \in Unsettled(n, k, x)
    /\ \A p \in Producer : Sending(c, p) =>
         <<p, n[p]>> \in Unsettled(n, k, x) /\ ~InLane(q, <<p, n[p]>>) /\ ~InHand(h, <<p, n[p]>>)
Dropped(d) == d["unregistered_tenant"] + d["zero_share"] + d["full"] + d["closed"]
LedgerInv == Tracked(lane, hand, pc, next, kept, lost) /\ drops \in [Reason -> Nat]

LEMMA LedgerVars ==
  /\ Ledger!vars = <<Unsettled(next, kept, lost), KeptIn(kept), lost, Dropped(drops), accepting>>
  /\ Offered = OfferedBy(next) /\ Kept = KeptIn(kept)
BY DEF Ledger!vars, Unsettled, OfferedBy, KeptIn, Dropped, Offered, Kept

\* A step of the ledger, with the states of the lanes before and after it.
LEMMA LedgerMoves ==
  ASSUME \/ /\ Unsettled(next', kept', lost') = Unsettled(next, kept, lost)
            /\ KeptIn(kept') = KeptIn(kept) /\ lost' = lost /\ Dropped(drops') = Dropped(drops)
            /\ (accepting' = accepting \/ accepting' = FALSE)
         \/ /\ KeptIn(kept') = KeptIn(kept) /\ accepting' = accepting
            /\ \E e \in Event :
                 /\ e \notin Unsettled(next, kept, lost) \cup KeptIn(kept) \cup lost
                 /\ Unsettled(next', kept', lost') = Unsettled(next, kept, lost) \cup {e}
                 /\ lost' = lost /\ Dropped(drops') = Dropped(drops)
         \/ /\ KeptIn(kept') = KeptIn(kept) /\ ~accepting /\ accepting' = accepting
            /\ \E e \in Event :
                 /\ e \notin Unsettled(next, kept, lost) \cup KeptIn(kept) \cup lost
                 /\ Unsettled(next', kept', lost') = Unsettled(next, kept, lost)
                 /\ lost' = lost \cup {e} /\ Dropped(drops') = Dropped(drops) + 1
         \/ /\ lost' = lost /\ Dropped(drops') = Dropped(drops) /\ accepting' = accepting
            /\ \E e \in Event :
                 /\ e \in Unsettled(next, kept, lost)
                 /\ Unsettled(next', kept', lost') = Unsettled(next, kept, lost) \ {e}
                 /\ KeptIn(kept') = KeptIn(kept) \cup {e}
         \/ /\ KeptIn(kept') = KeptIn(kept) /\ accepting' = accepting
            /\ \E S \in SUBSET Unsettled(next, kept, lost) :
                 /\ S # {} /\ Unsettled(next', kept', lost') = Unsettled(next, kept, lost) \ S
                 /\ lost' = lost \cup S /\ Dropped(drops') = Dropped(drops) + Cardinality(S)
  PROVE  [Ledger!Next]_(Ledger!vars)
<1> DEFINE P == Unsettled(next, kept, lost)
           K == KeptIn(kept)
           D == Dropped(drops)
           P2 == Unsettled(next', kept', lost')
           K2 == KeptIn(kept')
           D2 == Dropped(drops')
<1>1. [Ledger!Next]_(Ledger!vars) <=>
        \/ \E e \in Event : \/ /\ e \notin P \cup K \cup lost /\ P2 = P \cup {e}
                               /\ K2 = K /\ lost' = lost /\ D2 = D /\ accepting' = accepting
                            \/ /\ ~accepting /\ e \notin P \cup K \cup lost /\ lost' = lost \cup {e} /\ D2 = D + 1
                               /\ P2 = P /\ K2 = K /\ accepting' = accepting
                            \/ /\ e \in P /\ P2 = P \ {e} /\ K2 = K \cup {e}
                               /\ lost' = lost /\ D2 = D /\ accepting' = accepting
        \/ \E S \in SUBSET P : /\ S # {} /\ P2 = P \ S /\ lost' = lost \cup S /\ D2 = D + Cardinality(S)
                               /\ K2 = K /\ accepting' = accepting
        \/ accepting' = FALSE /\ P2 = P /\ K2 = K /\ lost' = lost /\ D2 = D
        \/ P2 = P /\ K2 = K /\ lost' = lost /\ D2 = D /\ accepting' = accepting
  BY Zenon DEF Ledger!Next, Ledger!vars, Ledger!Record, Ledger!Refuse, Ledger!Retain, Ledger!Drop, Ledger!Close,
     Unsettled, OfferedBy, KeptIn, Dropped, Offered, Kept, Event, Lanes, HasLane, Tenant, partition, Unregistered,
     ToSet, Cardinality, Ledger!Cardinality
<1> HIDE DEF P, K, D, P2, K2, D2
<1>2. QED
  BY <1>1 DEF P, K, D, P2, K2, D2

LedgerMoved ==
    Tracked(lane', hand', pc', next', kept', lost') /\ drops' \in [Reason -> Nat] /\ [Ledger!Next]_(Ledger!vars)

LEMMA DropCounted ==
  ASSUME drops \in [Reason -> Nat], NEW r \in Reason, NEW n \in Nat, drops' = [drops EXCEPT ![r] = @ + n]
  PROVE  drops' \in [Reason -> Nat] /\ Dropped(drops') = Dropped(drops) + n
<1>1. drops' \in [Reason -> Nat]
  OBVIOUS
<1>2. drops'[r] = drops[r] + n /\ \A q \in Reason : q # r => drops'[q] = drops[q]
  OBVIOUS
<1>3. \A q \in Reason : drops[q] \in Nat
  OBVIOUS
<1> DEFINE a == drops["unregistered_tenant"]
           b == drops["zero_share"]
           c == drops["full"]
           d == drops["closed"]
           a2 == drops'["unregistered_tenant"]
           b2 == drops'["zero_share"]
           c2 == drops'["full"]
           d2 == drops'["closed"]
<1>4. a \in Nat /\ b \in Nat /\ c \in Nat /\ d \in Nat
  BY <1>3 DEF Reason
<1>5. \/ a2 = a + n /\ b2 = b /\ c2 = c /\ d2 = d
      \/ a2 = a /\ b2 = b + n /\ c2 = c /\ d2 = d
      \/ a2 = a /\ b2 = b /\ c2 = c + n /\ d2 = d
      \/ a2 = a /\ b2 = b /\ c2 = c /\ d2 = d + n
  BY <1>2 DEF Reason
<1> HIDE DEF a, b, c, d, a2, b2, c2, d2
<1>6. a2 + b2 + c2 + d2 = a + b + c + d + n
  BY <1>4, <1>5
<1> QED BY <1>1, <1>6 DEF Dropped, a, b, c, d, a2, b2, c2, d2

LEMMA LedgerQuiet ==
  ASSUME LedgerInv, UNCHANGED <<lane, hand, next, kept, lost, drops>>,
         accepting' = accepting \/ accepting' = FALSE, \A p \in Producer : Sending(pc', p) => Sending(pc, p)
  PROVE  LedgerMoved
<1>1. Tracked(lane', hand', pc', next', kept', lost') /\ drops' \in [Reason -> Nat]
  BY DEF LedgerInv, Tracked
<1>2. [Ledger!Next]_(Ledger!vars)
  BY LedgerMoves
<1> QED BY <1>1, <1>2 DEF LedgerMoved

LEMMA LedgerDrop ==
  ASSUME LedgerInv, Configured, UNCHANGED <<lane, hand, next, kept, accepting>>, NEW p \in Producer, NEW r \in Reason,
         Sending(pc, p), record_drop(r, {EventOf(p)}), Goto(p, "idle"), ThreadsTyped
  PROVE  LedgerMoved
<1> DEFINE e == <<p, next[p]>>
           U == Unsettled(next, kept, lost)
<1>1. lost' = lost \cup {e} /\ drops' = [drops EXCEPT ![r] = @ + Cardinality({e})]
  BY DEF record_drop, EventOf
<1>2. ~Sending(pc', p) /\ \A u \in Producer : u # p => (Sending(pc', u) <=> Sending(pc, u))
  BY DEF Goto, Sending, ThreadsTyped
<1>3. Tracked(lane, hand, pc, next, kept, lost) /\ drops \in [Reason -> Nat]
  BY DEF LedgerInv
<1>4. e \in U /\ ~InLane(lane, e) /\ ~InHand(hand, e)
  BY <1>3 DEF Tracked
<1>5. Cardinality({e}) = 1
  BY FS_Singleton
<1>6. drops' \in [Reason -> Nat] /\ Dropped(drops') = Dropped(drops) + Cardinality({e})
  BY <1>1, <1>3, <1>5, DropCounted
<1>7. Unsettled(next, kept, lost \cup {e}) = U \ {e} /\ KeptIn(kept) \cup (lost \cup {e}) \subseteq OfferedBy(next)
  <2>1. {e} \subseteq Unsettled(next, kept, lost) /\ KeptIn(kept) \cup lost \subseteq OfferedBy(next)
    BY <1>3, <1>4 DEF Tracked
  <2> HIDE DEF e
  <2> QED BY <2>1 DEF Unsettled
<1>8. [Ledger!Next]_(Ledger!vars)
  <2>1. {e} \in SUBSET U /\ {e} # {}
    BY <1>4
  <2> HIDE DEF e, U
  <2>2. /\ Unsettled(next', kept', lost') = U \ {e} /\ lost' = lost \cup {e} /\ KeptIn(kept') = KeptIn(kept)
    BY <1>1, <1>7
  <2> QED BY <1>6, <2>1, <2>2, LedgerMoves DEF U
<1>9. Tracked(lane', hand', pc', next', kept', lost')
  <2>1. ASSUME NEW u \in Producer, Sending(pc', u)
        PROVE  <<u, next[u]>> \in U \ {e} /\ ~InLane(lane, <<u, next[u]>>) /\ ~InHand(hand, <<u, next[u]>>)
    BY <1>2, <1>3, <2>1 DEF Tracked
  <2>2. \A f : InLane(lane, f) => f \in U \ {e} /\ ~InHand(hand, f)
    BY <1>3, <1>4 DEF Tracked
  <2>3. \A f : InHand(hand, f) => f \in U \ {e}
    BY <1>3, <1>4 DEF Tracked
  <2>4. Unsettled(next, kept, lost') = U \ {e} /\ KeptIn(kept) \cup lost' \subseteq OfferedBy(next) /\ OnceEach(lane)
    BY <1>1, <1>3, <1>7 DEF Tracked
  <2> HIDE DEF U, e
  <2>5. Tracked(lane, hand, pc', next, kept, lost')
    BY <2>1, <2>2, <2>3, <2>4 DEF Tracked
  <2> QED BY <2>5
<1> QED BY <1>6, <1>8, <1>9 DEF LedgerMoved

LEMMA LedgerTake ==
  ASSUME LedgerInv, UNCHANGED <<pc, next, kept, lost, drops, accepting>>, hand = <<>>, NEW b \in Lanes, lane[b] # <<>>,
         hand' = <<Head(lane[b])>>, lane' = [lane EXCEPT ![b] = Tail(lane[b])], lane \in [Lanes -> Seq(Noted)]
  PROVE  LedgerMoved
<1> DEFINE e == lane[b][1]
           U == Unsettled(next, kept, lost)
<1>1. Tracked(lane, hand, pc, next, kept, lost) /\ drops \in [Reason -> Nat]
  BY DEF LedgerInv
<1>2. /\ lane[b] \in Seq(Noted) /\ Len(lane[b]) \in Nat /\ Len(lane[b]) > 0 /\ Head(lane[b]) = e
      /\ lane'[b] = Tail(lane[b]) /\ \A t \in Lanes : t # b => lane'[t] = lane[t]
  OBVIOUS
<1>3. Len(lane'[b]) = Len(lane[b]) - 1 /\ \A i \in 1..Len(lane'[b]) : lane'[b][i] = lane[b][i + 1]
  BY <1>2
<1>4. ASSUME NEW t \in Lanes, NEW i \in 1..Len(lane'[t])
      PROVE  \E j \in 1..Len(lane[t]) : lane[t][j] = lane'[t][i] /\ j = IF t = b THEN i + 1 ELSE i
  BY <1>2, <1>3
<1>5. InLane(lane, e)
  BY <1>2 DEF InLane
<1>6. OnceEach(lane)
  BY <1>1 DEF Tracked
<1>7. OnceEach(lane')
  <2> SUFFICES ASSUME NEW t \in Lanes, NEW u \in Lanes, NEW i \in 1..Len(lane'[t]), NEW j \in 1..Len(lane'[u]),
                      lane'[t][i] = lane'[u][j]
               PROVE  t = u /\ i = j
    BY DEF OnceEach
  <2>1. PICK k \in 1..Len(lane[t]) : lane[t][k] = lane'[t][i] /\ k = IF t = b THEN i + 1 ELSE i
    BY <1>4
  <2>2. PICK l \in 1..Len(lane[u]) : lane[u][l] = lane'[u][j] /\ l = IF u = b THEN j + 1 ELSE j
    BY <1>4
  <2>3. t = u /\ k = l
    BY <1>6, <2>1, <2>2 DEF OnceEach
  <2> QED BY <2>1, <2>2, <2>3
<1>8. ASSUME NEW f, InLane(lane', f) PROVE InLane(lane, f) /\ f # e
  <2>1. PICK t \in Lanes : \E i \in 1..Len(lane'[t]) : lane'[t][i] = f
    BY <1>8 DEF InLane
  <2>2. PICK i \in 1..Len(lane'[t]) : lane'[t][i] = f
    BY <2>1
  <2>3. PICK j \in 1..Len(lane[t]) : lane[t][j] = f /\ j = IF t = b THEN i + 1 ELSE i
    BY <1>4, <2>2
  <2>4. t = b => j # 1
    BY <2>3
  <2>5. InLane(lane, f)
    BY <2>3 DEF InLane
  <2>6. f # e
    <3>1. 1 \in 1..Len(lane[b])
      BY <1>2
    <3> QED BY <1>6, <2>3, <2>4, <3>1 DEF OnceEach
  <2> QED BY <2>5, <2>6
<1>9. \A f : InHand(hand', f) <=> f = e
  BY <1>2 DEF InHand
<1>10. Tracked(lane', hand', pc', next', kept', lost')
  <2>1. e \in U /\ \A u \in Producer : Sending(pc, u) => <<u, next[u]>> # e
    BY <1>1, <1>5 DEF Tracked
  <2> HIDE DEF e, U
  <2>2. \A f : InLane(lane', f) => f \in U /\ ~InHand(hand', f)
    BY <1>1, <1>8, <1>9 DEF Tracked, U
  <2>3. \A f : InHand(hand', f) => f \in U
    BY <1>9, <2>1
  <2>4. \A u \in Producer : Sending(pc, u) =>
          <<u, next[u]>> \in U /\ ~InLane(lane', <<u, next[u]>>) /\ ~InHand(hand', <<u, next[u]>>)
    BY <1>1, <1>8, <1>9, <2>1 DEF Tracked, U
  <2>5. Tracked(lane', hand', pc, next, kept, lost)
    BY <1>1, <1>7, <2>2, <2>3, <2>4 DEF Tracked, U
  <2> QED BY <2>5
<1>11. [Ledger!Next]_(Ledger!vars)
  BY LedgerMoves
<1> QED BY <1>1, <1>10, <1>11 DEF LedgerMoved

LEMMA LedgerSend ==
  ASSUME LedgerInv, UNCHANGED <<hand, next, kept, lost, drops, accepting>>, NEW p \in Producer, pc[p] = "send", at[p] \in Lanes,
         Goto(p, "sched"), lane' = [lane EXCEPT ![at[p]] = Append(@, EventOf(p))], lane \in [Lanes -> Seq(Noted)],
         ThreadsTyped
  PROVE  LedgerMoved
<1> DEFINE e == <<p, next[p]>>
           U == Unsettled(next, kept, lost)
           b == at[p]
<1>1. Tracked(lane, hand, pc, next, kept, lost) /\ drops \in [Reason -> Nat]
  BY DEF LedgerInv
<1>2. e \in U /\ ~InLane(lane, e) /\ ~InHand(hand, e)
  BY <1>1 DEF Tracked, Sending
<1>3. ~Sending(pc', p) /\ \A u \in Producer : u # p => (Sending(pc', u) <=> Sending(pc, u))
  BY DEF Goto, Sending, ThreadsTyped
<1>4. /\ lane[b] \in Seq(Noted) /\ Len(lane[b]) \in Nat
      /\ lane'[b] = Append(lane[b], e) /\ \A t \in Lanes : t # b => lane'[t] = lane[t]
  BY DEF EventOf
<1>5. /\ Len(lane'[b]) = Len(lane[b]) + 1 /\ lane'[b][Len(lane[b]) + 1] = e
      /\ \A i \in 1..Len(lane[b]) : lane'[b][i] = lane[b][i]
  <2> HIDE DEF e, b
  <2> QED BY <1>4
<1> HIDE DEF e
<1>6. ASSUME NEW t \in Lanes, NEW i \in 1..Len(lane'[t])
      PROVE  \/ i \in 1..Len(lane[t]) /\ lane'[t][i] = lane[t][i]
             \/ t = b /\ i = Len(lane[b]) + 1 /\ lane'[t][i] = e
  BY <1>4, <1>5
<1> HIDE DEF U, b
<1>7. OnceEach(lane')
  <2> SUFFICES ASSUME NEW t \in Lanes, NEW u \in Lanes, NEW i \in 1..Len(lane'[t]), NEW j \in 1..Len(lane'[u]),
                      lane'[t][i] = lane'[u][j]
               PROVE  t = u /\ i = j
    BY DEF OnceEach
  <2>1. \A v \in Lanes : \A k \in 1..Len(lane[v]) : lane[v][k] # e
    BY <1>2 DEF InLane
  <2> QED BY <1>1, <1>6, <2>1 DEF OnceEach, Tracked
<1>8. ASSUME NEW f, InLane(lane', f) PROVE InLane(lane, f) \/ f = e
  BY <1>6, <1>8 DEF InLane
<1>9. Tracked(lane', hand', pc', next', kept', lost')
  <2>1. \A f : InLane(lane', f) => f \in U /\ ~InHand(hand, f)
    BY <1>1, <1>2, <1>8 DEF Tracked, U
  <2>2. ASSUME NEW u \in Producer, Sending(pc', u)
        PROVE  <<u, next[u]>> \in U /\ ~InLane(lane', <<u, next[u]>>) /\ ~InHand(hand, <<u, next[u]>>)
    <3>1. u # p /\ Sending(pc, u)
      BY <1>3, <2>2
    <3>2. <<u, next[u]>> # e
      BY <3>1 DEF e
    <3> QED BY <1>1, <1>8, <3>1, <3>2 DEF Tracked, U
  <2>3. Tracked(lane', hand, pc', next, kept, lost)
    BY <1>1, <1>7, <2>1, <2>2 DEF Tracked, U
  <2> QED BY <2>3
<1>10. [Ledger!Next]_(Ledger!vars)
  BY LedgerMoves
<1> QED BY <1>1, <1>9, <1>10 DEF LedgerMoved

LEMMA LedgerRetain ==
  ASSUME LedgerInv, UNCHANGED <<lane, pc, next, lost, drops, accepting>>, NEW b \in Lanes, hand # <<>>, hand' = <<>>,
         kept' = [kept EXCEPT ![b] = Append(@, hand[1])], kept \in [Lanes -> Seq(Noted)], hand[1] \in Noted
  PROVE  LedgerMoved
<1> DEFINE e == hand[1]
           U == Unsettled(next, kept, lost)
           K == KeptIn(kept)
<1>1. Tracked(lane, hand, pc, next, kept, lost) /\ drops \in [Reason -> Nat]
  BY DEF LedgerInv
<1>2. InHand(hand, e)
  BY DEF InHand
<1>3. e \in U /\ K \cup lost \subseteq OfferedBy(next)
  BY <1>1, <1>2 DEF Tracked
<1>4. KeptIn(kept') = K \cup {e}
  <2>1. kept[b] \in Seq(Noted) /\ kept'[b] = Append(kept[b], e) /\ \A t \in Lanes : t # b => kept'[t] = kept[t]
    OBVIOUS
  <2>2. e \in Noted
    OBVIOUS
  <2> HIDE DEF e
  <2>3. ToSet(kept'[b]) = ToSet(kept[b]) \cup {e}
    <3>1. Len(kept'[b]) = Len(kept[b]) + 1 /\ Len(kept[b]) \in Nat /\ DOMAIN kept[b] = 1..Len(kept[b])
          /\ DOMAIN kept'[b] = 1..(Len(kept[b]) + 1)
      BY <2>1, <2>2
    <3>2. kept'[b][Len(kept[b]) + 1] = e /\ \A i \in 1..Len(kept[b]) : kept'[b][i] = kept[b][i]
      BY <2>1, <2>2
    <3>3. \A i \in 1..(Len(kept[b]) + 1) : i \in 1..Len(kept[b]) \/ i = Len(kept[b]) + 1
      BY <3>1
    <3>4. \A i \in 1..Len(kept[b]) : i \in 1..(Len(kept[b]) + 1)
      BY <3>1
    <3>5. Len(kept[b]) + 1 \in 1..(Len(kept[b]) + 1)
      BY <3>1
    <3> QED BY <3>1, <3>2, <3>3, <3>4, <3>5, Zenon DEF ToSet
  <2>4. \A t \in Lanes : ToSet(kept'[t]) = IF t = b THEN ToSet(kept[b]) \cup {e} ELSE ToSet(kept[t])
    BY <2>1, <2>3
  <2> QED BY <2>4 DEF KeptIn
<1>5. Unsettled(next, kept', lost) = U \ {e} /\ KeptIn(kept') \cup lost \subseteq OfferedBy(next)
  BY <1>3, <1>4 DEF Unsettled
<1>6. e \in Event
  BY <1>3 DEF Unsettled, OfferedBy
<1> HIDE DEF e, U, K
<1>7. [Ledger!Next]_(Ledger!vars)
  BY <1>3, <1>4, <1>5, <1>6, LedgerMoves DEF U, K
<1>8. Tracked(lane', hand', pc', next', kept', lost')
  <2>1. \A f : ~InHand(hand', f)
    BY DEF InHand
  <2>2. \A f : InLane(lane, f) => f \in U \ {e}
    BY <1>1, <1>2 DEF Tracked, U
  <2>3. \A u \in Producer : Sending(pc, u) => <<u, next[u]>> \in U \ {e} /\ ~InLane(lane, <<u, next[u]>>)
    BY <1>1, <1>2 DEF Tracked, U
  <2>4. Tracked(lane, hand', pc, next, kept', lost)
    BY <1>1, <1>5, <2>1, <2>2, <2>3 DEF Tracked
  <2> QED BY <2>4
<1> QED BY <1>1, <1>7, <1>8 DEF LedgerMoved

\* An aborted writer drops what is in the lanes and in its hand.
LEMMA LedgerAbandon ==
  ASSUME LedgerInv, Configured, UNCHANGED <<pc, next, kept, accepting>>, hand' = <<>>, lane' = [t \in Lanes |-> <<>>],
         record_drop("closed", Abandoned), lane \in [Lanes -> Seq(Noted)], hand = <<>> \/ Len(hand) = 1
  PROVE  LedgerMoved
<1> DEFINE U == Unsettled(next, kept, lost)
<1>1. Tracked(lane, hand, pc, next, kept, lost) /\ drops \in [Reason -> Nat]
  BY DEF LedgerInv
<1>2. \A f : f \in Abandoned <=> InHand(hand, f) \/ InLane(lane, f)
  <2>1. \A f : f \in {hand[i] : i \in 1..Len(hand)} <=> InHand(hand, f)
    <3>1. CASE hand = <<>>
      <4>1. 1..Len(hand) = {}
        BY <3>1
      <4> QED BY <3>1, <4>1 DEF InHand
    <3>2. CASE Len(hand) = 1
      <4>1. 1..1 = {1} /\ Len(<<>>) = 0 /\ 0 # 1
        OBVIOUS
      <4>2. 1..Len(hand) = {1} /\ hand # <<>>
        BY <3>2, <4>1, Zenon
      <4> QED BY <4>2 DEF InHand
    <3> QED BY <3>1, <3>2
  <2>2. \A f : f \in UNION {ToSet(lane[t]) : t \in Lanes} <=> InLane(lane, f)
    <3>1. \A t \in Lanes : DOMAIN lane[t] = 1..Len(lane[t])
      OBVIOUS
    <3>2. ASSUME NEW t \in Lanes, NEW f PROVE f \in ToSet(lane[t]) <=> \E i \in 1..Len(lane[t]) : lane[t][i] = f
      BY <3>1 DEF ToSet
    <3>3. \A f : f \in UNION {ToSet(lane[t]) : t \in Lanes} <=> \E t \in Lanes : f \in ToSet(lane[t])
      OBVIOUS
    <3> QED BY <3>2, <3>3, ZenonT(40) DEF InLane
  <2> QED BY <2>1, <2>2 DEF Abandoned
<1>3. Abandoned \subseteq U
  BY <1>1, <1>2 DEF Tracked
<1>4. IsFiniteSet(Abandoned)
  <2>1. IsFiniteSet(1..MaxEvents) /\ IsFiniteSet(Producer)
    BY FS_Interval DEF Configured
  <2>2. IsFiniteSet(Producer \X (1..MaxEvents))
    BY <2>1, FS_Product
  <2>3. Abandoned \subseteq Producer \X (1..MaxEvents)
    BY <1>3 DEF Unsettled, OfferedBy, Event
  <2> QED BY <2>2, <2>3, FS_Subset
<1>5. Cardinality(Abandoned) \in Nat
  BY <1>4, FS_CardinalityType
<1>6. lost' = lost \cup Abandoned /\ drops' = [drops EXCEPT !["closed"] = @ + Cardinality(Abandoned)]
  BY DEF record_drop
<1>7. drops' \in [Reason -> Nat] /\ Dropped(drops') = Dropped(drops) + Cardinality(Abandoned)
  <2>1. "closed" \in Reason
    BY DEF Reason
  <2> QED BY <1>1, <1>5, <1>6, <2>1, DropCounted
<1>8. Unsettled(next, kept, lost') = U \ Abandoned /\ KeptIn(kept) \cup lost' \subseteq OfferedBy(next)
  BY <1>1, <1>3, <1>6 DEF Unsettled, Tracked
<1>9. Tracked(lane', hand', pc', next', kept', lost')
  <2>1. \A f : ~InHand(hand', f) /\ ~InLane(lane', f)
    <3>1. \A t \in Lanes : Len(lane'[t]) = 0
      OBVIOUS
    <3>2. 1..0 = {}
      OBVIOUS
    <3>3. \A t \in Lanes : 1..Len(lane'[t]) = {}
      BY <3>1, <3>2, Zenon
    <3> QED BY <3>3 DEF InHand, InLane
  <2>2. OnceEach(lane')
    <3>1. \A t \in Lanes : \A i \in 1..Len(lane'[t]) : InLane(lane', lane'[t][i])
      BY DEF InLane
    <3> QED BY <2>1, <3>1 DEF OnceEach
  <2> HIDE DEF U
  <2>3. \A u \in Producer : Sending(pc, u) => <<u, next[u]>> \in U \ Abandoned
    BY <1>1, <1>2 DEF Tracked, U
  <2>4. Tracked(lane', hand', pc, next, kept, lost')
    BY <1>8, <2>1, <2>2, <2>3 DEF Tracked
  <2> QED BY <2>4
<1>10. [Ledger!Next]_(Ledger!vars)
  <2>1. CASE Abandoned = {}
    <3>1. lost' = lost /\ Dropped(drops') = Dropped(drops)
      <4>1. drops' = [drops EXCEPT !["closed"] = @ + 0] /\ lost' = lost
        BY <1>6, <2>1, FS_EmptySet
      <4>2. "closed" \in Reason /\ 0 \in Nat
        BY DEF Reason
      <4>3. Dropped(drops') = Dropped(drops) + 0
        BY <1>1, <4>1, <4>2, DropCounted
      <4>4. Dropped(drops) \in Nat
        BY <1>1 DEF Dropped, Reason
      <4> QED BY <4>1, <4>3, <4>4
    <3> QED BY <3>1, LedgerMoves
  <2>2. CASE Abandoned # {}
    BY <1>3, <1>6, <1>7, <1>8, <2>2, LedgerMoves
  <2> QED BY <2>1, <2>2
<1> QED BY <1>7, <1>9, <1>10 DEF LedgerMoved

\* The next event of a thread is one no thread has offered, and within the bound.
LEMMA OneOffered ==
  ASSUME Configured, ThreadsTyped, NEW p \in Producer, Cardinality(Offered) < MaxEvents,
         next' = [next EXCEPT ![p] = @ + 1]
  PROVE  /\ <<p, next[p] + 1>> \in Event \ OfferedBy(next)
         /\ OfferedBy(next') = OfferedBy(next) \cup {<<p, next[p] + 1>>}
<1> DEFINE n == next[p]
<1>1. n \in Nat /\ MaxEvents \in Nat /\ next'[p] = n + 1 /\ \A u \in Producer : u # p => next'[u] = next[u]
  BY DEF ThreadsTyped, Configured
<1>2. \A u \in Producer : next[u] \in Nat
  BY DEF ThreadsTyped
<1>3. n < MaxEvents
  <2> SUFFICES ASSUME MaxEvents <= n PROVE FALSE
    BY <1>1
  <2>1. IsFiniteSet(1..MaxEvents) /\ Cardinality(1..MaxEvents) = MaxEvents
    BY <1>1, FS_Interval
  <2>2. IsFiniteSet({p}) /\ Cardinality({p}) = 1
    BY FS_Singleton
  <2>3. IsFiniteSet({p} \X (1..MaxEvents)) /\ Cardinality({p} \X (1..MaxEvents)) = 1 * MaxEvents
    BY <2>1, <2>2, FS_Product, ZenonT(40)
  <2>4. {p} \X (1..MaxEvents) \subseteq Offered
    <3>1. \A i \in 1..MaxEvents : i <= n
      BY <1>1
    <3> HIDE DEF n
    <3>2. ASSUME NEW i \in 1..MaxEvents PROVE <<p, i>> \in Offered
      BY <3>1 DEF Offered, Event, n
    <3> QED BY <3>2
  <2>5. IsFiniteSet(Offered)
    <3>1. IsFiniteSet(Producer \X (1..MaxEvents))
      BY <2>1, FS_Product DEF Configured
    <3> QED BY <3>1, FS_Subset DEF Offered, Event
  <2>6. Cardinality({p} \X (1..MaxEvents)) <= Cardinality(Offered)
    BY <2>4, <2>5, FS_Subset
  <2>7. Cardinality(Offered) \in Nat
    BY <2>5, FS_CardinalityType
  <2> QED BY <1>1, <2>3, <2>6, <2>7
<1>4. <<p, n + 1>> \in Event
  BY <1>1, <1>3 DEF Event
<1>5. <<p, n + 1>> \notin OfferedBy(next)
  BY <1>1 DEF OfferedBy
<1>6. ASSUME NEW e \in Event PROVE e \in OfferedBy(next') <=> e \in OfferedBy(next) \/ e = <<p, n + 1>>
  <2>1. PICK u \in Producer, i \in 1..MaxEvents : e = <<u, i>>
    BY DEF Event
  <2>2. (e \in OfferedBy(next') <=> i <= next'[u]) /\ (e \in OfferedBy(next) <=> i <= next[u])
    BY <2>1 DEF OfferedBy
  <2>3. CASE u = p
    <3>1. i <= n + 1 <=> i <= n \/ i = n + 1
      BY <1>1
    <3>2. e = <<p, n + 1>> <=> i = n + 1
      BY <2>1, <2>3
    <3> QED BY <1>1, <2>2, <2>3, <3>1, <3>2
  <2>4. CASE u # p
    BY <1>1, <2>1, <2>2, <2>4
  <2> QED BY <2>3, <2>4
<1>7. OfferedBy(next') = OfferedBy(next) \cup {<<p, n + 1>>}
  <2> HIDE DEF n
  <2>1. OfferedBy(next) \subseteq Event /\ OfferedBy(next') \subseteq Event
    BY DEF OfferedBy
  <2> QED BY <1>4, <1>6, <2>1
<1> QED BY <1>4, <1>5, <1>7

LEMMA LedgerRecord ==
  ASSUME LedgerInv, Configured, ThreadsTyped, NEW p \in Producer, NEW t \in 0..NumTenants, RecordUsage(p, t)
  PROVE  LedgerMoved
<1> DEFINE e == <<p, next[p] + 1>>
           U == Unsettled(next, kept, lost)
<1>1. Tracked(lane, hand, pc, next, kept, lost) /\ drops \in [Reason -> Nat]
  BY DEF LedgerInv
<1>2. /\ pc[p] = "idle" /\ Cardinality(Offered) < MaxEvents /\ next' = [next EXCEPT ![p] = @ + 1]
      /\ UNCHANGED <<lane, hand, kept, accepting>>
  BY DEF RecordUsage, writerVars
<1>3. e \in Event \ OfferedBy(next) /\ OfferedBy(next') = OfferedBy(next) \cup {e}
  BY <1>2, OneOffered
<1>4. next'[p] = next[p] + 1 /\ \A u \in Producer : u # p => next'[u] = next[u]
  BY <1>2 DEF ThreadsTyped
<1>5. KeptIn(kept) \cup lost \subseteq OfferedBy(next)
  BY <1>1 DEF Tracked
<1>6. e \notin U \cup KeptIn(kept) \cup lost
  BY <1>3, <1>5 DEF Unsettled
<1>7. ~InLane(lane, e) /\ ~InHand(hand, e)
  BY <1>1, <1>6 DEF Tracked
<1> HIDE DEF e, U
<1>8. CASE accepting /\ Goto(p, "acquire") /\ UNCHANGED <<drops, lost>>
  <2>1. pc' = [pc EXCEPT ![p] = "acquire"]
    BY <1>8 DEF Goto
  <2>2. \A u \in Producer : u # p => (Sending(pc', u) <=> Sending(pc, u))
    BY <2>1 DEF Sending, ThreadsTyped
  <2>3. Unsettled(next', kept', lost') = U \cup {e} /\ KeptIn(kept') \cup lost' \subseteq OfferedBy(next')
    BY <1>2, <1>3, <1>5, <1>6, <1>8 DEF Unsettled, U
  <2>4. [Ledger!Next]_(Ledger!vars)
    BY <1>2, <1>3, <1>6, <1>8, <2>3, LedgerMoves DEF U
  <2>5. ASSUME NEW u \in Producer, Sending(pc', u)
        PROVE  <<u, next'[u]>> \in U \cup {e} /\ ~InLane(lane, <<u, next'[u]>>) /\ ~InHand(hand, <<u, next'[u]>>)
    <3>1. CASE u = p
      BY <1>4, <1>7, <3>1 DEF e
    <3>2. CASE u # p
      BY <1>1, <1>4, <2>2, <2>5, <3>2 DEF Tracked, U
    <3> QED BY <3>1, <3>2
  <2>6. Tracked(lane, hand, pc', next', kept', lost')
    BY <1>1, <2>3, <2>5 DEF Tracked, U
  <2> QED BY <1>1, <1>2, <1>8, <2>4, <2>6 DEF LedgerMoved
<1>9. CASE ~accepting /\ record_drop("closed", {e}) /\ UNCHANGED pc
  <2>1. lost' = lost \cup {e} /\ drops' = [drops EXCEPT !["closed"] = @ + Cardinality({e})] /\ Cardinality({e}) = 1
    BY <1>9, FS_Singleton DEF record_drop
  <2>2. drops' \in [Reason -> Nat] /\ Dropped(drops') = Dropped(drops) + 1
    <3>1. "closed" \in Reason
      BY DEF Reason
    <3> QED BY <1>1, <2>1, <3>1, DropCounted
  <2>3. Unsettled(next', kept', lost') = U /\ KeptIn(kept') \cup lost' \subseteq OfferedBy(next')
    BY <1>2, <1>3, <1>5, <1>6, <2>1 DEF Unsettled, U
  <2>4. [Ledger!Next]_(Ledger!vars)
    BY <1>2, <1>3, <1>6, <1>9, <2>1, <2>2, <2>3, LedgerMoves DEF U
  <2>5. ASSUME NEW u \in Producer, Sending(pc, u) PROVE next'[u] = next[u]
    BY <1>2, <1>4, <2>5 DEF Sending
  <2>6. Tracked(lane, hand, pc, next', kept', lost')
    BY <1>1, <2>3, <2>5 DEF Tracked, U
  <2> QED BY <1>2, <1>9, <2>2, <2>4, <2>6 DEF LedgerMoved
<1> QED BY <1>8, <1>9 DEF RecordUsage, e

LEMMA LedgerInit == Configured /\ Init => LedgerInv /\ Ledger!Init
<1> SUFFICES ASSUME Configured, Init PROVE LedgerInv /\ Ledger!Init
  OBVIOUS
<1>1. /\ lane = [t \in Lanes |-> <<>>] /\ kept = [t \in Lanes |-> <<>>] /\ hand = <<>> /\ lost = {} /\ accepting = TRUE
      /\ drops = [r \in Reason |-> 0] /\ pc = [p \in Producer |-> "idle"] /\ next = [p \in Producer |-> 0]
  BY DEF Init
<1>2. OfferedBy(next) = {}
  <2>1. \A e \in Event : e[1] \in Producer /\ e[2] \in 1..MaxEvents
    BY DEF Event
  <2>2. \A e \in Event : next[e[1]] = 0
    BY <1>1, <2>1
  <2>3. \A i \in 1..MaxEvents : ~(i <= 0)
    BY DEF Configured
  <2> QED BY <2>1, <2>2, <2>3 DEF OfferedBy
<1>3. KeptIn(kept) = {}
  <2>1. \A t \in Lanes : ToSet(kept[t]) = {}
    <3>1. \A t \in Lanes : kept[t] = <<>>
      BY <1>1
    <3>2. DOMAIN <<>> = {}
      OBVIOUS
    <3> QED BY <3>1, <3>2 DEF ToSet
  <2> QED BY <2>1 DEF KeptIn
<1>4. \A t \in Lanes : 1..Len(lane[t]) = {}
  <2>1. 1..0 = {} /\ \A t \in Lanes : Len(lane[t]) = 0
    BY <1>1
  <2> QED BY <2>1, Zenon
<1>5. Tracked(lane, hand, pc, next, kept, lost)
  <2>1. \A p \in Producer : ~Sending(pc, p)
    BY <1>1 DEF Sending
  <2>2. \A e : ~InLane(lane, e) /\ ~InHand(hand, e)
    BY <1>1, <1>4 DEF InLane, InHand
  <2>3. OnceEach(lane)
    BY <1>4 DEF OnceEach
  <2> QED BY <1>1, <1>3, <2>1, <2>2, <2>3 DEF Tracked
<1>6. drops \in [Reason -> Nat] /\ Dropped(drops) = 0
  BY <1>1 DEF Reason, Dropped
<1>7. Ledger!Init
  <2>1. Offered = {} /\ Kept = {}
    BY <1>2, <1>3, LedgerVars
  <2>2. Offered \ (Kept \cup lost) = {}
    BY <2>1
  <2>3. drops["unregistered_tenant"] + drops["zero_share"] + drops["full"] + drops["closed"] = 0
    BY <1>6 DEF Dropped
  <2> QED BY <1>1, <2>1, <2>2, <2>3 DEF Ledger!Init
<1> QED BY <1>5, <1>6, <1>7 DEF LedgerInv

LEMMA LedgerStep == Configured /\ UsageInv /\ LedgerInv /\ [Next]_vars => LedgerInv' /\ [Ledger!Next]_(Ledger!vars)
<1> SUFFICES ASSUME Configured, UsageInv, LedgerInv, [Next]_vars PROVE LedgerMoved
  BY Zenon DEF LedgerMoved, LedgerInv, Tracked, OnceEach, InLane, InHand, Sending, Unsettled, OfferedBy, KeptIn, Event,
     Lanes, HasLane, Tenant, partition, Unregistered, ToSet, Reason
<1>1. /\ ThreadsTyped /\ lane \in [Lanes -> Seq(Noted)] /\ kept \in [Lanes -> Seq(Noted)] /\ ready \in Seq(Lanes)
      /\ Turns
  BY DEF UsageInv, LanesTyped, RingsTyped
<1>2. hand = <<>> \/ (Len(hand) = 1 /\ hand \in Seq(Noted) /\ wpc = "retain")
  BY <1>1 DEF Turns
<1>3. CASE UNCHANGED vars
  <2>1. UNCHANGED <<lane, hand, next, kept, lost, drops>> /\ accepting' = accepting /\ pc' = pc
    BY <1>3 DEF vars, engineVars, writerVars, threadVars
  <2>2. \A u \in Producer : Sending(pc', u) => Sending(pc, u)
    BY <2>1 DEF Sending
  <2> QED BY <2>1, <2>2, LedgerQuiet
<1>4. ASSUME NEW p \in Producer, NEW t \in 0..NumTenants, RecordUsage(p, t) PROVE LedgerMoved
  BY <1>1, <1>4, LedgerRecord
<1>5. ASSUME NEW p \in Producer, NEW where \in Places, Goto(p, where), UNCHANGED <<lane, hand, next, kept, lost, drops, accepting>>,
             Sending(pc, p) \/ where \notin {"acquire", "send"}
      PROVE  LedgerMoved
  <2>1. \A u \in Producer : Sending(pc', u) => Sending(pc, u)
    BY <1>1, <1>5 DEF Goto, Sending, ThreadsTyped
  <2> QED BY <1>5, <2>1, LedgerQuiet
<1>6. ASSUME NEW p \in Producer, Acquire(p) PROVE LedgerMoved
  <2>1. UNCHANGED <<lane, hand, next, kept, accepting>> /\ Sending(pc, p)
    BY <1>6 DEF Acquire, writerVars, Sending
  <2>2. CASE Goto(p, "idle") /\ \E r \in Reason : record_drop(r, {EventOf(p)})
    BY <1>1, <2>1, <2>2, LedgerDrop
  <2>3. CASE Goto(p, "send") /\ UNCHANGED <<drops, lost>>
    BY <1>5, <2>1, <2>3 DEF Places
  <2> QED BY <1>6, <2>2, <2>3 DEF Acquire, Reason
<1>7. ASSUME NEW p \in Producer, TrySend(p) PROVE LedgerMoved
  <2>1. UNCHANGED <<hand, next, kept, accepting>> /\ pc[p] = "send" /\ Sending(pc, p) /\ at[p] \in Lanes
    BY <1>1, <1>7 DEF TrySend, writerVars, Sending, ThreadsTyped
  <2>2. CASE record_drop("closed", {EventOf(p)}) /\ Goto(p, "idle") /\ UNCHANGED lane
    BY <1>1, <2>1, <2>2, LedgerDrop DEF Reason
  <2>3. CASE lane' = [lane EXCEPT ![at[p]] = Append(@, EventOf(p))] /\ Goto(p, "sched") /\ UNCHANGED <<drops, lost>>
    BY <1>1, <2>1, <2>3, LedgerSend
  <2> QED BY <1>7, <2>2, <2>3 DEF TrySend
<1>8. ASSUME NEW p \in Producer, Schedule(p) \/ SendToken(p) PROVE LedgerMoved
  <2>1. UNCHANGED <<lane, hand, next, kept, lost, drops, accepting>>
    BY <1>8 DEF Schedule, SendToken, engineVars, writerVars
  <2>2. \E where \in {"idle", "token"} : Goto(p, where)
    BY <1>8 DEF Schedule, SendToken
  <2> QED BY <1>5, <2>1, <2>2 DEF Places
<1>9. ASSUME UNCHANGED <<lane, hand, next, kept, lost, drops, pc>>, accepting' = accepting \/ accepting' = FALSE
      PROVE  LedgerMoved
  <2>1. \A u \in Producer : Sending(pc', u) => Sending(pc, u)
    BY <1>9 DEF Sending
  <2> QED BY <1>9, <2>1, LedgerQuiet
<1>10. ASSUME EmptyTurn \/ ClearBit \/ LookAgain \/ Requeue \/ Shutdown PROVE LedgerMoved
  <2>1. UNCHANGED <<lane, hand, next, kept, lost, drops, pc>> /\ (accepting' = accepting \/ accepting' = FALSE)
    BY <1>10 DEF EmptyTurn, ClearBit, LookAgain, Requeue, Shutdown, engineVars, writerVars, threadVars
  <2> QED BY <1>9, <2>1
<1>11. ASSUME Select PROVE LedgerMoved
  <2>1. UNCHANGED <<next, kept, lost, drops, pc, accepting>> /\ hand = <<>>
    BY <1>1, <1>11 DEF Select, threadVars, Turns
  <2>2. CASE UNCHANGED <<hand, lane>>
    BY <1>9, <2>1, <2>2
  <2>3. CASE /\ ready # <<>> /\ lane[Head(ready)] # <<>> /\ hand' = <<Head(lane[Head(ready)])>>
             /\ lane' = [lane EXCEPT ![Head(ready)] = Tail(lane[Head(ready)])]
    <3>1. Head(ready) \in Lanes
      BY <1>1, <2>3
    <3> QED BY <1>1, <2>1, <2>3, <3>1, LedgerTake
  <2> QED BY <1>11, <2>2, <2>3 DEF Select
<1>12. ASSUME Drain PROVE LedgerMoved
  <2>1. UNCHANGED <<next, kept, lost, drops, pc, accepting>> /\ hand = <<>>
    BY <1>1, <1>12 DEF Drain, threadVars, Turns
  <2>2. CASE UNCHANGED <<hand, lane>>
    BY <1>9, <2>1, <2>2
  <2>3. CASE /\ turn + 1 \in Lanes /\ lane[turn + 1] # <<>> /\ hand' = <<Head(lane[turn + 1])>>
             /\ lane' = [lane EXCEPT ![turn + 1] = Tail(@)]
    <3> DEFINE b == turn + 1
    <3>1. b \in Lanes /\ lane[b] # <<>> /\ hand' = <<Head(lane[b])>> /\ lane' = [lane EXCEPT ![b] = Tail(lane[b])]
      BY <2>3
    <3> HIDE DEF b
    <3> QED BY <1>1, <2>1, <3>1, LedgerTake
  <2> QED BY <1>12, <2>2, <2>3 DEF Drain
<1>13. ASSUME Retain PROVE LedgerMoved
  <2>1. /\ UNCHANGED <<lane, pc, next, lost, drops, accepting>> /\ hand' = <<>> /\ Alive /\ wpc = "retain"
        /\ kept' = [kept EXCEPT ![turn] = Append(@, hand[1])]
    BY <1>13 DEF Retain, threadVars
  <2>2. turn \in Lanes /\ Len(hand) = 1 /\ hand \in Seq(Noted)
    BY <1>1, <2>1 DEF Turns, InTurn
  <2>3. hand # <<>> /\ hand[1] \in Noted
    BY <2>2
  <2> QED BY <1>1, <2>1, <2>2, <2>3, LedgerRetain
<1>14. ASSUME ShutdownTimeout PROVE LedgerMoved
  <2>1. UNCHANGED <<pc, next, kept, accepting>> /\ hand' = <<>> /\ lane' = [t \in Lanes |-> <<>>] /\ record_drop("closed", Abandoned)
    BY <1>14 DEF ShutdownTimeout, threadVars
  <2> QED BY <1>1, <1>2, <2>1, LedgerAbandon
<1> QED BY <1>3, <1>4, <1>6, <1>7, <1>8, <1>10, <1>11, <1>12, <1>13, <1>14 DEF Next, Step, Writer

(***************************************************************************)
(* AuthFailures                                                             *)
(***************************************************************************)

\* The failures of a slot, when the sources have so many each.
Sources == DOMAIN SlotOf
Failures(count, k) == {f \in UNION {{s} \X (1..count[s]) : s \in Sources} : SlotOf[f[1]] = k}
Countable(count) == count \in [Sources -> Nat] /\ \A k \in Throttle!Slots : IsFiniteSet(Failures(count, k))

LEMMA FailuresCounted ==
  ASSUME NEW k
  PROVE  Throttle!FailuresOf(k) = Cardinality(Failures(counted, k))
BY Zenon DEF Throttle!FailuresOf, Throttle!Cardinality, Cardinality, Failures, Sources

LEMMA NoFailures ==
  ASSUME NEW k
  PROVE  Cardinality(Failures([s \in Sources |-> 0], k)) = 0 /\ IsFiniteSet(Failures([s \in Sources |-> 0], k))
<1>1. Failures([s \in Sources |-> 0], k) = {}
  BY DEF Failures
<1> QED BY <1>1, FS_EmptySet

LEMMA OneMoreFailure ==
  ASSUME NEW count, Countable(count), NEW s \in Sources, NEW k \in Throttle!Slots,
         NEW more, more = [count EXCEPT ![s] = @ + 1]
  PROVE  /\ IsFiniteSet(Failures(more, k))
         /\ Cardinality(Failures(more, k)) = Cardinality(Failures(count, k)) + (IF SlotOf[s] = k THEN 1 ELSE 0)
<1> DEFINE f == <<s, count[s] + 1>>
<1>1. /\ count[s] \in Nat /\ more[s] = count[s] + 1 /\ \A x \in Sources : x # s => more[x] = count[x]
      /\ 1..more[s] = (1..count[s]) \cup {count[s] + 1}
  BY DEF Countable
<1>2. CASE SlotOf[s] = k
  <2>1. Failures(more, k) = Failures(count, k) \cup {f}
    BY <1>1, <1>2 DEF Failures
  <2>2. f \notin Failures(count, k)
    BY <1>1 DEF Failures
  <2>3. IsFiniteSet(Failures(count, k))
    BY DEF Countable
  <2> HIDE DEF f
  <2>4. Cardinality(Failures(count, k) \cup {f}) = Cardinality(Failures(count, k)) + 1 /\ IsFiniteSet(Failures(count, k) \cup {f})
    BY <2>2, <2>3, FS_AddElement
  <2> QED BY <1>2, <2>1, <2>4
<1>3. CASE SlotOf[s] # k
  <2>1. Failures(more, k) = Failures(count, k)
    BY <1>1, <1>3 DEF Failures
  <2>2. Cardinality(Failures(count, k)) \in Nat /\ IsFiniteSet(Failures(count, k))
    BY FS_CardinalityType DEF Countable
  <2> QED BY <1>3, <2>1, <2>2
<1> QED BY <1>2, <1>3

Word == [e : Nat, c : Nat]
ThrottleTyped ==
    /\ epoch \in Nat
    /\ cells \in [Throttle!Slots -> Word] /\ seen \in [Clients -> Word]
    /\ anow \in [Clients -> Nat] /\ DOMAIN apc = Clients
    /\ Countable(counted)
NotAhead ==
    /\ \A k \in Throttle!Slots : cells[k].e <= epoch
    /\ \A r \in Clients : anow[r] <= epoch
\* Unless a late failure was written over it, a slot of this window holds its failures, and
\* one that holds an older window's has none of this one.
SlotCounts ==
    \A k \in Throttle!Slots \ late :
        /\ cells[k].e = epoch => cells[k].c = Throttle!Saturated(Cardinality(Failures(counted, k)))
        /\ Cardinality(Failures(counted, k)) > 0 => cells[k].e = epoch
ThrottleInv == ThrottleTyped /\ NotAhead /\ SlotCounts

LEMMA ThrottleInit == Throttle!Init => ThrottleInv
<1> SUFFICES ASSUME Throttle!Init PROVE ThrottleInv
  OBVIOUS
<1>1. /\ epoch = 0 /\ cells = [k \in Throttle!Slots |-> [e |-> 0, c |-> 0]] /\ apc = [r \in Clients |-> "check"]
      /\ anow = [r \in Clients |-> 0] /\ seen = [r \in Clients |-> [e |-> 0, c |-> 0]]
      /\ counted = [s \in Sources |-> 0]
  BY DEF Throttle!Init, Throttle!Init0, Sources
<1>2. ThrottleTyped
  BY <1>1, NoFailures DEF ThrottleTyped, Countable, Word
<1>3. NotAhead
  BY <1>1 DEF NotAhead
<1>4. \A k \in Throttle!Slots : Throttle!Saturated(0) = 0 /\ cells[k].c = 0 /\ Cardinality(Failures(counted, k)) = 0
  BY <1>1, NoFailures, ServicesAssumption DEF Throttle!Saturated, Throttle!Configured
<1>5. SlotCounts
  BY <1>4 DEF SlotCounts
<1> QED BY <1>2, <1>3, <1>5 DEF ThrottleInv

\* Steps that write no slot.
LEMMA ThrottleQuiet ==
  ASSUME ThrottleInv, UNCHANGED <<epoch, cells, counted, late>>,
         seen' \in [Clients -> Word], anow' \in [Clients -> Nat], \A r \in Clients : anow'[r] <= epoch, DOMAIN apc' = Clients
  PROVE  ThrottleInv'
<1>1. ThrottleTyped'
  BY DEF ThrottleInv, ThrottleTyped, Countable, Failures, Throttle!Slots
<1>2. NotAhead'
  BY DEF ThrottleInv, NotAhead, Throttle!Slots
<1>3. SlotCounts'
  <2> SUFFICES ASSUME NEW k \in Throttle!Slots, k \notin late'
               PROVE  /\ cells'[k].e = epoch' => cells'[k].c = Throttle!Saturated(Cardinality(Failures(counted', k)))
                      /\ Cardinality(Failures(counted', k)) > 0 => cells'[k].e = epoch'
    BY Zenon DEF SlotCounts, Failures, Throttle!Saturated, Throttle!Slots
  <2> QED BY Zenon DEF ThrottleInv, SlotCounts
<1> QED BY <1>1, <1>2, <1>3 DEF ThrottleInv

LEMMA CasStep ==
  ASSUME ThrottleInv, NEW r \in Clients, Throttle!Cas(r)
  PROVE  ThrottleInv'
<1> DEFINE k0 == SlotOf[Source[r]]
           s0 == Source[r]
           w == Throttle!Bump(r)
<1>0. s0 \in Sources /\ k0 \in Throttle!Slots /\ FailureMask \in Nat
  BY ServicesAssumption DEF Throttle!Configured, Throttle!Slots, Sources
<1>1. CASE UNCHANGED <<cells, anow, seen, counted, late>> /\ apc' = [apc EXCEPT ![r] = "load"] /\ epoch' = epoch
  <2>1. DOMAIN apc' = Clients
    BY <1>1 DEF ThrottleInv, ThrottleTyped
  <2> QED BY <1>1, <2>1, ThrottleQuiet DEF ThrottleInv, ThrottleTyped, NotAhead
<1>2. CASE /\ cells[k0] = seen[r] /\ cells' = [cells EXCEPT ![k0] = w] /\ apc' = [apc EXCEPT ![r] = "failed"]
           /\ Throttle!Recorded(r) /\ epoch' = epoch
  <2>1. /\ counted' = IF anow[r] = epoch THEN [counted EXCEPT ![s0] = @ + 1] ELSE counted
        /\ late' = IF anow[r] < epoch THEN late \cup {k0} ELSE late
        /\ anow' = [anow EXCEPT ![r] = 0] /\ seen' = [seen EXCEPT ![r] = [e |-> 0, c |-> 0]]
    BY <1>2 DEF Throttle!Recorded, Throttle!slot_for, Throttle!Init0
  <2> DEFINE base == IF seen[r].e = anow[r] THEN seen[r].c ELSE 0
  <2>2. /\ w = [e |-> anow[r], c |-> IF base < FailureMask THEN base + 1 ELSE FailureMask]
        /\ base \in Nat /\ anow[r] \in Nat /\ epoch \in Nat /\ anow[r] <= epoch
        /\ cells[k0].e \in Nat /\ cells[k0].c \in Nat
    BY <1>0 DEF Throttle!Bump, ThrottleInv, ThrottleTyped, NotAhead, Word
  <2>3. /\ cells' \in [Throttle!Slots -> Word] /\ cells'[k0] = w /\ \A k \in Throttle!Slots : k # k0 => cells'[k] = cells[k]
        /\ w.e = anow[r] /\ w.c = (IF base < FailureMask THEN base + 1 ELSE FailureMask)
    BY <1>0, <1>2, <2>2 DEF ThrottleInv, ThrottleTyped, Word
  <2>4. Countable(counted')
    <3>1. CASE anow[r] = epoch
      <4>1. Countable(counted) /\ counted' = [counted EXCEPT ![s0] = @ + 1]
        BY <2>1, <3>1 DEF ThrottleInv, ThrottleTyped
      <4>2. counted' \in [Sources -> Nat]
        BY <1>0, <4>1 DEF Countable
      <4>3. \A k \in Throttle!Slots : IsFiniteSet(Failures(counted', k))
        BY <1>0, <4>1, OneMoreFailure
      <4> QED BY <4>2, <4>3 DEF Countable
    <3>2. CASE anow[r] # epoch
      BY <2>1, <3>2 DEF ThrottleInv, ThrottleTyped
    <3> QED BY <3>1, <3>2
  <2>5. ThrottleTyped'
    <3>1. anow' \in [Clients -> Nat] /\ seen' \in [Clients -> Word] /\ DOMAIN apc' = Clients
      BY <1>2, <2>1 DEF ThrottleInv, ThrottleTyped, Word
    <3>2. Countable(counted)'
      BY <2>4, Zenon DEF Countable, Failures, Throttle!Slots
    <3> QED BY <1>2, <2>3, <3>1, <3>2 DEF ThrottleInv, ThrottleTyped, Throttle!Slots
  <2>6. NotAhead'
    BY <1>2, <2>1, <2>2, <2>3 DEF ThrottleInv, ThrottleTyped, NotAhead, Throttle!Slots
  <2>7. SlotCounts'
    <3> DEFINE F(k) == Cardinality(Failures(counted, k))
               G(k) == Cardinality(Failures(counted', k))
    <3>0. \A k \in Throttle!Slots : F(k) \in Nat
      BY FS_CardinalityType DEF ThrottleInv, ThrottleTyped, Countable
    <3>1. SUFFICES ASSUME NEW k \in Throttle!Slots, k \notin late'
                   PROVE  /\ cells'[k].e = epoch => cells'[k].c = Throttle!Saturated(G(k))
                          /\ G(k) > 0 => cells'[k].e = epoch
      BY <1>2, Zenon DEF SlotCounts, Failures, Throttle!Saturated, Throttle!Slots
    <3>2. /\ k \notin late
          /\ cells[k].e = epoch => cells[k].c = Throttle!Saturated(F(k))
          /\ F(k) > 0 => cells[k].e = epoch
      <4>1. k \notin late
        BY <2>1, <3>1
      <4> QED BY <4>1 DEF ThrottleInv, SlotCounts
    <3>3. CASE k # k0
      <4>1. G(k) = F(k)
        <5>1. CASE anow[r] = epoch
          <6>1. G(k) = F(k) + (IF SlotOf[s0] = k THEN 1 ELSE 0)
            BY <1>0, <2>1, <5>1, OneMoreFailure, ZenonT(40) DEF ThrottleInv, ThrottleTyped
          <6> HIDE DEF F, G
          <6> QED BY <3>0, <3>3, <6>1
        <5>2. CASE anow[r] # epoch
          BY <2>1, <5>2
        <5> QED BY <5>1, <5>2
      <4> HIDE DEF F, G
      <4> QED BY <2>3, <3>2, <3>3, <4>1
    <3>4. CASE k = k0
      <4>1. anow[r] = epoch
        BY <2>1, <2>2, <3>1, <3>4
      <4>2. G(k) = F(k) + 1
        <5>1. G(k) = F(k) + (IF SlotOf[s0] = k THEN 1 ELSE 0)
          BY <1>0, <2>1, <4>1, OneMoreFailure, ZenonT(40) DEF ThrottleInv, ThrottleTyped
        <5> HIDE DEF F, G
        <5> QED BY <3>0, <3>4, <5>1
      <4> HIDE DEF F, G
      <4>3. base = Throttle!Saturated(F(k))
        <5>1. CASE cells[k].e = epoch
          BY <1>2, <3>2, <3>4, <4>1, <5>1
        <5>2. CASE cells[k].e # epoch
          <6>1. F(k) = 0 /\ base = 0
            BY <1>2, <3>0, <3>2, <3>4, <4>1, <5>2
          <6> QED BY <1>0, <6>1 DEF Throttle!Saturated
        <5> QED BY <5>1, <5>2
      <4> HIDE DEF base
      <4>4. w.c = Throttle!Saturated(G(k))
        BY <1>0, <2>3, <3>0, <4>2, <4>3 DEF Throttle!Saturated
      <4> HIDE DEF w
      <4> QED BY <2>3, <3>4, <4>1, <4>4
    <3> QED BY <3>3, <3>4
  <2> QED BY <2>5, <2>6, <2>7 DEF ThrottleInv
<1> QED BY <1>1, <1>2 DEF Throttle!Cas, Throttle!slot_for

LEMMA WindowStep ==
  ASSUME ThrottleInv, Throttle!Tick
  PROVE  ThrottleInv'
<1>1. /\ epoch' = epoch + 1 /\ counted' = [s \in Sources |-> 0] /\ UNCHANGED <<cells, apc, anow, seen>>
  BY DEF Throttle!Tick, Sources
<1>2. Countable(counted') /\ \A k \in Throttle!Slots : Cardinality(Failures(counted', k)) = 0
  BY <1>1, NoFailures DEF Countable
<1>3. \A k \in Throttle!Slots : cells[k].e # epoch + 1
  BY DEF ThrottleInv, ThrottleTyped, NotAhead, Word
<1>4. ThrottleTyped'
  <2>1. Countable(counted)'
    BY <1>2, Zenon DEF Countable, Failures, Throttle!Slots
  <2> QED BY <1>1, <2>1 DEF ThrottleInv, ThrottleTyped, Throttle!Slots
<1>5. NotAhead'
  BY <1>1 DEF ThrottleInv, ThrottleTyped, NotAhead, Throttle!Slots, Word
<1>6. SlotCounts'
  <2> SUFFICES ASSUME NEW k \in Throttle!Slots
               PROVE  cells'[k].e # epoch' /\ ~(Cardinality(Failures(counted', k)) > 0)
    BY Zenon DEF SlotCounts, Failures, Throttle!Slots
  <2> QED BY <1>1, <1>2, <1>3
<1> QED BY <1>4, <1>5, <1>6 DEF ThrottleInv

LEMMA ThrottleStep == ThrottleInv /\ [Throttle!Next]_(Throttle!vars) => ThrottleInv'
<1> SUFFICES ASSUME ThrottleInv, [Throttle!Next]_(Throttle!vars) PROVE ThrottleInv'
  OBVIOUS
<1>0. /\ seen \in [Clients -> Word] /\ anow \in [Clients -> Nat] /\ DOMAIN apc = Clients /\ epoch \in Nat
      /\ cells \in [Throttle!Slots -> Word] /\ \A r \in Clients : anow[r] <= epoch /\ Throttle!slot_for(r) \in Throttle!Slots
  BY ServicesAssumption DEF ThrottleInv, ThrottleTyped, NotAhead, Throttle!Configured, Throttle!Slots, Throttle!slot_for
<1>1. ASSUME NEW r \in Clients, Throttle!Check(r) \/ Throttle!Verify(r) \/ Throttle!Load(r) \/ Throttle!Again(r)
      PROVE  ThrottleInv'
  <2>1. UNCHANGED <<epoch, cells, counted, late>> /\ DOMAIN apc' = Clients
    BY <1>0, <1>1 DEF Throttle!Check, Throttle!Verify, Throttle!Load, Throttle!Again
  <2>2. seen' = seen \/ seen' = [seen EXCEPT ![r] = cells[Throttle!slot_for(r)]]
    BY <1>1 DEF Throttle!Check, Throttle!Verify, Throttle!Load, Throttle!Again
  <2>3. seen' \in [Clients -> Word]
    BY <1>0, <2>2
  <2>4. anow' = anow \/ \E n \in {epoch, 0, anow[r]} : anow' = [anow EXCEPT ![r] = n]
    BY <1>1 DEF Throttle!Check, Throttle!Verify, Throttle!Load, Throttle!Again
  <2>5. anow' \in [Clients -> Nat] /\ \A q \in Clients : anow'[q] <= epoch
    BY <1>0, <2>4
  <2> QED BY <2>1, <2>3, <2>5, ThrottleQuiet
<1>2. CASE UNCHANGED Throttle!vars
  BY <1>0, <1>2, ThrottleQuiet DEF Throttle!vars
<1> QED BY <1>1, <1>2, CasStep, WindowStep DEF Throttle!Next

LEMMA ThrottleSafe == ThrottleInv => Throttle!NoFailureLost
<1> SUFFICES ASSUME ThrottleInv, NEW k \in Throttle!Slots, k \notin late, Throttle!FailuresOf(k) > 0
             PROVE  cells[k] = [e |-> epoch, c |-> Throttle!Saturated(Throttle!FailuresOf(k))]
  BY DEF Throttle!NoFailureLost
<1>1. cells[k].e = epoch /\ cells[k].c = Throttle!Saturated(Throttle!FailuresOf(k))
  BY FailuresCounted DEF ThrottleInv, SlotCounts
<1>2. cells[k] \in Word
  BY DEF ThrottleInv, ThrottleTyped
<1> QED BY <1>1, <1>2 DEF Word

(***************************************************************************)
(* ConsoleAccounts                                                          *)
(***************************************************************************)

\* What a task holds at each of its places.
ConsoleTask(k) ==
    /\ k.pc \in {"idle", "lock", "hashing", "persist", "publish", "answer"}
    /\ k.pc # "idle" => k.email \in Emails
    /\ k.pc \in {"hashing", "answer"} => k.version \in Int
ConsoleTyped ==
    /\ afile \in [Emails -> Int] /\ shared \in [Emails -> Int]
    /\ DOMAIN atask = Tasks /\ \A t \in Tasks : ConsoleTask(atask[t])
    /\ created \in [Emails -> Int]
    /\ \A k \in tokens \cup revoked : k.email \in Emails /\ k.sv \in Int

\* The writer holds the lock, and what it writes is the snapshot with one address one on.
Writing(t) == atask[t].pc \in {"persist", "publish"}
WriterHoldsLock ==
    \A t \in Tasks : Writing(t) =>
        /\ alock = {t}
        /\ atask[t].next = [shared EXCEPT ![atask[t].email] = @ + 1]
        /\ atask[t].op = "create" => shared[atask[t].email] = Console!Absent

\* The file is the snapshot, but for the write that is about to be published.
FileIsSnapshot ==
    /\ \A t \in Tasks : atask[t].pc = "publish" => afile = atask[t].next
    /\ (\A t \in Tasks : atask[t].pc # "publish") => afile = shared

\* What a logout in its answer, or confirmed, has put behind the snapshot.
BehindSnapshot ==
    /\ \A k \in revoked : k.sv < shared[k.email]
    /\ \A t \in Tasks : atask[t].pc = "answer" /\ atask[t].op # "create" => atask[t].version <= shared[atask[t].email]

\* Who has created an account: the one that is about to say so, or the one that said so.
Creating(t) == atask[t].pc = "answer" /\ atask[t].op = "create"
CreatedOnce ==
    /\ \A e \in Emails : created[e] = 0 \/ (created[e] = 1 /\ shared[e] # Console!Absent)
    /\ \A e \in Emails : shared[e] >= Console!Absent
    /\ \A t \in Tasks : Creating(t) =>
        /\ created[atask[t].email] = 0 /\ shared[atask[t].email] # Console!Absent
        /\ \A u \in Tasks : Creating(u) /\ atask[u].email = atask[t].email => u = t

ConsoleInv == ConsoleTyped /\ WriterHoldsLock /\ FileIsSnapshot /\ BehindSnapshot /\ CreatedOnce

LEMMA ConsoleInit == Console!Init => ConsoleInv
<1> SUFFICES ASSUME Console!Init PROVE ConsoleInv
  OBVIOUS
<1> USE DEF Console!Init, Console!Idle, Console!Absent
<1>1. ConsoleTyped
  BY DEF ConsoleTyped, ConsoleTask
<1>2. WriterHoldsLock /\ FileIsSnapshot /\ BehindSnapshot /\ CreatedOnce
  BY DEF WriterHoldsLock, FileIsSnapshot, BehindSnapshot, CreatedOnce, Creating, Writing
<1> QED BY <1>1, <1>2 DEF ConsoleInv

\* Steps that leave the store alone: what the task does next is all that changes.
LEMMA ConsoleGoto ==
  ASSUME ConsoleInv, NEW t \in Tasks, NEW k, ConsoleTask(k), Console!Goto(t, k),
         k.pc \notin {"persist", "publish", "answer"}, atask[t].pc \notin {"persist", "publish"},
         UNCHANGED <<afile, shared, alock>>,
         \A x \in tokens' : x.email \in Emails /\ x.sv \in Int,
         \/ UNCHANGED <<revoked, created>>
         \/ /\ atask[t].pc = "answer" /\ atask[t].op = "create" /\ UNCHANGED revoked
            /\ created' = [created EXCEPT ![atask[t].email] = @ + 1]
         \/ /\ atask[t].pc = "answer" /\ atask[t].op # "create" /\ UNCHANGED created
            /\ revoked' = revoked \cup {x \in tokens : x.email = atask[t].email /\ x.sv < atask[t].version}
  PROVE  ConsoleInv'
<1>1. /\ DOMAIN atask' = Tasks /\ atask'[t] = k /\ \A u \in Tasks : u # t => atask'[u] = atask[u]
      /\ afile' = afile /\ shared' = shared /\ alock' = alock
  BY DEF Console!Goto, ConsoleInv, ConsoleTyped
<1>2. ConsoleTyped'
  <2>1. \A u \in Tasks : ConsoleTask(atask'[u])
    BY <1>1 DEF ConsoleInv, ConsoleTyped
  <2>2. created' \in [Emails -> Int]
    BY DEF ConsoleInv, ConsoleTyped, ConsoleTask
  <2>3. \A x \in revoked' : x.email \in Emails /\ x.sv \in Int
    BY DEF ConsoleInv, ConsoleTyped
  <2> QED BY <1>1, <2>1, <2>2, <2>3 DEF ConsoleInv, ConsoleTyped, ConsoleTask
<1>3. WriterHoldsLock'
  BY <1>1 DEF ConsoleInv, WriterHoldsLock, Writing, Console!Absent
<1>4. FileIsSnapshot'
  BY <1>1 DEF ConsoleInv, FileIsSnapshot
<1>5. BehindSnapshot'
  BY <1>1 DEF ConsoleInv, BehindSnapshot, ConsoleTyped, ConsoleTask
<1>6. CreatedOnce'
  BY <1>1 DEF ConsoleInv, CreatedOnce, Creating, ConsoleTyped, ConsoleTask, Console!Absent
<1> QED BY <1>2, <1>3, <1>4, <1>5, <1>6 DEF ConsoleInv

LEMMA ConsoleStep == ConsoleInv /\ [Console!Next]_(Console!vars) => ConsoleInv'
<1> SUFFICES ASSUME ConsoleInv, [Console!Next]_(Console!vars) PROVE ConsoleInv'
  OBVIOUS
<1>1. ASSUME NEW t \in Tasks, NEW e \in Emails, Console!Signup(t, e) PROVE ConsoleInv'
  <2> DEFINE k == [pc |-> "lock", op |-> "create", email |-> e]
  <2>1. ConsoleTask(k) /\ k.pc = "lock"
    BY DEF ConsoleTask
  <2>2. atask[t].pc = "idle" /\ Console!Goto(t, k) /\ UNCHANGED <<afile, shared, alock, tokens, revoked, created>>
    BY <1>1 DEF Console!Signup, Console!Idle
  <2> QED BY <2>1, <2>2, ConsoleGoto DEF ConsoleInv, ConsoleTyped
<1>2. ASSUME NEW t \in Tasks, NEW e \in Emails, Console!Login(t, e) PROVE ConsoleInv'
  <2> DEFINE k == [pc |-> "hashing", email |-> e, version |-> shared[e]]
  <2>1. ConsoleTask(k) /\ k.pc = "hashing"
    BY DEF ConsoleTask, ConsoleInv, ConsoleTyped
  <2>2. atask[t].pc = "idle" /\ Console!Goto(t, k) /\ UNCHANGED <<afile, shared, alock, tokens, revoked, created>>
    BY <1>2 DEF Console!Login, Console!Idle, Console!find
  <2> QED BY <2>1, <2>2, ConsoleGoto DEF ConsoleInv, ConsoleTyped
<1>3. ASSUME NEW t \in Tasks, Console!Issue(t) PROVE ConsoleInv'
  <2>1. ConsoleTask(Console!Idle) /\ Console!Idle.pc = "idle"
    BY DEF ConsoleTask, Console!Idle
  <2>2. atask[t].pc = "hashing" /\ Console!Goto(t, Console!Idle) /\ UNCHANGED <<afile, shared, alock, revoked, created>>
    BY <1>3 DEF Console!Issue
  <2>3. \A x \in tokens' : x.email \in Emails /\ x.sv \in Int
    BY <1>3, <2>2 DEF Console!Issue, Console!issue, ConsoleInv, ConsoleTyped, ConsoleTask
  <2> QED BY <2>1, <2>2, <2>3, ConsoleGoto
<1>4. ASSUME NEW t \in Tasks, NEW x \in tokens, Console!Logout(t, x) PROVE ConsoleInv'
  <2> DEFINE k == [pc |-> "lock", op |-> "bump", email |-> x.email]
  <2>1. ConsoleTask(k) /\ k.pc = "lock"
    BY DEF ConsoleTask, ConsoleInv, ConsoleTyped
  <2>2. atask[t].pc = "idle" /\ Console!Goto(t, k) /\ UNCHANGED <<afile, shared, alock, tokens, revoked, created>>
    BY <1>4 DEF Console!Logout, Console!Idle
  <2> QED BY <2>1, <2>2, ConsoleGoto DEF ConsoleInv, ConsoleTyped
<1>5. ASSUME NEW t \in Tasks, Console!Locked(t) PROVE ConsoleInv'
  <2>0. atask[t].pc = "lock" /\ alock = {} /\ UNCHANGED <<afile, shared, tokens, boot, revoked, created>>
        /\ \A u \in Tasks : ~Writing(u)
    BY <1>5 DEF Console!Locked, ConsoleInv, WriterHoldsLock
  <2>1. CASE atask[t].op = "create" /\ shared[atask[t].email] # Console!Absent
    <3>1. ConsoleTask(Console!Idle) /\ Console!Idle.pc = "idle"
      BY DEF ConsoleTask, Console!Idle
    <3>2. Console!Goto(t, Console!Idle) /\ UNCHANGED alock
      BY <1>5, <2>1 DEF Console!Locked
    <3> QED BY <2>0, <3>1, <3>2, ConsoleGoto DEF ConsoleInv, ConsoleTyped
  <2>2. CASE ~(atask[t].op = "create" /\ shared[atask[t].email] # Console!Absent)
    <3> DEFINE e == atask[t].email
               k == [pc |-> "persist", op |-> atask[t].op, email |-> e, next |-> [shared EXCEPT ![e] = @ + 1]]
    <3>1. /\ alock' = {t} /\ DOMAIN atask' = Tasks /\ atask'[t] = k /\ \A u \in Tasks : u # t => atask'[u] = atask[u]
      BY <1>5, <2>2 DEF Console!Locked, Console!Goto, ConsoleInv, ConsoleTyped
    <3>2. /\ k.pc = "persist" /\ k.op = atask[t].op /\ k.email = e /\ k.next = [shared EXCEPT ![e] = @ + 1]
          /\ e \in Emails
      BY <2>0 DEF ConsoleInv, ConsoleTyped, ConsoleTask
    <3> HIDE DEF k
    <3>3. ConsoleTyped'
      BY <2>0, <3>1, <3>2 DEF ConsoleInv, ConsoleTyped, ConsoleTask
    <3>4. WriterHoldsLock'
      BY <2>0, <2>2, <3>1, <3>2, ZenonT(40) DEF WriterHoldsLock, Writing, Console!Absent
    <3>5. FileIsSnapshot'
      BY <2>0, <3>1, <3>2 DEF ConsoleInv, FileIsSnapshot, Writing
    <3>6. BehindSnapshot' /\ CreatedOnce'
      BY <2>0, <3>1, <3>2 DEF ConsoleInv, BehindSnapshot, CreatedOnce, Creating, Console!Absent
    <3> QED BY <3>3, <3>4, <3>5, <3>6 DEF ConsoleInv
  <2> QED BY <2>1, <2>2
<1>6. ASSUME NEW t \in Tasks, Console!Persist(t) PROVE ConsoleInv'
  <2>0. /\ atask[t].pc = "persist" /\ UNCHANGED <<shared, tokens, boot, revoked, created>>
        /\ \A u \in Tasks : Writing(u) => u = t
    BY <1>6 DEF Console!Persist, ConsoleInv, WriterHoldsLock, Writing
  <2>1. CASE afile' = atask[t].next /\ Console!Goto(t, [atask[t] EXCEPT !.pc = "publish"]) /\ UNCHANGED alock
    <3> DEFINE k == [atask[t] EXCEPT !.pc = "publish"]
    <3>1. /\ DOMAIN atask' = Tasks /\ atask'[t] = k /\ \A u \in Tasks : u # t => atask'[u] = atask[u]
      BY <2>1 DEF Console!Goto, ConsoleInv, ConsoleTyped
    <3>2. k.pc = "publish" /\ k.op = atask[t].op /\ k.email = atask[t].email /\ k.next = atask[t].next
      OBVIOUS
    <3> HIDE DEF k
    <3>3. ConsoleTyped'
      <4>1. afile' = [shared EXCEPT ![atask[t].email] = @ + 1] /\ shared \in [Emails -> Int]
        BY <2>0, <2>1 DEF ConsoleInv, ConsoleTyped, WriterHoldsLock, Writing
      <4>2. atask[t].email \in Emails
        BY <2>0 DEF ConsoleInv, ConsoleTyped, ConsoleTask
      <4>3. afile' \in [Emails -> Int]
        BY <4>1, <4>2
      <4> QED BY <2>0, <3>1, <3>2, <4>3 DEF ConsoleInv, ConsoleTyped, ConsoleTask
    <3>4. WriterHoldsLock'
      BY <2>0, <2>1, <3>1, <3>2 DEF ConsoleInv, WriterHoldsLock, Writing, Console!Absent
    <3>5. FileIsSnapshot'
      BY <2>0, <2>1, <3>1, <3>2 DEF FileIsSnapshot, Writing
    <3>6. BehindSnapshot' /\ CreatedOnce'
      BY <2>0, <3>1, <3>2 DEF ConsoleInv, BehindSnapshot, CreatedOnce, Creating, Console!Absent
    <3> QED BY <3>3, <3>4, <3>5, <3>6 DEF ConsoleInv
  <2>2. CASE alock' = {} /\ Console!Goto(t, Console!Idle) /\ UNCHANGED afile
    <3>1. /\ DOMAIN atask' = Tasks /\ atask'[t].pc = "idle" /\ \A u \in Tasks : u # t => atask'[u] = atask[u]
      BY <2>2 DEF Console!Goto, ConsoleInv, ConsoleTyped, Console!Idle
    <3>2. ConsoleTyped'
      BY <2>0, <2>2, <3>1 DEF ConsoleInv, ConsoleTyped, ConsoleTask
    <3>3. WriterHoldsLock' /\ FileIsSnapshot' /\ BehindSnapshot' /\ CreatedOnce'
      BY <2>0, <2>2, <3>1 DEF ConsoleInv, WriterHoldsLock, Writing, FileIsSnapshot, BehindSnapshot, CreatedOnce, Creating, Console!Absent
    <3> QED BY <3>2, <3>3 DEF ConsoleInv
  <2> QED BY <1>6, <2>1, <2>2 DEF Console!Persist
<1>7. ASSUME NEW t \in Tasks, Console!Publish(t) PROVE ConsoleInv'
  <2> DEFINE e == atask[t].email
             k == [pc |-> "answer", op |-> atask[t].op, email |-> e, version |-> atask[t].next[e]]
  <2>1. /\ atask[t].pc = "publish" /\ UNCHANGED <<afile, tokens, boot, revoked, created>>
        /\ shared' = atask[t].next /\ alock' = {} /\ afile = atask[t].next
        /\ \A u \in Tasks : Writing(u) => u = t
    BY <1>7 DEF Console!Publish, ConsoleInv, WriterHoldsLock, Writing, FileIsSnapshot
  <2>2. /\ DOMAIN atask' = Tasks /\ atask'[t] = k /\ \A u \in Tasks : u # t => atask'[u] = atask[u]
    BY <1>7 DEF Console!Publish, Console!Goto, ConsoleInv, ConsoleTyped
  <2>3. k.pc = "answer" /\ k.op = atask[t].op /\ k.email = e /\ k.version = shared'[e] /\ e \in Emails
    BY <2>1 DEF ConsoleInv, ConsoleTyped, ConsoleTask
  <2>4. /\ shared' = [shared EXCEPT ![e] = @ + 1] /\ shared' \in [Emails -> Int]
        /\ shared'[e] = shared[e] + 1 /\ \A x \in Emails : x # e => shared'[x] = shared[x]
        /\ atask[t].op = "create" => shared[e] = Console!Absent
    BY <2>1, <2>3 DEF ConsoleInv, ConsoleTyped, WriterHoldsLock, Writing
  <2> HIDE DEF k
  <2>5. ConsoleTyped'
    BY <2>1, <2>2, <2>3, <2>4 DEF ConsoleInv, ConsoleTyped, ConsoleTask
  <2>6. WriterHoldsLock' /\ FileIsSnapshot'
    BY <2>1, <2>2, <2>3 DEF WriterHoldsLock, Writing, FileIsSnapshot
  <2>7. BehindSnapshot'
    <3>1. \A x \in Emails : shared[x] <= shared'[x] /\ shared[x] \in Int /\ shared'[x] \in Int
      BY <2>3, <2>4 DEF ConsoleInv, ConsoleTyped
    <3>2. \A x \in revoked' : x.sv < shared'[x.email]
      BY <2>1, <3>1 DEF ConsoleInv, ConsoleTyped, BehindSnapshot
    <3>3. \A u \in Tasks : atask'[u].pc = "answer" /\ atask'[u].op # "create" => atask'[u].version <= shared'[atask'[u].email]
      BY <2>2, <2>3, <3>1 DEF ConsoleInv, ConsoleTyped, ConsoleTask, BehindSnapshot
    <3> QED BY <3>2, <3>3 DEF BehindSnapshot
  <2>8. CreatedOnce'
    <3>1. \A x \in Emails : shared'[x] >= Console!Absent /\ (shared[x] # Console!Absent => shared'[x] # Console!Absent)
      BY <2>3, <2>4 DEF ConsoleInv, ConsoleTyped, CreatedOnce, Console!Absent
    <3>2. shared'[e] # Console!Absent
      BY <2>3, <2>4 DEF ConsoleInv, ConsoleTyped, CreatedOnce, Console!Absent
    <3>3. atask[t].op = "create" => created[e] = 0 /\ \A u \in Tasks : Creating(u) => atask[u].email # e
      BY <2>3, <2>4 DEF ConsoleInv, CreatedOnce
    <3>4. ~Creating(t) /\ \A u \in Tasks : Creating(u) => atask[u].email \in Emails
      BY <2>1 DEF Creating, ConsoleInv, ConsoleTyped, ConsoleTask
    <3> QED BY <2>1, <2>2, <2>3, <3>1, <3>2, <3>3, <3>4 DEF ConsoleInv, CreatedOnce, Creating, Console!Absent
  <2> QED BY <2>5, <2>6, <2>7, <2>8 DEF ConsoleInv
<1>8. ASSUME NEW t \in Tasks, Console!Answer(t) PROVE ConsoleInv'
  <2>1. ConsoleTask(Console!Idle) /\ Console!Idle.pc = "idle"
    BY DEF ConsoleTask, Console!Idle
  <2>2. atask[t].pc = "answer" /\ Console!Goto(t, Console!Idle) /\ UNCHANGED <<afile, shared, alock, boot>>
    BY <1>8 DEF Console!Answer
  <2>3. \A x \in tokens' : x.email \in Emails /\ x.sv \in Int
    BY <1>8, <2>2 DEF Console!Answer, Console!issue, ConsoleInv, ConsoleTyped, ConsoleTask
  <2>4. \/ atask[t].op = "create" /\ UNCHANGED revoked /\ created' = [created EXCEPT ![atask[t].email] = @ + 1]
        \/ /\ atask[t].op # "create" /\ UNCHANGED created
           /\ revoked' = revoked \cup {x \in tokens : x.email = atask[t].email /\ x.sv < atask[t].version}
    BY <1>8 DEF Console!Answer
  <2> QED BY <2>1, <2>2, <2>3, <2>4, ConsoleGoto
<1>9. CASE Console!Crash
  <2>1. /\ shared' = afile /\ UNCHANGED <<afile, tokens, revoked, created>>
        /\ DOMAIN atask' = Tasks /\ \A t \in Tasks : atask'[t].pc = "idle"
    BY <1>9 DEF Console!Crash, Console!Idle
  <2>2. \A x \in Emails : afile[x] \in Int /\ shared[x] \in Int /\ shared[x] <= afile[x]
    <3>1. CASE \A t \in Tasks : atask[t].pc # "publish"
      BY <3>1 DEF ConsoleInv, ConsoleTyped, FileIsSnapshot
    <3>2. ASSUME NEW t \in Tasks, atask[t].pc = "publish" PROVE \A x \in Emails : afile[x] \in Int /\ shared[x] \in Int /\ shared[x] <= afile[x]
      <4>1. afile = [shared EXCEPT ![atask[t].email] = @ + 1] /\ shared \in [Emails -> Int]
        BY <3>2 DEF ConsoleInv, ConsoleTyped, FileIsSnapshot, WriterHoldsLock, Writing
      <4> QED BY <4>1
    <3> QED BY <3>1, <3>2
  <2>3. ConsoleTyped'
    BY <2>1 DEF ConsoleInv, ConsoleTyped, ConsoleTask
  <2>4. WriterHoldsLock' /\ FileIsSnapshot'
    BY <2>1 DEF WriterHoldsLock, Writing, FileIsSnapshot
  <2>5. BehindSnapshot' /\ CreatedOnce'
    BY <2>1, <2>2 DEF ConsoleInv, ConsoleTyped, BehindSnapshot, CreatedOnce, Creating, Console!Absent
  <2> QED BY <2>3, <2>4, <2>5 DEF ConsoleInv
<1>10. CASE UNCHANGED Console!vars
  BY <1>10 DEF Console!vars, ConsoleInv, ConsoleTyped, ConsoleTask, WriterHoldsLock, Writing, FileIsSnapshot, BehindSnapshot,
               CreatedOnce, Creating, Console!Absent
<1> QED BY <1>1, <1>2, <1>3, <1>4, <1>5, <1>6, <1>7, <1>8, <1>9, <1>10 DEF Console!Next

LEMMA ConsoleSafe == ConsoleInv => Console!LogoutIsFinal /\ Console!OneOwner
<1> SUFFICES ASSUME ConsoleInv PROVE Console!LogoutIsFinal /\ Console!OneOwner
  OBVIOUS
<1>1. Console!LogoutIsFinal
  BY DEF ConsoleInv, ConsoleTyped, BehindSnapshot, Console!LogoutIsFinal, Console!verify, Console!find
<1>2. Console!OneOwner
  BY DEF ConsoleInv, ConsoleTyped, CreatedOnce, Console!OneOwner, Console!Absent
<1> QED BY <1>1, <1>2

(***************************************************************************)
(* CacheStore                                                               *)
(***************************************************************************)

\* Entries whose bytes can be counted.
Priced(S) == IsFiniteSet(Cache!BytesOf(S)) /\ \A e \in S : e.cost \in Nat

LEMMA CostIsCount ==
  ASSUME NEW S
  PROVE  Cache!CostOf(S) = Cardinality(Cache!BytesOf(S))
BY Zenon DEF Cache!CostOf, Cache!Cardinality, Cardinality

LEMMA PricedNat ==
  ASSUME NEW S, Priced(S)
  PROVE  Cache!CostOf(S) \in Nat
BY FS_CardinalityType, CostIsCount DEF Priced

LEMMA PricedEmpty == Cache!CostOf({}) = 0 /\ Priced({})
<1>1. Cache!BytesOf({}) = {}
  BY DEF Cache!BytesOf
<1> QED BY <1>1, FS_EmptySet, CostIsCount DEF Priced

\* The cardinality of a disjoint union.
LEMMA DisjointUnion ==
  ASSUME NEW A, IsFiniteSet(A), NEW B, IsFiniteSet(B), A \cap B = {}
  PROVE  IsFiniteSet(A \cup B) /\ Cardinality(A \cup B) = Cardinality(A) + Cardinality(B)
<1>1. IsFiniteSet(A \cup B) /\ Cardinality(A \cup B) = Cardinality(A) + Cardinality(B) - Cardinality(A \cap B)
  BY FS_Union
<1>2. Cardinality(A \cap B) = 0
  BY FS_EmptySet
<1>3. Cardinality(A) \in Nat /\ Cardinality(B) \in Nat
  BY FS_CardinalityType
<1> QED BY <1>1, <1>2, <1>3

LEMMA PricedSplit ==
  ASSUME NEW S, Priced(S), NEW T, T \subseteq S
  PROVE  /\ Cache!CostOf(S) = Cache!CostOf(T) + Cache!CostOf(S \ T)
         /\ Priced(T) /\ Priced(S \ T)
<1> DEFINE A == Cache!BytesOf(T)
           B == Cache!BytesOf(S \ T)
<1>1. Cache!BytesOf(S) = A \cup B
  BY DEF Cache!BytesOf
<1>2. A \cap B = {}
  BY DEF Cache!BytesOf
<1> HIDE DEF A, B
<1>3. IsFiniteSet(A \cup B)
  BY <1>1 DEF Priced
<1>4. IsFiniteSet(A) /\ IsFiniteSet(B)
  BY <1>3, FS_Subset
<1>5. Cardinality(A \cup B) = Cardinality(A) + Cardinality(B)
  BY <1>2, <1>4, DisjointUnion
<1> QED BY <1>1, <1>4, <1>5, CostIsCount DEF Priced, A, B

LEMMA PricedAdd ==
  ASSUME NEW S, Priced(S), NEW x, x \notin S, x.cost \in Nat
  PROVE  Cache!CostOf(S \cup {x}) = x.cost + Cache!CostOf(S) /\ Priced(S \cup {x})
<1> DEFINE A == Cache!BytesOf(S)
           B == {x} \X (1..x.cost)
<1>1. Cache!BytesOf(S \cup {x}) = A \cup B
  BY DEF Cache!BytesOf
<1>2. A \cap B = {}
  BY DEF Cache!BytesOf
<1>3. IsFiniteSet(B) /\ Cardinality(B) = x.cost
  <2>1. IsFiniteSet({x}) /\ Cardinality({x}) = 1
    BY FS_Singleton
  <2>2. IsFiniteSet(1..x.cost) /\ Cardinality(1..x.cost) = x.cost
    BY FS_Interval, SMTT(30)
  <2>3. IsFiniteSet(B) /\ Cardinality(B) = Cardinality({x}) * Cardinality(1..x.cost)
    BY <2>1, <2>2, FS_Product
  <2> QED BY <2>1, <2>2, <2>3
<1>4. IsFiniteSet(A)
  BY DEF Priced
<1> HIDE DEF A, B
<1>5. IsFiniteSet(A \cup B) /\ Cardinality(A \cup B) = Cardinality(A) + Cardinality(B)
  BY <1>2, <1>3, <1>4, DisjointUnion
<1>6. Cardinality(A) \in Nat
  BY <1>4, FS_CardinalityType
<1>7. Cache!CostOf(S \cup {x}) = Cardinality(A \cup B) /\ Cache!CostOf(S) = Cardinality(A)
  BY <1>1, CostIsCount DEF A
<1>8. Cache!CostOf(S \cup {x}) = x.cost + Cache!CostOf(S)
  BY <1>3, <1>5, <1>6, <1>7
<1>9. Priced(S \cup {x})
  BY <1>1, <1>5 DEF Priced
<1> QED BY <1>8, <1>9


StoredKey(e) == e.key \in Keys /\ e.cost \in Nat /\ e.at \in Nat /\ e.ttl \in Nat
Stored(S) == Priced(S) /\ \A e \in S : StoredKey(e)

Shares ==
    /\ cnow \in Nat /\ Stored(entries) /\ DOMAIN tenant_bytes = Cache!Tenants
    /\ \A t \in Cache!Tenants :
         /\ Cache!CostOf(Cache!Of(t, entries)) <= Cache!storage_budget(t)
         /\ work = Cache!Done \/ t # work.new.key.tenant => tenant_bytes[t] = Cache!CostOf(Cache!Of(t, entries))
Evicting ==
    LET t == work.new.key.tenant IN
    /\ work # Cache!Done /\ StoredKey(work.new)
    /\ \A e \in work.gone \cup work.prior : e.key.tenant = t
    /\ work.left = (Cache!Of(t, entries \ work.prior) \cup {work.new}) \ work.gone
    /\ Cache!CostOf(work.left) <= Cache!storage_budget(t)
    /\ \A e \in work.gone : Cache!expired(e, work.time)
                            \/ \A k \in work.left : ~Cache!expired(k, work.time) /\ e.at <= k.at
CacheInv == Shares /\ (work = Cache!Done \/ (work.as = "evict" /\ Evicting))

LEMMA StoreConst ==
  ASSUME Cache!Configured
  PROVE  /\ \A t \in Cache!Tenants : Cache!storage_budget(t) \in Nat /\ Cache!writer_budget(t) \in Nat
         /\ KeyOverhead \in Nat /\ MaxEntryBytes \in Nat /\ MaxTime \in Nat
         /\ Bodies \subseteq Nat /\ Ttls \subseteq Nat /\ \A k \in Keys : k.tenant \in Cache!Tenants
<1>1. BudgetBytes \in Nat /\ MaxWriteRetention \in Nat /\ KeyOverhead \in Nat /\ MaxEntryBytes \in Nat /\ MaxTime \in Nat
  BY DEF Cache!Configured
<1>2. Len(TenantList) \in Nat /\ Len(TenantList) > 0
  BY DEF Cache!Configured
<1>3. \A x, n \in Nat : n > 0 => x \div n \in Nat /\ x % n \in Nat
  OBVIOUS
<1>4. Cache!writer_budget_bytes \in Nat /\ Cache!writer_budget_bytes <= BudgetBytes
  BY <1>1 DEF Cache!writer_budget_bytes, Cache!AtMost
<1>5. Cache!storage_budget_bytes \in Nat
  BY <1>1, <1>4 DEF Cache!storage_budget_bytes
<1>6. \A x \in Nat : \A i : Cache!partition(x, i) \in Nat
  <2> SUFFICES ASSUME NEW x \in Nat, NEW i PROVE Cache!partition(x, i) \in Nat
    OBVIOUS
  <2>1. x \div Len(TenantList) \in Nat
    BY <1>2, <1>3
  <2> QED BY <2>1 DEF Cache!partition
<1>7. \A t \in Cache!Tenants : Cache!storage_budget(t) \in Nat /\ Cache!writer_budget(t) \in Nat
  BY <1>4, <1>5, <1>6 DEF Cache!storage_budget, Cache!writer_budget
<1> QED BY <1>1, <1>7 DEF Cache!Configured

LEMMA StoredPriced ==
  ASSUME NEW S, Stored(S), NEW T, T \subseteq S
  PROVE  Stored(T) /\ Priced(T) /\ Cache!CostOf(T) \in Nat
BY PricedSplit, PricedNat DEF Stored

LEMMA StoredAdd ==
  ASSUME NEW S, Stored(S), NEW e, StoredKey(e)
  PROVE  Stored(S \cup {e})
<1>1. CASE e \in S
  <2>1. S \cup {e} = S
    BY <1>1
  <2> QED BY <2>1
<1>2. CASE e \notin S
  BY <1>2, PricedAdd DEF Stored, StoredKey
<1> QED BY <1>1, <1>2

LEMMA StoreInit == Cache!Configured /\ Cache!Init => CacheInv
<1> SUFFICES ASSUME Cache!Configured, Cache!Init PROVE CacheInv
  OBVIOUS
<1>1. Cache!Of(1, {}) = {} /\ \A t : Cache!Of(t, {}) = {}
  BY DEF Cache!Of
<1>2. Stored({})
  BY PricedEmpty DEF Stored
<1> QED BY <1>1, <1>2, StoreConst, PricedEmpty DEF Cache!Init, CacheInv, Shares

LEMMA TickStep ==
  ASSUME CacheInv, Cache!Tick \/ UNCHANGED Cache!vars
  PROVE  CacheInv'
<1>1. UNCHANGED <<entries, tenant_bytes, work>> /\ cnow' \in Nat
  BY DEF Cache!Tick, Cache!vars, CacheInv, Shares
<1>2. Shares'
  BY <1>1, Zenon DEF CacheInv, Shares, Stored, StoredKey, Priced, Cache!CostOf, Cache!BytesOf, Cache!Of, Cache!Done, Cache!storage_budget
<1>3. ASSUME Evicting PROVE Evicting'
  BY <1>1, <1>3, Zenon DEF Evicting, StoredKey, Cache!Done, Cache!CostOf, Cache!BytesOf, Cache!storage_budget, Cache!expired, Cache!Of
<1> QED BY <1>1, <1>2, <1>3 DEF CacheInv, Cache!Done

LEMMA EvictStep ==
  ASSUME Cache!Configured, CacheInv, NEW s, Cache!EvictShard(s)
  PROVE  CacheInv'
<1> DEFINE t == work.new.key.tenant
<1>0. Evicting /\ Shares /\ work' = work /\ cnow' = cnow /\ tenant_bytes' = tenant_bytes /\ work.as = "evict" /\ work # Cache!Done
  BY DEF CacheInv, Cache!EvictShard, Cache!Done
<1>1. entries' = {e \in entries : e.key.shard = s => e \notin work.gone}
  BY DEF Cache!EvictShard
<1>2. entries' \subseteq entries /\ \A e \in entries : e \notin entries' => e \in work.gone /\ e.key.tenant = t
  BY <1>0, <1>1 DEF Evicting
<1>3. Stored(entries')
  BY <1>0, <1>2, StoredPriced DEF Shares
<1>4. ASSUME NEW u PROVE Cache!CostOf(Cache!Of(u, entries')) <= Cache!CostOf(Cache!Of(u, entries))
  <2>1. Cache!Of(u, entries') \subseteq Cache!Of(u, entries) /\ Cache!Of(u, entries) \subseteq entries
    BY <1>2 DEF Cache!Of
  <2> DEFINE A == Cache!Of(u, entries)
             B == Cache!Of(u, entries')
  <2>2. Priced(A) /\ B \subseteq A
    BY <1>0, <2>1, StoredPriced DEF Shares
  <2> HIDE DEF A, B
  <2>3. Cache!CostOf(A) = Cache!CostOf(B) + Cache!CostOf(A \ B) /\ Cache!CostOf(B) \in Nat /\ Cache!CostOf(A \ B) \in Nat
    BY <2>2, PricedSplit, PricedNat
  <2>4. Cache!CostOf(B) <= Cache!CostOf(A)
    BY <2>3
  <2> QED BY <2>4 DEF A, B
<1>5. ASSUME NEW u, u # t PROVE Cache!Of(u, entries') = Cache!Of(u, entries)
  BY <1>2, <1>5 DEF Cache!Of
<1>6. (Cache!Of(t, entries' \ work.prior) \cup {work.new}) \ work.gone = (Cache!Of(t, entries \ work.prior) \cup {work.new}) \ work.gone
  BY <1>2 DEF Cache!Of
<1>7. Evicting'
  <2>1. work.left = (Cache!Of(t, entries' \ work.prior) \cup {work.new}) \ work.gone
    BY <1>0, <1>6 DEF Evicting
  <2> QED BY <1>0, <2>1 DEF Evicting, StoredKey, Cache!Done, Cache!CostOf, Cache!BytesOf, Cache!storage_budget, Cache!expired, Cache!Of
<1>8. Shares'
  <2> SUFFICES ASSUME NEW u \in Cache!Tenants
               PROVE  /\ Cache!CostOf(Cache!Of(u, entries')) <= Cache!storage_budget(u)
                      /\ (work = Cache!Done \/ u # t) => tenant_bytes[u] = Cache!CostOf(Cache!Of(u, entries'))
    BY <1>0, <1>3, Zenon DEF Shares, Stored, StoredKey, Priced, Cache!CostOf, Cache!BytesOf, Cache!Of, Cache!Done
  <2>1. /\ Cache!CostOf(Cache!Of(u, entries)) <= Cache!storage_budget(u)
        /\ u # t => tenant_bytes[u] = Cache!CostOf(Cache!Of(u, entries))
    BY <1>0 DEF Shares
  <2>2. Cache!CostOf(Cache!Of(u, entries')) <= Cache!CostOf(Cache!Of(u, entries))
    BY <1>4
  <2>3. Cache!CostOf(Cache!Of(u, entries')) \in Nat /\ Cache!CostOf(Cache!Of(u, entries)) \in Nat /\ Cache!storage_budget(u) \in Nat
    <3>1. Cache!Of(u, entries') \subseteq entries' /\ Cache!Of(u, entries) \subseteq entries
      BY DEF Cache!Of
    <3> QED BY <1>0, <1>3, <3>1, StoredPriced, StoreConst DEF Shares
  <2>4. Cache!CostOf(Cache!Of(u, entries')) <= Cache!storage_budget(u)
    BY <2>1, <2>2, <2>3
  <2> QED BY <1>0, <1>5, <2>1, <2>4
<1> QED BY <1>0, <1>7, <1>8 DEF CacheInv

\* The shares after a step that replaces what the cache holds of tenant t.
LEMMA SharesMoved ==
  ASSUME CacheInv, NEW t, NEW E, Stored(E), entries' = E, cnow' = cnow, work' = Cache!Done,
         \A u \in Cache!Tenants : u # t => Cache!Of(u, E) = Cache!Of(u, entries),
         t \in Cache!Tenants, Cache!CostOf(Cache!Of(t, E)) <= Cache!storage_budget(t),
         tenant_bytes' = [tenant_bytes EXCEPT ![t] = Cache!CostOf(Cache!Of(t, E))],
         work = Cache!Done \/ t = work.new.key.tenant
  PROVE  CacheInv'
<1>1. /\ cnow' \in Nat /\ Stored(E) /\ DOMAIN tenant_bytes' = Cache!Tenants
      /\ \A u \in Cache!Tenants : /\ Cache!CostOf(Cache!Of(u, E)) <= Cache!storage_budget(u)
                                  /\ tenant_bytes'[u] = Cache!CostOf(Cache!Of(u, E))
  BY DEF CacheInv, Shares
<1>2. Shares'
  BY <1>1, Zenon DEF Shares, Stored, StoredKey, Priced, Cache!CostOf, Cache!BytesOf, Cache!Of, Cache!storage_budget
<1> QED BY <1>2 DEF CacheInv, Cache!Done

LEMMA StoreStep ==
  ASSUME Cache!Configured, CacheInv, Cache!StoreShard
  PROVE  CacheInv'
<1> DEFINE t == work.new.key.tenant
           E == (entries \ (work.gone \cup work.prior)) \cup ({work.new} \ work.gone)
<1>0. Evicting /\ Shares /\ work.as = "evict" /\ work # Cache!Done
  BY DEF CacheInv, Cache!StoreShard, Cache!Done
<1>1. entries' = E /\ cnow' = cnow /\ work' = Cache!Done /\ tenant_bytes' = [tenant_bytes EXCEPT ![t] = Cache!CostOf(work.left)]
  BY DEF Cache!StoreShard
<1>2. Stored(E)
  <2>1. Stored(entries \cup {work.new}) /\ E \subseteq entries \cup {work.new}
    BY <1>0, StoredAdd DEF Shares, Evicting
  <2> QED BY <2>1, StoredPriced
<1>3. Cache!Of(t, E) = work.left
  BY <1>0 DEF Evicting, Cache!Of
<1>4. \A u : u # t => Cache!Of(u, E) = Cache!Of(u, entries)
  BY <1>0 DEF Evicting, Cache!Of
<1>5. t \in Cache!Tenants /\ Cache!CostOf(work.left) <= Cache!storage_budget(t)
  BY <1>0, StoreConst DEF Evicting, StoredKey
<1> HIDE DEF E
<1> QED BY <1>0, <1>1, <1>2, <1>3, <1>4, <1>5, SharesMoved

NewEntry(key, body, ttl, a) == [key |-> key, cost |-> body + KeyOverhead, at |-> a, ttl |-> ttl]

LEMMA InsertStep ==
  ASSUME Cache!Configured, CacheInv, NEW k \in Keys, NEW b \in Bodies, NEW l \in Ttls, NEW a \in 0..MaxTime, Cache!Insert(k, b, l, a)
  PROVE  CacheInv'
<1> DEFINE t == k.tenant
           e == NewEntry(k, b, l, a)
           prior == {p \in entries : p.key = k}
           rest == Cache!Of(t, entries \ prior)
           projected == Cache!Minus(tenant_bytes[t], Cache!CostOf(prior)) + e.cost
           cand == rest \cup {e}
           E == (entries \ prior) \cup {e}
<1>0. /\ work = Cache!Done /\ cnow' = cnow /\ Shares /\ t \in Cache!Tenants /\ Cache!storage_budget(t) \in Nat
      /\ e.cost = b + KeyOverhead /\ e.cost \in Nat /\ StoredKey(e) /\ e.key = k
      /\ tenant_bytes[t] = Cache!CostOf(Cache!Of(t, entries))
  BY StoreConst DEF Cache!Insert, CacheInv, Shares, NewEntry, StoredKey
<1>1. /\ Stored(entries) /\ prior \subseteq Cache!Of(t, entries) /\ Cache!Of(t, entries) \subseteq entries
      /\ rest = Cache!Of(t, entries) \ prior /\ e \notin rest /\ rest \subseteq entries
  BY <1>0 DEF Shares, Cache!Of
<1>2. /\ Cache!CostOf(Cache!Of(t, entries)) = Cache!CostOf(prior) + Cache!CostOf(rest)
      /\ Cache!CostOf(prior) \in Nat /\ Cache!CostOf(rest) \in Nat /\ Priced(rest)
  <2>1. Priced(Cache!Of(t, entries))
    BY <1>1, StoredPriced
  <2> HIDE DEF prior, rest
  <2>2. /\ Cache!CostOf(Cache!Of(t, entries)) = Cache!CostOf(prior) + Cache!CostOf(rest)
        /\ Priced(prior) /\ Priced(rest)
    BY <1>1, <2>1, PricedSplit
  <2> QED BY <2>2, PricedNat
<1>3. Cache!CostOf(cand) = e.cost + Cache!CostOf(rest)
  <2> HIDE DEF e, rest
  <2> QED BY <1>0, <1>1, <1>2, PricedAdd
<1>4. projected = Cache!CostOf(cand)
  <2>1. Cache!Minus(tenant_bytes[t], Cache!CostOf(prior)) = Cache!CostOf(rest)
    <3> HIDE DEF prior, rest
    <3> QED BY <1>0, <1>2 DEF Cache!Minus
  <2> HIDE DEF e, rest, cand, prior
  <2> QED BY <2>1, <1>3, <1>0, <1>2
<1>5. CASE projected <= Cache!storage_budget(t)
  <2>1. /\ entries' = E /\ work' = Cache!Done
        /\ tenant_bytes' = [tenant_bytes EXCEPT ![t] = projected]
    BY <1>0, <1>5 DEF Cache!Insert, NewEntry
  <2>2. Stored(E)
    <3>1. Stored(entries \cup {e}) /\ E \subseteq entries \cup {e}
      BY <1>0, <1>1, StoredAdd
    <3> QED BY <3>1, StoredPriced
  <2>3. Cache!Of(t, E) = cand
    BY <1>0 DEF Cache!Of
  <2>4. \A u : u # t => Cache!Of(u, E) = Cache!Of(u, entries)
    BY <1>0 DEF Cache!Of
  <2> HIDE DEF E, cand, projected
  <2> QED BY <1>0, <1>4, <1>5, <2>1, <2>2, <2>3, <2>4, SharesMoved
<1>6. CASE ~(projected <= Cache!storage_budget(t))
  <2>1. UNCHANGED <<entries, tenant_bytes>>
    BY <1>6 DEF Cache!Insert, NewEntry
  <2>2. PICK gone : /\ gone \in IF Cache!CostOf(cand) > Cache!storage_budget(t)
                                  THEN Cache!Removals(cand, Cache!storage_budget(t)) ELSE {{}}
                    /\ work' = [as |-> "evict", new |-> e, prior |-> prior, gone |-> gone, left |-> cand \ gone, time |-> cnow]
    BY <1>6 DEF Cache!Insert, NewEntry
  <2>3. /\ gone \subseteq cand /\ Cache!CostOf(cand \ gone) <= Cache!storage_budget(t)
        /\ \A x \in gone : Cache!expired(x, cnow)
                           \/ \A y \in cand \ gone : ~Cache!expired(y, cnow) /\ x.at <= y.at
    <3>1. CASE Cache!CostOf(cand) > Cache!storage_budget(t)
      <4> DEFINE stale == {x \in cand : Cache!expired(x, cnow)}
      <4>1. PICK R \in Cache!Oldest(cand \ stale, Cache!storage_budget(t)) : gone = stale \cup R
        BY <2>2, <3>1 DEF Cache!Removals
      <4>2. /\ R \subseteq cand \ stale /\ Cache!CostOf((cand \ stale) \ R) <= Cache!storage_budget(t)
            /\ \A x \in R, y \in (cand \ stale) \ R : x.at <= y.at
        BY <4>1 DEF Cache!Oldest
      <4>3. cand \ gone = (cand \ stale) \ R
        BY <4>1
      <4>4. gone \subseteq cand
        BY <4>1, <4>2
      <4>5. ASSUME NEW x \in gone, ~Cache!expired(x, cnow), NEW y \in cand \ gone
            PROVE  ~Cache!expired(y, cnow) /\ x.at <= y.at
        BY <4>1, <4>2, <4>3, <4>5
      <4> QED BY <4>2, <4>3, <4>4, <4>5
    <3>2. CASE ~(Cache!CostOf(cand) > Cache!storage_budget(t))
      <4>1. gone = {} /\ cand \ gone = cand
        BY <2>2, <3>2
      <4>2. Cache!CostOf(cand) <= Cache!storage_budget(t)
        <5> HIDE DEF cand, rest, e
        <5> QED BY <3>2, <1>0, <1>2, <1>3
      <4> QED BY <4>1, <4>2
    <3> QED BY <3>1, <3>2
  <2>4. /\ work'.as = "evict" /\ work'.new = e /\ work'.prior = prior /\ work'.gone = gone
        /\ work'.left = cand \ gone /\ work'.time = cnow /\ work' # Cache!Done
    BY <2>2 DEF Cache!Done
  <2>5. Shares'
    <3>1. \A u \in Cache!Tenants : /\ Cache!CostOf(Cache!Of(u, entries)) <= Cache!storage_budget(u)
                                   /\ tenant_bytes[u] = Cache!CostOf(Cache!Of(u, entries))
      BY <1>0 DEF Shares
    <3>2. cnow \in Nat /\ Stored(entries) /\ DOMAIN tenant_bytes = Cache!Tenants
      BY <1>0 DEF Shares
    <3> QED BY <1>0, <2>1, <3>1, <3>2, Zenon DEF Shares, Stored, StoredKey, Priced, Cache!CostOf, Cache!BytesOf, Cache!Of, Cache!storage_budget
  <2>6. \A x \in gone \cup prior : x.key.tenant = t
    BY <1>0, <2>3 DEF Cache!Of
  <2>7. cand \ gone = (Cache!Of(t, entries \ prior) \cup {e}) \ gone
    OBVIOUS
  <2>8. e.key.tenant = t
    BY <1>0
  <2> HIDE DEF e, cand, prior
  <2>9. Evicting'
    BY <1>0, <2>1, <2>3, <2>4, <2>6, <2>7, <2>8, Zenon
       DEF Evicting, StoredKey, Cache!CostOf, Cache!BytesOf, Cache!Of, Cache!storage_budget, Cache!expired
  <2> QED BY <2>4, <2>5, <2>9 DEF CacheInv
<1> QED BY <1>5, <1>6

LEMMA StoreNext == Cache!Configured /\ CacheInv /\ [Cache!Next]_(Cache!vars) => CacheInv'
<1> SUFFICES ASSUME Cache!Configured, CacheInv, [Cache!Next]_(Cache!vars) PROVE CacheInv'
  OBVIOUS
<1>1. CASE \E t \in Cache!Tenants : Cache!Oversize(t)
  BY <1>1, TickStep DEF Cache!Oversize
<1> QED BY <1>1, TickStep, EvictStep, StoreStep, InsertStep DEF Cache!Next

LEMMA StoreShares == Cache!Configured /\ CacheInv => Cache!CacheWithinShare
<1> SUFFICES ASSUME Cache!Configured, CacheInv PROVE Cache!CacheWithinShare
  OBVIOUS
<1>1. ASSUME NEW t \in Cache!Tenants, NEW b \in Bodies, NEW model \in {0, 1}, 0 < b, b <= Cache!max_response_bytes(t, model)
      PROVE  b + model + KeyOverhead <= Cache!AtMost(Cache!storage_budget(t), Cache!writer_budget(t))
  <2>1. Cache!storage_budget(t) \in Nat /\ Cache!writer_budget(t) \in Nat /\ KeyOverhead \in Nat /\ MaxEntryBytes \in Nat /\ b \in Nat /\ model \in Nat
    BY StoreConst
  <2> QED BY <1>1, <2>1 DEF Cache!max_response_bytes, Cache!Minus, Cache!AtMost
<1>2. Cache!EvictsItsOwn
  BY DEF CacheInv, Evicting, Cache!Done, Cache!EvictsItsOwn
<1>3. Cache!BytesWithinShare
  BY DEF CacheInv, Shares, Cache!BytesWithinShare
<1>4. Cache!HandedOverFits
  BY <1>1 DEF Cache!HandedOverFits
<1> QED BY <1>2, <1>3, <1>4 DEF Cache!CacheWithinShare

(***************************************************************************)
(* CustomProviders                                                          *)
(***************************************************************************)

\* A registry with one entry to a name of an owner, and the operator's entries as they were.
Intact(snap) ==
    /\ \A e, f \in snap : e.owner = f.owner /\ e.name = f.name => e = f
    /\ {e \in snap : e.owner = Providers!GLOBAL_OWNER} = Globals

\* The one task that mutates the registry holds the lock.
Mutating(t) == ptask[t].pc \in {"persist", "swap"}
MutatorHoldsLock ==
    /\ DOMAIN ptask = Tasks
    /\ \A t \in Tasks : ptask[t].pc # "idle" => ptask[t].call \in Calls
    /\ \A t \in Tasks : Mutating(t) => plock = t /\ Intact(ptask[t].next)

\* The live registry is the file's, but for the swap that is due.
LiveIsDisk ==
    /\ Intact(live) /\ Intact(disk)
    /\ \A t \in Tasks : ptask[t].pc = "swap" => disk = ptask[t].next
    /\ (\A t \in Tasks : ptask[t].pc # "swap") => live = disk

\* What a chat request has picked is its own tenant's or the operator's.
OwnOrGlobal(ask, e) == e.owner \in {ask.tenant, Providers!GLOBAL_OWNER}
ChatOwn ==
    /\ DOMAIN chat = Chats
    /\ \A c \in Chats : chat[c].pc \in {"dispatch", "sent"} => OwnOrGlobal(chat[c].ask, chat[c].key)
    /\ \A c \in Chats : chat[c].pc = "sent" => OwnOrGlobal(chat[c].ask, chat[c].adapter)

ProviderInv == MutatorHoldsLock /\ LiveIsDisk /\ ChatOwn

LEMMA ProviderInit == Providers!Init => ProviderInv
<1> SUFFICES ASSUME Providers!Init PROVE ProviderInv
  OBVIOUS
<1>1. /\ disk = Globals /\ live = Globals /\ DOMAIN ptask = Tasks /\ DOMAIN chat = Chats
      /\ \A t \in Tasks : ptask[t].pc = "idle"
      /\ \A c \in Chats : chat[c].pc = "idle"
  BY DEF Providers!Init, Providers!Idle
<1>2. Intact(Globals)
  BY ServicesAssumption DEF Intact, Providers!Configured, Providers!GLOBAL_OWNER
<1> QED BY <1>1, <1>2 DEF ProviderInv, MutatorHoldsLock, Mutating, LiveIsDisk, ChatOwn

\* What an admin request makes of an intact registry is intact.
LEMMA MutationKeepsIntact ==
  ASSUME NEW snap, Intact(snap), NEW call \in Calls
  PROVE  Intact(Providers!Upserted(call, snap)) /\ Intact(Providers!Removed(call, snap))
<1>1. call.tenant # Providers!GLOBAL_OWNER
  BY ServicesAssumption DEF Providers!Configured
<1> DEFINE e == [owner |-> call.tenant, name |-> call.name, revision |-> call.revision, models |-> call.models]
           R == Providers!Removed(call, snap)
<1>2. e.owner = call.tenant /\ e.name = call.name
  OBVIOUS
<1>3. \A f : f \in R <=> f \in snap /\ ~(f.owner = call.tenant /\ f.name = call.name)
  BY DEF Providers!Removed, Providers!Of
<1>4. Providers!Upserted(call, snap) = R \cup {e}
  BY DEF Providers!Upserted, Providers!Removed
<1> HIDE DEF R, e
<1>5. Intact(R)
  BY <1>1, <1>3 DEF Intact
<1>6. Intact(R \cup {e})
  <2>1. \A x, y \in R \cup {e} : x.owner = y.owner /\ x.name = y.name => x = y
    BY <1>2, <1>3, <1>5 DEF Intact
  <2>2. {x \in R \cup {e} : x.owner = Providers!GLOBAL_OWNER} = {x \in R : x.owner = Providers!GLOBAL_OWNER}
    BY <1>1, <1>2
  <2> QED BY <1>5, <2>1, <2>2 DEF Intact
<1> QED BY <1>4, <1>5, <1>6 DEF R

LEMMA EntryIsOwn ==
  ASSUME NEW snap, NEW ask, NEW name, NEW e,
         e = Providers!entry_for(snap, ask.tenant, name), e # Providers!NoEntry
  PROVE  OwnOrGlobal(ask, e)
BY DEF OwnOrGlobal, Providers!entry_for, Providers!Own, Providers!Of, Providers!GLOBAL_OWNER

LEMMA ProviderStep == ProviderInv /\ [Providers!Next]_(Providers!vars) => ProviderInv'
<1> SUFFICES ASSUME ProviderInv, [Providers!Next]_(Providers!vars) PROVE ProviderInv'
  OBVIOUS
<1>1. ASSUME NEW t \in Tasks, Providers!Arrive(t) PROVE ProviderInv'
  <2>1. PICK call \in Calls :
          ptask' = [ptask EXCEPT ![t] = [pc |-> "locking", call |-> call, next |-> {}, connected |-> TRUE]]
    BY <1>1 DEF Providers!Arrive
  <2>2. /\ DOMAIN ptask' = Tasks /\ ptask'[t].pc = "locking" /\ ptask'[t].call \in Calls
        /\ \A u \in Tasks : u # t => ptask'[u] = ptask[u]
    BY <2>1 DEF ProviderInv, MutatorHoldsLock
  <2>3. UNCHANGED <<disk, live, plock, chat>> /\ ptask[t].pc = "idle"
    BY <1>1 DEF Providers!Arrive
  <2> QED BY <2>2, <2>3 DEF ProviderInv, MutatorHoldsLock, Mutating, LiveIsDisk, ChatOwn, Intact
<1>2. ASSUME NEW t \in Tasks, Providers!Lock(t) PROVE ProviderInv'
  <2> DEFINE call == ptask[t].call
             next0 == IF call.op = "delete" THEN Providers!Removed(call, live) ELSE Providers!Upserted(call, live)
  <2>1. /\ ptask[t].pc = "locking" /\ plock = "free" /\ UNCHANGED <<disk, live, chat>>
        /\ \/ ptask' = [ptask EXCEPT ![t] = Providers!Idle] /\ plock' = plock
           \/ ptask' = [ptask EXCEPT ![t].pc = "persist", ![t].next = next0] /\ plock' = t
    BY <1>2 DEF Providers!Lock, Providers!Free
  <2>2. call \in Calls /\ Intact(next0)
    BY <2>1, MutationKeepsIntact DEF ProviderInv, MutatorHoldsLock, LiveIsDisk
  <2>3. \A u \in Tasks : ~Mutating(u)
    BY <2>1, ServicesAssumption DEF ProviderInv, MutatorHoldsLock, Providers!Configured, Providers!Free
  <2>4. /\ DOMAIN ptask' = Tasks /\ \A u \in Tasks : u # t => ptask'[u] = ptask[u]
    BY <2>1 DEF ProviderInv, MutatorHoldsLock
  <2> HIDE DEF next0
  <2>5. \/ ptask'[t].pc = "idle"
        \/ ptask'[t].pc = "persist" /\ ptask'[t].call = call /\ ptask'[t].next = next0 /\ plock' = t
    <3> DEFINE k == [ptask[t] EXCEPT !.pc = "persist", !.next = next0]
    <3>1. k.pc = "persist" /\ k.call = call /\ k.next = next0
      OBVIOUS
    <3>2. ptask'[t] = Providers!Idle \/ (ptask'[t] = k /\ plock' = t)
      BY <2>1 DEF ProviderInv, MutatorHoldsLock
    <3> HIDE DEF k
    <3> QED BY <3>1, <3>2 DEF Providers!Idle
  <2>6. MutatorHoldsLock'
    BY <2>2, <2>3, <2>4, <2>5 DEF ProviderInv, MutatorHoldsLock, Mutating, Intact
  <2>7. LiveIsDisk'
    BY <2>1, <2>3, <2>4, <2>5 DEF ProviderInv, LiveIsDisk, Mutating, Intact
  <2> QED BY <2>1, <2>6, <2>7 DEF ProviderInv, ChatOwn
<1>3. ASSUME NEW t \in Tasks, Providers!Persist(t) PROVE ProviderInv'
  <2>1. /\ ptask[t].pc = "persist" /\ UNCHANGED <<live, chat>>
        /\ \/ disk' = ptask[t].next /\ ptask' = [ptask EXCEPT ![t].pc = "swap"] /\ plock' = plock
           \/ disk' = disk /\ ptask' = [ptask EXCEPT ![t] = Providers!Idle]
    BY <1>3 DEF Providers!Persist
  <2>2. /\ plock = t /\ Intact(ptask[t].next) /\ \A u \in Tasks : u # t => ~Mutating(u)
    BY <2>1 DEF ProviderInv, MutatorHoldsLock, Mutating
  <2>3. /\ DOMAIN ptask' = Tasks /\ \A u \in Tasks : u # t => ptask'[u] = ptask[u]
    BY <2>1 DEF ProviderInv, MutatorHoldsLock
  <2>4. \/ ptask'[t].pc = "idle" /\ disk' = disk
        \/ /\ ptask'[t].pc = "swap" /\ ptask'[t].call = ptask[t].call /\ ptask'[t].next = ptask[t].next
           /\ plock' = plock /\ disk' = ptask[t].next
    <3> DEFINE k == [ptask[t] EXCEPT !.pc = "swap"]
    <3>1. k.pc = "swap" /\ k.call = ptask[t].call /\ k.next = ptask[t].next
      OBVIOUS
    <3>2. \/ ptask'[t] = Providers!Idle /\ disk' = disk
          \/ ptask'[t] = k /\ plock' = plock /\ disk' = ptask[t].next
      BY <2>1 DEF ProviderInv, MutatorHoldsLock
    <3> HIDE DEF k
    <3> QED BY <3>1, <3>2 DEF Providers!Idle
  <2>5. MutatorHoldsLock'
    BY <2>1, <2>2, <2>3, <2>4 DEF ProviderInv, MutatorHoldsLock, Mutating, Intact
  <2>6. LiveIsDisk'
    BY <2>1, <2>2, <2>3, <2>4 DEF ProviderInv, LiveIsDisk, Mutating, Intact
  <2> QED BY <2>1, <2>5, <2>6 DEF ProviderInv, ChatOwn
<1>4. ASSUME NEW t \in Tasks, Providers!Swap(t) PROVE ProviderInv'
  <2>1. /\ ptask[t].pc = "swap" /\ live' = ptask[t].next /\ UNCHANGED <<disk, chat>>
        /\ \/ ptask' = [ptask EXCEPT ![t] = [ptask[t] EXCEPT !.pc = "register", !.next = {}]]
           \/ ptask' = [ptask EXCEPT ![t] = Providers!Idle]
    BY <1>4 DEF Providers!Swap
  <2>2. /\ plock = t /\ Intact(ptask[t].next) /\ disk = ptask[t].next /\ \A u \in Tasks : u # t => ~Mutating(u)
    BY <2>1 DEF ProviderInv, MutatorHoldsLock, Mutating, LiveIsDisk
  <2>3. /\ DOMAIN ptask' = Tasks /\ \A u \in Tasks : u # t => ptask'[u] = ptask[u]
    BY <2>1 DEF ProviderInv, MutatorHoldsLock
  <2>4. ptask'[t].pc = "idle" \/ (ptask'[t].pc = "register" /\ ptask'[t].call = ptask[t].call)
    <3> DEFINE k == [ptask[t] EXCEPT !.pc = "register", !.next = {}]
    <3>1. k.pc = "register" /\ k.call = ptask[t].call
      OBVIOUS
    <3>2. ptask'[t] = Providers!Idle \/ ptask'[t] = k
      BY <2>1 DEF ProviderInv, MutatorHoldsLock
    <3> HIDE DEF k
    <3> QED BY <3>1, <3>2 DEF Providers!Idle
  <2>5. MutatorHoldsLock'
    BY <2>1, <2>2, <2>3, <2>4 DEF ProviderInv, MutatorHoldsLock, Mutating, Intact
  <2>6. LiveIsDisk'
    BY <2>1, <2>2, <2>3, <2>4 DEF ProviderInv, LiveIsDisk, Mutating, Intact
  <2> QED BY <2>1, <2>5, <2>6 DEF ProviderInv, ChatOwn
<1>5. ASSUME NEW t \in Tasks, Providers!Register(t) \/ Providers!Hangup(t) PROVE ProviderInv'
  <2>1. /\ UNCHANGED <<disk, live, plock, chat>>
        /\ \/ ptask[t].pc = "register" /\ ptask' = [ptask EXCEPT ![t] = Providers!Idle]
           \/ ptask[t].pc # "idle" /\ ptask' = [ptask EXCEPT ![t].connected = FALSE]
    BY <1>5 DEF Providers!Register, Providers!Hangup
  <2>2. /\ DOMAIN ptask' = Tasks /\ \A u \in Tasks : u # t => ptask'[u] = ptask[u]
    BY <2>1 DEF ProviderInv, MutatorHoldsLock
  <2>3. \/ ptask'[t].pc = "idle" /\ ptask[t].pc = "register"
        \/ ptask'[t].pc = ptask[t].pc /\ ptask'[t].call = ptask[t].call /\ ptask'[t].next = ptask[t].next
    <3> DEFINE k == [ptask[t] EXCEPT !.connected = FALSE]
    <3>1. k.pc = ptask[t].pc /\ k.call = ptask[t].call /\ k.next = ptask[t].next
      OBVIOUS
    <3>2. (ptask'[t] = Providers!Idle /\ ptask[t].pc = "register") \/ ptask'[t] = k
      BY <2>1 DEF ProviderInv, MutatorHoldsLock
    <3> HIDE DEF k
    <3> QED BY <3>1, <3>2 DEF Providers!Idle
  <2>4. MutatorHoldsLock'
    BY <2>1, <2>2, <2>3 DEF ProviderInv, MutatorHoldsLock, Mutating, Intact
  <2>5. LiveIsDisk'
    BY <2>1, <2>2, <2>3 DEF ProviderInv, LiveIsDisk, Intact
  <2> QED BY <2>1, <2>4, <2>5 DEF ProviderInv, ChatOwn
<1>6. ASSUME NEW c \in Chats, Providers!Target(c) \/ Providers!ApiKey(c) \/ Providers!Dispatch(c) PROVE ProviderInv'
  <2>1. UNCHANGED <<disk, live, plock, ptask>>
    BY <1>6 DEF Providers!Target, Providers!ApiKey, Providers!Dispatch
  <2>2. DOMAIN chat' = Chats /\ \A d \in Chats : d # c => chat'[d] = chat[d]
    BY <1>6 DEF ProviderInv, ChatOwn, Providers!Target, Providers!ApiKey, Providers!Dispatch
  <2>3. /\ chat'[c].pc \in {"dispatch", "sent"} => OwnOrGlobal(chat'[c].ask, chat'[c].key)
        /\ chat'[c].pc = "sent" => OwnOrGlobal(chat'[c].ask, chat'[c].adapter)
    <3>1. CASE Providers!Target(c)
      <4>1. chat'[c].pc = "key"
        BY <3>1 DEF Providers!Target, ProviderInv, ChatOwn
      <4> QED BY <4>1
    <3>2. CASE Providers!ApiKey(c)
      <4> DEFINE e == Providers!entry_for(live, chat[c].ask.tenant, chat[c].name)
      <4>1. CASE e = Providers!NoEntry
        BY <3>2, <4>1 DEF Providers!ApiKey, ProviderInv, ChatOwn, Providers!Idle
      <4>2. CASE e # Providers!NoEntry
        <5>1. OwnOrGlobal(chat[c].ask, e)
          BY <4>2, EntryIsOwn
        <5>2. chat[c].pc = "key" /\ chat'[c] = [chat[c] EXCEPT !.pc = "dispatch", !.key = e]
          BY <3>2, <4>2 DEF Providers!ApiKey, ProviderInv, ChatOwn
        <5> HIDE DEF e
        <5> DEFINE k == [chat[c] EXCEPT !.pc = "dispatch", !.key = e]
        <5>3. k.pc = "dispatch" /\ k.ask = chat[c].ask /\ k.key = e
          OBVIOUS
        <5> QED BY <5>1, <5>2, <5>3
      <4> QED BY <4>1, <4>2
    <3>3. CASE Providers!Dispatch(c)
      <4> DEFINE e == Providers!entry_for(live, chat[c].ask.tenant, chat[c].name)
      <4>1. CASE e = Providers!NoEntry
        BY <3>3, <4>1 DEF Providers!Dispatch, ProviderInv, ChatOwn, Providers!Idle
      <4>2. CASE e # Providers!NoEntry
        <5>1. OwnOrGlobal(chat[c].ask, e)
          BY <4>2, EntryIsOwn
        <5>2. chat[c].pc = "dispatch" /\ chat'[c] = [pc |-> "sent", ask |-> chat[c].ask, name |-> chat[c].name, key |-> chat[c].key, adapter |-> e]
          BY <3>3, <4>2 DEF Providers!Dispatch, ProviderInv, ChatOwn
        <5> QED BY <5>1, <5>2 DEF ProviderInv, ChatOwn
      <4> QED BY <4>1, <4>2
    <3> QED BY <1>6, <3>1, <3>2, <3>3
  <2>4. ChatOwn'
    BY <2>2, <2>3 DEF ProviderInv, ChatOwn, OwnOrGlobal
  <2> QED BY <2>1, <2>4 DEF ProviderInv, MutatorHoldsLock, Mutating, LiveIsDisk, Intact
<1>7. CASE Providers!Crash
  <2>1. /\ live' = disk /\ disk' = disk /\ DOMAIN ptask' = Tasks /\ DOMAIN chat' = Chats
        /\ \A t \in Tasks : ptask'[t].pc = "idle"
        /\ \A c \in Chats : chat'[c].pc = "idle"
    BY <1>7 DEF Providers!Crash, Providers!Idle
  <2> QED BY <2>1 DEF ProviderInv, MutatorHoldsLock, Mutating, LiveIsDisk, ChatOwn, Intact
<1>8. CASE UNCHANGED Providers!vars
  BY <1>8 DEF Providers!vars, ProviderInv, MutatorHoldsLock, Mutating, LiveIsDisk, ChatOwn, Intact, OwnOrGlobal
<1> QED BY <1>1, <1>2, <1>3, <1>4, <1>5, <1>6, <1>7, <1>8 DEF Providers!Next

LEMMA ProviderSafe == ProviderInv => Providers!RegistryIsDurable
<1> SUFFICES ASSUME ProviderInv PROVE Providers!RegistryIsDurable
  OBVIOUS
<1>1. \A snap \in {live, disk} : \A e, f \in snap : e.owner = f.owner /\ e.name = f.name => e = f
  BY DEF ProviderInv, LiveIsDisk, Intact
<1>2. live = disk \/ \E t \in Tasks : plock = t /\ ptask[t].pc = "swap" /\ disk = ptask[t].next
  BY DEF ProviderInv, LiveIsDisk, MutatorHoldsLock, Mutating
<1>3. {e \in live : e.owner = Providers!GLOBAL_OWNER} = Globals
  BY DEF ProviderInv, LiveIsDisk, Intact
<1>4. \A c \in Chats : chat[c].pc = "sent" =>
        {chat[c].key.owner, chat[c].adapter.owner} \subseteq {chat[c].ask.tenant, Providers!GLOBAL_OWNER}
  BY DEF ProviderInv, ChatOwn, OwnOrGlobal
<1> QED BY <1>1, <1>2, <1>3, <1>4 DEF Providers!RegistryIsDurable

(***************************************************************************)
(* LimitConfig                                                              *)
(***************************************************************************)

\* Rounding up to the unit keeps n shares within one unit each of the whole.
LEMMA ShareIsFair ==
  ASSUME Limits!Configured, NEW x \in Nat, replicas \in Nat, replicas > 0
  PROVE  Limits!FairShare(Limits!Clamp(x, replicas), x)
<1> DEFINE n == replicas
           q == Limits!Share(x, n)
<1>1. q \in Nat /\ q * n >= x /\ q * n < x + n /\ (q = 0 <=> x = 0)
  <2>1. CASE n <= 1
    BY <2>1 DEF Limits!Share
  <2>2. CASE n > 1
    <3> DEFINE a == x + n - 1
               d == a \div n
    <3>1. d \in Nat /\ d * n <= a /\ a < d * n + n
      BY DivBounds
    <3>2. q = d
      BY <2>2 DEF Limits!Share
    <3>3. d = 0 => d * n = 0
      BY <3>1
    <3>4. d > 0 => d * n >= n
      BY <3>1
    <3> HIDE DEF d
    <3> QED BY <3>1, <3>2, <3>3, <3>4
  <2> QED BY <2>1, <2>2
<1>2. x # None /\ CountMask \in Nat /\ CountMask > 0
  BY DEF Limits!Configured
<1> DEFINE c == Limits!Least(q, CountMask)
<1> HIDE DEF q
<1>3. /\ c \in Nat /\ c <= CountMask /\ c <= q /\ (c = 0 <=> q = 0) /\ (c < CountMask => c = q)
  BY <1>1, <1>2 DEF Limits!Least
<1>4. c * n <= q * n
  BY <1>1, <1>3
<1>5. Limits!Clamp(x, n) = c
  BY <1>2 DEF Limits!Clamp, q
<1> HIDE DEF c
<1>6. c * n < x + n /\ c * n \in Int /\ (c < CountMask => c * n >= x)
  BY <1>1, <1>3, <1>4
<1> QED BY <1>1, <1>3, <1>5, <1>6 DEF Limits!FairShare

LEMMA ClampType ==
  ASSUME Limits!Configured, NEW x \in Nat \cup {None}, NEW n \in Nat, n > 0
  PROVE  Limits!Clamp(x, n) \in Limits!Optional(Int) /\ (x # None => Limits!Clamp(x, n) \in Int)
<1>1. CASE x = None
  BY <1>1 DEF Limits!Clamp, Limits!Optional
<1>2. CASE x \in Nat
  <2>1. Limits!Share(x, n) \in Int
    <3>1. x + n - 1 \in Nat
      BY <1>2
    <3> QED BY <1>2, <3>1, DivBounds DEF Limits!Share
  <2> QED BY <1>2, <2>1 DEF Limits!Clamp, Limits!Least, Limits!Optional, Limits!Configured
<1> QED BY <1>1, <1>2

\* What is enforced is what the configuration says, and nothing is before it is built.
LimitInv ==
    /\ policy \in Limits!Policy /\ replicas \in 1..MaxReplicas
    /\ phase = "serving" => slot = Limits!FromPolicy(policy, replicas)
    /\ phase # "serving" => slot = None

LEMMA LimitInit == Limits!Init => LimitInv
BY DEF Limits!Init, LimitInv

LEMMA CapType ==
  ASSUME Limits!Configured, LimitInv, NEW w \in Limits!Period
  PROVE  Limits!CostCap(policy, w) \in Nat \cup {None}
<1>1. /\ policy.micro[w] \in Nat \cup {None} /\ policy.authored[w] \in Nat \cup {None} /\ policy.fx \in Nat \cup {None}
  BY DEF LimitInv, Limits!Policy, Limits!Optional, Limits!Configured
<1>2. CASE ~Limits!Invalid(policy) /\ policy.authored[w] # None /\ policy.micro[w] = None
  <2>1. policy.fx \in Nat /\ policy.fx > 0 /\ policy.authored[w] \in Nat /\ Micro \in Nat
    BY <1>1, <1>2 DEF Limits!Invalid, Limits!Bad, Limits!Configured
  <2>2. policy.authored[w] * Micro \in Nat
    BY <2>1
  <2>3. (policy.authored[w] * Micro) \div policy.fx \in Nat
    BY <2>1, <2>2, DivBounds
  <2> QED BY <1>2, <2>3 DEF Limits!CostCap, Limits!Resolved
<1> QED BY <1>1, <1>2 DEF Limits!CostCap, Limits!Resolved

LEMMA SlotIsFair ==
  ASSUME Limits!Configured, LimitInv
  PROVE  Limits!FleetShare /\ Limits!ConfiguredIsCapped
<1>1. replicas \in Nat /\ replicas > 0
  BY DEF LimitInv, Limits!Configured
<1>2. ASSUME slot # None PROVE /\ slot = [req |-> Limits!Clamp(policy.req, replicas),
                                          cost |-> [w \in Limits!Period |-> Limits!Clamp(Limits!CostCap(policy, w), replicas)]]
                               /\ phase = "serving" /\ ~Limits!IsEmpty(policy)
  BY <1>2 DEF LimitInv, Limits!FromPolicy
<1>3. ASSUME slot # None, policy.req # None PROVE Limits!FairShare(slot.req, policy.req)
  <2>1. policy.req \in Nat
    BY <1>3 DEF LimitInv, Limits!Policy, Limits!Optional, Limits!Configured
  <2> QED BY <1>1, <1>2, <1>3, <2>1, ShareIsFair
<1>4. ASSUME slot # None, NEW w \in Limits!Period, slot.cost[w] # None PROVE Limits!FairShare(slot.cost[w], Limits!CostCap(policy, w))
  <2>1. slot.cost[w] = Limits!Clamp(Limits!CostCap(policy, w), replicas)
    BY <1>2, <1>4
  <2>2. Limits!CostCap(policy, w) \in Nat
    BY <1>4, <2>1, CapType DEF Limits!Clamp
  <2> QED BY <1>1, <2>1, <2>2, ShareIsFair
<1>5. Limits!FleetShare
  BY <1>3, <1>4 DEF Limits!FleetShare
<1>6. Limits!ConfiguredIsCapped
  <2> SUFFICES ASSUME phase = "serving", NEW w \in Limits!Period,
                      \/ policy.micro[w] # None
                      \/ policy.authored[w] # None /\ (policy.req # None \/ \E v \in Limits!Period : policy.micro[v] # None)
               PROVE  slot # None /\ slot.cost[w] # None
    BY DEF Limits!ConfiguredIsCapped
  <2>1. ~Limits!IsEmpty(policy)
    BY DEF Limits!IsEmpty
  <2>2. slot = [req |-> Limits!Clamp(policy.req, replicas),
                cost |-> [v \in Limits!Period |-> Limits!Clamp(Limits!CostCap(policy, v), replicas)]]
    BY <2>1 DEF LimitInv, Limits!FromPolicy
  <2>3. Limits!CostCap(policy, w) # None
    <3>1. None \notin Int /\ policy.micro[w] \in Nat \cup {None} /\ policy.authored[w] \in Nat \cup {None} /\ policy.fx \in Nat \cup {None} /\ Micro \in Nat
      BY DEF LimitInv, Limits!Policy, Limits!Optional, Limits!Configured
    <3>2. CASE ~Limits!Invalid(policy) /\ policy.micro[w] = None
      <4>1. policy.fx \in Nat /\ policy.fx > 0 /\ policy.authored[w] \in Nat
        BY <3>1, <3>2 DEF Limits!Invalid, Limits!Bad
      <4>2. policy.authored[w] * Micro \in Nat
        BY <3>1, <4>1
      <4>3. (policy.authored[w] * Micro) \div policy.fx \in Nat
        BY <4>1, <4>2, DivBounds
      <4> QED BY <3>1, <3>2, <4>1, <4>3 DEF Limits!CostCap, Limits!Resolved
    <3> QED BY <3>1, <3>2 DEF Limits!CostCap, Limits!Resolved
  <2>4. slot \in Limits!Slot
    <3>1. policy.req \in Nat \cup {None}
      BY DEF LimitInv, Limits!Policy, Limits!Optional, Limits!Configured
    <3>2. Limits!Clamp(policy.req, replicas) \in Limits!Optional(Int)
      BY <1>1, <3>1, ClampType
    <3>3. \A v \in Limits!Period : Limits!Clamp(Limits!CostCap(policy, v), replicas) \in Limits!Optional(Int)
      BY <1>1, CapType, ClampType
    <3> QED BY <2>2, <3>2, <3>3 DEF Limits!Slot
  <2>5. slot.cost[w] = Limits!Clamp(Limits!CostCap(policy, w), replicas)
    BY <2>2
  <2>6. slot.cost[w] \in Int
    BY <1>1, <2>3, <2>5, CapType, ClampType
  <2> QED BY <2>4, <2>6 DEF Limits!Configured
<1> QED BY <1>5, <1>6

LEMMA LimitStep ==
  ASSUME LimitInv, [Limits!Next]_(Limits!vars)
  PROVE  LimitInv'
<1>1. CASE Limits!Build
  <2>1. /\ phase' = "serving" /\ slot' = Limits!FromPolicy(policy, replicas) /\ policy' = policy /\ replicas' = replicas
    BY <1>1 DEF Limits!Build
  <2>2. slot' = Limits!FromPolicy(policy', replicas')
    BY <2>1
  <2> QED BY <2>1, <2>2 DEF LimitInv, Limits!Policy
<1>2. CASE Limits!RefuseToStart
  BY <1>2 DEF LimitInv, Limits!RefuseToStart
<1>3. CASE UNCHANGED Limits!vars
  BY <1>3 DEF LimitInv, Limits!vars
<1> QED BY <1>1, <1>2, <1>3 DEF Limits!Next

(***************************************************************************)
(* HealthRegistry                                                           *)
(***************************************************************************)

\* f is the run of the average over s.
IsRun(f, s) == f = [i \in 0..Len(s) |-> IF i = 0 THEN -1 ELSE Health!Blend(f[i - 1], s[i])]

LEMMA RunUnique ==
  ASSUME NEW s, Len(s) \in Nat, NEW f, IsRun(f, s), NEW g, IsRun(g, s)
  PROVE  f = g
<1> SUFFICES ASSUME f # g PROVE FALSE
  OBVIOUS
<1> DEFINE D == {i \in 0..Len(s) : f[i] # g[i]}
<1>1. DOMAIN f = 0..Len(s) /\ DOMAIN g = 0..Len(s)
  BY DEF IsRun
<1>2. f = [i \in 0..Len(s) |-> f[i]] /\ g = [i \in 0..Len(s) |-> g[i]]
  BY Zenon DEF IsRun
<1>3. D # {} /\ D \subseteq Nat
  BY <1>2
<1>4. PICK n \in D : \A m \in D : <<m, n>> \notin OpToRel(<, Nat)
  BY <1>3, WFMin, NatLessThanWellFounded
<1>5. n \in 0..Len(s) /\ n \in Nat /\ f[n] # g[n]
  BY <1>3
<1>6. n # 0
  BY <1>5 DEF IsRun
<1>7. n - 1 \notin D
  <2>1. n - 1 \in Nat /\ n - 1 < n
    BY <1>5, <1>6
  <2>2. <<n - 1, n>> \in OpToRel(<, Nat)
    BY <1>5, <2>1 DEF OpToRel
  <2> QED BY <1>4, <2>2
<1>8. f[n - 1] = g[n - 1]
  BY <1>5, <1>6, <1>7
<1>9. f[n] = Health!Blend(f[n - 1], s[n]) /\ g[n] = Health!Blend(g[n - 1], s[n])
  BY <1>5, <1>6 DEF IsRun
<1> QED BY <1>5, <1>8, <1>9

LEMMA RunAverage ==
  ASSUME NEW s, Len(s) \in Nat, NEW f, IsRun(f, s)
  PROVE  Health!Average(s) = f[Len(s)]
<1> DEFINE after == CHOOSE g : IsRun(g, s)
<1>1. IsRun(after, s)
  BY Zenon
<1>2. Health!Average(s) = after[Len(s)]
  BY Zenon DEF Health!Average, IsRun, Health!LATENCY_UNSET
<1> HIDE DEF after
<1> QED BY <1>1, <1>2, RunUnique

LEMMA RunStarts == \E f : IsRun(f, <<>>) /\ f[Len(<<>>)] = -1
<1> DEFINE f == [i \in 0..0 |-> -1]
<1>1. IsRun(f, <<>>) /\ f[Len(<<>>)] = -1
  BY DEF IsRun
<1> HIDE DEF f
<1> QED BY <1>1

LEMMA RunExtends ==
  ASSUME NEW s \in Seq(Nat), NEW f, IsRun(f, s), NEW ms \in Nat
  PROVE  \E g : IsRun(g, Append(s, ms)) /\ g[Len(Append(s, ms))] = Health!Blend(f[Len(s)], ms)
<1> DEFINE n == Len(s)
           more == Append(s, ms)
           g == [i \in 0..(n + 1) |-> IF i <= n THEN f[i] ELSE Health!Blend(f[n], ms)]
<1>1. n \in Nat /\ Len(more) = n + 1 /\ more[n + 1] = ms /\ \A i \in 1..n : more[i] = s[i]
  OBVIOUS
<1> HIDE DEF n, more
<1>2. f = [i \in 0..n |-> IF i = 0 THEN -1 ELSE Health!Blend(f[i - 1], s[i])]
  BY DEF IsRun, n
<1>3. \A i \in 0..(n + 1) : g[i] = IF i = 0 THEN -1 ELSE Health!Blend(g[i - 1], more[i])
  <2> SUFFICES ASSUME NEW i \in 0..(n + 1) PROVE g[i] = IF i = 0 THEN -1 ELSE Health!Blend(g[i - 1], more[i])
    OBVIOUS
  <2>1. CASE i = 0
    <3>1. f[0] = -1
      BY <1>1, <1>2
    <3> QED BY <1>1, <2>1, <3>1
  <2>2. CASE i \in 1..n
    <3>1. f[i] = Health!Blend(f[i - 1], s[i]) /\ more[i] = s[i]
      BY <1>1, <1>2, <2>2
    <3>2. g[i] = f[i] /\ g[i - 1] = f[i - 1]
      BY <1>1, <2>2
    <3> QED BY <2>2, <3>1, <3>2
  <2>3. CASE i = n + 1
    <3>1. g[i] = Health!Blend(f[n], ms) /\ g[i - 1] = f[n]
      BY <1>1, <2>3
    <3> QED BY <1>1, <2>3, <3>1
  <2> QED BY <1>1, <2>1, <2>2, <2>3
<1>4. g[n + 1] = Health!Blend(f[n], ms) /\ DOMAIN g = 0..(n + 1)
  BY <1>1
<1>5. g = [i \in 0..(n + 1) |-> g[i]]
  BY Zenon
<1> HIDE DEF g
<1>6. IsRun(g, more)
  BY <1>1, <1>3, <1>4, <1>5 DEF IsRun
<1> QED BY <1>1, <1>4, <1>6 DEF n, more

LEMMA BlendType == ASSUME NEW a \in Int, NEW ms \in Nat PROVE Health!Blend(a, ms) \in Int
BY DEF Health!Blend, Health!LATENCY_UNSET

\* What a task knows at each of its places: a record in flight holds the object its provider
\* still has, a stamp in flight is not covered, and a wipe saw its own fingerprint.
HealthTask(k, map) ==
    /\ k.pc \in {"idle", "register", "swap", "latency", "record", "cool", "stamp", "clear", "wipe"}
    /\ k.pc \in {"latency", "record"} => k.job.ms \in Nat
    /\ k.pc \in {"cool", "stamp"} => k.job.key \in Health!PoolKeys /\ k.job.until \in Nat
    /\ k.pc \in {"clear", "wipe"} => k.job.key \in Health!PoolKeys
    /\ k.pc \in {"swap", "stamp", "wipe"} => DOMAIN k = {"pc", "job", "seen"}
    /\ k.pc = "record" => /\ DOMAIN k = {"pc", "job", "of", "id", "seen"}
                          /\ k.of \in DOMAIN map /\ k.id = map[k.of]
    /\ k.pc = "stamp" => ~Health!Covered(k.seen, k.job)
    /\ k.pc = "wipe" => k.seen.fp = FpOf[k.job.key]
HealthTasks == DOMAIN htask = Tasks /\ \A t \in Tasks : HealthTask(htask[t], providers)

\* Every provider has an object of its own, whose average is the run of its samples.
Objects ==
    /\ ewma \in Seq(Int) /\ DOMAIN samples = DOMAIN providers
    /\ \A k \in DOMAIN providers : providers[k] \in 1..Len(ewma)
    /\ \A x, y \in DOMAIN providers : providers[x] = providers[y] => x = y
Sampled(k) ==
    /\ samples[k] \in Seq(Nat)
    /\ \E f : IsRun(f, samples[k]) /\ ewma[providers[k]] = f[Len(samples[k])]
AllSampled == \A k \in DOMAIN providers : Sampled(k)

Cooldowns ==
    /\ DOMAIN kcells = {CellOf[k] : k \in Health!PoolKeys} /\ DOMAIN owed = Health!PoolKeys
    /\ \A k \in Health!PoolKeys : kcells[CellOf[k]].until \in Nat /\ owed[k] \in Nat
    /\ Health!CooldownIsOwn

HealthInv == HealthTasks /\ Objects /\ AllSampled /\ Cooldowns

LEMMA HealthSafe == HealthInv => Health!HealthIsKept
<1> SUFFICES ASSUME HealthInv PROVE Health!NoRecordLost /\ Health!CooldownIsOwn
  BY DEF Health!HealthIsKept
<1>1. Health!CooldownIsOwn
  BY DEF HealthInv, Cooldowns
<1>2. ASSUME NEW k \in DOMAIN samples
      PROVE  k \in DOMAIN providers /\ ewma[providers[k]] = Health!Average(samples[k])
  <2>1. k \in DOMAIN providers /\ samples[k] \in Seq(Nat)
    BY DEF HealthInv, Objects, AllSampled, Sampled
  <2>2. PICK f : IsRun(f, samples[k]) /\ ewma[providers[k]] = f[Len(samples[k])]
    BY <2>1 DEF HealthInv, AllSampled, Sampled
  <2>3. Len(samples[k]) \in Nat
    BY <2>1
  <2> QED BY <2>1, <2>2, <2>3, RunAverage
<1> QED BY <1>1, <1>2 DEF Health!NoRecordLost

LEMMA HealthInit == Health!Configured /\ Health!Init => HealthInv
<1> SUFFICES ASSUME Health!Configured, Health!Init PROVE HealthInv
  OBVIOUS
<1> DEFINE built == {<<"global", n>> : n \in BuiltInNames}
<1>1. /\ providers \in Health!Numberings(built)
      /\ ewma = [i \in 1..Health!Cardinality(built) |-> -1]
      /\ samples = [k \in built |-> <<>>]
      /\ kcells = [c \in {CellOf[k] : k \in Health!PoolKeys} |-> [fp |-> 0, until |-> 0]]
      /\ htask = [t \in Tasks |-> [pc |-> "idle"]]
      /\ owed = [k \in Health!PoolKeys |-> 0]
  BY Zenon DEF Health!Init, Health!GLOBAL_OWNER, Health!LATENCY_UNSET, Health!Vacant, Health!Idle
<1>2. Health!Cardinality(built) \in Nat
  <2> DEFINE f == [n \in BuiltInNames |-> <<"global", n>>]
  <2>1. IsFiniteSet(BuiltInNames)
    BY Zenon DEF Health!Configured, Health!IsFiniteSet, IsFiniteSet
  <2>2. f \in Surjection(BuiltInNames, built)
    BY DEF Surjection
  <2> HIDE DEF f, built
  <2>3. IsFiniteSet(built)
    BY <2>1, <2>2, FS_Surjection
  <2>4. Health!Cardinality(built) = Cardinality(built)
    BY Zenon DEF Health!Cardinality, Cardinality
  <2> QED BY <2>3, <2>4, FS_CardinalityType
<1>3. ewma \in Seq(Int) /\ Len(ewma) = Health!Cardinality(built)
  BY <1>1, <1>2
<1>4. /\ DOMAIN providers = built /\ \A k \in built : providers[k] \in 1..Len(ewma)
      /\ \A x, y \in built : providers[x] = providers[y] => x = y
  BY <1>1, <1>3 DEF Health!Numberings
<1> HIDE DEF built
<1>5. HealthTasks
  BY <1>1 DEF HealthTasks, HealthTask
<1>6. Objects
  BY <1>1, <1>3, <1>4 DEF Objects
<1>7. AllSampled
  <2> SUFFICES ASSUME NEW k \in built PROVE Sampled(k)
    BY <1>4 DEF AllSampled
  <2>1. samples[k] = <<>> /\ ewma[providers[k]] = -1
    BY <1>1, <1>3, <1>4
  <2> QED BY <2>1, RunStarts DEF Sampled
<1>8. Cooldowns
  <2>1. ASSUME NEW k \in Health!PoolKeys
        PROVE  /\ kcells[CellOf[k]].fp = 0 /\ kcells[CellOf[k]].until = 0
               /\ owed[k] = 0 /\ Health!key_cooled_until(k) = owed[k]
    <3>1. kcells[CellOf[k]] = [fp |-> 0, until |-> 0] /\ owed[k] = 0
      BY <1>1
    <3>2. Health!key_cooled_until(k) = 0
      BY <3>1 DEF Health!key_cooled_until
    <3> QED BY <3>1, <3>2
  <2>2. DOMAIN kcells = {CellOf[k] : k \in Health!PoolKeys} /\ DOMAIN owed = Health!PoolKeys
    BY <1>1
  <2> QED BY <2>1, <2>2 DEF Cooldowns, Health!CooldownIsOwn
<1> QED BY <1>5, <1>6, <1>7, <1>8 DEF HealthInv

LEMMA HealthStep == Health!Configured /\ HealthInv /\ [Health!Next]_(Health!vars) => HealthInv'
<1> SUFFICES ASSUME Health!Configured, HealthInv, [Health!Next]_(Health!vars) PROVE HealthInv'
  OBVIOUS
\* The primed parts of the invariant, said in full.
<1> DEFINE Tasks2 == DOMAIN htask' = Tasks /\ \A t \in Tasks : HealthTask(htask'[t], providers')
           Objects2 ==
             /\ ewma' \in Seq(Int) /\ DOMAIN samples' = DOMAIN providers'
             /\ \A k \in DOMAIN providers' : providers'[k] \in 1..Len(ewma')
             /\ \A x, y \in DOMAIN providers' : providers'[x] = providers'[y] => x = y
           Sampled2(k) ==
             /\ samples'[k] \in Seq(Nat)
             /\ \E f : IsRun(f, samples'[k]) /\ ewma'[providers'[k]] = f[Len(samples'[k])]
           Cooldowns2 ==
             /\ DOMAIN kcells' = {CellOf[k] : k \in Health!PoolKeys} /\ DOMAIN owed' = Health!PoolKeys
             /\ \A k \in Health!PoolKeys : kcells'[CellOf[k]].until \in Nat /\ owed'[k] \in Nat
             /\ \A k \in Health!PoolKeys :
                  owed'[k] = IF kcells'[CellOf[k]].fp = FpOf[k] THEN kcells'[CellOf[k]].until ELSE 0
<1> SUFFICES Tasks2 /\ Objects2 /\ (\A k \in DOMAIN providers' : Sampled2(k)) /\ Cooldowns2
  BY Zenon DEF HealthInv, HealthTasks, Objects, AllSampled, Sampled, Cooldowns, Health!CooldownIsOwn,
     Health!key_cooled_until, Health!PoolKeys, HealthTask, IsRun, Health!Blend, Health!LATENCY_UNSET, Health!Covered, Health!Stamp
<1> DEFINE AllSampled2 == \A k \in DOMAIN providers' : Sampled2(k)
<1>0. HealthTasks /\ Objects /\ AllSampled /\ Cooldowns
  BY DEF HealthInv
<1>1. ASSUME UNCHANGED <<providers, ewma, samples>> PROVE Objects2 /\ AllSampled2
  BY <1>0, <1>1 DEF Objects, AllSampled, Sampled
<1>2. ASSUME UNCHANGED <<kcells, owed>> PROVE Cooldowns2
  BY <1>0, <1>2, Zenon DEF Cooldowns, Health!CooldownIsOwn, Health!key_cooled_until
<1>3. ASSUME NEW t \in Tasks, NEW k, htask' = [htask EXCEPT ![t] = k], HealthTask(k, providers'),
             \A x \in DOMAIN providers : x \in DOMAIN providers' /\ providers'[x] = providers[x]
      PROVE  Tasks2
  <2>1. DOMAIN htask' = Tasks /\ \A u \in Tasks : htask'[u] = IF u = t THEN k ELSE htask[u]
    BY <1>0, <1>3 DEF HealthTasks
  <2>2. ASSUME NEW u \in Tasks, u # t PROVE HealthTask(htask'[u], providers')
    <3>1. HealthTask(htask[u], providers)
      BY <1>0 DEF HealthTasks
    <3> QED BY <1>3, <2>1, <2>2, <3>1 DEF HealthTask
  <2> QED BY <1>3, <2>1, <2>2
<1>4. ASSUME NEW t \in Tasks, htask' = [htask EXCEPT ![t] = [pc |-> "idle"]], UNCHANGED providers PROVE Tasks2
  <2>1. HealthTask([pc |-> "idle"], providers')
    BY DEF HealthTask
  <2> QED BY <1>3, <1>4, <2>1
<1> HIDE DEF Tasks2, Objects2, AllSampled2, Cooldowns2
<1>5. CASE UNCHANGED Health!vars
  <2>1. UNCHANGED <<providers, ewma, kcells, htask, samples, owed>>
    BY <1>5 DEF Health!vars
  <2>2. Tasks2
    BY <1>0, <2>1 DEF Tasks2, HealthTasks
  <2> QED BY <1>1, <1>2, <2>1, <2>2 DEF AllSampled2
<1>6. ASSUME NEW t \in Tasks, Health!Begin(t)
      PROVE  Tasks2 /\ Objects2 /\ AllSampled2 /\ Cooldowns2
  <2>1. PICK j \in Jobs : htask' = [htask EXCEPT ![t] = [pc |-> j.op, job |-> j]]
    BY <1>6 DEF Health!Begin
  <2>2. UNCHANGED <<providers, ewma, kcells, samples, owed>>
    BY <1>6 DEF Health!Begin
  <2>3. HealthTask([pc |-> j.op, job |-> j], providers')
    BY <2>1 DEF HealthTask, Health!Configured
  <2> QED BY <1>1, <1>2, <1>3, <2>1, <2>2, <2>3
<1>7. ASSUME NEW t \in Tasks, Health!RegisterLoad(t)
      PROVE  Tasks2 /\ Objects2 /\ AllSampled2 /\ Cooldowns2
  <2> DEFINE k == [pc |-> "swap", job |-> htask[t].job, seen |-> providers]
  <2>1. UNCHANGED <<providers, ewma, kcells, samples, owed>>
        /\ (htask' = [htask EXCEPT ![t] = [pc |-> "idle"]] \/ htask' = [htask EXCEPT ![t] = k])
    BY <1>7 DEF Health!RegisterLoad, Health!Done, Health!Idle
  <2>2. HealthTask(k, providers')
    BY DEF HealthTask
  <2> QED BY <1>1, <1>2, <1>3, <1>4, <2>1, <2>2
<1>8. ASSUME NEW t \in Tasks, Health!RegisterSwap(t)
      PROVE  Tasks2 /\ Objects2 /\ AllSampled2 /\ Cooldowns2
  <2>1. htask[t].pc = "swap" /\ UNCHANGED <<kcells, owed>>
    BY <1>8 DEF Health!RegisterSwap
  <2>2. CASE providers # htask[t].seen
    <3> DEFINE k == [htask[t] EXCEPT !.seen = providers]
    <3>1. htask' = [htask EXCEPT ![t] = k] /\ UNCHANGED <<providers, ewma, samples>>
      BY <1>8, <2>2, <1>0 DEF Health!RegisterSwap, HealthTasks
    <3>2. DOMAIN htask[t] = {"pc", "job", "seen"}
      BY <1>0, <2>1 DEF HealthTasks, HealthTask
    <3>3. k.pc = "swap" /\ DOMAIN k = {"pc", "job", "seen"}
      BY <2>1, <3>2
    <3>4. HealthTask(k, providers')
      BY <3>3 DEF HealthTask
    <3> QED BY <1>1, <1>2, <1>3, <2>1, <3>1, <3>4
  <2>3. CASE providers = htask[t].seen
    <3> DEFINE h == Health!Home(htask[t].job)
    <3>1. /\ providers' = Health!Inserted(providers, h, Len(ewma) + 1)
          /\ ewma' = IF providers' = providers THEN ewma ELSE Append(ewma, -1)
          /\ samples' = IF h \in DOMAIN samples THEN samples
                        ELSE [x \in DOMAIN samples \cup {h} |-> IF x = h THEN <<>> ELSE samples[x]]
          /\ htask' = [htask EXCEPT ![t] = [pc |-> "idle"]]
      BY <1>8, <2>3 DEF Health!RegisterSwap, Health!Publish, Health!Done, Health!Idle, Health!LATENCY_UNSET
    <3> HIDE DEF h
    <3>2. CASE h \in DOMAIN providers
      <4>1. UNCHANGED <<providers, ewma, samples>>
        BY <1>0, <3>1, <3>2 DEF Health!Inserted, Objects
      <4> QED BY <1>1, <1>2, <1>4, <2>1, <3>1, <4>1
    <3>3. CASE h \notin DOMAIN providers
      <4>1. DOMAIN providers' = DOMAIN providers \cup {h} /\ providers'[h] = Len(ewma) + 1
            /\ \A x \in DOMAIN providers : providers'[x] = providers[x]
        BY <3>1, <3>3 DEF Health!Inserted
      <4>2. ewma' = Append(ewma, -1)
        BY <3>1, <3>3, <4>1
      <4>3. DOMAIN samples' = DOMAIN providers' /\ samples'[h] = <<>>
            /\ \A x \in DOMAIN providers : samples'[x] = samples[x]
        BY <1>0, <3>1, <3>3, <4>1 DEF Objects
      <4>4. /\ ewma \in Seq(Int) /\ ewma' \in Seq(Int) /\ Len(ewma) \in Nat
            /\ Len(ewma') = Len(ewma) + 1 /\ ewma'[Len(ewma) + 1] = -1
            /\ \A i \in 1..Len(ewma) : ewma'[i] = ewma[i]
        BY <1>0, <4>2 DEF Objects
      <4>5. \A x \in DOMAIN providers : providers[x] \in 1..Len(ewma)
        BY <1>0 DEF Objects
      <4>6. Objects2
        <5>1. \A x \in DOMAIN providers' : providers'[x] \in 1..Len(ewma')
          BY <4>1, <4>4, <4>5
        <5>2. \A x, y \in DOMAIN providers' : providers'[x] = providers'[y] => x = y
          BY <1>0, <4>1, <4>4, <4>5 DEF Objects
        <5> QED BY <4>3, <4>4, <5>1, <5>2 DEF Objects2
      <4>7. AllSampled2
        <5>1. ASSUME NEW x \in DOMAIN providers PROVE Sampled2(x)
          <6>1. Sampled(x)
            BY <1>0 DEF AllSampled
          <6>2. samples'[x] = samples[x] /\ ewma'[providers'[x]] = ewma[providers[x]]
            BY <4>1, <4>3, <4>4, <4>5
          <6> QED BY <6>1, <6>2 DEF Sampled
        <5>2. Sampled2(h)
          BY <4>1, <4>3, <4>4, RunStarts
        <5> QED BY <4>1, <5>1, <5>2 DEF AllSampled2
      <4>8. Tasks2
        <5>1. HealthTask([pc |-> "idle"], providers')
          BY DEF HealthTask
        <5> QED BY <1>3, <3>1, <4>1, <5>1
      <4> QED BY <1>2, <2>1, <4>6, <4>7, <4>8
    <3> QED BY <3>2, <3>3
  <2> QED BY <2>2, <2>3
<1>9. ASSUME NEW t \in Tasks, Health!Resolve(t)
      PROVE  Tasks2 /\ Objects2 /\ AllSampled2 /\ Cooldowns2
  <2> DEFINE found == Health!with_health(htask[t].job)
             x == CHOOSE y \in found : TRUE
             k == [pc |-> "record", job |-> htask[t].job, of |-> x, id |-> providers[x],
                   seen |-> ewma[providers[x]]]
  <2>1. UNCHANGED <<providers, ewma, kcells, samples, owed>> /\ htask[t].pc = "latency"
    BY <1>9 DEF Health!Resolve
  <2>2. htask' = IF found = {} THEN [htask EXCEPT ![t] = [pc |-> "idle"]] ELSE [htask EXCEPT ![t] = k]
    BY <1>9, Zenon DEF Health!Resolve, Health!Done, Health!Idle
  <2>3. found \subseteq DOMAIN providers
    BY DEF Health!with_health
  <2>4. htask[t].job.ms \in Nat
    BY <1>0, <2>1 DEF HealthTasks, HealthTask
  <2>5. CASE found # {}
    <3>1. x \in DOMAIN providers
      BY <2>3, <2>5
    <3> HIDE DEF x
    <3>2. HealthTask(k, providers')
      BY <2>1, <2>4, <3>1 DEF HealthTask
    <3> QED BY <1>1, <1>2, <1>3, <2>1, <2>2, <2>5, <3>2
  <2>6. CASE found = {}
    BY <1>1, <1>2, <1>4, <2>1, <2>2, <2>6
  <2> QED BY <2>5, <2>6
<1>10. ASSUME NEW t \in Tasks, Health!Record(t)
       PROVE  Tasks2 /\ Objects2 /\ AllSampled2 /\ Cooldowns2
  <2>1. htask[t].pc = "record" /\ UNCHANGED <<providers, kcells, owed>>
    BY <1>10 DEF Health!Record
  <2>2. /\ htask[t].job.ms \in Nat /\ DOMAIN htask[t] = {"pc", "job", "of", "id", "seen"}
        /\ htask[t].of \in DOMAIN providers /\ htask[t].id = providers[htask[t].of]
    BY <1>0, <2>1 DEF HealthTasks, HealthTask
  <2>3. CASE ewma[htask[t].id] # htask[t].seen
    <3> DEFINE k == [htask[t] EXCEPT !.seen = ewma[htask[t].id]]
    <3>1. htask' = [htask EXCEPT ![t] = k] /\ UNCHANGED <<ewma, samples>>
      BY <1>0, <1>10, <2>3 DEF Health!Record, HealthTasks
    <3>2. /\ k.pc = "record" /\ k.job = htask[t].job /\ k.of = htask[t].of /\ k.id = htask[t].id
          /\ DOMAIN k = {"pc", "job", "of", "id", "seen"}
      BY <2>1, <2>2
    <3> HIDE DEF k
    <3>3. HealthTask(k, providers')
      BY <2>1, <2>2, <3>2 DEF HealthTask
    <3> QED BY <1>1, <1>2, <1>3, <2>1, <3>1, <3>3
  <2>4. CASE ewma[htask[t].id] = htask[t].seen
    <3> DEFINE o == htask[t].of
               ms == htask[t].job.ms
               id == providers[o]
    <3>1. /\ ewma' = [ewma EXCEPT ![id] = Health!Blend(ewma[id], ms)]
          /\ samples' = [samples EXCEPT ![o] = Append(@, ms)]
          /\ htask' = [htask EXCEPT ![t] = [pc |-> "idle"]]
      BY <1>10, <2>2, <2>4, Zenon DEF Health!Record, Health!Done, Health!Idle
    <3>2. o \in DOMAIN providers /\ ms \in Nat
      BY <2>2
    <3> HIDE DEF o, ms
    <3>3. id \in 1..Len(ewma) /\ ewma \in Seq(Int) /\ ewma[id] \in Int
      BY <1>0, <3>2 DEF Objects
    <3>4. Health!Blend(ewma[id], ms) \in Int
      BY <3>2, <3>3, BlendType
    <3>5. ewma' \in Seq(Int) /\ Len(ewma') = Len(ewma) /\ ewma'[id] = Health!Blend(ewma[id], ms)
          /\ \A i \in 1..Len(ewma) : i # id => ewma'[i] = ewma[i]
      BY <3>1, <3>3, <3>4
    <3>6. DOMAIN samples' = DOMAIN providers' /\ samples'[o] = Append(samples[o], ms)
          /\ \A x \in DOMAIN providers : x # o => samples'[x] = samples[x]
      BY <1>0, <2>1, <3>1, <3>2 DEF Objects
    <3>7. Objects2
      BY <1>0, <2>1, <3>5, <3>6 DEF Objects, Objects2
    <3>8. ASSUME NEW x \in DOMAIN providers, x # o PROVE Sampled2(x)
      <4>1. Sampled(x)
        BY <1>0 DEF AllSampled
      <4>2. providers[x] \in 1..Len(ewma) /\ providers[x] # id
        BY <1>0, <3>2, <3>8 DEF Objects
      <4>3. samples'[x] = samples[x] /\ ewma'[providers'[x]] = ewma[providers[x]]
        BY <2>1, <3>5, <3>6, <3>8, <4>2
      <4> QED BY <4>1, <4>3 DEF Sampled
    <3>9. Sampled2(o)
      <4>1. samples[o] \in Seq(Nat)
        BY <1>0, <3>2 DEF AllSampled, Sampled
      <4>2. PICK f : IsRun(f, samples[o]) /\ ewma[id] = f[Len(samples[o])]
        BY <1>0, <3>2 DEF AllSampled, Sampled
      <4>3. \E g : IsRun(g, Append(samples[o], ms))
                   /\ g[Len(Append(samples[o], ms))] = Health!Blend(f[Len(samples[o])], ms)
        BY <3>2, <4>1, <4>2, RunExtends
      <4>4. samples'[o] = Append(samples[o], ms) /\ ewma'[providers'[o]] = Health!Blend(f[Len(samples[o])], ms)
        BY <2>1, <3>5, <3>6, <4>2
      <4>5. samples'[o] \in Seq(Nat)
        BY <3>2, <4>1, <4>4
      <4> QED BY <4>3, <4>4, <4>5
    <3>10. AllSampled2
      BY <2>1, <3>8, <3>9 DEF AllSampled2
    <3> QED BY <1>2, <1>4, <2>1, <3>1, <3>7, <3>10
  <2> QED BY <2>3, <2>4
\* A look at a cell before a stamp or a wipe.
<1>11. ASSUME NEW t \in Tasks, htask[t].pc \in {"cool", "stamp"}, Health!LookCool(t), UNCHANGED providers PROVE Tasks2
  <2> DEFINE k == [pc |-> "stamp", job |-> htask[t].job, seen |-> Health!CellSeen(t)]
  <2>1. IF Health!Covered(Health!CellSeen(t), htask[t].job)
        THEN htask' = [htask EXCEPT ![t] = [pc |-> "idle"]] ELSE htask' = [htask EXCEPT ![t] = k]
    BY <1>11, Zenon DEF Health!LookCool, Health!Done, Health!Idle
  <2>2. htask[t].job.key \in Health!PoolKeys /\ htask[t].job.until \in Nat
    BY <1>0, <1>11 DEF HealthTasks, HealthTask
  <2>3. ASSUME ~Health!Covered(Health!CellSeen(t), htask[t].job) PROVE HealthTask(k, providers')
    <3>1. ~Health!Covered(k.seen, k.job)
      BY <2>3
    <3> QED BY <2>2, <3>1 DEF HealthTask
  <2> QED BY <1>3, <1>4, <1>11, <2>1, <2>3
<1>12. ASSUME NEW t \in Tasks, htask[t].pc \in {"clear", "wipe"}, Health!LookClear(t), UNCHANGED providers PROVE Tasks2
  <2> DEFINE k == [pc |-> "wipe", job |-> htask[t].job, seen |-> Health!CellSeen(t)]
  <2>1. IF Health!CellSeen(t).fp # FpOf[htask[t].job.key]
        THEN htask' = [htask EXCEPT ![t] = [pc |-> "idle"]] ELSE htask' = [htask EXCEPT ![t] = k]
    BY <1>12, Zenon DEF Health!LookClear, Health!Done, Health!Idle
  <2>2. htask[t].job.key \in Health!PoolKeys
    BY <1>0, <1>12 DEF HealthTasks, HealthTask
  <2>3. ASSUME Health!CellSeen(t).fp = FpOf[htask[t].job.key] PROVE HealthTask(k, providers')
    <3>1. k.seen.fp = FpOf[k.job.key]
      BY <2>3
    <3> QED BY <2>2, <3>1 DEF HealthTask
  <2> QED BY <1>3, <1>4, <1>12, <2>1, <2>3
<1>13. ASSUME NEW t \in Tasks, Health!CoolLoad(t)
       PROVE  Tasks2 /\ Objects2 /\ AllSampled2 /\ Cooldowns2
  BY <1>1, <1>2, <1>11, <1>13 DEF Health!CoolLoad
<1>14. ASSUME NEW t \in Tasks, Health!ClearLoad(t)
       PROVE  Tasks2 /\ Objects2 /\ AllSampled2 /\ Cooldowns2
  BY <1>1, <1>2, <1>12, <1>14 DEF Health!ClearLoad
\* A cell is written: what the key that wrote it is owed is what it says, and the keys it is
\* shared with are owed nothing.
<1> DEFINE Writes(key, word) ==
             /\ key \in Health!PoolKeys /\ word.until \in Nat
             /\ kcells' = [kcells EXCEPT ![CellOf[key]] = word]
             /\ DOMAIN owed' = Health!PoolKeys
             /\ owed'[key] = IF word.fp = FpOf[key] THEN word.until ELSE 0
             /\ \A x \in Health!PoolKeys : x # key /\ CellOf[x] = CellOf[key] => word.fp # FpOf[x] /\ owed'[x] = 0
             /\ \A x \in Health!PoolKeys : CellOf[x] # CellOf[key] => owed'[x] = owed[x]
<1>15. ASSUME NEW key, NEW word, Writes(key, word)
       PROVE  Cooldowns2
  <2>1. /\ DOMAIN kcells' = DOMAIN kcells
        /\ \A x \in Health!PoolKeys :
             kcells'[CellOf[x]] = IF CellOf[x] = CellOf[key] THEN word ELSE kcells[CellOf[x]]
    BY <1>0, <1>15 DEF Cooldowns
  <2>2. ASSUME NEW x \in Health!PoolKeys
        PROVE  /\ kcells'[CellOf[x]].until \in Nat /\ owed'[x] \in Nat
               /\ owed'[x] = IF kcells'[CellOf[x]].fp = FpOf[x] THEN kcells'[CellOf[x]].until ELSE 0
    <3>1. /\ kcells[CellOf[x]].until \in Nat /\ owed[x] \in Nat
          /\ owed[x] = IF kcells[CellOf[x]].fp = FpOf[x] THEN kcells[CellOf[x]].until ELSE 0
      BY <1>0 DEF Cooldowns, Health!CooldownIsOwn, Health!key_cooled_until
    <3>2. CASE x = key
      BY <1>15, <2>1, <3>2
    <3>3. CASE x # key /\ CellOf[x] = CellOf[key]
      BY <1>15, <2>1, <3>3
    <3>4. CASE CellOf[x] # CellOf[key]
      BY <1>15, <2>1, <3>1, <3>4
    <3> QED BY <3>2, <3>3, <3>4
  <2>3. DOMAIN kcells' = {CellOf[k] : k \in Health!PoolKeys}
    BY <1>0, <2>1 DEF Cooldowns
  <2> QED BY <1>15, <2>2, <2>3 DEF Cooldowns2
<1> HIDE DEF Writes
<1>16. ASSUME NEW t \in Tasks, Health!CoolCas(t)
       PROVE  Tasks2 /\ Objects2 /\ AllSampled2 /\ Cooldowns2
  <2> DEFINE key == htask[t].job.key
             word == Health!Stamp(htask[t].job)
  <2>1. htask[t].pc = "stamp" /\ UNCHANGED <<providers, ewma, samples>>
    BY <1>16 DEF Health!CoolCas
  <2>2. /\ key \in Health!PoolKeys /\ htask[t].job.until \in Nat
        /\ ~Health!Covered(htask[t].seen, htask[t].job)
    BY <1>0, <2>1 DEF HealthTasks, HealthTask
  <2>3. CASE Health!CellSeen(t) # htask[t].seen
    BY <1>1, <1>2, <1>11, <1>16, <2>1, <2>3 DEF Health!CoolCas
  <2>4. CASE Health!CellSeen(t) = htask[t].seen
    <3>1. /\ kcells' = [kcells EXCEPT ![CellOf[key]] = word]
          /\ owed' = Health!Claim(key, Health!Longer(owed[key], word.until))
          /\ htask' = [htask EXCEPT ![t] = [pc |-> "idle"]]
      BY <1>16, <2>4, Zenon DEF Health!CoolCas, Health!CellIs, Health!Done, Health!Idle
    <3>2. word.fp = FpOf[key] /\ word.until \in Nat
      BY <2>2 DEF Health!Stamp, Health!Configured
    <3>3. kcells[CellOf[key]].fp # FpOf[key] \/ ~(kcells[CellOf[key]].until >= word.until)
      BY <2>2, <2>4, Zenon DEF Health!Covered, Health!CellSeen
    <3> HIDE DEF word
    <3>4. /\ kcells[CellOf[key]].until \in Nat /\ owed[key] \in Nat
          /\ owed[key] = IF kcells[CellOf[key]].fp = FpOf[key] THEN kcells[CellOf[key]].until ELSE 0
      BY <1>0, <2>2 DEF Cooldowns, Health!CooldownIsOwn, Health!key_cooled_until
    <3>5. Health!Longer(owed[key], word.until) = word.until
      BY <3>2, <3>3, <3>4 DEF Health!Longer
    <3>6. /\ DOMAIN owed' = Health!PoolKeys /\ owed'[key] = word.until
          /\ \A x \in Health!PoolKeys : x # key /\ CellOf[x] = CellOf[key] => owed'[x] = 0
          /\ \A x \in Health!PoolKeys : CellOf[x] # CellOf[key] => owed'[x] = owed[x]
      BY <2>2, <3>1, <3>5 DEF Health!Claim
    <3>7. \A x \in Health!PoolKeys : x # key /\ CellOf[x] = CellOf[key] => word.fp # FpOf[x]
      BY <2>2, <3>2 DEF Health!Configured
    <3> HIDE DEF key
    <3>8. /\ owed'[key] = IF word.fp = FpOf[key] THEN word.until ELSE 0
          /\ \A x \in Health!PoolKeys : x # key /\ CellOf[x] = CellOf[key] => word.fp # FpOf[x] /\ owed'[x] = 0
      BY <3>2, <3>6, <3>7
    <3>9. Writes(key, word)
      BY <2>2, <3>1, <3>2, <3>6, <3>8 DEF Writes
    <3>10. Cooldowns2
      BY <1>15, <3>9
    <3> QED BY <1>1, <1>4, <2>1, <3>1, <3>10
  <2> QED BY <2>3, <2>4
<1>17. ASSUME NEW t \in Tasks, Health!ClearCas(t)
       PROVE  Tasks2 /\ Objects2 /\ AllSampled2 /\ Cooldowns2
  <2> DEFINE key == htask[t].job.key
             word == [fp |-> 0, until |-> 0]
  <2>1. htask[t].pc = "wipe" /\ UNCHANGED <<providers, ewma, samples>>
    BY <1>17 DEF Health!ClearCas
  <2>2. key \in Health!PoolKeys /\ htask[t].seen.fp = FpOf[key]
    BY <1>0, <2>1 DEF HealthTasks, HealthTask
  <2>3. CASE Health!CellSeen(t) # htask[t].seen
    BY <1>1, <1>2, <1>12, <1>17, <2>1, <2>3 DEF Health!ClearCas
  <2>4. CASE Health!CellSeen(t) = htask[t].seen
    <3>1. /\ kcells' = [kcells EXCEPT ![CellOf[key]] = word]
          /\ owed' = [owed EXCEPT ![key] = 0]
          /\ htask' = [htask EXCEPT ![t] = [pc |-> "idle"]]
      BY <1>17, <2>4, Zenon DEF Health!ClearCas, Health!CellIs, Health!Done, Health!Idle, Health!Vacant
    <3>2. kcells[CellOf[key]].fp = FpOf[key]
      BY <2>2, <2>4, Zenon DEF Health!CellSeen
    <3>3. \A x \in Health!PoolKeys : FpOf[x] # 0
      BY DEF Health!Configured
    <3>4. ASSUME NEW x \in Health!PoolKeys, x # key, CellOf[x] = CellOf[key] PROVE owed[x] = 0
      <4>1. FpOf[x] # FpOf[key]
        BY <2>2, <3>4 DEF Health!Configured
      <4> QED BY <1>0, <3>2, <3>4, <4>1 DEF Cooldowns, Health!CooldownIsOwn, Health!key_cooled_until
    <3>5. /\ DOMAIN owed' = Health!PoolKeys /\ owed'[key] = 0
          /\ \A x \in Health!PoolKeys : x # key /\ CellOf[x] = CellOf[key] => owed'[x] = 0
          /\ \A x \in Health!PoolKeys : CellOf[x] # CellOf[key] => owed'[x] = owed[x]
      BY <1>0, <2>2, <3>1, <3>4 DEF Cooldowns
    <3>6. /\ word.until = 0 /\ word.until \in Nat /\ 0 \in Nat
          /\ \A x \in Health!PoolKeys : word.fp # FpOf[x]
      BY <3>3
    <3> HIDE DEF key, word
    <3>7. /\ owed'[key] = IF word.fp = FpOf[key] THEN word.until ELSE 0
          /\ \A x \in Health!PoolKeys : x # key /\ CellOf[x] = CellOf[key] => word.fp # FpOf[x] /\ owed'[x] = 0
      BY <2>2, <3>5, <3>6
    <3>8. Writes(key, word)
      BY <2>2, <3>1, <3>5, <3>6, <3>7 DEF Writes
    <3>9. Cooldowns2
      BY <1>15, <3>8
    <3> QED BY <1>1, <1>4, <2>1, <3>1, <3>9
  <2> QED BY <2>3, <2>4
<1>18. CASE Health!Next
  <2>1. PICK t \in Tasks : \/ Health!Begin(t) \/ Health!RegisterLoad(t) \/ Health!RegisterSwap(t)
                           \/ Health!Resolve(t) \/ Health!Record(t) \/ Health!CoolLoad(t) \/ Health!CoolCas(t)
                           \/ Health!ClearLoad(t) \/ Health!ClearCas(t)
    BY <1>18, Zenon DEF Health!Next
  <2> QED BY <1>6, <1>7, <1>8, <1>9, <1>10, <1>13, <1>14, <1>16, <1>17, <2>1, Zenon DEF AllSampled2
<1> QED BY <1>5, <1>18 DEF AllSampled2

(***************************************************************************)
(* DistributedLimiter                                                       *)
(***************************************************************************)

Held == [pc : {"sent", "ran", "admitted", "denied", "local"}, at : Replicas, now : Nat,
         i : 1..Len(Specs), since : Nat, count : Nat]
\* A call is under way.
Pending(q) == q.pc \in {"sent", "ran"}
\* When the keys of a minute may be gone.
End(e) == (e + 1) * Window + Grace

LEMMA FleetConstants ==
  ASSUME Fleet!Configured
  PROVE  /\ IsFiniteSet(Requests) /\ Len(Specs) \in Nat /\ Len(Specs) > 0 /\ DOMAIN Specs = 1..Len(Specs)
         /\ Window \in Nat /\ Window > 0 /\ Grace \in Nat /\ Timeout \in Nat /\ MaxClock \in Nat
         /\ Len(Specs) * Timeout <= Grace
         /\ \A s \in Fleet!Scopes : Limit[s] \in Nat /\ ReplicaShare[s] \in Nat
         /\ \A i, j \in 1..Len(Specs) : Specs[i] = Specs[j] => i = j
         /\ \A i \in 1..Len(Specs) : Specs[i] \in Fleet!Scopes
         /\ \A s \in Fleet!Scopes : \E i \in 1..Len(Specs) : Specs[i] = s
<1>1. IsFiniteSet(Requests)
  BY Zenon DEF Fleet!Configured, Fleet!IsFiniteSet, IsFiniteSet
<1>2. Specs \in Seq(Fleet!Scopes) /\ Specs # <<>>
  BY DEF Fleet!Configured
<1>3. Len(Specs) \in Nat /\ Len(Specs) > 0 /\ DOMAIN Specs = 1..Len(Specs)
  BY <1>2
<1> QED BY <1>1, <1>3 DEF Fleet!Configured, Fleet!Scopes

LEMMA EndOf ==
  ASSUME Fleet!Configured, NEW now \in Nat
  PROVE  /\ Fleet!Epoch(now) \in Nat /\ End(Fleet!Epoch(now)) \in Nat
         /\ now + Fleet!ttl_ms(now) = End(Fleet!Epoch(now)) /\ now + Grace < End(Fleet!Epoch(now))
<1> DEFINE e == now \div Window
<1>1. Window \in Nat /\ Window > 0 /\ Grace \in Nat
  BY FleetConstants
<1>2. e \in Nat /\ now % Window \in Nat /\ now % Window < Window /\ now = (Window * e) + (now % Window)
  BY <1>1
<1>3. Fleet!Epoch(now) = e /\ Fleet!ttl_ms(now) = Window - (now % Window) + Grace
  BY DEF Fleet!Epoch, Fleet!ttl_ms
<1> HIDE DEF e
<1>4. (e + 1) * Window = (Window * e) + Window /\ (e + 1) * Window \in Nat
  BY <1>1, <1>2
<1>5. End(e) = (e + 1) * Window + Grace
  BY DEF End
<1> HIDE DEF End
<1> DEFINE p == (e + 1) * Window
           m == Window * e
           d == now % Window
<1>6. m \in Int
  BY <1>1, <1>2
<1>7. p = m + Window /\ p \in Nat /\ End(e) = p + Grace /\ d \in Nat /\ d < Window /\ now = m + d
  BY <1>2, <1>4, <1>5
<1>8. Fleet!ttl_ms(now) = Window - d + Grace
  BY <1>3
<1> HIDE DEF p, m, d
<1> QED BY <1>1, <1>2, <1>3, <1>6, <1>7, <1>8

FleetTyped ==
    /\ dclock \in Nat
    /\ DOMAIN req = Requests /\ \A r \in Requests : req[r] = [pc |-> "idle"] \/ req[r] \in Held
    /\ DOMAIN redis \subseteq Fleet!Scopes \X Nat
    /\ \A k \in DOMAIN redis : redis[k] \in [count : Nat, expires : Nat]
    /\ dslots \in [Replicas \X Fleet!Scopes -> [e : Nat, c : Nat]]
\* A call is waited for no longer than its time, and there is one for each scope.
Timely == \A r \in Requests :
    /\ req[r].pc # "idle" => req[r].now <= dclock
    /\ Pending(req[r]) => /\ req[r].since <= dclock /\ dclock <= req[r].since + Timeout
                          /\ req[r].since <= req[r].now + (req[r].i - 1) * Timeout
\* A call on its way after its request gave it up is the only one of the request.
Orphaned ==
    /\ \A o \in orphans :
         /\ o.by \in Requests /\ req[o.by].pc \in {"denied", "local"}
         /\ o.key = <<Specs[req[o.by].i], Fleet!Epoch(req[o.by].now)>> /\ o.ttl = Fleet!ttl_ms(req[o.by].now)
    /\ \A o, p \in orphans : o.by = p.by => o = p
KeysLast == \A k \in DOMAIN redis : redis[k].expires >= End(k[2])

\* The requests of a minute that Redis let past a scope: the call for it was answered within the
\* limit, or a later one was made.
IsPast(x, s, e) ==
    /\ x.pc # "idle" /\ Fleet!Epoch(x.now) = e
    /\ \/ x.pc = "admitted"
       \/ x.pc \in {"sent", "ran"} /\ \E j \in 1..(x.i - 1) : Specs[j] = s
       \/ x.pc = "ran" /\ Specs[x.i] = s /\ x.count <= Limit[s]
PastOf(q, s, e) == {r \in Requests : IsPast(q[r], s, e)}
PastCounted == \A s \in Hard \cap Fleet!Scopes, e \in Nat :
    /\ Cardinality(PastOf(req, s, e)) <= Limit[s]
    /\ \/ PastOf(req, s, e) = {} \/ dclock >= End(e)
       \/ <<s, e>> \in DOMAIN redis /\ Cardinality(PastOf(req, s, e)) <= redis[<<s, e>>].count

\* The requests of a minute one replica let through on its own.
IsLocal(x, rep, e) == x.pc = "local" /\ Fleet!Epoch(x.now) = e /\ x.at = rep
LocalOf(q, rep, e) == {r \in Requests : IsLocal(q[r], rep, e)}
LocalCounted ==
    /\ \A rep \in Replicas, s \in Hard \cap Fleet!Scopes, e \in Nat : <<rep, s>> \notin back =>
          /\ Cardinality(LocalOf(req, rep, e)) <= ReplicaShare[s]
          /\ dslots[<<rep, s>>].e = e => Cardinality(LocalOf(req, rep, e)) <= dslots[<<rep, s>>].c
          /\ dslots[<<rep, s>>].e < e => LocalOf(req, rep, e) = {}
    /\ fallback = "closed" => \A r \in Requests : req[r].pc # "local"

\* The requests that a key may have counted: they have called for it, and the call is not on its way.
Counts(x, r, o, k) ==
    /\ x.pc # "idle" /\ Fleet!Epoch(x.now) = k[2]
    /\ \E i \in 1..x.i : Specs[i] = k[1]
    /\ ~(x.pc = "sent" /\ Specs[x.i] = k[1])
    /\ \A call \in o : ~(call.by = r /\ call.key = k)
CountedBy(q, o, k) == {r \in Requests : Counts(q[r], r, o, k)}
OnceCounted == \A k \in DOMAIN redis : redis[k].count <= Cardinality(CountedBy(req, orphans, k))

FleetInv == FleetTyped /\ Timely /\ Orphaned /\ KeysLast /\ PastCounted /\ LocalCounted /\ OnceCounted

LEMMA FleetInit == Fleet!Configured /\ Fleet!Init => FleetInv
<1> SUFFICES ASSUME Fleet!Configured, Fleet!Init PROVE FleetInv
  OBVIOUS
<1>1. /\ dclock = 0 /\ redis = <<>> /\ orphans = {}
      /\ dslots = [x \in Replicas \X Fleet!Scopes |-> [e |-> 0, c |-> 0]]
      /\ req = [r \in Requests |-> [pc |-> "idle"]]
  BY Zenon DEF Fleet!Init, Fleet!Idle
<1>2. \A r \in Requests : req[r].pc = "idle"
  BY <1>1
<1>3. FleetTyped
  BY <1>1 DEF FleetTyped
<1>4. Timely /\ Orphaned /\ KeysLast /\ OnceCounted
  BY <1>1, <1>2 DEF Timely, Orphaned, KeysLast, OnceCounted, Pending
<1>5. \A s, e : PastOf(req, s, e) = {} /\ LocalOf(req, s, e) = {}
  BY <1>2 DEF PastOf, IsPast, LocalOf, IsLocal
<1>6. Cardinality({}) = 0
  BY FS_EmptySet
<1>7. PastCounted
  <2>1. ASSUME NEW s \in Hard \cap Fleet!Scopes, NEW e \in Nat
        PROVE  PastOf(req, s, e) = {} /\ Cardinality(PastOf(req, s, e)) <= Limit[s]
    <3>1. PastOf(req, s, e) = {} /\ Limit[s] \in Nat
      BY <1>5, FleetConstants
    <3> QED BY <1>6, <3>1
  <2> QED BY <2>1 DEF PastCounted
<1>8. LocalCounted
  <2>1. \A rep \in Replicas, s \in Fleet!Scopes : dslots[<<rep, s>>] = [e |-> 0, c |-> 0] /\ ReplicaShare[s] \in Nat
    BY <1>1, FleetConstants
  <2> QED BY <1>2, <1>5, <1>6, <2>1 DEF LocalCounted
<1> QED BY <1>3, <1>4, <1>7, <1>8 DEF FleetInv

LEMMA FleetSafe == Fleet!Configured /\ FleetInv => Fleet!FleetCap /\ Fleet!CountedOnce
<1> SUFFICES ASSUME Fleet!Configured, FleetInv PROVE Fleet!FleetCap /\ Fleet!CountedOnce
  OBVIOUS
<1>0. \A S : Fleet!Cardinality(S) = Cardinality(S)
  BY Zenon DEF Fleet!Cardinality, Cardinality
<1>1. IsFiniteSet(Requests)
  BY FleetConstants
<1>2. ASSUME NEW e \in 0..Fleet!Epoch(MaxClock), NEW s \in Hard \cap Fleet!Scopes
      PROVE  /\ Cardinality(Fleet!By("admitted", e)) <= Limit[s]
             /\ \A rep \in Replicas : <<rep, s>> \notin back =>
                   Cardinality({r \in Fleet!By("local", e) : req[r].at = rep}) <= ReplicaShare[s]
             /\ fallback = "closed" => Fleet!By("local", e) = {}
  <2>1. e \in Nat
    BY EndOf, FleetConstants
  <2>2. Fleet!By("admitted", e) \subseteq PastOf(req, s, e)
    BY DEF Fleet!By, PastOf, IsPast
  <2>3. IsFiniteSet(PastOf(req, s, e))
    BY <1>1, FS_Subset DEF PastOf
  <2>4. /\ Cardinality(Fleet!By("admitted", e)) <= Cardinality(PastOf(req, s, e))
        /\ Cardinality(Fleet!By("admitted", e)) \in Nat /\ Cardinality(PastOf(req, s, e)) \in Nat
    BY <2>2, <2>3, FS_Subset, FS_CardinalityType
  <2>5. Limit[s] \in Nat
    BY FleetConstants
  <2>9. Cardinality(PastOf(req, s, e)) <= Limit[s]
    BY <2>1 DEF FleetInv, PastCounted
  <2>6. Cardinality(Fleet!By("admitted", e)) <= Limit[s]
    BY <2>4, <2>5, <2>9
  <2>7. ASSUME NEW rep \in Replicas, <<rep, s>> \notin back
        PROVE  Cardinality({r \in Fleet!By("local", e) : req[r].at = rep}) <= ReplicaShare[s]
    <3>1. {r \in Fleet!By("local", e) : req[r].at = rep} = LocalOf(req, rep, e)
      BY DEF Fleet!By, LocalOf, IsLocal
    <3> QED BY <2>1, <2>7, <3>1 DEF FleetInv, LocalCounted
  <2>8. fallback = "closed" => Fleet!By("local", e) = {}
    BY DEF FleetInv, LocalCounted, Fleet!By
  <2> QED BY <2>6, <2>7, <2>8
<1>3. ASSUME NEW k \in DOMAIN redis
      PROVE  redis[k].count <= Cardinality({r \in Requests :
                 req[r] # [pc |-> "idle"] /\ Fleet!Epoch(req[r].now) = k[2] /\ \E i \in 1..req[r].i : Specs[i] = k[1]})
  <2> DEFINE all == {r \in Requests : req[r] # [pc |-> "idle"] /\ Fleet!Epoch(req[r].now) = k[2]
                                      /\ \E i \in 1..req[r].i : Specs[i] = k[1]}
             some == CountedBy(req, orphans, k)
  <2>1. some \subseteq all /\ all \subseteq Requests
    BY DEF CountedBy, Counts
  <2>2. redis[k].count <= Cardinality(some) /\ redis[k].count \in Nat
    BY DEF FleetInv, OnceCounted, FleetTyped
  <2> HIDE DEF all, some
  <2>3. IsFiniteSet(all)
    BY <1>1, <2>1, FS_Subset
  <2>4. Cardinality(some) <= Cardinality(all) /\ Cardinality(some) \in Nat /\ Cardinality(all) \in Nat
    BY <2>1, <2>3, FS_Subset, FS_CardinalityType
  <2>5. redis[k].count <= Cardinality(all)
    BY <2>2, <2>4
  <2> QED BY <2>5 DEF all
<1>4. Fleet!FleetCap
  BY <1>0, <1>2 DEF Fleet!FleetCap
<1>5. Fleet!CountedOnce
  BY <1>0, <1>3 DEF Fleet!CountedOnce, Fleet!Idle
<1> QED BY <1>4, <1>5

LEMMA SmallerSet ==
  ASSUME NEW T, IsFiniteSet(T), NEW S, S \subseteq T
  PROVE  Cardinality(S) <= Cardinality(T) /\ Cardinality(S) \in Nat /\ Cardinality(T) \in Nat
BY FS_Subset, FS_CardinalityType

LEMMA OneMore ==
  ASSUME NEW T, IsFiniteSet(T), NEW r, NEW S, S \subseteq T \cup {r}
  PROVE  Cardinality(S) <= Cardinality(T) + 1 /\ Cardinality(S) \in Nat /\ Cardinality(T) \in Nat
<1>1. IsFiniteSet(T \cup {r}) /\ Cardinality(T \cup {r}) = IF r \in T THEN Cardinality(T) ELSE Cardinality(T) + 1
  BY FS_AddElement
<1>2. Cardinality(S) <= Cardinality(T \cup {r}) /\ Cardinality(S) \in Nat
  BY <1>1, SmallerSet
<1>3. Cardinality(T) \in Nat
  BY FS_CardinalityType
<1> QED BY <1>1, <1>2, <1>3

LEMMA OneGained ==
  ASSUME NEW T, IsFiniteSet(T), NEW S, S \subseteq T, NEW r \in T, r \notin S
  PROVE  Cardinality(S) + 1 <= Cardinality(T) /\ Cardinality(S) \in Nat /\ Cardinality(T) \in Nat
<1>1. IsFiniteSet(S) /\ S \cup {r} \subseteq T
  BY FS_Subset
<1>2. Cardinality(S \cup {r}) = Cardinality(S) + 1
  BY <1>1, FS_AddElement
<1>3. Cardinality(S \cup {r}) <= Cardinality(T) /\ Cardinality(T) \in Nat
  BY <1>1, SmallerSet
<1>4. Cardinality(S) \in Nat
  BY <1>1, FS_CardinalityType
<1> QED BY <1>2, <1>3, <1>4

\* A request that has ended keeps what it counted for.
LEMMA EndedIs ==
  ASSUME NEW q \in Held, NEW p \in {"admitted", "denied", "local"}
  PROVE  /\ Fleet!Ended(q, p) \in Held /\ Fleet!Ended(q, p).pc = p /\ Fleet!Ended(q, p).at = q.at
         /\ Fleet!Ended(q, p).now = q.now /\ Fleet!Ended(q, p).i = q.i
BY DEF Fleet!Ended, Held

LEMMA Multiples ==
  ASSUME NEW i \in Nat, NEW n \in Nat, i <= n, NEW t \in Nat
  PROVE  /\ (i - 1) * t + t = i * t /\ ((i + 1) - 1) * t = i * t
         /\ i * t <= n * t /\ i * t \in Nat /\ n * t \in Nat /\ (i - 1) * t \in Int
<1>1. i * t <= n * t
  <2>1. (n - i) * t >= 0 /\ (n - i) * t = n * t - i * t
    OBVIOUS
  <2>2. n * t \in Nat /\ i * t \in Nat
    OBVIOUS
  <2> QED BY <2>1, <2>2
<1> QED BY <1>1

\* While a call is waited for, no key of its minute is gone.
LEMMA InTime ==
  ASSUME Fleet!Configured, FleetTyped, Timely, NEW r \in Requests, Pending(req[r])
  PROVE  dclock < End(Fleet!Epoch(req[r].now)) /\ Fleet!Epoch(req[r].now) \in Nat
<1>1. /\ req[r].i \in 1..Len(Specs) /\ req[r].now \in Nat /\ req[r].since \in Nat /\ dclock \in Nat
  BY DEF FleetTyped, Held, Pending
<1>2. dclock <= req[r].since + Timeout /\ req[r].since <= req[r].now + (req[r].i - 1) * Timeout
  BY DEF Timely
<1>3. Len(Specs) \in Nat /\ Timeout \in Nat /\ Grace \in Nat /\ Len(Specs) * Timeout <= Grace
  BY FleetConstants
<1>4. /\ req[r].i \in Nat /\ req[r].i <= Len(Specs)
  BY <1>1, <1>3
<1> DEFINE a == (req[r].i - 1) * Timeout
           b == req[r].i * Timeout
           c == Len(Specs) * Timeout
<1>5. a + Timeout = b /\ b <= c /\ b \in Nat /\ c \in Nat /\ a \in Int
  BY <1>3, <1>4, Multiples
<1>6. /\ dclock <= req[r].since + Timeout /\ req[r].since <= req[r].now + a /\ c <= Grace
  BY <1>2, <1>3
<1> HIDE DEF a, b, c
<1>7. dclock <= req[r].now + Grace
  BY <1>1, <1>3, <1>5, <1>6, SMTT(30)
<1>8. /\ req[r].now + Grace < End(Fleet!Epoch(req[r].now)) /\ End(Fleet!Epoch(req[r].now)) \in Nat
      /\ Fleet!Epoch(req[r].now) \in Nat
  BY <1>1, EndOf
<1> QED BY <1>1, <1>3, <1>7, <1>8

\* The call of a request for its present scope, and what the script does for it.
IsCall(call, q) ==
    call.key = <<Specs[q.i], Fleet!Epoch(q.now)>> /\ call.ttl = Fleet!ttl_ms(q.now)
ScriptRan(call, map) ==
    /\ DOMAIN map = DOMAIN redis \cup {call.key} /\ DOMAIN map \subseteq Fleet!Scopes \X Nat
    /\ \A k \in DOMAIN map : map[k] \in [count : Nat, expires : Nat] /\ map[k].expires >= End(k[2])
    /\ \A k \in DOMAIN redis : k # call.key => map[k] = redis[k]
    /\ map[call.key].count = IF call.key \in DOMAIN redis THEN redis[call.key].count + 1 ELSE 1
    /\ \A k \in DOMAIN redis : map[k].count >= redis[k].count

LEMMA ScriptRuns ==
  ASSUME Fleet!Configured, FleetTyped, KeysLast,
         NEW call, NEW q \in Held, q.now <= dclock, IsCall(call, q)
  PROVE  ScriptRan(call, Fleet!Incremented(call))
<1> DEFINE now == q.now
           map == Fleet!Incremented(call)
<1>0. /\ now \in Nat /\ now <= dclock /\ call.key = <<Specs[q.i], Fleet!Epoch(now)>> /\ call.ttl = Fleet!ttl_ms(now)
      /\ Specs[q.i] \in Fleet!Scopes
  BY FleetConstants DEF Held, IsCall
<1> HIDE DEF now
<1> DEFINE key == call.key
<1>1. /\ Fleet!Epoch(now) \in Nat /\ End(Fleet!Epoch(now)) \in Nat /\ now + Fleet!ttl_ms(now) = End(Fleet!Epoch(now))
  BY <1>0, EndOf
<1>2. dclock \in Nat /\ DOMAIN redis \subseteq Fleet!Scopes \X Nat /\ key[2] = Fleet!Epoch(now) /\ key \in Fleet!Scopes \X Nat
      /\ \A k \in DOMAIN redis : redis[k] \in [count : Nat, expires : Nat] /\ redis[k].expires >= End(k[2])
  BY <1>0, <1>1 DEF FleetTyped, KeysLast
<1>3. CASE key \in DOMAIN redis
  <2>1. map = [redis EXCEPT ![key].count = @ + 1]
    BY <1>3 DEF Fleet!Incremented
  <2>2. /\ DOMAIN map = DOMAIN redis
        /\ \A k \in DOMAIN redis : k # key => map[k] = redis[k]
        /\ map[key] = [redis[key] EXCEPT !.count = @ + 1]
    BY <1>3, <2>1
  <2>3. map[key] \in [count : Nat, expires : Nat] /\ map[key].expires = redis[key].expires /\ map[key].count = redis[key].count + 1
    BY <1>2, <1>3, <2>2
  <2> HIDE DEF key, map
  <2>4. \A k \in DOMAIN map : map[k] \in [count : Nat, expires : Nat] /\ map[k].expires >= End(k[2])
    BY <1>2, <1>3, <2>2, <2>3
  <2>5. \A k \in DOMAIN redis : map[k].count >= redis[k].count
    BY <1>2, <2>2, <2>3
  <2>6. ScriptRan(call, map)
    BY <1>2, <1>3, <2>2, <2>3, <2>4, <2>5 DEF key, ScriptRan
  <2> QED BY <2>6 DEF map
<1>4. CASE key \notin DOMAIN redis
  <2>1. /\ DOMAIN map = DOMAIN redis \cup {key}
        /\ \A k \in DOMAIN redis : map[k] = redis[k]
        /\ map[key] = [count |-> 1, expires |-> dclock + call.ttl]
    BY <1>4 DEF Fleet!Incremented
  <2>2. dclock + call.ttl \in Nat /\ dclock + call.ttl >= End(key[2])
    <3>1. Fleet!ttl_ms(now) \in Int
      BY <1>0, FleetConstants DEF Fleet!ttl_ms
    <3> QED BY <1>0, <1>1, <1>2, <3>1
  <2>3. map[key] \in [count : Nat, expires : Nat] /\ map[key].expires >= End(key[2]) /\ map[key].count = 1
    BY <2>1, <2>2
  <2> HIDE DEF key, map
  <2>4. \A k \in DOMAIN redis : map[k].count >= redis[k].count
    BY <1>2, <2>1
  <2>5. \A k \in DOMAIN map : map[k] \in [count : Nat, expires : Nat] /\ map[k].expires >= End(k[2])
    BY <1>2, <1>4, <2>1, <2>3
  <2>6. ScriptRan(call, map)
    BY <1>2, <1>4, <2>1, <2>3, <2>4, <2>5 DEF key, ScriptRan
  <2> QED BY <2>6 DEF map
<1> QED BY <1>3, <1>4

LEMMA FleetStep == Fleet!Configured /\ FleetInv /\ [Fleet!Next]_(Fleet!vars) => FleetInv'
<1> SUFFICES ASSUME Fleet!Configured, FleetInv, [Fleet!Next]_(Fleet!vars) PROVE FleetInv'
  OBVIOUS
\* The primed parts of the invariant, said in full.
<1> DEFINE Typed2 ==
             /\ dclock' \in Nat
             /\ DOMAIN req' = Requests /\ \A r \in Requests : req'[r] = [pc |-> "idle"] \/ req'[r] \in Held
             /\ DOMAIN redis' \subseteq Fleet!Scopes \X Nat
             /\ \A k \in DOMAIN redis' : redis'[k] \in [count : Nat, expires : Nat]
             /\ dslots' \in [Replicas \X Fleet!Scopes -> [e : Nat, c : Nat]]
           Timely2 == \A r \in Requests :
             /\ req'[r].pc # "idle" => req'[r].now <= dclock'
             /\ Pending(req'[r]) => /\ req'[r].since <= dclock' /\ dclock' <= req'[r].since + Timeout
                                    /\ req'[r].since <= req'[r].now + (req'[r].i - 1) * Timeout
           Orphaned2 ==
             /\ \A o \in orphans' :
                  /\ o.by \in Requests /\ req'[o.by].pc \in {"denied", "local"}
                  /\ o.key = <<Specs[req'[o.by].i], Fleet!Epoch(req'[o.by].now)>> /\ o.ttl = Fleet!ttl_ms(req'[o.by].now)
             /\ \A o, p \in orphans' : o.by = p.by => o = p
           Last2 == \A k \in DOMAIN redis' : redis'[k].expires >= End(k[2])
           Past2 == \A s \in Hard \cap Fleet!Scopes, e \in Nat :
             /\ Cardinality(PastOf(req', s, e)) <= Limit[s]
             /\ \/ PastOf(req', s, e) = {} \/ dclock' >= End(e)
                \/ <<s, e>> \in DOMAIN redis' /\ Cardinality(PastOf(req', s, e)) <= redis'[<<s, e>>].count
           Local2 ==
             /\ \A rep \in Replicas, s \in Hard \cap Fleet!Scopes, e \in Nat : <<rep, s>> \notin back' =>
                   /\ Cardinality(LocalOf(req', rep, e)) <= ReplicaShare[s]
                   /\ dslots'[<<rep, s>>].e = e => Cardinality(LocalOf(req', rep, e)) <= dslots'[<<rep, s>>].c
                   /\ dslots'[<<rep, s>>].e < e => LocalOf(req', rep, e) = {}
             /\ fallback' = "closed" => \A r \in Requests : req'[r].pc # "local"
           Once2 == \A k \in DOMAIN redis' : redis'[k].count <= Cardinality(CountedBy(req', orphans', k))
<1> SUFFICES Typed2 /\ Timely2 /\ Orphaned2 /\ Last2 /\ Past2 /\ Local2 /\ Once2
  BY Zenon DEF FleetInv, FleetTyped, Timely, Orphaned, KeysLast, PastCounted, LocalCounted, OnceCounted,
     Pending, Held, End, PastOf, IsPast, LocalOf, IsLocal, CountedBy, Counts,
     Fleet!Scopes, Fleet!Epoch, Fleet!ttl_ms
<1> USE FleetConstants
<1>0. FleetTyped /\ Timely /\ Orphaned /\ KeysLast /\ PastCounted /\ LocalCounted /\ OnceCounted
  BY DEF FleetInv
\* No request is let past a scope by the step.
<1>1. ASSUME dclock' >= dclock, dclock' \in Nat,
             \A s \in Hard \cap Fleet!Scopes, r \in Requests, e \in Nat : IsPast(req'[r], s, e) => IsPast(req[r], s, e),
             \A k \in DOMAIN redis : \/ dclock' >= End(k[2])
                                     \/ k \in DOMAIN redis' /\ redis'[k].count >= redis[k].count /\ redis'[k].count \in Nat
      PROVE  Past2
  <2> SUFFICES ASSUME NEW s \in Hard \cap Fleet!Scopes, NEW e \in Nat
               PROVE  /\ Cardinality(PastOf(req', s, e)) <= Limit[s]
                      /\ \/ PastOf(req', s, e) = {} \/ dclock' >= End(e)
                         \/ <<s, e>> \in DOMAIN redis' /\ Cardinality(PastOf(req', s, e)) <= redis'[<<s, e>>].count
    BY Zenon
  <2>1. PastOf(req', s, e) \subseteq PastOf(req, s, e) /\ PastOf(req, s, e) \subseteq Requests
    BY <1>1 DEF PastOf
  <2>2. /\ Cardinality(PastOf(req', s, e)) <= Cardinality(PastOf(req, s, e))
        /\ Cardinality(PastOf(req', s, e)) \in Nat /\ Cardinality(PastOf(req, s, e)) \in Nat
    <3>1. IsFiniteSet(PastOf(req, s, e))
      BY <2>1, FS_Subset
    <3> QED BY <2>1, <3>1, SmallerSet
  <2>3. /\ Cardinality(PastOf(req, s, e)) <= Limit[s]
        /\ \/ PastOf(req, s, e) = {} \/ dclock >= End(e)
           \/ <<s, e>> \in DOMAIN redis /\ Cardinality(PastOf(req, s, e)) <= redis[<<s, e>>].count
    BY <1>0 DEF PastCounted
  <2>4. Limit[s] \in Nat /\ dclock \in Nat /\ End(e) \in Int
    BY <1>0 DEF FleetTyped, End
  <2>5. Cardinality(PastOf(req', s, e)) <= Limit[s]
    BY <2>2, <2>3, <2>4
  <2>6. CASE PastOf(req, s, e) = {}
    BY <2>1, <2>5, <2>6
  <2>7. CASE dclock >= End(e)
    BY <1>1, <2>4, <2>5, <2>7
  <2>8. CASE <<s, e>> \in DOMAIN redis /\ Cardinality(PastOf(req, s, e)) <= redis[<<s, e>>].count
    <3>1. redis[<<s, e>>].count \in Nat
      BY <1>0, <2>8 DEF FleetTyped
    <3>2. \/ dclock' >= End(e)
          \/ <<s, e>> \in DOMAIN redis' /\ redis'[<<s, e>>].count >= redis[<<s, e>>].count /\ redis'[<<s, e>>].count \in Nat
      BY <1>1, <2>8
    <3> QED BY <2>2, <2>5, <2>8, <3>1, <3>2
  <2> QED BY <2>3, <2>6, <2>7, <2>8
\* No request is let through by a replica, nor is its slot written.
<1>2. ASSUME UNCHANGED <<dslots, back, fallback>>,
             \A r \in Requests : \/ req'[r] = req[r]
                                 \/ req[r].pc # "local" /\ req'[r].pc # "local"
      PROVE  Local2
  <2>1. \A rep, e : LocalOf(req', rep, e) = LocalOf(req, rep, e)
    BY <1>2 DEF LocalOf, IsLocal
  <2> QED BY <1>0, <1>2, <2>1 DEF LocalCounted
\* A key counts the call of one more request, or none.
<1>3. ASSUME NEW k, IsFiniteSet(Requests),
             \/ /\ k \in DOMAIN redis /\ redis'[k].count = redis[k].count
                /\ CountedBy(req, orphans, k) \subseteq CountedBy(req', orphans', k)
             \/ /\ k \in DOMAIN redis /\ redis'[k].count = redis[k].count + 1
                /\ \E r \in CountedBy(req', orphans', k) \ CountedBy(req, orphans, k) :
                      CountedBy(req, orphans, k) \subseteq CountedBy(req', orphans', k)
             \/ redis'[k].count = 1 /\ CountedBy(req', orphans', k) # {}
      PROVE  redis'[k].count <= Cardinality(CountedBy(req', orphans', k))
  <2> DEFINE S == CountedBy(req, orphans, k)
             T == CountedBy(req', orphans', k)
  <2>1. IsFiniteSet(T) /\ IsFiniteSet(S)
    BY <1>3, FS_Subset DEF CountedBy
  <2>2. Cardinality(T) \in Nat /\ Cardinality(S) \in Nat
    BY <2>1, FS_CardinalityType
  <2>3. k \in DOMAIN redis => redis[k].count <= Cardinality(S) /\ redis[k].count \in Nat
    BY <1>0 DEF OnceCounted, FleetTyped
  <2>4. CASE k \in DOMAIN redis /\ redis'[k].count = redis[k].count /\ S \subseteq T
    <3> HIDE DEF S, T
    <3>1. Cardinality(S) <= Cardinality(T)
      BY <2>1, <2>4, SmallerSet
    <3>2. redis'[k].count <= Cardinality(T)
      BY <2>2, <2>3, <2>4, <3>1
    <3> QED BY <3>2 DEF T
  <2>5. CASE k \in DOMAIN redis /\ redis'[k].count = redis[k].count + 1 /\ \E r \in T \ S : S \subseteq T
    <3> HIDE DEF S, T
    <3>1. Cardinality(S) + 1 <= Cardinality(T)
      BY <2>1, <2>5, OneGained
    <3>2. redis'[k].count <= Cardinality(T)
      BY <2>2, <2>3, <2>5, <3>1
    <3> QED BY <3>2 DEF T
  <2>6. CASE redis'[k].count = 1 /\ T # {}
    <3> HIDE DEF T
    <3>1. Cardinality(T) # 0
      BY <2>1, <2>6, FS_EmptySet
    <3>2. redis'[k].count <= Cardinality(T)
      BY <2>2, <2>6, <3>1
    <3> QED BY <3>2 DEF T
  <2> QED BY <1>3, <2>4, <2>5, <2>6
<1> HIDE DEF Past2, Local2, Once2
\* One request moves on, and what it counted for stays counted.
<1>4. ASSUME NEW r \in Requests, \A u \in Requests : u # r => req'[u] = req[u],
             UNCHANGED redis,
             \A call \in orphans' : call \in orphans \/ call.by = r,
             \A k \in DOMAIN redis : Counts(req[r], r, orphans, k) => Counts(req'[r], r, orphans', k)
      PROVE  Once2
  <2> SUFFICES ASSUME NEW k \in DOMAIN redis
               PROVE  CountedBy(req, orphans, k) \subseteq CountedBy(req', orphans', k)
    BY <1>3, <1>4 DEF Once2
  <2> SUFFICES ASSUME NEW u \in Requests, u # r, Counts(req[u], u, orphans, k) PROVE Counts(req'[u], u, orphans', k)
    BY <1>4 DEF CountedBy
  <2>1. \A call \in orphans' : call.by = u => call \in orphans
    BY <1>4
  <2> QED BY <1>4, <2>1 DEF Counts
\* A request that has not ended by a failure has no call on its way.
<1>5. ASSUME NEW r \in Requests, NEW o \in orphans, o.by = r PROVE req[r].pc \in {"denied", "local"}
  BY <1>0, <1>5 DEF Orphaned
\* The calls on their way are those of requests the step leaves alone.
<1>6. ASSUME NEW r \in Requests, \A u \in Requests : u # r => req'[u] = req[u],
             orphans' \subseteq orphans, req[r].pc \notin {"denied", "local"}
      PROVE  Orphaned2
  <2>1. \A o \in orphans' : o.by \in Requests /\ o.by # r /\ req'[o.by] = req[o.by]
    BY <1>0, <1>6 DEF Orphaned
  <2> QED BY <1>0, <1>6, <2>1 DEF Orphaned
<1>7. CASE UNCHANGED Fleet!vars
  <2>1. UNCHANGED <<dclock, fallback, redis, orphans, dslots, req, back>>
    BY <1>7 DEF Fleet!vars
  <2>2. Typed2 /\ Timely2 /\ Orphaned2 /\ Last2
    BY <1>0, <2>1 DEF FleetTyped, Timely, Orphaned, KeysLast
  <2>3. Past2 /\ Local2 /\ Once2
    BY <1>0, <2>1 DEF Past2, Local2, Once2, PastCounted, LocalCounted, OnceCounted
  <2> QED BY <2>2, <2>3
<1>8. CASE Fleet!Tick
  <2>1. /\ UNCHANGED <<fallback, orphans, dslots, req, back>> /\ dclock' = dclock + 1
        /\ \A r \in Requests : Pending(req[r]) => dclock - req[r].since < Timeout
        /\ DOMAIN redis' = {k \in DOMAIN redis : redis[k].expires > dclock'}
        /\ \A k \in DOMAIN redis' : redis'[k] = redis[k]
    BY <1>8 DEF Fleet!Tick, Pending
  <2>2. dclock \in Nat /\ dclock' \in Nat /\ dclock' >= dclock
    BY <1>0, <2>1 DEF FleetTyped
  <2>3. Typed2 /\ Last2 /\ Orphaned2
    BY <1>0, <2>1, <2>2 DEF FleetTyped, KeysLast, Orphaned
  <2>4. Timely2
    <3> SUFFICES ASSUME NEW r \in Requests
                 PROVE  /\ req[r].pc # "idle" => req[r].now <= dclock'
                        /\ Pending(req[r]) => /\ req[r].since <= dclock' /\ dclock' <= req[r].since + Timeout
                                              /\ req[r].since <= req[r].now + (req[r].i - 1) * Timeout
      BY <2>1
    <3>1. req[r].pc # "idle" => req[r].now \in Nat /\ req[r].since \in Nat
      BY <1>0 DEF FleetTyped, Held
    <3>2. req[r].pc # "idle" => req[r].now <= dclock'
      BY <1>0, <2>1, <2>2, <3>1 DEF Timely
    <3>3. Pending(req[r]) => req[r].since <= dclock' /\ dclock' <= req[r].since + Timeout
      BY <1>0, <2>1, <2>2, <3>1, SMTT(30) DEF Timely, Pending
    <3> QED BY <1>0, <3>2, <3>3 DEF Timely
  <2>5. Past2
    <3>1. \A k \in DOMAIN redis : redis[k].expires >= End(k[2]) /\ redis[k].expires \in Nat /\ redis[k].count \in Nat
      BY <1>0 DEF KeysLast, FleetTyped
    <3>2. ASSUME NEW k \in DOMAIN redis, ~(dclock' >= End(k[2]))
          PROVE  k \in DOMAIN redis' /\ redis'[k].count >= redis[k].count /\ redis'[k].count \in Nat
      <4>1. k[2] \in Nat /\ End(k[2]) \in Int
        BY <1>0 DEF FleetTyped, End
      <4>2. k \in DOMAIN redis'
        BY <2>1, <2>2, <3>1, <3>2, <4>1
      <4> QED BY <2>1, <3>1, <4>2
    <3> QED BY <1>1, <2>1, <2>2, <3>2
  <2>6. Local2
    BY <1>2, <2>1
  <2>7. Once2
    BY <1>3, <2>1 DEF Once2
  <2> QED BY <2>3, <2>4, <2>5, <2>6, <2>7
<1>9. CASE Fleet!RunOrphan
  <2>1. PICK call \in orphans : redis' = Fleet!Incremented(call) /\ orphans' = orphans \ {call}
    BY <1>9 DEF Fleet!RunOrphan
  <2>2. UNCHANGED <<dclock, fallback, dslots, req, back>>
    BY <1>9 DEF Fleet!RunOrphan
  <2> DEFINE r == call.by
             key == call.key
  <2>3. /\ r \in Requests /\ req[r].pc \in {"denied", "local"}
        /\ key = <<Specs[req[r].i], Fleet!Epoch(req[r].now)>> /\ call.ttl = Fleet!ttl_ms(req[r].now)
    BY <1>0 DEF Orphaned
  <2>4. req[r] \in Held /\ req[r].i \in 1..Len(Specs) /\ req[r].now \in Nat /\ req[r].now <= dclock
    BY <1>0, <2>3 DEF FleetTyped, Held, Timely
  <2>5. IsCall(call, req[r])
    BY <2>3 DEF IsCall
  <2>6. ScriptRan(call, redis')
    BY <1>0, <2>1, <2>4, <2>5, ScriptRuns
  <2> USE DEF ScriptRan
  <2> HIDE DEF r
  <2>7. Typed2 /\ Last2 /\ Timely2 /\ Orphaned2
    BY <1>0, <2>1, <2>2, <2>6 DEF FleetTyped, Timely, Orphaned
  <2>8. \A k \in DOMAIN redis : k \in DOMAIN redis' /\ redis'[k].count >= redis[k].count /\ redis'[k].count \in Nat
    BY <1>0, <2>6 DEF FleetTyped
  <2>9. Past2
    BY <1>0, <1>1, <2>2, <2>8 DEF FleetTyped
  <2>10. Local2
    BY <1>2, <2>2
  <2>11. \A k : CountedBy(req, orphans, k) \subseteq CountedBy(req', orphans', k)
    BY <2>1, <2>2 DEF CountedBy, Counts
  <2>12. r \in CountedBy(req', orphans', key) \ CountedBy(req, orphans, key)
    <3>1. \A o \in orphans' : o.by # r
      BY <1>0, <2>1 DEF Orphaned, r
    <3>2. call.by = r /\ call.key = key
      BY DEF r, key
    <3>3. ~Counts(req[r], r, orphans, key)
      BY <3>2 DEF Counts
    <3>4. req[r].i \in 1..req[r].i /\ key[1] = Specs[req[r].i] /\ key[2] = Fleet!Epoch(req[r].now)
      BY <2>3, <2>4
    <3>5. Counts(req[r], r, orphans', key)
      BY <2>3, <3>1, <3>4 DEF Counts
    <3> QED BY <2>2, <2>3, <3>3, <3>5 DEF CountedBy
  <2>13. Once2
    <3> SUFFICES ASSUME NEW k \in DOMAIN redis' PROVE redis'[k].count <= Cardinality(CountedBy(req', orphans', k))
      BY DEF Once2
    <3>1. CASE k # key
      BY <1>3, <2>6, <2>11, <3>1
    <3>2. CASE k = key /\ key \in DOMAIN redis
      BY <1>3, <2>6, <2>11, <2>12, <3>2
    <3>3. CASE k = key /\ key \notin DOMAIN redis
      BY <1>3, <2>6, <2>12, <3>3
    <3> QED BY <3>1, <3>2, <3>3
  <2> QED BY <2>7, <2>9, <2>10, <2>13
\* The types and times of the requests, when one of them moves on.
<1>10. ASSUME NEW r \in Requests, NEW x \in Held, req' = [req EXCEPT ![r] = x], UNCHANGED dclock, x.now <= dclock,
              Pending(x) => /\ x.since <= dclock /\ dclock <= x.since + Timeout
                            /\ x.since <= x.now + (x.i - 1) * Timeout
       PROVE  /\ DOMAIN req' = Requests /\ \A u \in Requests : req'[u] = [pc |-> "idle"] \/ req'[u] \in Held
              /\ req'[r] = x /\ \A u \in Requests : u # r => req'[u] = req[u]
              /\ Timely2
  <2>1. DOMAIN req' = Requests /\ req'[r] = x /\ \A u \in Requests : u # r => req'[u] = req[u]
    BY <1>0, <1>10 DEF FleetTyped
  <2>2. \A u \in Requests : req'[u] = [pc |-> "idle"] \/ req'[u] \in Held
    BY <1>0, <1>10, <2>1 DEF FleetTyped
  <2>3. Timely2
    BY <1>0, <1>10, <2>1 DEF Timely
  <2> QED BY <2>1, <2>2, <2>3
<1>11. ASSUME NEW r \in Requests, Fleet!Admit(r)
       PROVE  Typed2 /\ Timely2 /\ Orphaned2 /\ Last2 /\ Past2 /\ Local2 /\ Once2
  <2>1. UNCHANGED <<dclock, fallback, redis, orphans, dslots, back>> /\ req[r] = [pc |-> "idle"]
    BY <1>11 DEF Fleet!Admit, Fleet!Idle
  <2>2. PICK rep \in Replicas : \/ req' = [req EXCEPT ![r] = Fleet!Sent(rep, dclock, 1)]
                                \/ req' = [req EXCEPT ![r] = Fleet!Ended(Fleet!Sent(rep, dclock, 1), "denied")]
    BY <1>11 DEF Fleet!Admit
  <2> DEFINE q == Fleet!Sent(rep, dclock, 1)
  <2>3. dclock \in Nat
    BY <1>0 DEF FleetTyped
  <2>4. q \in Held /\ q.pc = "sent" /\ q.now = dclock /\ q.i = 1 /\ q.since = dclock
    BY <2>3 DEF Held, Fleet!Sent
  <2>5. PICK x \in Held : req' = [req EXCEPT ![r] = x] /\ (x = q \/ x = Fleet!Ended(q, "denied"))
    BY <2>2, <2>4, EndedIs
  <2>6. x.now = dclock /\ x.i = 1 /\ ((x.pc = "sent" /\ x.since = dclock) \/ x.pc = "denied")
    BY <2>4, <2>5, EndedIs
  <2> HIDE DEF q
  <2>7. /\ DOMAIN req' = Requests /\ \A u \in Requests : req'[u] = [pc |-> "idle"] \/ req'[u] \in Held
        /\ req'[r] = x /\ \A u \in Requests : u # r => req'[u] = req[u]
        /\ Timely2
    <3>1. (x.i - 1) * Timeout = 0
      BY <2>6
    <3>2. Pending(x) => /\ x.since <= dclock /\ dclock <= x.since + Timeout
                        /\ x.since <= x.now + (x.i - 1) * Timeout
      BY <2>3, <2>6, <3>1 DEF Pending
    <3>3. x.now <= dclock /\ dclock' = dclock /\ x \in Held /\ req' = [req EXCEPT ![r] = x]
      BY <2>1, <2>3, <2>5, <2>6
    <3> QED BY <1>10, <3>2, <3>3, Zenon
  <2>8. Typed2 /\ Last2
    BY <1>0, <2>1, <2>7 DEF FleetTyped, KeysLast
  <2>9. Orphaned2
    BY <1>6, <2>1, <2>7
  <2>10. Past2
    <3>1. \A s, e : ~IsPast(req'[r], s, e)
      BY <2>6, <2>7 DEF IsPast
    <3>2. \A k \in DOMAIN redis : redis'[k].count >= redis[k].count /\ redis'[k].count \in Nat
      BY <1>0, <2>1 DEF FleetTyped
    <3> QED BY <1>1, <2>1, <2>3, <2>7, <3>1, <3>2
  <2>11. Local2
    BY <1>2, <2>1, <2>6, <2>7
  <2>12. Once2
    <3>1. \A k : ~Counts(req[r], r, orphans, k)
      BY <2>1 DEF Counts
    <3> QED BY <1>4, <2>1, <2>7, <3>1
  <2> QED BY <2>7, <2>8, <2>9, <2>10, <2>11, <2>12
<1>12. ASSUME NEW r \in Requests, Pending(req[r])
       PROVE  /\ req[r] \in Held /\ req[r].i \in 1..Len(Specs) /\ req[r].now \in Nat /\ req[r].since \in Nat
              /\ dclock \in Nat /\ req[r].now <= dclock /\ req[r].since <= dclock
              /\ dclock <= req[r].since + Timeout /\ req[r].since <= req[r].now + (req[r].i - 1) * Timeout
              /\ req[r].pc \in {"sent", "ran"} /\ req[r].count \in Nat
  BY <1>0, <1>12 DEF FleetTyped, Held, Timely, Pending
<1>13. ASSUME NEW r \in Requests, Fleet!RunScript(r)
       PROVE  Typed2 /\ Timely2 /\ Orphaned2 /\ Last2 /\ Past2 /\ Local2 /\ Once2
  <2> DEFINE call == Fleet!Call(r)
             key == call.key
             x == [req[r] EXCEPT !.pc = "ran", !.count = redis'[key].count]
             e0 == Fleet!Epoch(req[r].now)
             s0 == Specs[req[r].i]
  <2>1. /\ UNCHANGED <<dclock, fallback, orphans, dslots, back>> /\ req[r].pc = "sent"
        /\ redis' = Fleet!Incremented(call)
    BY <1>13 DEF Fleet!RunScript
  <2>2. req' = [req EXCEPT ![r] = x]
    BY <1>0, <1>13 DEF Fleet!RunScript, FleetTyped
  <2>3. Pending(req[r])
    BY <2>1 DEF Pending
  <2>4. key = <<s0, e0>> /\ IsCall(call, req[r]) /\ s0 \in Fleet!Scopes /\ e0 \in Nat
    <3>1. req[r].i \in 1..Len(Specs) /\ req[r].now \in Nat
      BY <1>12, <2>3
    <3> QED BY <3>1, EndOf DEF Fleet!Call, IsCall
  <2>5. ScriptRan(call, redis')
    BY <1>0, <1>12, <2>1, <2>3, <2>4, ScriptRuns
  <2> HIDE DEF call
  <2>6. redis'[key].count \in Nat
    BY <2>5 DEF ScriptRan
  <2>7. /\ x \in Held /\ x.pc = "ran" /\ x.at = req[r].at /\ x.now = req[r].now /\ x.i = req[r].i
        /\ x.since = req[r].since /\ x.count = redis'[key].count
    <3>1. req[r] \in Held
      BY <1>12, <2>3
    <3> QED BY <2>6, <3>1 DEF Held
  <2> HIDE DEF x, key
  <2>8. /\ DOMAIN req' = Requests /\ \A u \in Requests : req'[u] = [pc |-> "idle"] \/ req'[u] \in Held
        /\ req'[r] = x /\ \A u \in Requests : u # r => req'[u] = req[u]
        /\ Timely2
    BY <1>10, <1>12, <2>1, <2>2, <2>3, <2>7
  <2>9. Typed2 /\ Last2
    BY <1>0, <2>1, <2>5, <2>8 DEF FleetTyped, ScriptRan
  <2>10. Orphaned2
    BY <1>6, <2>1, <2>8
  <2>11. Local2
    BY <1>2, <2>1, <2>7, <2>8
  <2>12. Past2
    <3> SUFFICES ASSUME NEW s \in Hard \cap Fleet!Scopes, NEW e \in Nat
                 PROVE  /\ Cardinality(PastOf(req', s, e)) <= Limit[s]
                        /\ \/ PastOf(req', s, e) = {} \/ dclock' >= End(e)
                           \/ <<s, e>> \in DOMAIN redis' /\ Cardinality(PastOf(req', s, e)) <= redis'[<<s, e>>].count
      BY Zenon DEF Past2
    <3> DEFINE A == PastOf(req, s, e)
               B == PastOf(req', s, e)
    <3>1. IsFiniteSet(A) /\ IsFiniteSet(B)
      BY FS_Subset DEF PastOf
    <3>2. Cardinality(A) \in Nat /\ Cardinality(B) \in Nat
      BY <3>1, FS_CardinalityType
    <3>3. Limit[s] \in Nat
      OBVIOUS
    <3>4. /\ Cardinality(A) <= Limit[s]
          /\ \/ A = {} \/ dclock >= End(e)
             \/ <<s, e>> \in DOMAIN redis /\ Cardinality(A) <= redis[<<s, e>>].count
      BY <1>0 DEF PastCounted
    <3>5. \A u \in Requests : u # r => (IsPast(req'[u], s, e) <=> IsPast(req[u], s, e))
      BY <2>8
    <3>6. CASE IsPast(x, s, e) => IsPast(req[r], s, e)
      <4>1. B \subseteq A
        BY <2>8, <3>5, <3>6 DEF PastOf
      <4> HIDE DEF A, B
      <4>2. Cardinality(B) <= Cardinality(A)
        BY <3>1, <4>1, SmallerSet
      <4>3. <<s, e>> \in DOMAIN redis => /\ <<s, e>> \in DOMAIN redis' /\ redis'[<<s, e>>].count >= redis[<<s, e>>].count
                                         /\ redis[<<s, e>>].count \in Nat /\ redis'[<<s, e>>].count \in Nat
        BY <1>0, <2>5 DEF ScriptRan, FleetTyped
      <4>4. /\ Cardinality(B) <= Limit[s]
            /\ \/ B = {} \/ dclock' >= End(e)
               \/ <<s, e>> \in DOMAIN redis' /\ Cardinality(B) <= redis'[<<s, e>>].count
        BY <2>1, <3>2, <3>3, <3>4, <4>1, <4>2, <4>3
      <4> QED BY <4>4 DEF A, B
    <3>7. CASE IsPast(x, s, e) /\ ~IsPast(req[r], s, e)
      <4>1. s = s0 /\ e = e0 /\ x.count <= Limit[s]
        BY <2>1, <2>7, <3>7 DEF IsPast
      <4>2. key = <<s, e>>
        BY <2>4, <4>1
      <4>3. B \subseteq A \cup {r}
        BY <2>8, <3>5 DEF PastOf
      <4> HIDE DEF A, B
      <4>4. Cardinality(B) <= Cardinality(A) + 1
        BY <3>1, <4>3, OneMore
      <4>5. dclock < End(e) /\ dclock \in Nat /\ End(e) \in Int
        <5>1. dclock < End(e0)
          BY <1>0, <2>3, InTime
        <5> QED BY <1>0, <4>1, <5>1 DEF FleetTyped, End
      <4>6. redis'[<<s, e>>].count = IF <<s, e>> \in DOMAIN redis THEN redis[<<s, e>>].count + 1 ELSE 1
        BY <2>5, <4>2 DEF ScriptRan, key
      <4>7. <<s, e>> \in DOMAIN redis' /\ x.count = redis'[<<s, e>>].count /\ x.count \in Nat
        BY <2>5, <2>6, <2>7, <4>2 DEF ScriptRan, key
      <4>8. A = {} => Cardinality(A) = 0
        BY FS_EmptySet
      <4>9. <<s, e>> \in DOMAIN redis => redis[<<s, e>>].count \in Nat
        BY <1>0 DEF FleetTyped
      <4>10. Cardinality(A) + 1 <= redis'[<<s, e>>].count
        BY <3>2, <3>4, <4>5, <4>6, <4>8, <4>9, SMTT(30)
      <4>11. Cardinality(B) <= Limit[s] /\ <<s, e>> \in DOMAIN redis' /\ Cardinality(B) <= redis'[<<s, e>>].count
        BY <3>2, <3>3, <4>1, <4>4, <4>7, <4>10, SMTT(30)
      <4> QED BY <4>11 DEF A, B
    <3> QED BY <3>6, <3>7
  <2>13. Once2
    <3>1. \A o \in orphans : o.by # r
      BY <1>5, <2>1
    <3>2. key[1] = s0 /\ key[2] = e0 /\ req[r].i \in 1..req[r].i
      <4>1. req[r].i \in 1..Len(Specs)
        BY <1>12, <2>3
      <4> QED BY <2>4, <4>1
    <3>3. ~Counts(req[r], r, orphans, key)
      BY <2>1, <3>2 DEF Counts
    <3>4. Counts(x, r, orphans, key)
      BY <2>7, <3>1, <3>2 DEF Counts
    <3>5. r \in CountedBy(req', orphans', key) \ CountedBy(req, orphans, key)
      BY <2>1, <2>8, <3>3, <3>4 DEF CountedBy
    <3>6. \A k : Counts(req[r], r, orphans, k) => Counts(x, r, orphans, k)
      BY <2>7 DEF Counts
    <3>7. \A k : CountedBy(req, orphans, k) \subseteq CountedBy(req', orphans', k)
      BY <2>1, <2>8, <3>6 DEF CountedBy
    <3> SUFFICES ASSUME NEW k \in DOMAIN redis' PROVE redis'[k].count <= Cardinality(CountedBy(req', orphans', k))
      BY DEF Once2
    <3>8. /\ k # key => k \in DOMAIN redis /\ redis'[k] = redis[k]
          /\ redis'[key].count = IF key \in DOMAIN redis THEN redis[key].count + 1 ELSE 1
      BY <2>5 DEF ScriptRan, key
    <3>9. CASE k # key
      BY <1>3, <3>7, <3>8, <3>9
    <3>10. CASE k = key /\ key \in DOMAIN redis
      BY <1>3, <3>5, <3>7, <3>8, <3>10
    <3>11. CASE k = key /\ key \notin DOMAIN redis
      BY <1>3, <3>5, <3>8, <3>11
    <3> QED BY <3>9, <3>10, <3>11
  <2> QED BY <2>8, <2>9, <2>10, <2>11, <2>12, <2>13
<1>14. ASSUME NEW r \in Requests, Fleet!Reply(r)
       PROVE  Typed2 /\ Timely2 /\ Orphaned2 /\ Last2 /\ Past2 /\ Local2 /\ Once2
  <2> DEFINE q == req[r]
             next1 == Fleet!Sent(q.at, q.now, q.i + 1)
  <2>1. UNCHANGED <<dclock, fallback, redis, orphans, dslots, back>> /\ q.pc = "ran"
    BY <1>14 DEF Fleet!Reply
  <2>2. req' = [req EXCEPT ![r] = IF Fleet!Refuses(r) THEN Fleet!Ended(q, "denied")
                                  ELSE IF q.i = Len(Specs) THEN Fleet!Ended(q, "admitted") ELSE next1]
    BY <1>14 DEF Fleet!Reply
  <2>3. /\ q \in Held /\ q.i \in 1..Len(Specs) /\ q.now \in Nat /\ q.since \in Nat
        /\ dclock \in Nat /\ q.now <= dclock /\ q.since <= dclock
        /\ dclock <= q.since + Timeout /\ q.since <= q.now + (q.i - 1) * Timeout /\ q.count \in Nat
    BY <1>12, <2>1 DEF Pending
  <2>4. q.i # Len(Specs) => /\ next1 \in Held /\ next1.pc = "sent" /\ next1.now = q.now /\ next1.i = q.i + 1
                            /\ next1.since = dclock
    <3>1. next1 = [pc |-> "sent", at |-> q.at, now |-> q.now, i |-> q.i + 1, since |-> dclock, count |-> 0]
      BY DEF Fleet!Sent
    <3>2. q.at \in Replicas /\ q.now \in Nat /\ q.i \in 1..Len(Specs) /\ dclock \in Nat
      BY <2>3 DEF Held
    <3> HIDE DEF q, next1
    <3> QED BY <3>1, <3>2 DEF Held
  <2> HIDE DEF next1, q
  <2>5. PICK x \in Held : /\ req' = [req EXCEPT ![r] = x] /\ x.now = q.now
                          /\ \/ x.pc = "denied" /\ x.i = q.i
                             \/ x.pc = "admitted" /\ x.i = q.i /\ q.i = Len(Specs) /\ ~Fleet!Refuses(r)
                             \/ x.pc = "sent" /\ x.i = q.i + 1 /\ x.since = dclock /\ ~Fleet!Refuses(r)
    <3>1. /\ Fleet!Ended(q, "denied") \in Held /\ Fleet!Ended(q, "denied").pc = "denied"
          /\ Fleet!Ended(q, "denied").now = q.now /\ Fleet!Ended(q, "denied").i = q.i
      BY <2>3, EndedIs
    <3>2. /\ Fleet!Ended(q, "admitted") \in Held /\ Fleet!Ended(q, "admitted").pc = "admitted"
          /\ Fleet!Ended(q, "admitted").now = q.now /\ Fleet!Ended(q, "admitted").i = q.i
      BY <2>3, EndedIs
    <3>3. CASE Fleet!Refuses(r)
      BY <2>2, <3>1, <3>3
    <3>4. CASE ~Fleet!Refuses(r) /\ q.i = Len(Specs)
      BY <2>2, <3>2, <3>4
    <3>5. CASE ~Fleet!Refuses(r) /\ q.i # Len(Specs)
      BY <2>2, <2>4, <3>5
    <3> QED BY <3>3, <3>4, <3>5
  <2>6. /\ DOMAIN req' = Requests /\ \A u \in Requests : req'[u] = [pc |-> "idle"] \/ req'[u] \in Held
        /\ req'[r] = x /\ \A u \in Requests : u # r => req'[u] = req[u]
        /\ Timely2
    <3>1. ASSUME Pending(x)
          PROVE  /\ x.since <= dclock /\ dclock <= x.since + Timeout
                 /\ x.since <= x.now + (x.i - 1) * Timeout
      <4>1. x.pc = "sent" /\ x.i = q.i + 1 /\ x.since = dclock /\ x.now = q.now
        BY <2>5, <3>1 DEF Pending
      <4> DEFINE a == (q.i - 1) * Timeout
                 b == (x.i - 1) * Timeout
      <4>2. q.i \in Nat
        BY <2>3
      <4>3. (q.i - 1) * Timeout + Timeout = q.i * Timeout /\ ((q.i + 1) - 1) * Timeout = q.i * Timeout
            /\ (q.i - 1) * Timeout \in Int
        BY <4>2, Multiples
      <4>4. b = a + Timeout /\ a \in Int
        BY <4>1, <4>3
      <4>5. /\ q.since <= q.now + a /\ Timeout \in Nat /\ q.since \in Nat /\ q.now \in Nat /\ dclock \in Nat
            /\ dclock <= q.since + Timeout
        BY <2>3
      <4> HIDE DEF a, b
      <4>6. x.since <= x.now + b /\ x.since <= dclock /\ dclock <= x.since + Timeout
        BY <4>1, <4>4, <4>5, SMTT(30)
      <4> QED BY <4>6 DEF b
    <3>2. x.now <= dclock /\ dclock' = dclock
      BY <2>1, <2>3, <2>5
    <3> QED BY <1>10, <2>5, <3>1, <3>2, Zenon
  <2>7. Typed2 /\ Last2
    BY <1>0, <2>1, <2>6 DEF FleetTyped, KeysLast
  <2>8. Orphaned2
    BY <1>6, <2>1, <2>6 DEF q
  <2>9. Past2
    <3>1. ASSUME NEW s \in Hard \cap Fleet!Scopes, NEW e \in Nat, IsPast(x, s, e) PROVE IsPast(q, s, e)
      <4>1. Fleet!Epoch(q.now) = e /\ x.pc \in {"admitted", "sent"} /\ ~Fleet!Refuses(r)
        BY <2>5, <3>1 DEF IsPast
      <4>2. Specs[q.i] \in Hard => q.count <= Limit[Specs[q.i]]
        <5>1. Limit[Specs[q.i]] \in Nat
          BY <2>3
        <5>2. Specs[q.i] \in Hard => ~(q.count > Limit[Specs[q.i]])
          BY <4>1, Zenon DEF Fleet!Refuses, q
        <5>3. q.count \in Nat
          BY <2>3 DEF Held
        <5> QED BY <5>1, <5>2, <5>3
      <4>3. \E j \in 1..q.i : Specs[j] = s
        <5>1. CASE x.pc = "admitted"
          <6>1. q.i = Len(Specs) /\ \E j \in 1..Len(Specs) : Specs[j] = s
            BY <2>5, <5>1
          <6> QED BY <6>1
        <5>2. CASE x.pc = "sent"
          <6>1. x.i = q.i + 1 /\ \E j \in 1..(x.i - 1) : Specs[j] = s
            BY <2>5, <3>1, <5>2 DEF IsPast
          <6>2. x.i - 1 = q.i
            BY <2>3, <6>1
          <6> QED BY <6>1, <6>2
        <5> QED BY <4>1, <5>1, <5>2
      <4>4. (\E j \in 1..(q.i - 1) : Specs[j] = s) \/ Specs[q.i] = s
        BY <2>3, <4>3, SMTT(30)
      <4> QED BY <2>1, <4>1, <4>2, <4>4 DEF IsPast
    <3>2. \A k \in DOMAIN redis : redis'[k].count >= redis[k].count /\ redis'[k].count \in Nat
      BY <1>0, <2>1 DEF FleetTyped
    <3>3. \A s \in Hard \cap Fleet!Scopes, u \in Requests, e \in Nat : IsPast(req'[u], s, e) => IsPast(req[u], s, e)
      BY <2>6, <3>1 DEF q
    <3> QED BY <1>1, <2>1, <2>3, <3>2, <3>3
  <2>10. Local2
    BY <1>2, <2>1, <2>5, <2>6 DEF q
  <2>11. Once2
    <3>1. ASSUME NEW k, Counts(q, r, orphans, k) PROVE Counts(x, r, orphans, k)
      <4>1. \E j \in 1..q.i : Specs[j] = k[1]
        BY <3>1 DEF Counts
      <4>2. PICK j \in 1..q.i : Specs[j] = k[1]
        BY <4>1
      <4>3. j \in 1..x.i
        BY <2>3, <2>5, SMTT(30)
      <4>4. ~(x.pc = "sent" /\ Specs[x.i] = k[1])
        <5>1. CASE x.pc # "sent"
          BY <5>1
        <5>2. CASE x.pc = "sent"
          <6>1. x.i = q.i + 1 /\ x.i \in 1..Len(Specs) /\ j \in 1..Len(Specs) /\ j # x.i
            BY <2>3, <2>5, <5>2, SMTT(30) DEF Held
          <6> QED BY <4>2, <6>1
        <5> QED BY <5>1, <5>2
      <4> QED BY <2>1, <2>5, <3>1, <4>2, <4>3, <4>4 DEF Counts
    <3> QED BY <1>4, <2>1, <2>6, <3>1 DEF q
  <2> QED BY <2>6, <2>7, <2>8, <2>9, <2>10, <2>11
<1>15. ASSUME NEW r \in Requests, Fleet!Fail(r)
       PROVE  Typed2 /\ Timely2 /\ Orphaned2 /\ Last2 /\ Past2 /\ Local2 /\ Once2
  <2> DEFINE q == req[r]
             rep == q.at
             e0 == Fleet!Epoch(q.now)
             base(s) == IF dslots[<<rep, s>>].e = e0 THEN dslots[<<rep, s>>].c ELSE 0
  <2>1. UNCHANGED <<dclock, fallback, redis>> /\ q.pc \in {"sent", "ran"}
    BY <1>15 DEF Fleet!Fail
  <2>2. orphans' = orphans \/ (q.pc = "sent" /\ orphans' = orphans \cup {Fleet!Call(r)})
    BY <1>15, <2>1 DEF Fleet!Fail
  <2>3. PICK taken : /\ taken = {} \/ (fallback = "open" /\ taken = Fleet!Consumed(r))
                     /\ dslots' = [y \in DOMAIN dslots |-> IF y \in taken THEN [e |-> e0, c |-> Fleet!Base(y[2], r) + 1]
                                                           ELSE dslots[y]]
                     /\ back' = back \cup {y \in taken : dslots[y].e > e0}
                     /\ req' = [req EXCEPT ![r] = Fleet!Ended(req[r], IF Fleet!Cardinality(taken) = Len(Specs) THEN "local" ELSE "denied")]
    <3>1. PICK checked \in BOOLEAN :
              LET taken == IF fallback = "open" /\ checked THEN Fleet!Consumed(r) ELSE {}
                  e == Fleet!Epoch(req[r].now)
              IN  /\ dslots' = [y \in DOMAIN dslots |-> IF y \in taken THEN [e |-> e, c |-> Fleet!Base(y[2], r) + 1] ELSE dslots[y]]
                  /\ back' = back \cup {y \in taken : dslots[y].e > e}
                  /\ req' = [req EXCEPT ![r] = Fleet!Ended(req[r], IF Fleet!Cardinality(taken) = Len(Specs) THEN "local" ELSE "denied")]
      BY <1>0, <1>15 DEF Fleet!Fail, Fleet!DecideFailure, FleetTyped
    <3> DEFINE taken == IF fallback = "open" /\ checked THEN Fleet!Consumed(r) ELSE {}
    <3>2. taken = {} \/ (fallback = "open" /\ taken = Fleet!Consumed(r))
      BY Zenon
    <3> QED BY <3>1, <3>2, Zenon
  <2>4. /\ q \in Held /\ q.i \in 1..Len(Specs) /\ q.now \in Nat /\ q.now <= dclock /\ dclock \in Nat
        /\ rep \in Replicas /\ e0 \in Nat
    <3>1. q \in Held /\ q.i \in 1..Len(Specs) /\ q.now \in Nat /\ q.now <= dclock /\ dclock \in Nat
      BY <1>12, <2>1 DEF Pending
    <3> QED BY <3>1, EndOf DEF Held
  <2>5. PICK x \in Held : /\ req' = [req EXCEPT ![r] = x] /\ x.now = q.now /\ x.i = q.i /\ x.at = rep
                          /\ x.pc = IF Fleet!Cardinality(taken) = Len(Specs) THEN "local" ELSE "denied"
    <3> HIDE DEF q
    <3>1. \A p \in {"local", "denied"} :
             /\ Fleet!Ended(q, p) \in Held /\ Fleet!Ended(q, p).pc = p /\ Fleet!Ended(q, p).at = q.at
             /\ Fleet!Ended(q, p).now = q.now /\ Fleet!Ended(q, p).i = q.i
      BY <2>4, EndedIs
    <3> QED BY <2>3, <3>1 DEF q
  <2>6. x.pc \in {"local", "denied"}
    BY <2>5
  <2>7. /\ DOMAIN req' = Requests /\ \A u \in Requests : req'[u] = [pc |-> "idle"] \/ req'[u] \in Held
        /\ req'[r] = x /\ \A u \in Requests : u # r => req'[u] = req[u]
        /\ Timely2
    <3>1. ~Pending(x) /\ x.now <= dclock /\ dclock' = dclock
      BY <2>1, <2>4, <2>5, <2>6 DEF Pending
    <3> QED BY <1>10, <2>5, <3>1
\* What the replica consumed: a request of every scope that was not full before.
  <2>8. \A y \in taken : \E i \in 1..Len(Specs) : y = <<rep, Specs[i]>> /\ ~Fleet!Full(Specs[i], r)
    BY <2>3 DEF Fleet!Consumed, Fleet!Reached
  <2>9. \A s \in Fleet!Scopes : Fleet!Base(s, r) = base(s) /\ base(s) \in Nat
    <3>1. \A s \in Fleet!Scopes : dslots[<<rep, s>>] \in [e : Nat, c : Nat]
      BY <1>0, <2>4 DEF FleetTyped
    <3> QED BY <3>1 DEF Fleet!Base
  <2>10. \A s \in Hard \cap Fleet!Scopes : <<rep, s>> \in taken => base(s) < ReplicaShare[s]
    <3> SUFFICES ASSUME NEW s \in Hard \cap Fleet!Scopes, <<rep, s>> \in taken PROVE base(s) < ReplicaShare[s]
      OBVIOUS
    <3>1. PICK i \in 1..Len(Specs) : <<rep, s>> = <<rep, Specs[i]>> /\ ~Fleet!Full(Specs[i], r)
      BY <2>8
    <3>2. Specs[i] = s /\ ReplicaShare[s] \in Nat
      BY <3>1
    <3> QED BY <2>9, <3>1, <3>2 DEF Fleet!Full
  <2>11. Fleet!Cardinality(taken) = Len(Specs) => fallback = "open" /\ \A s \in Fleet!Scopes : <<rep, s>> \in taken
    <3> SUFFICES ASSUME Fleet!Cardinality(taken) = Len(Specs)
                 PROVE  fallback = "open" /\ \A s \in Fleet!Scopes : <<rep, s>> \in taken
      OBVIOUS
    <3>1. Cardinality(taken) = Len(Specs)
      BY Zenon DEF Fleet!Cardinality, Cardinality
    <3>2. taken # {}
      <4>1. Cardinality({}) = 0
        BY FS_EmptySet
      <4>2. Len(Specs) # 0
        OBVIOUS
      <4> QED BY <3>1, <4>1, <4>2, Zenon
    <3> DEFINE all == {<<rep, Specs[i]>> : i \in 1..Len(Specs)}
               f == [i \in 1..Len(Specs) |-> <<rep, Specs[i]>>]
    <3>3. f \in Surjection(1..Len(Specs), all)
      BY DEF Surjection
    <3>4. IsFiniteSet(1..Len(Specs)) /\ Cardinality(1..Len(Specs)) = Len(Specs)
      BY FS_Interval
    <3> HIDE DEF f
    <3> HIDE DEF all
    <3>5. IsFiniteSet(all) /\ Cardinality(all) <= Cardinality(1..Len(Specs))
      BY <3>3, <3>4, FS_Surjection
    <3>6. taken \subseteq all
      BY <2>8 DEF all
    <3>7. Cardinality(taken) <= Cardinality(all) /\ Cardinality(taken) \in Nat /\ Cardinality(all) \in Nat
      BY <3>5, <3>6, SmallerSet
    <3>8. Cardinality(taken) = Cardinality(all)
      BY <3>1, <3>4, <3>5, <3>7
    <3>9. taken = all
      BY <3>5, <3>6, <3>8, FS_Subset
    <3>10. \A s \in Fleet!Scopes : <<rep, s>> \in all
      BY DEF all
    <3> QED BY <2>3, <3>2, <3>9, <3>10
  <2> HIDE DEF q, rep, e0, base
  <2>12. dslots' \in [Replicas \X Fleet!Scopes -> [e : Nat, c : Nat]]
    <3>1. DOMAIN dslots = Replicas \X Fleet!Scopes /\ \A y \in DOMAIN dslots : dslots[y] \in [e : Nat, c : Nat]
      BY <1>0 DEF FleetTyped
    <3>2. \A y \in taken : y[2] \in Fleet!Scopes
      BY <2>8
    <3>3. \A y \in taken : Fleet!Base(y[2], r) \in Nat
      BY <2>9, <3>2
    <3> QED BY <2>3, <2>4, <3>1, <3>3, SMTT(30)
  <2>13. Typed2 /\ Last2
    BY <1>0, <2>1, <2>7, <2>12 DEF FleetTyped, KeysLast
  <2>14. Orphaned2
    <3>1. \A o \in orphans : o.by \in Requests /\ o.by # r /\ req'[o.by] = req[o.by]
      BY <1>5, <1>0, <2>1, <2>7 DEF Orphaned, q
    <3>2. /\ Fleet!Call(r).by = r /\ Fleet!Call(r).key = <<Specs[x.i], Fleet!Epoch(x.now)>>
          /\ Fleet!Call(r).ttl = Fleet!ttl_ms(x.now)
      BY <2>5 DEF Fleet!Call, q
    <3> QED BY <1>0, <2>2, <2>6, <2>7, <3>1, <3>2, SMTT(30) DEF Orphaned
  <2>15. Past2
    <3>1. \A s, e : ~IsPast(x, s, e)
      BY <2>6 DEF IsPast
    <3>2. \A k \in DOMAIN redis : redis'[k].count >= redis[k].count /\ redis'[k].count \in Nat
      BY <1>0, <2>1 DEF FleetTyped
    <3> QED BY <1>1, <2>1, <2>4, <2>7, <3>1, <3>2
  <2>16. Once2
    <3>1. \A call \in orphans' : call \in orphans \/ call.by = r
      BY <2>2 DEF Fleet!Call
    <3>2. ASSUME NEW k, Counts(q, r, orphans, k) PROVE Counts(x, r, orphans', k)
      <4>1. q.pc = "sent" => Fleet!Call(r).key # k
        <5>1. Fleet!Call(r).key = <<Specs[q.i], Fleet!Epoch(q.now)>>
          BY DEF Fleet!Call, q
        <5>2. q.pc = "sent" => Specs[q.i] # k[1]
          BY <3>2 DEF Counts
        <5> QED BY <5>1, <5>2
      <4>2. \A call \in orphans' : ~(call.by = r /\ call.key = k)
        BY <2>2, <3>2, <4>1 DEF Counts
      <4> QED BY <2>5, <2>6, <3>2, <4>2 DEF Counts
    <3> QED BY <1>4, <2>1, <2>7, <3>1, <3>2 DEF q
  <2>17. Local2
    <3>1. fallback' = "closed" => \A u \in Requests : req'[u].pc # "local"
      BY <1>0, <2>1, <2>5, <2>7, <2>11 DEF LocalCounted
    <3>2. ASSUME NEW b \in Replicas, NEW s \in Hard \cap Fleet!Scopes, NEW e \in Nat, <<b, s>> \notin back'
          PROVE  /\ Cardinality(LocalOf(req', b, e)) <= ReplicaShare[s]
                 /\ dslots'[<<b, s>>].e = e => Cardinality(LocalOf(req', b, e)) <= dslots'[<<b, s>>].c
                 /\ dslots'[<<b, s>>].e < e => LocalOf(req', b, e) = {}
      <4> DEFINE A == LocalOf(req, b, e)
                 B == LocalOf(req', b, e)
                 y == <<b, s>>
      <4>1. IsFiniteSet(A) /\ IsFiniteSet(B)
        BY FS_Subset DEF LocalOf
      <4>2. Cardinality(A) \in Nat /\ Cardinality(B) \in Nat /\ ReplicaShare[s] \in Nat
        BY <4>1, FS_CardinalityType
      <4>3. y \notin back /\ ~(y \in taken /\ dslots[y].e > e0)
        BY <2>3, <3>2
      <4>4. /\ Cardinality(A) <= ReplicaShare[s]
            /\ dslots[y].e = e => Cardinality(A) <= dslots[y].c
            /\ dslots[y].e < e => A = {}
        BY <1>0, <4>3 DEF LocalCounted
      <4>5. dslots[y] \in [e : Nat, c : Nat] /\ y \in DOMAIN dslots
        BY <1>0 DEF FleetTyped
      <4>6. ~IsLocal(q, b, e)
        BY <2>1 DEF IsLocal
      <4>7. \A u \in Requests : u # r => (IsLocal(req'[u], b, e) <=> IsLocal(req[u], b, e))
        BY <2>7
      <4>8. CASE y \notin taken
        <5>1. dslots'[y] = dslots[y]
          BY <2>3, <4>5, <4>8
        <5>2. ~IsLocal(x, b, e)
          BY <2>5, <2>11, <4>8 DEF IsLocal
        <5>3. B = A
          BY <2>7, <4>6, <4>7, <5>2 DEF LocalOf, q
        <5> QED BY <4>4, <5>1, <5>3
      <4>9. CASE y \in taken
        <5>1. b = rep
          BY <2>8, <4>9
        <5>2. base(s) \in Nat /\ base(s) < ReplicaShare[s] /\ Fleet!Base(s, r) = base(s)
          BY <2>9, <2>10, <4>9, <5>1
        <5>3. dslots'[y].e = e0 /\ dslots'[y].c = base(s) + 1
          BY <2>3, <4>5, <4>9, <5>2
        <5>4. base(s) = IF dslots[y].e = e0 THEN dslots[y].c ELSE 0
          BY <5>1 DEF base
        <5>5. B \subseteq A \cup {r}
          BY <4>7 DEF LocalOf
        <5>6. e # e0 => B = A
          <6>1. e # e0 => ~IsLocal(x, b, e)
            BY <2>5 DEF IsLocal, e0
          <6> QED BY <2>7, <4>6, <4>7, <6>1 DEF LocalOf, q
        <5>7. A = {} => Cardinality(A) = 0
          BY FS_EmptySet, Zenon
        <5> HIDE DEF A, B, base
        <5>8. Cardinality(B) <= Cardinality(A) + 1
          BY <4>1, <5>5, OneMore
        <5>9. ASSUME e = e0
              PROVE  /\ Cardinality(B) <= ReplicaShare[s]
                     /\ dslots'[y].e = e => Cardinality(B) <= dslots'[y].c
                     /\ dslots'[y].e < e => B = {}
          <6>1. Cardinality(A) <= base(s)
            <7>1. CASE dslots[y].e = e0
              BY <4>4, <5>4, <5>9, <7>1
            <7>2. CASE dslots[y].e # e0
              <8>1. dslots[y].e < e
                BY <2>4, <4>3, <4>5, <4>9, <5>9, <7>2
              <8> QED BY <4>4, <5>2, <5>7, <8>1
            <7> QED BY <7>1, <7>2
          <6>2. Cardinality(B) <= base(s) + 1 /\ base(s) + 1 <= ReplicaShare[s]
            BY <4>2, <5>2, <5>8, <6>1
          <6>3. ~(e0 < e)
            BY <2>4, <5>9
          <6> QED BY <4>2, <5>2, <5>3, <5>9, <6>2, <6>3
        <5>10. ASSUME e # e0
               PROVE  /\ Cardinality(B) <= ReplicaShare[s]
                      /\ dslots'[y].e = e => Cardinality(B) <= dslots'[y].c
                      /\ dslots'[y].e < e => B = {}
          <6>1. e0 < e => dslots[y].e < e
            BY <2>4, <4>3, <4>5, <4>9
          <6> QED BY <4>4, <5>3, <5>6, <5>10, <6>1
        <5>11. /\ Cardinality(B) <= ReplicaShare[s]
               /\ dslots'[y].e = e => Cardinality(B) <= dslots'[y].c
               /\ dslots'[y].e < e => B = {}
          BY <5>9, <5>10
        <5> QED BY <5>11 DEF B
      <4> QED BY <4>8, <4>9
    <3> QED BY <3>1, <3>2, Zenon DEF Local2
  <2> QED BY <2>7, <2>13, <2>14, <2>15, <2>16, <2>17
<1>16. CASE Fleet!Next
  <2>1. CASE \E r \in Requests : Fleet!Admit(r) \/ Fleet!RunScript(r) \/ Fleet!Reply(r) \/ Fleet!Fail(r)
    BY <1>11, <1>13, <1>14, <1>15, <2>1
  <2> QED BY <1>8, <1>9, <1>16, <2>1 DEF Fleet!Next
<1> QED BY <1>7, <1>8, <1>9, <1>16

(***************************************************************************)
(* The composition                                                          *)
(***************************************************************************)

\* A step of one service is a step of that service.
LEMMA OneService ==
  ASSUME [ServicesNext]_allVars
  PROVE  /\ focus' = focus
         /\ [Next]_vars
         /\ focus = "throttle" => [Throttle!Next]_(Throttle!vars)
         /\ focus = "console" => [Console!Next]_(Console!vars)
         /\ focus = "cache" => [Cache!Next]_(Cache!vars)
         /\ focus = "providers" => [Providers!Next]_(Providers!vars)
         /\ focus = "limits" => [Limits!Next]_(Limits!vars)
         /\ focus = "health" => [Health!Next]_(Health!vars)
         /\ focus = "fleet" => [Fleet!Next]_(Fleet!vars)
<1>1. CASE ServicesNext
  BY <1>1 DEF ServicesNext
<1>2. CASE UNCHANGED allVars
  <2>1. /\ UNCHANGED focus /\ UNCHANGED vars /\ UNCHANGED throttleVars /\ UNCHANGED consoleVars /\ UNCHANGED cacheVars
        /\ UNCHANGED providerVars /\ UNCHANGED limitVars /\ UNCHANGED healthVars /\ UNCHANGED fleetVars
    BY <1>2 DEF allVars
  <2>2. UNCHANGED Throttle!vars /\ UNCHANGED Console!vars /\ UNCHANGED Cache!vars /\ UNCHANGED Providers!vars
    BY <2>1 DEF throttleVars, Throttle!vars, consoleVars, Console!vars, cacheVars, Cache!vars, providerVars, Providers!vars
  <2>3. UNCHANGED Limits!vars /\ UNCHANGED Health!vars /\ UNCHANGED Fleet!vars
    BY <2>1 DEF limitVars, Limits!vars, healthVars, Health!vars, fleetVars, Fleet!vars
  <2> QED BY <2>1, <2>2, <2>3
<1> QED BY <1>1, <1>2

\* A permit of a lane is held exactly by an event between try_acquire and its settlement,
\* whatever the order of sends, turns and shutdown; and a ring is the newest part of what was
\* retained for its tenant, in the order of its numbers, each missing event one counted
\* eviction (UsageLane::slots, dispatch_queued_usage, try_retain_queued_usage).
THEOREM BooksBalance == ServicesSpec => []UsageBooks
<1> DEFINE Inv == UsageInv
<1>1. ServicesInit => Inv
  BY ServicesAssumption, UsageInit DEF ServicesInit
<1>2. Inv /\ [ServicesNext]_allVars => Inv'
  BY ServicesAssumption, OneService, UsageStep
<1>3. Inv => UsageBooks
  BY ServicesAssumption, UsageSafe DEF UsageBooks
<1> QED BY <1>1, <1>2, <1>3, PTL DEF ServicesSpec

\* The lanes implement the ledger: whatever the threads, the writer and shutdown do, an event
\* that is recorded is retained for its tenant or counted under one drop reason, and once only
\* (UsageSettlement, dispatch_queued_usage, shutdown).  This is the safety of UsageSettlesOnce.
THEOREM LanesImplementLedger == ServicesSpec => Ledger!Init /\ [][Ledger!Next]_(Ledger!vars)
<1>1. ServicesInit => UsageInv /\ LedgerInv /\ Ledger!Init
  BY ServicesAssumption, UsageInit, LedgerInit DEF ServicesInit
<1>2. UsageInv /\ LedgerInv /\ [ServicesNext]_allVars => UsageInv' /\ LedgerInv' /\ [Ledger!Next]_(Ledger!vars)
  BY ServicesAssumption, OneService, UsageStep, LedgerStep
<1> QED BY <1>1, <1>2, PTL DEF ServicesSpec

\* A failure slot holds exactly the failures of the sources that share it, up to saturation,
\* unless one of an earlier window was written late (record_failure's compare-exchange); a
\* registered provider stays, with an average that is the blend of every latency recorded for
\* it (the registry's copy and swap); and a pool key is cooled down until the latest time it was
\* given and not cleared, whatever key shares its cell (cool_key, clear_key).
THEOREM LearningIsKept == ServicesSpec => []NothingLearnedIsLost
<1> DEFINE Inv == (focus = "throttle" => ThrottleInv) /\ (focus = "health" => HealthInv)
<1>1. ServicesInit => Inv
  BY ServicesAssumption, ThrottleInit, HealthInit DEF ServicesInit
<1>2. Inv /\ [ServicesNext]_allVars => Inv'
  BY ServicesAssumption, OneService, ThrottleStep, HealthStep
<1>3. Inv => NothingLearnedIsLost
  BY ServicesAssumption, ThrottleSafe, HealthSafe DEF NothingLearnedIsLost
<1> QED BY <1>1, <1>2, <1>3, PTL DEF ServicesSpec

\* No token that was out when a logout or password change was confirmed is accepted again,
\* though other writes of the accounts file or a restart come between, nor does a login that
\* began before bring one back; and a signup is confirmed once per address and survives a crash
\* (console_accounts.rs bump_session_version, create; console_auth.rs verify).
THEOREM SessionsEndForGood == ServicesSpec => []SessionsEnd
<1> DEFINE Inv == focus = "console" => ConsoleInv
<1>1. ServicesInit => Inv
  BY ServicesAssumption, ConsoleInit DEF ServicesInit
<1>2. Inv /\ [ServicesNext]_allVars => Inv'
  BY ServicesAssumption, OneService, ConsoleStep
<1>3. Inv => SessionsEnd
  BY ServicesAssumption, ConsoleSafe DEF SessionsEnd
<1> QED BY <1>1, <1>2, <1>3, PTL DEF ServicesSpec

\* Whatever the tenants, sizes and times, the entries of a tenant never exceed its share of
\* the budget, not even between the stores of one insert; an insert evicts its own tenant's
\* entries only, expired and oldest first; and a body the pipeline found small enough fits
\* (CacheCore::apply_insert, TenantCapacityPlan).
THEOREM CacheKeepsToItsShare == ServicesSpec => []CacheWithinShare
<1> DEFINE Inv == focus = "cache" => CacheInv
<1>1. ServicesInit => Inv
  BY ServicesAssumption, StoreInit DEF ServicesInit
<1>2. Inv /\ [ServicesNext]_allVars => Inv'
  BY ServicesAssumption, OneService, StoreNext
<1>3. Inv => CacheWithinShare
  BY ServicesAssumption, StoreShares DEF CacheWithinShare
<1> QED BY <1>1, <1>2, <1>3, PTL DEF ServicesSpec

\* A name is one entry of one owner; requests see the file's registry, or the one before it
\* while the swap is due, so that no entry is seen that a restart would lose; the operator's
\* entries stay as they are; and a request is sent to, with the key of, a provider of its own
\* tenant or of the operator (custom_providers.rs upsert, remove, persist, entry_for).
THEOREM RegistrySurvives == ServicesSpec => []RegistryIsDurable
<1> DEFINE Inv == focus = "providers" => ProviderInv
<1>1. ServicesInit => Inv
  BY ServicesAssumption, ProviderInit DEF ServicesInit
<1>2. Inv /\ [ServicesNext]_allVars => Inv'
  BY ServicesAssumption, OneService, ProviderStep
<1>3. Inv => RegistryIsDurable
  BY ServicesAssumption, ProviderSafe DEF RegistryIsDurable
<1> QED BY <1>1, <1>2, <1>3, PTL DEF ServicesSpec

\* A cap that is enforced is the fair share of the cap that was configured, and a budget in
\* micro-USD is always enforced (share_per_replica, ScopeCounters::from_policy); the replicas
\* that count in Redis admit no more than the limit of each hard scope in a window, and on
\* their own no more than their share, and a request counts at most once against a scope,
\* whatever is timed out, late or counted after its answer (distributed.rs).
THEOREM CapsHold == ServicesSpec => []CapsKeepTheirMeaning
<1> DEFINE Inv == (focus = "limits" => LimitInv) /\ (focus = "fleet" => FleetInv)
<1>1. ServicesInit => Inv
  BY ServicesAssumption, LimitInit, FleetInit DEF ServicesInit
<1>2. Inv /\ [ServicesNext]_allVars => Inv'
  BY ServicesAssumption, OneService, LimitStep, FleetStep
<1>3. Inv => CapsKeepTheirMeaning
  BY ServicesAssumption, SlotIsFair, FleetSafe DEF CapsKeepTheirMeaning
<1> QED BY <1>1, <1>2, <1>3, PTL DEF ServicesSpec
====
