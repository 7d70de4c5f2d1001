--------------------------- MODULE HealthRegistry ---------------------------
(***************************************************************************)
(* The health registry beside the breakers (crates/router/src/lib.rs): the  *)
(* copy-on-write map of (owner, provider) to its health cells, the latency  *)
(* average in each of them, and the cooldown cells of pool keys, which keys *)
(* of different tenants may share.  Tasks register providers, report        *)
(* latencies, and cool and clear keys; every load and exchange is a step.   *)
(***************************************************************************)
EXTENDS Integers, Sequences, FiniteSets

CONSTANTS
    Tasks,
    Jobs,        \* what a task may be asked to do
    BuiltIns,    \* names registered under GLOBAL_OWNER at start
    CellOf,      \* key_slot: the cell a pool key hashes to,
    FpOf,        \*   and its fingerprint, never 0
    UNTIL_MASK,  \* KEY_COOLDOWN_UNTIL_MASK
    MaxJobs      \* bound: jobs a behaviour has

VARIABLES
    providers,   \* (owner, name) -> the health object it holds
    ewma,        \* the latency average of every object
    cells,       \* fingerprint and stamp of every cooldown cell
    task, jobs,
    samples,     \* history: the latencies recorded for each registered (owner, name)
    owed         \* history: the cooldown each key asked for and still has
vars == <<providers, ewma, cells, task, jobs, samples, owed>>

GLOBAL_OWNER == "global"
LATENCY_UNSET == -1
Vacant == [fp |-> 0, until |-> 0]
Idle == [pc |-> "idle"]
PoolKeys == DOMAIN CellOf

\* What the constants are: named providers, times that fit a stamp.  Two keys of one cell are
\* taken to differ in their fingerprints, of which there are 2^22 - 1 under a random seed.
Configured ==
    /\ IsFiniteSet(BuiltIns) /\ UNTIL_MASK \in Nat
    /\ \A j \in Jobs :
           \/ j.op = "register"
           \/ j.op = "latency" /\ j.ms \in Nat
           \/ j.op = "cool" /\ j.key \in PoolKeys /\ j.until \in Nat
           \/ j.op = "clear" /\ j.key \in PoolKeys
    /\ FpOf \in [PoolKeys -> Nat \ {0}]
    /\ \A x, y \in PoolKeys : x # y /\ CellOf[x] = CellOf[y] => FpOf[x] # FpOf[y]

\* The objects are numbered as they were made; the built-in ones in any order.
Numberings(S) == {f \in [S -> 1..Cardinality(S)] : \A x, y \in S : f[x] = f[y] => x = y}

Init ==
    LET built == {<<GLOBAL_OWNER, n>> : n \in BuiltIns}
    IN  /\ providers \in Numberings(built)
        /\ ewma = [i \in 1..Cardinality(built) |-> LATENCY_UNSET]
        /\ samples = [k \in built |-> <<>>]
        /\ cells = [c \in {CellOf[k] : k \in PoolKeys} |-> Vacant]
        /\ task = [t \in Tasks |-> Idle]
        /\ jobs = 0
        /\ owed = [k \in PoolKeys |-> 0]

Done(t) == task' = [task EXCEPT ![t] = Idle]

Begin(t) ==
    /\ task[t] = Idle /\ jobs < MaxJobs
    /\ \E j \in Jobs : task' = [task EXCEPT ![t] = [pc |-> j.op, job |-> j]]
    /\ jobs' = jobs + 1
    /\ UNCHANGED <<providers, ewma, cells, samples, owed>>

-----------------------------------------------------------------------------
\* Registration

Home(j) == <<j.owner, j.name>>

\* The look that lets a known provider pass, and the load at the head of rcu.
RegisterLoad(t) ==
    /\ task[t].pc = "register"
    /\ IF Home(task[t].job) \in DOMAIN providers THEN Done(t)
       ELSE task' = [task EXCEPT ![t] = [pc |-> "swap", job |-> task[t].job, seen |-> providers]]
    /\ UNCHANGED <<providers, ewma, cells, jobs, samples, owed>>

\* or_insert_with: an entry that is there stays.
Inserted(map, k, id) == IF k \in DOMAIN map THEN map ELSE [x \in DOMAIN map \cup {k} |-> IF x = k THEN id ELSE map[x]]

Publish(t, map) ==
    LET k == Home(task[t].job) IN
    /\ providers' = map
    /\ ewma' = IF map = task[t].seen THEN ewma ELSE Append(ewma, LATENCY_UNSET)
    /\ samples' = IF k \in DOMAIN samples THEN samples
                  ELSE [x \in DOMAIN samples \cup {k} |-> IF x = k THEN <<>> ELSE samples[x]]
    /\ Done(t)

\* The copy is stored, whatever was published since it was taken.
RegisterSwapMutant(t) ==
    /\ task[t].pc = "swap"
    /\ Publish(t, Inserted(task[t].seen, Home(task[t].job), Len(ewma) + 1))
    /\ UNCHANGED <<cells, jobs, owed>>

\* The exchange of rcu; when it fails the closure runs again on the map found.
RegisterSwap(t) ==
    /\ task[t].pc = "swap"
    /\ IF providers = task[t].seen
       THEN Publish(t, Inserted(providers, Home(task[t].job), Len(ewma) + 1))
       ELSE /\ task' = [task EXCEPT ![t].seen = providers]
            /\ UNCHANGED <<providers, ewma, samples>>
    /\ UNCHANGED <<cells, jobs, owed>>

-----------------------------------------------------------------------------
\* Latencies

\* with_health: the tenant's own cells, or the shared ones of the same name.
with_health(j) == IF Home(j) \in DOMAIN providers THEN {Home(j)}
                  ELSE {<<GLOBAL_OWNER, j.name>>} \cap DOMAIN providers

Resolve(t) ==
    /\ task[t].pc = "latency"
    /\ LET found == with_health(task[t].job) IN
       IF found = {} THEN Done(t)
       ELSE LET k == CHOOSE x \in found : TRUE IN
            task' = [task EXCEPT ![t] = [pc |-> "record", job |-> task[t].job, of |-> k, id |-> providers[k],
                                         seen |-> ewma[providers[k]]]]
    /\ UNCHANGED <<providers, ewma, cells, jobs, samples, owed>>

\* A fifth of the sample and four fifths of the past, rounded down.
Blend(prior, ms) == IF prior = LATENCY_UNSET THEN ms ELSE (200 * ms + 800 * prior) \div 1000

RecordMutant(t) ==
    /\ task[t].pc = "record"
    /\ ewma' = [ewma EXCEPT ![task[t].id] = Blend(task[t].seen, task[t].job.ms)]
    /\ samples' = [samples EXCEPT ![task[t].of] = Append(@, task[t].job.ms)]
    /\ Done(t)
    /\ UNCHANGED <<providers, cells, jobs, owed>>

\* LatencyEwma::record: blend and exchange, or look again.
Record(t) ==
    /\ task[t].pc = "record"
    /\ IF ewma[task[t].id] = task[t].seen
       THEN /\ ewma' = [ewma EXCEPT ![task[t].id] = Blend(task[t].seen, task[t].job.ms)]
            /\ samples' = [samples EXCEPT ![task[t].of] = Append(@, task[t].job.ms)]
            /\ Done(t)
       ELSE /\ task' = [task EXCEPT ![t].seen = ewma[task[t].id]]
            /\ UNCHANGED <<ewma, samples>>
    /\ UNCHANGED <<providers, cells, jobs, owed>>

-----------------------------------------------------------------------------
\* Cooldowns

CellIs(t, word) == [cells EXCEPT ![CellOf[task[t].job.key]] = word]
CellSeen(t) == cells[CellOf[task[t].job.key]]
key_cooled_until(k) == IF cells[CellOf[k]].fp = FpOf[k] THEN cells[CellOf[k]].until ELSE 0

Longer(a, b) == IF a >= b THEN a ELSE b
Stamp(j) == [fp |-> FpOf[j.key], until |-> IF j.until <= UNTIL_MASK THEN j.until ELSE UNTIL_MASK]
Covered(word, j) == word.fp = FpOf[j.key] /\ word.until >= Stamp(j).until

\* A look at the cell, by the first load or a failed exchange, and the early return.
LookCool(t) ==
    IF Covered(CellSeen(t), task[t].job) THEN Done(t)
    ELSE task' = [task EXCEPT ![t] = [pc |-> "stamp", job |-> task[t].job, seen |-> CellSeen(t)]]
LookClear(t) ==
    IF CellSeen(t).fp # FpOf[task[t].job.key] THEN Done(t)
    ELSE task' = [task EXCEPT ![t] = [pc |-> "wipe", job |-> task[t].job, seen |-> CellSeen(t)]]

CoolLoad(t) == task[t].pc = "cool" /\ LookCool(t) /\ UNCHANGED <<providers, ewma, cells, jobs, samples, owed>>
ClearLoad(t) == task[t].pc = "clear" /\ LookClear(t) /\ UNCHANGED <<providers, ewma, cells, jobs, samples, owed>>

\* Who asked last owns the cell; the keys it is shared with lose their cooldown.
Claim(k, until) == [x \in PoolKeys |-> IF x = k THEN until ELSE IF CellOf[x] = CellOf[k] THEN 0 ELSE owed[x]]

\* After a failed exchange the stamp is written without another look.
CoolCasMutant(t) ==
    /\ task[t].pc = "stamp"
    /\ cells' = CellIs(t, Stamp(task[t].job))
    /\ owed' = Claim(task[t].job.key, Longer(owed[task[t].job.key], Stamp(task[t].job).until))
    /\ Done(t)
    /\ UNCHANGED <<providers, ewma, jobs, samples>>

CoolCas(t) ==
    /\ task[t].pc = "stamp"
    /\ IF CellSeen(t) = task[t].seen
       THEN /\ cells' = CellIs(t, Stamp(task[t].job))
            /\ owed' = Claim(task[t].job.key, Longer(owed[task[t].job.key], Stamp(task[t].job).until))
            /\ Done(t)
       ELSE LookCool(t) /\ UNCHANGED <<cells, owed>>
    /\ UNCHANGED <<providers, ewma, jobs, samples>>

\* The cell is emptied whoever holds it by then.
ClearCasMutant(t) ==
    /\ task[t].pc = "wipe"
    /\ cells' = CellIs(t, Vacant)
    /\ owed' = [owed EXCEPT ![task[t].job.key] = 0]
    /\ Done(t)
    /\ UNCHANGED <<providers, ewma, jobs, samples>>

ClearCas(t) ==
    /\ task[t].pc = "wipe"
    /\ IF CellSeen(t) = task[t].seen
       THEN /\ cells' = CellIs(t, Vacant)
            /\ owed' = [owed EXCEPT ![task[t].job.key] = 0]
            /\ Done(t)
       ELSE LookClear(t) /\ UNCHANGED <<cells, owed>>
    /\ UNCHANGED <<providers, ewma, jobs, samples>>

-----------------------------------------------------------------------------
Next == \E t \in Tasks : Begin(t) \/ RegisterLoad(t) \/ RegisterSwap(t) \/ Resolve(t) \/ Record(t)
                         \/ CoolLoad(t) \/ CoolCas(t) \/ ClearLoad(t) \/ ClearCas(t)
Spec == Init /\ [][Next]_vars

-----------------------------------------------------------------------------
\* What the average of a provider is after the latencies of s.
Average(s) ==
    LET after[i \in 0..Len(s)] == IF i = 0 THEN LATENCY_UNSET ELSE Blend(after[i - 1], s[i])
    IN  after[Len(s)]

\* "an in-flight record is never lost to a concurrent registration" (router/src/lib.rs,
\* HealthTracker): a provider that was registered stays, with the cells it got then, and
\* its average is the blend of every latency recorded for it, in one order.
NoRecordLost ==
    \A k \in DOMAIN samples :
        k \in DOMAIN providers /\ ewma[providers[k]] = Average(samples[k])

\* A key is cooled exactly as long as its own failures asked for: a shorter window never
\* cuts a longer one, a success ends only the key's own, and a key that shares the cell
\* can take it over but neither lengthen nor clear it (cool_key, clear_key).
CooldownIsOwn == \A k \in PoolKeys : key_cooled_until(k) = owed[k]

HealthIsKept == NoRecordLost /\ CooldownIsOwn
=============================================================================
