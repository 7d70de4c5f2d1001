---------------------------- MODULE AuthFailures ----------------------------
(***************************************************************************)
(* The lock-free table of failed authentications                            *)
(* (crates/limits/src/auth_failures.rs) under the three handlers that use   *)
(* it: the gateway's auth_middleware, which reads the clock again for the   *)
(* failure, and the console's signup and login, which record with the time  *)
(* they read on entry -- login after an Argon2 verification.                *)
(*                                                                          *)
(* Time is counted in windows: an epoch is now_ms / window_ms.              *)
(***************************************************************************)
EXTENDS Integers, FiniteSets

CONSTANTS
    Requests,     \* request tasks
    SlotOf,       \* slot_index: the slot of a source
    Handler,      \* the handler each request runs: "gateway", "signup" or "login"
    Source,       \* the source address of each request
    Threshold,
    CountMask,    \* largest count a slot can hold
    MaxEpoch      \* bound: windows a behaviour spans

\* What the constants are: every request has a source, every source a slot.
Configured ==
    /\ Source \in [Requests -> DOMAIN SlotOf]
    /\ {Threshold, CountMask, MaxEpoch} \subseteq Nat

VARIABLES
    epoch,     \* the wall clock, in windows
    slots,     \* [epoch, count] of each slot
    pc, now, seen,
    counted,   \* history: failures of the running window each source has recorded in it
    late       \* history: slots a failure of an earlier window was written to in this one
vars == <<epoch, slots, pc, now, seen, counted, late>>

Slots == {SlotOf[s] : s \in DOMAIN SlotOf}
slot_for(r) == SlotOf[Source[r]]

Init0 == [e |-> 0, c |-> 0]

TypeOK ==
    /\ epoch \in 0..MaxEpoch
    /\ slots \in [Slots -> [e : 0..MaxEpoch, c : 0..CountMask]]
    /\ pc \in [Requests -> {"check", "verify", "load", "cas", "passed", "failed", "throttled"}]
    /\ now \in [Requests -> 0..MaxEpoch]

Init ==
    /\ epoch = 0
    /\ slots = [k \in Slots |-> Init0]
    /\ pc = [r \in Requests |-> "check"]
    /\ now = [r \in Requests |-> 0]
    /\ seen = [r \in Requests |-> Init0]
    /\ counted = [s \in DOMAIN SlotOf |-> 0]
    /\ late = {}

current_count(r, ep) == IF slots[slot_for(r)].e = ep THEN slots[slot_for(r)].c ELSE 0

\* check, with the time read on entry; signup counts every attempt before it looks at it.
Check(r) ==
    /\ pc[r] = "check"
    /\ now' = [now EXCEPT ![r] = epoch]
    /\ pc' = [pc EXCEPT ![r] = CASE current_count(r, epoch) >= Threshold -> "throttled"
                                 [] Handler[r] = "signup" -> "load"
                                 [] OTHER -> "verify"]
    /\ UNCHANGED <<epoch, slots, seen, counted, late>>

\* The credential is looked up (or the password hashed) and found good or bad.
Verify(r) ==
    /\ pc[r] = "verify"
    /\ \/ pc' = [pc EXCEPT ![r] = "passed"] /\ UNCHANGED now
       \/ /\ pc' = [pc EXCEPT ![r] = "load"]
          /\ now' = [now EXCEPT ![r] = IF Handler[r] = "gateway" THEN epoch ELSE now[r]]
    /\ UNCHANGED <<epoch, slots, seen, counted, late>>

\* record_failure: load, then compare and exchange until it succeeds.
Load(r) ==
    /\ pc[r] = "load"
    /\ seen' = [seen EXCEPT ![r] = slots[slot_for(r)]]
    /\ pc' = [pc EXCEPT ![r] = "cas"]
    /\ UNCHANGED <<epoch, slots, now, counted, late>>

Bump(r) ==
    LET base == IF seen[r].e = now[r] THEN seen[r].c ELSE 0
    IN  [e |-> now[r], c |-> IF base < CountMask THEN base + 1 ELSE CountMask]

\* The task is done with its locals; a failure of an earlier window counts as late.
Recorded(r) ==
    /\ counted' = IF now[r] = epoch THEN [counted EXCEPT ![Source[r]] = @ + 1] ELSE counted
    /\ late' = IF now[r] < epoch THEN late \cup {slot_for(r)} ELSE late
    /\ now' = [now EXCEPT ![r] = 0]
    /\ seen' = [seen EXCEPT ![r] = Init0]

\* The exchange without the comparison.
CasMutant(r) ==
    /\ pc[r] = "cas"
    /\ slots' = [slots EXCEPT ![slot_for(r)] = Bump(r)]
    /\ pc' = [pc EXCEPT ![r] = "failed"]
    /\ Recorded(r)
    /\ UNCHANGED epoch

\* compare_exchange_weak may also fail although nothing changed.
Cas(r) ==
    /\ pc[r] = "cas"
    /\ \/ /\ slots[slot_for(r)] = seen[r]
          /\ slots' = [slots EXCEPT ![slot_for(r)] = Bump(r)]
          /\ pc' = [pc EXCEPT ![r] = "failed"]
          /\ Recorded(r)
       \/ pc' = [pc EXCEPT ![r] = "load"] /\ UNCHANGED <<slots, now, seen, counted, late>>
    /\ UNCHANGED epoch

\* The same client sends its next request.
Again(r) ==
    /\ pc[r] \in {"passed", "failed", "throttled"}
    /\ pc' = [pc EXCEPT ![r] = "check"]
    /\ now' = [now EXCEPT ![r] = 0]
    /\ UNCHANGED <<epoch, slots, seen, counted, late>>

\* The clock is read once per window; a new window starts with no late writers.
Tick == /\ epoch < MaxEpoch /\ epoch' = epoch + 1 /\ late' = {}
        /\ counted' = [s \in DOMAIN SlotOf |-> 0]
        /\ UNCHANGED <<slots, pc, now, seen>>

Next == Tick \/ \E r \in Requests : Check(r) \/ Verify(r) \/ Load(r) \/ Cas(r) \/ Again(r)
Spec == Init /\ [][Next]_vars

-----------------------------------------------------------------------------
\* The failures of the running window in a slot: of every source there, the first, the second...
FailuresOf(k) == Cardinality({f \in UNION {{s} \X (1..counted[s]) : s \in DOMAIN SlotOf} : SlotOf[f[1]] = k})
Saturated(n) == IF n < CountMask THEN n ELSE CountMask

\* No failure of the running window is lost to a race: unless a failure of an earlier
\* window was written late, a slot holds exactly the failures recorded by the sources
\* that share it (saturating), so a source is refused from its Threshold-th failure on
\* whatever the interleaving (auth_failures.rs, record_failure's CAS loop).
NoFailureLost ==
    \A k \in Slots : k \notin late /\ FailuresOf(k) > 0 => slots[k] = [e |-> epoch, c |-> Saturated(FailuresOf(k))]

\* "Slot collisions can only ever cause a colliding IP to be throttled sooner, never
\* later" (auth_failures.rs:30): the slot of a source holds at least its own failures of
\* the running window, or what saturation leaves of them.
SharedSlotOnlySooner ==
    \A s \in DOMAIN SlotOf : counted[s] > 0 =>
        slots[SlotOf[s]].e = epoch /\ slots[SlotOf[s]].c >= Saturated(counted[s])
=============================================================================
