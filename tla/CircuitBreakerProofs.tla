------------------------ MODULE CircuitBreakerProofs ------------------------
(***************************************************************************)
(* Proofs about CircuitBreaker, for any set of tasks, thresholds, cooldown *)
(* and clock bound: the gauge never leaks, the half-open cap is hard for   *)
(* the attempts that take a permit, and no interleaving of the stores of   *)
(* open() and close() strands the breaker.                                 *)
(***************************************************************************)
EXTENDS CircuitBreaker, FiniteSetTheorems, TLAPS

Holding == {"call", "trial"}

\* A task that is about to exchange the gauge has read a value below the cap.
PermitChecked == \A k \in Task : pc[k] = "pr_cas" => cur[k] < SuccessThreshold

\* Typing without the gauge, which needs the balance to be a natural number.
Typed ==
    /\ state \in CircuitState
    /\ failures \in 0..FailureThreshold
    /\ successes \in 0..SuccessThreshold
    /\ openedAt \in 0..MaxClock
    /\ now \in 0..MaxClock
    /\ pc \in [Task -> Pc]
    /\ via \in [Task -> {"avail", "probe"}]
    /\ t \in [Task -> 0..MaxClock]

\* The inductive invariant.
GaugeInv == Typed /\ GaugeBalanced /\ ProbeCap /\ PermitChecked /\ cur \in [Task -> Nat]

-----------------------------------------------------------------------------
\* What state() answers leads to: never into the provider call itself, and never
\* past the load of the gauge.
LEMMA AnswerPc ==
    ASSUME NEW k \in Task, NEW s \in CircuitState
    PROVE  /\ Answer(k, s) \in Pc \ (Holding \cup {"pr_cas"})
           /\ Answer(k, s) \notin {"op_state", "cl_fail", "cl_state", "st_reset"}
BY DEF Answer, CircuitState, Pc, Holding

\* The set of guard holders is finite.
LEMMA GuardedFinite ==
    /\ IsFiniteSet(Guarded)
    /\ Cardinality(Guarded) \in Nat
    /\ IsFiniteSet(At("trial"))
    /\ Cardinality(At("trial")) \in Nat
    /\ Cardinality(At("trial")) <= Cardinality(Guarded)
<1>1. At("trial") \subseteq Guarded /\ Guarded \subseteq Task
    BY DEF At, Guarded
<1>2. IsFiniteSet(Guarded)
    BY <1>1, TaskAssumption, FS_Subset
<1>3. IsFiniteSet(At("trial")) /\ Cardinality(At("trial")) <= Cardinality(Guarded)
    BY <1>1, <1>2, FS_Subset
<1> QED
    BY <1>2, <1>3, FS_CardinalityType

\* A step of one task outside the provider call leaves the holders alone.
LEMMA QuietStep ==
    ASSUME NEW k \in Task, NEW p, pc \in [Task -> Pc], Goto(k, p),
           pc[k] \notin Holding, p \notin Holding
    PROVE  Guarded' = Guarded /\ At("trial")' = At("trial")
BY DEF Goto, Guarded, At, Holding

\* Taking a guard adds one holder.
LEMMA EnterStep ==
    ASSUME NEW k \in Task, NEW p \in Holding, pc \in [Task -> Pc], Goto(k, p),
           pc[k] \notin Holding
    PROVE  /\ Cardinality(Guarded') = Cardinality(Guarded) + 1
           /\ p = "call" => At("trial")' = At("trial")
           /\ Cardinality(At("trial")') <= Cardinality(Guarded')
<1>1. Guarded' = Guarded \cup {k} /\ k \notin Guarded
    BY DEF Goto, Guarded, Holding
<1>2. Cardinality(Guarded') = Cardinality(Guarded) + 1
    BY <1>1, GuardedFinite, FS_AddElement
<1>3. p = "call" => At("trial")' = At("trial")
    BY DEF Goto, At, Holding
<1>4. IsFiniteSet(Guarded')
    BY <1>1, GuardedFinite, FS_AddElement
<1>a. At("trial")' \subseteq Guarded'
    BY DEF At, Guarded
<1>5. Cardinality(At("trial")') <= Cardinality(Guarded')
    BY <1>4, <1>a, FS_Subset
<1> QED
    BY <1>2, <1>3, <1>5

\* Ending the call removes one holder and adds no trial.
LEMMA LeaveStep ==
    ASSUME NEW k \in Task, NEW p, pc \in [Task -> Pc], Goto(k, p),
           pc[k] \in Holding, p \notin Holding
    PROVE  /\ Cardinality(Guarded') = Cardinality(Guarded) - 1
           /\ Cardinality(At("trial")') <= Cardinality(At("trial"))
<1>1. Guarded' = Guarded \ {k} /\ k \in Guarded
    BY DEF Goto, Guarded, Holding
<1>2. Cardinality(Guarded') = Cardinality(Guarded) - 1
    BY <1>1, GuardedFinite, FS_RemoveElement
<1>3. At("trial")' \subseteq At("trial")
    BY DEF Goto, At, Holding
<1>4. Cardinality(At("trial")') <= Cardinality(At("trial"))
    BY <1>3, GuardedFinite, FS_Subset
<1> QED
    BY <1>2, <1>4

-----------------------------------------------------------------------------
\* Typing is inductive by itself.
LEMMA TypedInit == Init => Typed
BY FailureThresholdAssumption, SuccessThresholdAssumption, MaxClockAssumption
   DEF Init, Typed, CircuitState, Pc

LEMMA TypedNext == Typed /\ [Next]_vars => Typed'
<1> SUFFICES ASSUME Typed, [Next]_vars PROVE Typed'
    OBVIOUS
<1> USE FailureThresholdAssumption, SuccessThresholdAssumption, MaxClockAssumption
<1>1. CASE UNCHANGED vars
    BY <1>1 DEF Typed, vars, breakerVars, localVars
<1>2. CASE Tick
    BY <1>2 DEF Typed, Tick, breakerVars, localVars
<1>3. ASSUME NEW k \in Task, Step(k) PROVE Typed'
    <2> USE DEF Typed, Goto, breakerVars, localVars
    <2>1. CASE IsAvailable(k)
        BY <2>1 DEF IsAvailable, Pc
    <2>2. CASE StateLoad(k)
        <3>1. Answer(k, state) \in Pc
            BY AnswerPc
        <3> QED BY <2>2, <3>1 DEF StateLoad, Return, Pc
    <2>3. CASE StateNow(k)
        BY <2>3 DEF StateNow, Pc
    <2>4. CASE StateOpened(k)
        <3>1. Answer(k, "open") \in Pc
            BY AnswerPc DEF CircuitState
        <3> QED BY <2>4, <3>1 DEF StateOpened, Return, Pc
    <2>5. CASE StateCas(k)
        BY <2>5 DEF StateCas, Pc, CircuitState
    <2>6. CASE StateReset(k)
        <3>1. Answer(k, "half") \in Pc
            BY AnswerPc DEF CircuitState
        <3> QED BY <2>6, <3>1 DEF StateReset, Return
    <2>7. CASE StateReload(k)
        <3>1. Answer(k, state) \in Pc
            BY AnswerPc
        <3> QED BY <2>7, <3>1 DEF StateReload, Return
    <2>8. CASE TryEnterProbe(k) \/ DispatchBare(k) \/ GiveUp(k)
        BY <2>8 DEF TryEnterProbe, DispatchBare, GiveUp, Pc
    <2>9. CASE ProbeAdd(k) \/ ProbeLoad(k) \/ ProbeCas(k)
        BY <2>9 DEF ProbeAdd, ProbeLoad, ProbeCas, Pc
    <2>10. CASE Finish(k)
        BY <2>10 DEF Finish, CallEnd, Pc
    <2>11. CASE OkLoad(k) \/ OkReset(k) \/ OkAdd(k)
        BY <2>11 DEF OkLoad, OkReset, OkAdd, Count, Pc
    <2>12. CASE FailLoad(k) \/ FailAdd(k)
        BY <2>12 DEF FailLoad, FailAdd, Count, Pc
    <2>13. CASE OpenState(k) \/ OpenNow(k) \/ OpenStamp(k) \/ OpenSucc(k)
        BY <2>13 DEF OpenState, OpenNow, OpenStamp, OpenSucc, CircuitState, Pc
    <2>14. CASE CloseState(k) \/ CloseFailures(k) \/ CloseSucc(k)
        BY <2>14 DEF CloseState, CloseFailures, CloseSucc, CircuitState, Pc
    <2> QED
        BY <1>3, <2>1, <2>2, <2>3, <2>4, <2>5, <2>6, <2>7, <2>8, <2>9,
           <2>10, <2>11, <2>12, <2>13, <2>14 DEF Step
<1> QED
    BY <1>1, <1>2, <1>3 DEF Next


-----------------------------------------------------------------------------
\* The gauge: what a step must do to keep the balance and the cap.

LEMMA GaugeInit == Init => GaugeInv
<1> SUFFICES ASSUME Init PROVE GaugeInv
    OBVIOUS
<1>1. Guarded = {} /\ At("trial") = {}
    BY DEF Init, Guarded, At
<1>2. GaugeBalanced /\ ProbeCap
    BY <1>1, FS_EmptySet, SuccessThresholdAssumption DEF Init, GaugeBalanced, ProbeCap
<1>3. PermitChecked /\ cur \in [Task -> Nat]
    BY DEF Init, PermitChecked
<1> QED
    BY <1>2, <1>3, TypedInit DEF GaugeInv

LEMMA GaugeNext == GaugeInv /\ [Next]_vars => GaugeInv'
<1> SUFFICES ASSUME GaugeInv, [Next]_vars PROVE GaugeInv'
    OBVIOUS
<1>t. Typed /\ Typed' /\ pc \in [Task -> Pc] /\ gauge \in Nat /\ cur \in [Task -> Nat]
    BY TypedNext, GuardedFinite DEF GaugeInv, GaugeBalanced, Typed
<1>1. CASE UNCHANGED vars
    BY <1>1, <1>t DEF GaugeInv, GaugeBalanced, ProbeCap, PermitChecked, Guarded, At, vars, localVars
<1>2. CASE Tick
    BY <1>2, <1>t DEF GaugeInv, GaugeBalanced, ProbeCap, PermitChecked, Guarded, At, Tick, localVars
<1>3. ASSUME NEW k \in Task, Step(k) PROVE GaugeInv'
    \* a step outside the call that leaves the gauge alone
    <2>q. ASSUME NEW p, Goto(k, p), pc[k] \notin Holding, p \notin Holding, gauge' = gauge
          PROVE  GaugeBalanced' /\ ProbeCap'
        BY <2>q, <1>t, QuietStep DEF GaugeInv, GaugeBalanced, ProbeCap
    \* a step whose locals keep the check of the permit
    <2>c. ASSUME NEW p, Goto(k, p), p # "pr_cas",
                 cur' = cur \/ cur' = [cur EXCEPT ![k] = 0] \/ cur' = [cur EXCEPT ![k] = gauge]
          PROVE  PermitChecked' /\ cur' \in [Task -> Nat]
        BY <2>c, <1>t DEF GaugeInv, PermitChecked, Goto
    <2>a. \A s \in CircuitState : Answer(k, s) \notin Holding /\ Answer(k, s) # "pr_cas"
        BY AnswerPc
    <2>s. state \in CircuitState /\ "open" \in CircuitState /\ "half" \in CircuitState
        BY <1>t DEF Typed, CircuitState
    <2> DEFINE Quiet == \E p : /\ Goto(k, p) /\ p \notin Holding /\ p # "pr_cas"
                               /\ pc[k] \notin Holding /\ gauge' = gauge
                               /\ \/ cur' = cur
                                  \/ cur' = [cur EXCEPT ![k] = 0]
                                  \/ cur' = [cur EXCEPT ![k] = gauge]
    <2>0. CASE Quiet
        BY <2>0, <2>q, <2>c, <1>t DEF GaugeInv
    <2>1. CASE IsAvailable(k)
        BY <2>1, <2>0 DEF IsAvailable, Holding
    <2>2. CASE StateLoad(k) \/ StateReload(k)
        BY <2>2, <2>0, <2>a, <2>s DEF StateLoad, StateReload, Return, Holding
    <2>3. CASE StateNow(k) \/ StateCas(k)
        BY <2>3, <2>0 DEF StateNow, StateCas, Holding, localVars
    <2>4. CASE StateOpened(k) \/ StateReset(k)
        BY <2>4, <2>0, <2>a, <2>s DEF StateOpened, StateReset, Return, Holding
    <2>5. CASE TryEnterProbe(k) \/ DispatchBare(k) \/ GiveUp(k)
        BY <2>5, <2>0 DEF TryEnterProbe, DispatchBare, GiveUp, Holding, localVars
    <2>6. CASE ProbeAdd(k)
        <3>1. Goto(k, "call") /\ pc[k] \notin Holding /\ gauge' = gauge + 1 /\ cur' = cur
            BY <2>6 DEF ProbeAdd, Holding, localVars
        <3>2. GaugeBalanced' /\ ProbeCap'
            BY <3>1, <1>t, EnterStep DEF GaugeInv, GaugeBalanced, ProbeCap, Holding
        <3> QED
            BY <3>1, <3>2, <2>c, <1>t DEF GaugeInv
    <2>7. CASE ProbeLoad(k)
        <3>1. CASE gauge >= SuccessThreshold
            BY <3>1, <2>7, <2>0, <1>t, SuccessThresholdAssumption DEF ProbeLoad, Holding
        <3>2. CASE gauge < SuccessThreshold
            <4>1. Goto(k, "pr_cas") /\ pc[k] \notin Holding /\ gauge' = gauge
                  /\ cur' = [cur EXCEPT ![k] = gauge]
                BY <3>2, <2>7, <1>t, SuccessThresholdAssumption DEF ProbeLoad, Holding
            <4>2. PermitChecked' /\ cur' \in [Task -> Nat]
                BY <4>1, <3>2, <1>t DEF GaugeInv, PermitChecked, Goto
            <4>3. GaugeBalanced' /\ ProbeCap'
                BY <4>1, <2>q DEF Holding
            <4> QED
                BY <4>2, <4>3, <1>t DEF GaugeInv
        <3> QED
            BY <3>1, <3>2, <1>t, SuccessThresholdAssumption
    <2>8. CASE ProbeCas(k)
        <3>0. pc[k] = "pr_cas" /\ cur' = [cur EXCEPT ![k] = 0]
            BY <2>8 DEF ProbeCas
        <3>1. CASE gauge = cur[k] /\ gauge' = gauge + 1 /\ Goto(k, "trial")
            <4>1. gauge < SuccessThreshold
                BY <3>0, <3>1 DEF GaugeInv, PermitChecked
            <4>2. /\ Cardinality(Guarded') = Cardinality(Guarded) + 1
                  /\ Cardinality(At("trial")') <= Cardinality(Guarded')
                BY <3>0, <3>1, <1>t, EnterStep DEF Holding
            <4>3. Cardinality(Guarded) = gauge /\ Cardinality(Guarded') = gauge'
                BY <3>1, <4>2 DEF GaugeInv, GaugeBalanced
            <4>4. IsFiniteSet(At("trial")') /\ Cardinality(At("trial")') \in Nat
                <5>1. At("trial")' \subseteq Task
                    BY DEF At
                <5> QED
                    BY <5>1, TaskAssumption, FS_Subset, FS_CardinalityType
            <4>5. ProbeCap'
                BY <4>1, <4>2, <4>3, <4>4, <3>1, <1>t, SuccessThresholdAssumption DEF ProbeCap
            <4>6. PermitChecked' /\ cur' \in [Task -> Nat]
                BY <3>0, <3>1, <2>c
            <4> QED
                BY <4>3, <4>5, <4>6, <1>t DEF GaugeInv, GaugeBalanced
        <3>2. CASE gauge' = gauge /\ Goto(k, "pr_load")
            BY <3>0, <3>2, <2>0 DEF Holding
        <3> QED
            BY <2>8, <3>1, <3>2 DEF ProbeCas
    <2>9. CASE Finish(k)
        <3>1. PICK p \in {"ok_load", "fail_load", "idle"} : CallEnd(k, p)
            BY <2>9 DEF Finish
        <3>2. Goto(k, p) /\ p \notin Holding /\ p # "pr_cas" /\ cur' = cur
            BY <3>1 DEF CallEnd, Holding, localVars
        <3>3. CASE pc[k] \in Holding
            <4>1. gauge' = gauge - 1
                BY <3>1, <3>3 DEF CallEnd, Holding
            <4>2. /\ Cardinality(Guarded') = Cardinality(Guarded) - 1
                  /\ Cardinality(At("trial")') <= Cardinality(At("trial"))
                BY <3>2, <3>3, <1>t, LeaveStep
            <4>3. IsFiniteSet(At("trial")') /\ Cardinality(At("trial")') \in Nat
                <5>1. At("trial")' \subseteq Task
                    BY DEF At
                <5> QED
                    BY <5>1, TaskAssumption, FS_Subset, FS_CardinalityType
            <4>4. GaugeBalanced'
                BY <4>1, <4>2 DEF GaugeInv, GaugeBalanced
            <4>5. ProbeCap'
                BY <4>2, <4>3, GuardedFinite, SuccessThresholdAssumption DEF GaugeInv, ProbeCap
            <4> QED
                BY <4>4, <4>5, <3>2, <2>c, <1>t DEF GaugeInv
        <3>4. CASE pc[k] \notin Holding
            BY <3>1, <3>2, <3>4, <2>0 DEF CallEnd, Holding
        <3> QED
            BY <3>3, <3>4
    <2>10. CASE OkLoad(k) \/ OkReset(k) \/ OkAdd(k) \/ FailLoad(k) \/ FailAdd(k)
        BY <2>10, <2>0 DEF OkLoad, OkReset, OkAdd, FailLoad, FailAdd, Holding, localVars
    <2>11. CASE OpenState(k) \/ OpenNow(k) \/ OpenStamp(k) \/ OpenSucc(k)
        BY <2>11, <2>0 DEF OpenState, OpenNow, OpenStamp, OpenSucc, Holding, localVars
    <2>12. CASE CloseState(k) \/ CloseFailures(k) \/ CloseSucc(k)
        BY <2>12, <2>0 DEF CloseState, CloseFailures, CloseSucc, Holding, localVars
    <2> QED
        BY <1>3, <2>1, <2>2, <2>3, <2>4, <2>5, <2>6, <2>7, <2>8, <2>9, <2>10, <2>11, <2>12
           DEF Step
<1> QED
    BY <1>1, <1>2, <1>3 DEF Next

\* Type correctness, the gauge's place in the naturals included: InFlightGuard
\* never takes the gauge below zero, where fetch_sub would wrap.
THEOREM TypeCorrect == Spec => []TypeOK
<1>1. GaugeInv => TypeOK
    BY GuardedFinite DEF GaugeInv, Typed, GaugeBalanced, TypeOK
<1> QED
    BY <1>1, GaugeInit, GaugeNext, PTL DEF Spec

\* The in-flight gauge equals the number of attempts holding a guard, whatever
\* the interleaving and however the attempts end.
THEOREM GaugeNeverLeaks == Spec => []GaugeBalanced
<1>1. GaugeInv => GaugeBalanced
    BY DEF GaugeInv
<1> QED
    BY <1>1, GaugeInit, GaugeNext, PTL DEF Spec

\* try_enter_probe never lets more than success_threshold permits out.
THEOREM HalfOpenCapIsHard == Spec => []ProbeCap
<1>1. GaugeInv => ProbeCap
    BY DEF GaugeInv
<1> QED
    BY <1>1, GaugeInit, GaugeNext, PTL DEF Spec

-----------------------------------------------------------------------------
\* No interleaving of open() and close() strands the breaker.  Both properties
\* are inductive together with Typed: whoever makes the left-hand side true is
\* itself the task the right-hand side asks for, and leaves that place only by
\* the store that makes the left-hand side false.

LEMMA TransientInit == Init => TrippedIsTransient /\ HealedIsTransient
BY FailureThresholdAssumption DEF Init, TrippedIsTransient, HealedIsTransient

LEMMA TransientNext ==
    Typed /\ TrippedIsTransient /\ HealedIsTransient /\ [Next]_vars
        => TrippedIsTransient' /\ HealedIsTransient'
<1> SUFFICES ASSUME Typed, TrippedIsTransient, HealedIsTransient, [Next]_vars
             PROVE  TrippedIsTransient' /\ HealedIsTransient'
    OBVIOUS
<1> USE FailureThresholdAssumption, SuccessThresholdAssumption
<1> USE DEF TrippedIsTransient, HealedIsTransient, At
<1>1. CASE UNCHANGED vars
    BY <1>1 DEF vars, breakerVars
<1>2. CASE Tick
    BY <1>2 DEF Tick, breakerVars
<1>3. ASSUME NEW k \in Task, Step(k) PROVE TrippedIsTransient' /\ HealedIsTransient'
    <2> USE DEF Goto, breakerVars
    <2>t. pc \in [Task -> Pc] /\ failures \in 0..FailureThreshold /\ successes \in 0..SuccessThreshold
        BY DEF Typed
    <2>1. CASE IsAvailable(k)
        BY <2>1, <2>t DEF IsAvailable
    <2>2. CASE StateLoad(k)
        BY <2>2, <2>t DEF StateLoad, Return
    <2>3. CASE StateNow(k) \/ StateOpened(k)
        BY <2>3, <2>t DEF StateNow, StateOpened, Return
    <2>4. CASE StateCas(k)
        BY <2>4, <2>t DEF StateCas
    <2>5. CASE StateReset(k)
        BY <2>5, <2>t DEF StateReset, Return
    <2>6. CASE StateReload(k)
        BY <2>6, <2>t DEF StateReload, Return
    <2>7. CASE TryEnterProbe(k) \/ DispatchBare(k) \/ GiveUp(k)
        BY <2>7, <2>t DEF TryEnterProbe, DispatchBare, GiveUp
    <2>8. CASE ProbeAdd(k) \/ ProbeLoad(k) \/ ProbeCas(k)
        BY <2>8, <2>t DEF ProbeAdd, ProbeLoad, ProbeCas
    <2>9. CASE Finish(k)
        BY <2>9, <2>t DEF Finish, CallEnd
    <2>10. CASE OkLoad(k)
        BY <2>10, <2>t DEF OkLoad
    <2>11. CASE OkReset(k)
        BY <2>11, <2>t DEF OkReset
    <2>12. CASE OkAdd(k)
        BY <2>12, <2>t DEF OkAdd, Count
    <2>13. CASE FailLoad(k)
        BY <2>13, <2>t DEF FailLoad
    <2>14. CASE FailAdd(k)
        BY <2>14, <2>t DEF FailAdd, Count
    <2>15. CASE OpenState(k)
        BY <2>15, <2>t DEF OpenState
    <2>16. CASE OpenNow(k) \/ OpenStamp(k) \/ OpenSucc(k)
        BY <2>16, <2>t DEF OpenNow, OpenStamp, OpenSucc
    <2>17. CASE CloseState(k)
        BY <2>17, <2>t DEF CloseState
    <2>18. CASE CloseFailures(k) \/ CloseSucc(k)
        BY <2>18, <2>t DEF CloseFailures, CloseSucc
    <2> QED
        BY <1>3, <2>1, <2>2, <2>3, <2>4, <2>5, <2>6, <2>7, <2>8, <2>9, <2>10,
           <2>11, <2>12, <2>13, <2>14, <2>15, <2>16, <2>17, <2>18 DEF Step
<1> QED
    BY <1>1, <1>2, <1>3 DEF Next

\* A Closed breaker with a tripped count is always on its way out.
THEOREM NoStrandedClosed == Spec => []TrippedIsTransient
BY TypedInit, TypedNext, TransientInit, TransientNext, PTL DEF Spec

\* A HalfOpen breaker with enough successes is always on its way out.
THEOREM NoStrandedHalfOpen == Spec => []HealedIsTransient
BY TypedInit, TypedNext, TransientInit, TransientNext, PTL DEF Spec

=============================================================================
