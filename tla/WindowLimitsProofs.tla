-------------------------- MODULE WindowLimitsProofs --------------------------
(***************************************************************************)
(* Proofs about WindowLimits, for any number of requests and scopes, any    *)
(* caps, thresholds, modes and calendar: a hard request cap is exact and an *)
(* alert is raised once while windows are used in order, a hard budget      *)
(* overshoots by what is in flight, and no soft-budget crossing goes        *)
(* unannounced in any order.                                                *)
(***************************************************************************)
EXTENDS WindowLimits, FiniteSetTheorems, WellFoundedInduction, TLAPS

CostCounter == Scope \X CostMeter

LEMMA CostCounterIsCounter == CostCounter \subseteq Counter
BY DEF CostCounter, Counter, CostMeter, Meter

\* The phases of a request, and what its plan may then hold.
PlanInv ==
    \A r \in Request :
        /\ pc[r] = "consume" => \A q \in todo[r] : q[2] = "req" /\ Configured(q)
        /\ pc[r] \in {"settle", "peek", "fire"} => \A q \in todo[r] : q[2] # "req"
        /\ pc[r] \in {"peek", "fire"} => at[r] \in CostCounter
        /\ pc[r] \in {"idle", "check", "consume", "call"} => told[r] = {}

\* Typing of what the actions read.
Typed ==
    /\ ctr \in [Counter -> [e : Window, c : 0..CountMask]]
    /\ pc \in [Request -> Phase]
    /\ t \in [Request -> Time]
    /\ clock \in Time
    /\ todo \in [Request -> SUBSET Counter]
    /\ scopes \in [Request -> SUBSET Scope]
    /\ usage \in [Request -> [tokens : Nat, cost : Nat]]
    /\ at \in [Request -> Counter \cup {Unlimited}]
    /\ told \in [Request -> SUBSET Scope]
    /\ flag \in [CostCounter -> Window \cup {Unlimited}]
    /\ used \in [Counter -> [Window -> Nat]]
    /\ fired \in [CostCounter -> [Window -> Nat]]

BaseInv == Typed /\ PlanInv

-----------------------------------------------------------------------------
\* Facts about the operators

LEMMA EpochType ==
    ASSUME NEW p \in Counter, NEW time \in Time
    PROVE  Epoch(p, time) \in Window
BY EpochAssumption DEF Epoch, Counter

LEMMA SaturateType ==
    ASSUME NEW n \in Nat
    PROVE  Saturate(n) \in 0..CountMask /\ (n <= CountMask => Saturate(n) = n)
BY CountMaskAssumption DEF Saturate

LEMMA PeekType ==
    ASSUME Typed, NEW p \in Counter, NEW e
    PROVE  Peek(p, e) \in 0..CountMask
BY CountMaskAssumption DEF Typed, Peek

LEMMA PlanTypes ==
    ASSUME NEW g \in SUBSET Scope
    PROVE  /\ CheckPlan(g) \subseteq Counter
           /\ ConsumePlan(g) \subseteq Counter
           /\ SettlePlan(g) \subseteq Counter
           /\ \A q \in ConsumePlan(g) : q[2] = "req" /\ Configured(q)
           /\ \A q \in SettlePlan(g) : q[2] # "req"
BY DEF CheckPlan, ConsumePlan, SettlePlan, Counter, Meter

\* One exchange on counter p: the other counters, and the other windows of p,
\* keep what they have.
LEMMA AddEffect ==
    ASSUME Typed, NEW p \in Counter, NEW e \in Window, NEW n \in Nat, Add(p, e, n)
    PROVE  /\ ctr' \in [Counter -> [e : Window, c : 0..CountMask]]
           /\ used' \in [Counter -> [Window -> Nat]]
           /\ ctr'[p] = [e |-> e, c |-> Saturate(Peek(p, e) + n)]
           /\ \A q \in Counter : q # p => ctr'[q] = ctr[q] /\ used'[q] = used[q]
           /\ \A d \in Window : used'[p][d] = IF d = e THEN used[p][e] + n ELSE used[p][d]
<1>1. Peek(p, e) + n \in Nat
    BY PeekType, CountMaskAssumption
<1>2. Saturate(Peek(p, e) + n) \in 0..CountMask
    BY <1>1, SaturateType
<1>3. /\ ctr' = [ctr EXCEPT ![p] = [e |-> e, c |-> Saturate(Peek(p, e) + n)]]
      /\ used' = [used EXCEPT ![p][e] = @ + n]
    BY DEF Add
<1>4. ctr \in [Counter -> [e : Window, c : 0..CountMask]] /\ used \in [Counter -> [Window -> Nat]]
    BY DEF Typed
<1>5. [e |-> e, c |-> Saturate(Peek(p, e) + n)] \in [e : Window, c : 0..CountMask]
    BY <1>2
<1>6. used[p][e] + n \in Nat
    BY <1>4
<1> QED
    BY <1>3, <1>4, <1>5, <1>6

\* A claim of the flag of counter p for window e.
LEMMA FireEffect ==
    ASSUME Typed, NEW p \in CostCounter, NEW e \in Window, TryFire(p, e)
    PROVE  /\ flag' \in [CostCounter -> Window \cup {Unlimited}]
           /\ fired' \in [CostCounter -> [Window -> Nat]]
           /\ flag'[p] = e
           /\ \A q \in CostCounter : q # p => flag'[q] = flag[q] /\ fired'[q] = fired[q]
           /\ \A d \in Window : fired'[p][d] =
                 IF d = e /\ flag[p] # e THEN fired[p][d] + 1 ELSE fired[p][d]
<1>1. /\ flag \in [CostCounter -> Window \cup {Unlimited}]
      /\ fired \in [CostCounter -> [Window -> Nat]]
    BY DEF Typed
<1>2. CASE flag[p] = e
    <2>1. flag' = flag /\ fired' = fired
        BY <1>2 DEF TryFire
    <2> QED BY <1>1, <1>2, <2>1
<1>3. CASE flag[p] # e
    <2>1. /\ flag' = [flag EXCEPT ![p] = e]
          /\ fired' = [fired EXCEPT ![p][e] = @ + 1]
        BY <1>3 DEF TryFire
    <2>2. fired[p][e] + 1 \in Nat
        BY <1>1
    <2> QED BY <1>1, <1>3, <2>1, <2>2
<1> QED
    BY <1>2, <1>3

-----------------------------------------------------------------------------
\* Typing and plans

LEMMA BaseInit == Init => BaseInv
<1> SUFFICES ASSUME Init PROVE BaseInv
    OBVIOUS
<1>1. Typed
    BY MaxClockAssumption, CountMaskAssumption
       DEF Init, Typed, Nothing, Phase, Window, Time, CostCounter
<1>2. PlanInv
    BY DEF Init, PlanInv
<1> QED
    BY <1>1, <1>2 DEF BaseInv

LEMMA LeaveEffect ==
    ASSUME BaseInv, NEW r \in Request, Leave(r), MaxClock \in Nat
    PROVE  /\ pc' \in [Request -> Phase] /\ todo' \in [Request -> SUBSET Counter]
           /\ scopes' \in [Request -> SUBSET Scope] /\ t' \in [Request -> Time]
           /\ usage' \in [Request -> [tokens : Nat, cost : Nat]]
           /\ at' \in [Request -> Counter \cup {Unlimited}]
           /\ told' \in [Request -> SUBSET Scope]
           /\ PlanInv'
<1>1. Typed /\ PlanInv
    BY DEF BaseInv
<1>2. /\ pc' \in [Request -> Phase] /\ todo' \in [Request -> SUBSET Counter]
      /\ scopes' \in [Request -> SUBSET Scope] /\ t' \in [Request -> Time]
      /\ usage' \in [Request -> [tokens : Nat, cost : Nat]]
      /\ at' \in [Request -> Counter \cup {Unlimited}]
      /\ told' \in [Request -> SUBSET Scope]
    BY <1>1 DEF Leave, Phased, Nothing, Phase, Time, Typed
<1>3. PlanInv'
    BY <1>1 DEF Leave, Phased, PlanInv, Typed, Configured, Cap
<1> QED
    BY <1>2, <1>3

LEMMA BaseNext == BaseInv /\ [Next]_vars => BaseInv'
<1> SUFFICES ASSUME BaseInv, [Next]_vars PROVE BaseInv'
    OBVIOUS
<1>0. Typed /\ PlanInv
    BY DEF BaseInv
<1> USE MaxClockAssumption
<1>1. CASE UNCHANGED vars
    <2>1. Typed'
        BY <1>0, <1>1 DEF Typed, vars, local, history
    <2>2. PlanInv'
        BY <1>0, <1>1 DEF PlanInv, vars, local, history, Configured, Cap
    <2> QED BY <2>1, <2>2 DEF BaseInv
<1>2. CASE Tick
    <2>1. Typed'
        BY <1>0, <1>2 DEF Typed, Tick, local, history, Time
    <2>2. PlanInv'
        BY <1>0, <1>2 DEF PlanInv, Tick, local, history, Configured, Cap
    <2> QED BY <2>1, <2>2 DEF BaseInv
<1>3. ASSUME NEW r \in Request, Step(r) PROVE BaseInv'
    <2>1. CASE Admit(r)
        <3>1. PICK g \in Guards : /\ scopes' = [scopes EXCEPT ![r] = g]
                                  /\ Phased(r, "check", CheckPlan(g))
            BY <2>1 DEF Admit
        <3>2. g \in SUBSET Scope
            BY GuardsAssumption
        <3>3. CheckPlan(g) \subseteq Counter
            BY <3>2, PlanTypes
        <3>4. Typed'
            BY <1>0, <2>1, <3>1, <3>2, <3>3 DEF Admit, Phased, Typed, history, Phase
        <3>5. PlanInv'
            BY <1>0, <2>1, <3>1 DEF Admit, Phased, Typed, PlanInv, Configured, Cap
        <3> QED BY <3>4, <3>5 DEF BaseInv
    <2>2. CASE Check(r)
        <3>1. PICK p \in todo[r] :
                  \/ Leave(r)
                  \/ /\ Phased(r, "check", todo[r] \ {p})
                     /\ UNCHANGED <<scopes, t, usage, at, told>>
            BY <2>2 DEF Check
        <3>2. UNCHANGED <<ctr, flag, clock, history>> /\ pc[r] = "check"
            BY <2>2 DEF Check
        <3>3. CASE Leave(r)
            BY <1>0, <3>2, <3>3, LeaveEffect DEF BaseInv, Typed, history
        <3>4. CASE /\ Phased(r, "check", todo[r] \ {p})
                   /\ UNCHANGED <<scopes, t, usage, at, told>>
            <4>1. Typed'
                BY <1>0, <3>2, <3>4 DEF Phased, Typed, history, Phase
            <4>2. PlanInv'
                BY <1>0, <3>2, <3>4 DEF Phased, Typed, PlanInv, Configured, Cap
            <4> QED BY <4>1, <4>2 DEF BaseInv
        <3> QED BY <3>1, <3>3, <3>4
    <2>3. CASE StartConsume(r)
        <3>1. scopes[r] \in SUBSET Scope
            BY <1>0 DEF Typed
        <3>2. /\ ConsumePlan(scopes[r]) \subseteq Counter
              /\ \A q \in ConsumePlan(scopes[r]) : q[2] = "req" /\ Configured(q)
            BY <3>1, PlanTypes
        <3>3. Typed'
            BY <1>0, <2>3, <3>2 DEF StartConsume, Phased, Typed, history, Phase
        <3>4. PlanInv'
            BY <1>0, <2>3, <3>2 DEF StartConsume, Phased, Typed, PlanInv, Configured, Cap
        <3> QED BY <3>3, <3>4 DEF BaseInv
    <2>4. CASE Consume(r)
        <3>1. PICK p \in todo[r] :
                  \/ Leave(r) /\ UNCHANGED <<ctr, used, back>>
                  \/ /\ Add(p, Epoch(p, t[r]), 1)
                     /\ Phased(r, "consume", todo[r] \ {p})
                     /\ UNCHANGED <<scopes, t, usage, at, told>>
            BY <2>4 DEF Consume
        <3>2. UNCHANGED <<flag, clock, fired>> /\ pc[r] = "consume"
            BY <2>4 DEF Consume
        <3>3. CASE Leave(r) /\ UNCHANGED <<ctr, used, back>>
            BY <1>0, <3>2, <3>3, LeaveEffect DEF BaseInv, Typed
        <3>4. CASE /\ Add(p, Epoch(p, t[r]), 1)
                   /\ Phased(r, "consume", todo[r] \ {p})
                   /\ UNCHANGED <<scopes, t, usage, at, told>>
            <4>1. p \in Counter /\ t[r] \in Time
                BY <1>0 DEF Typed
            <4>2. /\ ctr' \in [Counter -> [e : Window, c : 0..CountMask]]
                  /\ used' \in [Counter -> [Window -> Nat]]
                BY <1>0, <3>4, <4>1, EpochType, AddEffect
            <4>3. Typed'
                BY <1>0, <3>2, <3>4, <4>2 DEF Phased, Typed, Phase
            <4>4. PlanInv'
                BY <1>0, <3>2, <3>4 DEF Phased, Typed, PlanInv, Configured, Cap
            <4> QED BY <4>3, <4>4 DEF BaseInv
        <3> QED BY <3>1, <3>3, <3>4
    <2>5. CASE Dispatch(r)
        <3>1. Typed'
            BY <1>0, <2>5 DEF Dispatch, Phased, Typed, history, Phase
        <3>2. PlanInv'
            BY <1>0, <2>5 DEF Dispatch, Phased, Typed, PlanInv, Configured, Cap
        <3> QED BY <3>1, <3>2 DEF BaseInv
    <2>6. CASE Abandon(r) \/ SettleDone(r)
        <3>1. Leave(r) /\ UNCHANGED <<ctr, flag, clock, history>>
            BY <2>6 DEF Abandon, SettleDone
        <3> QED
            BY <1>0, <3>1, LeaveEffect DEF BaseInv, Typed, history
    <2>7. CASE Settle(r)
        <3>1. scopes[r] \in SUBSET Scope
            BY <1>0 DEF Typed
        <3>2. /\ SettlePlan(scopes[r]) \subseteq Counter
              /\ \A q \in SettlePlan(scopes[r]) : q[2] # "req"
            BY <3>1, PlanTypes
        <3>3. Typed'
            BY <1>0, <2>7, <3>2, UsageAssumption DEF Settle, Phased, Typed, history, Phase
        <3>4. PlanInv'
            BY <1>0, <2>7, <3>2 DEF Settle, Phased, Typed, PlanInv, Configured, Cap
        <3> QED BY <3>3, <3>4 DEF BaseInv
    <2>8. CASE Debit(r)
        <3>1. PICK p \in todo[r] :
                  /\ Add(p, Epoch(p, t[r]), Amount(r, p))
                  /\ Phased(r, IF Alerting(r, p) THEN "peek" ELSE "settle", todo[r] \ {p})
                  /\ at' = [at EXCEPT ![r] = IF Alerting(r, p) THEN p ELSE Unlimited]
            BY <2>8 DEF Debit
        <3>2. UNCHANGED <<flag, clock, scopes, t, usage, told, fired>> /\ pc[r] = "settle"
            BY <2>8 DEF Debit
        <3>3. p \in Counter /\ t[r] \in Time /\ Amount(r, p) \in Nat
            BY <1>0 DEF Typed, Amount
        <3>4. /\ ctr' \in [Counter -> [e : Window, c : 0..CountMask]]
              /\ used' \in [Counter -> [Window -> Nat]]
            BY <1>0, <3>1, <3>3, EpochType, AddEffect
        <3>5. Typed'
            BY <1>0, <3>1, <3>2, <3>3, <3>4 DEF Phased, Typed, Phase
        <3>6. Alerting(r, p) => p \in CostCounter
            BY <3>3 DEF Alerting, CostCounter, Counter
        <3>7. PlanInv'
            BY <1>0, <3>1, <3>2, <3>6 DEF Phased, Typed, PlanInv, Configured, Cap
        <3> QED BY <3>5, <3>7 DEF BaseInv
    <2>9. CASE AlertPeek(r)
        <3> DEFINE crossed == Crossed(at[r], Peek(at[r], Epoch(at[r], t[r])))
        <3>1. /\ pc' = [pc EXCEPT ![r] = IF crossed THEN "fire" ELSE "settle"]
              /\ at' = IF crossed THEN at ELSE [at EXCEPT ![r] = Unlimited]
              /\ UNCHANGED <<ctr, flag, clock, scopes, t, usage, todo, told, history>>
              /\ pc[r] = "peek"
            BY <2>9 DEF AlertPeek
        <3> HIDE DEF crossed
        <3>2. Typed'
            BY <1>0, <3>1 DEF Typed, history, Phase
        <3>3. PlanInv'
            BY <1>0, <3>1 DEF Typed, PlanInv, Configured, Cap
        <3> QED BY <3>2, <3>3 DEF BaseInv
    <2>10. CASE AlertFire(r)
        <3>1. pc[r] = "fire" /\ at[r] \in CostCounter /\ at[r] \in Counter /\ t[r] \in Time
            BY <1>0, <2>10, CostCounterIsCounter DEF AlertFire, PlanInv, Typed
        <3>2. Epoch(at[r], t[r]) \in Window
            BY <3>1, EpochType
        <3>3. flag' \in [CostCounter -> Window \cup {Unlimited}]
              /\ fired' \in [CostCounter -> [Window -> Nat]]
            BY <1>0, <2>10, <3>1, <3>2, FireEffect DEF AlertFire
        <3>4. at[r][1] \in Scope
            BY <3>1 DEF CostCounter
        <3>5. told' \in [Request -> SUBSET Scope]
            BY <1>0, <2>10, <3>4 DEF AlertFire, Typed
        <3>6. Typed'
            BY <1>0, <2>10, <3>3, <3>5 DEF AlertFire, Typed, Phase
        <3>7. PlanInv'
            BY <1>0, <2>10, <3>1 DEF AlertFire, Typed, PlanInv, Configured, Cap
        <3> QED BY <3>6, <3>7 DEF BaseInv
    <2> QED
        BY <1>3, <2>1, <2>2, <2>3, <2>4, <2>5, <2>6, <2>7, <2>8, <2>9, <2>10 DEF Step
<1> QED
    BY <1>1, <1>2, <1>3 DEF Next

-----------------------------------------------------------------------------
\* Exactness of hard request caps

\* While the windows of p are used in order the word holds what its window was
\* charged, later windows have been charged nothing, and earlier ones no more
\* than the cap.
InOrder(p) ==
    /\ used[p][ctr[p].e] = ctr[p].c
    /\ \A e \in Window : e > ctr[p].e => used[p][e] = 0
    /\ \A e \in Window : used[p][e] <= Cap(p)

ExactInv ==
    \A p \in RateHard \X {"req"} : Configured(p) =>
        ctr[p].c <= Cap(p) /\ (p \notin back => InOrder(p))

LEMMA RequestCounter ==
    ASSUME NEW p \in RateHard \X {"req"}
    PROVE  p \in Counter /\ p[2] = "req" /\ IsHard(p)
           /\ (Configured(p) => Cap(p) \in 0..CountMask)
<1>1. p \in Counter /\ p[2] = "req" /\ p[1] \in RateHard /\ p[1] \in Scope
    BY ModeAssumption DEF Counter, Meter
<1>2. IsHard(p)
    BY <1>1 DEF IsHard
<1>3. Limit[p[1]][p[2]] \in (0..CountMask) \cup {Unlimited}
    BY <1>1, LimitAssumption DEF Counter
<1> QED
    BY <1>1, <1>2, <1>3 DEF Configured, Cap

LEMMA ExactInit == Init => ExactInv
<1> SUFFICES ASSUME Init, NEW p \in RateHard \X {"req"}, Configured(p)
             PROVE  ctr[p].c <= Cap(p) /\ InOrder(p)
    BY DEF ExactInv
<1>1. p \in Counter /\ Cap(p) \in 0..CountMask
    BY RequestCounter
<1>2. 0 \in Window
    BY MaxClockAssumption DEF Window
<1> QED
    BY <1>1, <1>2, CountMaskAssumption DEF Init, InOrder

\* What leaves the counters alone leaves the invariant alone.
LEMMA ExactQuiet ==
    ASSUME ExactInv, UNCHANGED <<ctr, used, back>>
    PROVE  ExactInv'
BY DEF ExactInv, InOrder, Configured, Cap

\* So does charging a counter that is no request counter.
LEMMA ExactOther ==
    ASSUME ExactInv, Typed, NEW q \in Counter, q[2] # "req",
           NEW e \in Window, NEW n \in Nat, Add(q, e, n)
    PROVE  ExactInv'
<1> SUFFICES ASSUME NEW p \in RateHard \X {"req"}, Configured(p)
             PROVE  ctr'[p].c <= Cap(p) /\ (p \notin back' => InOrder(p)')
    BY DEF ExactInv, Configured, Cap
<1>1. p \in Counter /\ p # q
    BY RequestCounter
<1>2. ctr'[p] = ctr[p] /\ used'[p] = used[p]
    BY <1>1, AddEffect
<1>3. p \notin back' => p \notin back
    BY DEF Add
<1>4. ctr[p].c <= Cap(p) /\ (p \notin back => InOrder(p))
    BY DEF ExactInv
<1> QED
    BY <1>2, <1>3, <1>4 DEF InOrder, Cap

\* The exchange of try_consume that succeeds found the window below the cap.
LEMMA ExactConsume ==
    ASSUME ExactInv, Typed, NEW q \in Counter, q[2] = "req", Configured(q),
           NEW e \in Window, Add(q, e, 1), ~IsHard(q) \/ Peek(q, e) < Cap(q)
    PROVE  ExactInv'
<1> SUFFICES ASSUME NEW p \in RateHard \X {"req"}, Configured(p)
             PROVE  ctr'[p].c <= Cap(p) /\ (p \notin back' => InOrder(p)')
    BY DEF ExactInv, Configured, Cap
<1>1. p \in Counter /\ IsHard(p) /\ Cap(p) \in 0..CountMask
    BY RequestCounter
<1>2. ctr[p].c <= Cap(p) /\ (p \notin back => InOrder(p))
    BY DEF ExactInv
<1>3. CASE p # q
    <2>1. ctr'[p] = ctr[p] /\ used'[p] = used[p]
        BY <1>1, <1>3, AddEffect
    <2>2. p \notin back' => p \notin back
        BY DEF Add
    <2> QED BY <1>2, <2>1, <2>2 DEF InOrder, Cap
<1>4. CASE p = q
    <2>1. Peek(p, e) \in 0..CountMask /\ Peek(p, e) + 1 <= Cap(p)
        BY <1>1, <1>4, PeekType, CountMaskAssumption
    <2>2. Saturate(Peek(p, e) + 1) = Peek(p, e) + 1
        BY <1>1, <2>1, SaturateType, CountMaskAssumption
    <2>3. /\ ctr'[p].e = e /\ ctr'[p].c = Peek(p, e) + 1
          /\ \A d \in Window : used'[p][d] = IF d = e THEN used[p][e] + 1 ELSE used[p][d]
        <3>1. Add(p, e, 1) /\ 1 \in Nat
            BY <1>4
        <3>2. /\ ctr'[p] = [e |-> e, c |-> Saturate(Peek(p, e) + 1)]
              /\ \A d \in Window : used'[p][d] = IF d = e THEN used[p][e] + 1 ELSE used[p][d]
            BY <1>1, <3>1, AddEffect
        <3> QED BY <2>2, <3>2
    <2>4. ASSUME p \notin back' PROVE InOrder(p)'
        <3>1. p \notin back /\ e >= ctr[p].e
            BY <1>1, <1>4, <2>4, MaxClockAssumption DEF Add, Typed, Window
        <3>2. InOrder(p)
            BY <1>2, <3>1
        <3>3. ctr[p].e \in Window /\ ctr[p].c \in Nat /\ used[p] \in [Window -> Nat]
            BY <1>1, CountMaskAssumption DEF Typed
        <3>4. used[p][e] = Peek(p, e)
            BY <3>1, <3>2, <3>3, MaxClockAssumption DEF InOrder, Peek, Window
        <3>5. used'[p][ctr'[p].e] = ctr'[p].c
            BY <2>3, <3>4
        <3>6. \A d \in Window : d > ctr'[p].e => used'[p][d] = 0
            <4> SUFFICES ASSUME NEW d \in Window, d > e PROVE used'[p][d] = 0
                BY <2>3
            <4>1. d > ctr[p].e /\ d # e
                BY <3>1, <3>3, MaxClockAssumption DEF Window
            <4> QED BY <2>3, <3>2, <4>1 DEF InOrder
        <3>7. \A d \in Window : used'[p][d] <= Cap(p)
            BY <2>1, <2>3, <3>2, <3>4 DEF InOrder
        <3> QED BY <3>5, <3>6, <3>7 DEF InOrder, Cap
    <2> QED BY <2>1, <2>3, <2>4
<1> QED
    BY <1>3, <1>4

LEMMA ExactNext == BaseInv /\ ExactInv /\ [Next]_vars => ExactInv'
<1> SUFFICES ASSUME BaseInv, ExactInv, [Next]_vars PROVE ExactInv'
    OBVIOUS
<1>0. Typed /\ PlanInv
    BY DEF BaseInv
<1>1. CASE UNCHANGED vars
    BY <1>1, ExactQuiet DEF vars, history
<1>2. CASE Tick
    BY <1>2, ExactQuiet DEF Tick, history
<1>3. ASSUME NEW r \in Request, Step(r) PROVE ExactInv'
    <2>1. CASE Consume(r)
        <3>1. PICK p \in todo[r] :
                  \/ UNCHANGED <<ctr, used, back>>
                  \/ /\ ~IsHard(p) \/ Peek(p, Epoch(p, t[r])) < Cap(p)
                     /\ Add(p, Epoch(p, t[r]), 1)
            BY <2>1 DEF Consume
        <3>2. p \in Counter /\ t[r] \in Time /\ p[2] = "req" /\ Configured(p)
            BY <1>0, <2>1 DEF Consume, Typed, PlanInv
        <3>3. Epoch(p, t[r]) \in Window
            BY <3>2, EpochType
        <3> QED BY <1>0, <3>1, <3>2, <3>3, ExactQuiet, ExactConsume
    <2>2. CASE Debit(r)
        <3>1. PICK p \in todo[r] : Add(p, Epoch(p, t[r]), Amount(r, p))
            BY <2>2 DEF Debit
        <3>2. p \in Counter /\ t[r] \in Time /\ p[2] # "req" /\ Amount(r, p) \in Nat
            BY <1>0, <2>2 DEF Debit, Typed, PlanInv, Amount
        <3>3. Epoch(p, t[r]) \in Window
            BY <3>2, EpochType
        <3> QED BY <1>0, <3>1, <3>2, <3>3, ExactOther
    <2>3. CASE Admit(r) \/ Check(r) \/ StartConsume(r) \/ Dispatch(r) \/ Abandon(r)
        BY <2>3, ExactQuiet DEF Admit, Check, StartConsume, Dispatch, Abandon, history
    <2>4. CASE Settle(r) \/ AlertPeek(r) \/ AlertFire(r) \/ SettleDone(r)
        BY <2>4, ExactQuiet DEF Settle, AlertPeek, AlertFire, SettleDone, history
    <2> QED BY <1>3, <2>1, <2>2, <2>3, <2>4 DEF Step
<1> QED
    BY <1>1, <1>2, <1>3 DEF Next

\* A hard requests_per_min is exact over every interleaving, for every window,
\* as long as try_consume never set the counter back to an earlier window.
THEOREM HardCapIsExact == Spec => []RequestsExact
<1>1. Init => BaseInv /\ ExactInv
    BY BaseInit, ExactInit
<1>2. BaseInv /\ ExactInv /\ [Next]_vars => BaseInv' /\ ExactInv'
    BY BaseNext, ExactNext
<1>3. ExactInv => RequestsExact
    <2> SUFFICES ASSUME ExactInv, NEW s \in RateHard, Configured(<<s, "req">>),
                        <<s, "req">> \notin back
                 PROVE  \A e \in Window : used[<<s, "req">>][e] <= Cap(<<s, "req">>)
        BY DEF RequestsExact
    <2>1. <<s, "req">> \in RateHard \X {"req"}
        OBVIOUS
    <2> QED BY <2>1 DEF ExactInv, InOrder
<1> QED
    BY <1>1, <1>2, <1>3, PTL DEF Spec

-----------------------------------------------------------------------------
\* The rest of the type invariant

Rest == arrived \in 0..MaxArrivals /\ back \subseteq Counter /\ fback \subseteq CostCounter

LEMMA RestNext == BaseInv /\ Rest /\ [Next]_vars => Rest'
<1> SUFFICES ASSUME BaseInv, Rest, [Next]_vars PROVE Rest'
    OBVIOUS
<1>0. Typed /\ PlanInv
    BY DEF BaseInv
<1>1. CASE UNCHANGED vars
    BY <1>1 DEF Rest, vars, history
<1>2. CASE Tick
    BY <1>2 DEF Rest, Tick, history
<1>3. ASSUME NEW r \in Request, Step(r) PROVE Rest'
    <2>1. CASE Admit(r)
        BY <2>1, MaxClockAssumption DEF Rest, Admit, history
    <2>2. CASE Consume(r) \/ Debit(r)
        <3>1. UNCHANGED <<arrived, fback>>
            BY <2>2 DEF Consume, Debit
        <3>2. \/ back' = back
              \/ \E p \in todo[r] : \E e, n : Add(p, e, n)
            BY <2>2 DEF Consume, Debit
        <3>3. todo[r] \subseteq Counter
            BY <1>0 DEF Typed
        <3>4. back' \subseteq Counter
            BY <3>2, <3>3 DEF Rest, Add
        <3> QED BY <3>1, <3>4 DEF Rest
    <2>3. CASE AlertFire(r)
        <3>1. at[r] \in CostCounter
            BY <1>0, <2>3 DEF AlertFire, PlanInv
        <3> QED BY <2>3, <3>1 DEF AlertFire, TryFire, Rest
    <2>4. CASE Check(r) \/ StartConsume(r) \/ Dispatch(r) \/ Abandon(r)
        BY <2>4 DEF Rest, Check, StartConsume, Dispatch, Abandon, history
    <2>5. CASE Settle(r) \/ AlertPeek(r) \/ SettleDone(r)
        BY <2>5 DEF Rest, Settle, AlertPeek, SettleDone, history
    <2> QED BY <1>3, <2>1, <2>2, <2>3, <2>4, <2>5 DEF Step
<1> QED
    BY <1>1, <1>2, <1>3 DEF Next

\* Every variable keeps its type: counts stay below COUNT_MASK, and the alert
\* under decision is always that of a cost counter.
THEOREM TypeCorrect == Spec => []TypeOK
<1>1. Init => BaseInv /\ Rest
    BY BaseInit, MaxClockAssumption DEF Init, Rest
<1>2. BaseInv /\ Rest /\ [Next]_vars => BaseInv' /\ Rest'
    BY BaseNext, RestNext
<1>3. BaseInv /\ Rest => TypeOK
    BY DEF BaseInv, Typed, Rest, TypeOK, CostCounter
<1> QED
    BY <1>1, <1>2, <1>3, PTL DEF Spec

-----------------------------------------------------------------------------
\* Announced crossings

Monthly(p) == p[2] = "cost_monthly"
DailyOf(p) == <<p[1], "cost_daily">>

\* The cost counters whose crossing every settle decides.
Decided(p) ==
    /\ Configured(p)
    /\ Threshold[p[1]] # Unlimited
    /\ Monthly(p) => ~Configured(DailyOf(p))

\* Request r is about to decide the alert of p for the window e.
Pending(r, p, e) == pc[r] \in {"peek", "fire"} /\ at[r] = p /\ Epoch(p, t[r]) = e

\* A flag that is set for a window was fired for it.
FlagInv == \A p \in CostCounter : flag[p] # Unlimited => fired[p][flag[p]] >= 1

\* settle visits the daily budget of a scope before the monthly one, so an alert
\* already told rules out only the monthly counter of a scope that has both.
OrderInv ==
    \A r \in Request :
        /\ \A q \in todo[r] : Configured(q)
        /\ pc[r] \in {"peek", "fire"} =>
              at[r] \notin todo[r] /\ Configured(at[r]) /\ (Monthly(at[r]) => DailyOf(at[r]) \notin todo[r])
        /\ \A q \in todo[r] : q \in CostCounter /\ Decided(q) => q[1] \notin told[r]

CrossInv ==
    \A p \in CostCounter : Decided(p) /\ ctr[p].c > 0 /\ Crossed(p, ctr[p].c) =>
        \/ \E r \in Request : Pending(r, p, ctr[p].e)
        \/ fired[p][ctr[p].e] >= 1

LEMMA AlertInit == Init => FlagInv /\ OrderInv /\ CrossInv
<1> SUFFICES ASSUME Init PROVE FlagInv /\ OrderInv /\ CrossInv
    OBVIOUS
<1>1. FlagInv
    BY DEF Init, FlagInv, CostCounter
<1>2. OrderInv
    BY DEF Init, OrderInv
<1>3. CrossInv
    BY CostCounterIsCounter DEF Init, CrossInv
<1> QED
    BY <1>1, <1>2, <1>3

LEMMA PlansConfigured ==
    ASSUME NEW g
    PROVE  /\ \A q \in CheckPlan(g) : Configured(q)
           /\ \A q \in ConsumePlan(g) : Configured(q)
           /\ \A q \in SettlePlan(g) : Configured(q)
BY DEF CheckPlan, ConsumePlan, SettlePlan

\* A request whose plan only shrinks, outside the alert decision.
LEMMA OrderShrinks ==
    ASSUME OrderInv, Typed, NEW r \in Request, NEW ph \in Phase \ {"peek", "fire"},
           NEW plan \in SUBSET todo[r], Phased(r, ph, plan), told' = told,
           \A k \in Request : k # r => at'[k] = at[k]
    PROVE  OrderInv'
BY DEF OrderInv, Typed, Phased, Configured, Cap, Decided, Monthly, DailyOf

LEMMA OrderNext == BaseInv /\ OrderInv /\ [Next]_vars => OrderInv'
<1> SUFFICES ASSUME BaseInv, OrderInv, [Next]_vars PROVE OrderInv'
    OBVIOUS
<1>0. Typed /\ PlanInv
    BY DEF BaseInv
<1> USE DEF Configured, Cap, Decided, Monthly, DailyOf
<1>1. CASE UNCHANGED vars
    BY <1>1 DEF OrderInv, vars, local
<1>2. CASE Tick
    BY <1>2 DEF OrderInv, Tick, local
<1>3. ASSUME NEW r \in Request, Step(r) PROVE OrderInv'
    <2>a. ASSUME Leave(r) PROVE OrderInv'
        BY <1>0, <2>a DEF Leave, Phased, OrderInv, Typed
    <2>1. CASE Admit(r)
        <3>1. PICK g \in Guards : Phased(r, "check", CheckPlan(g))
            BY <2>1 DEF Admit
        <3>2. \A q \in CheckPlan(g) : Configured(q)
            BY PlansConfigured
        <3>3. told[r] = {} /\ told' = told /\ at' = at
            BY <1>0, <2>1 DEF Admit, PlanInv
        <3> QED BY <1>0, <3>1, <3>2, <3>3 DEF Phased, OrderInv, Typed
    <2>2. CASE Check(r)
        <3>1. PICK p \in todo[r] :
                  \/ Leave(r)
                  \/ Phased(r, "check", todo[r] \ {p}) /\ UNCHANGED <<at, told>>
            BY <2>2 DEF Check
        <3>2. "check" \in Phase \ {"peek", "fire"} /\ todo[r] \ {p} \in SUBSET todo[r]
            BY DEF Phase
        <3> QED BY <1>0, <2>a, <3>1, <3>2, OrderShrinks
    <2>3. CASE StartConsume(r)
        <3>1. \A q \in ConsumePlan(scopes[r]) : Configured(q)
            BY PlansConfigured
        <3>2. told[r] = {} /\ told' = told /\ at' = at
            BY <1>0, <2>3 DEF StartConsume, PlanInv
        <3> QED BY <1>0, <2>3, <3>1, <3>2 DEF StartConsume, Phased, OrderInv, Typed
    <2>4. CASE Consume(r)
        <3>1. PICK p \in todo[r] :
                  \/ Leave(r)
                  \/ Phased(r, "consume", todo[r] \ {p}) /\ UNCHANGED <<at, told>>
            BY <2>4 DEF Consume
        <3>2. "consume" \in Phase \ {"peek", "fire"} /\ todo[r] \ {p} \in SUBSET todo[r]
            BY DEF Phase
        <3> QED BY <1>0, <2>a, <3>1, <3>2, OrderShrinks
    <2>5. CASE Dispatch(r)
        <3>1. "call" \in Phase \ {"peek", "fire"} /\ {} \in SUBSET todo[r]
            BY DEF Phase
        <3> QED BY <1>0, <2>5, <3>1, OrderShrinks DEF Dispatch
    <2>6. CASE Abandon(r) \/ SettleDone(r)
        BY <2>a, <2>6 DEF Abandon, SettleDone
    <2>7. CASE Settle(r)
        <3>1. \A q \in SettlePlan(scopes[r]) : Configured(q)
            BY PlansConfigured
        <3>2. told[r] = {} /\ told' = told /\ at' = at
            BY <1>0, <2>7 DEF Settle, PlanInv
        <3> QED BY <1>0, <2>7, <3>1, <3>2 DEF Settle, Phased, OrderInv, Typed
    <2>8. CASE Debit(r)
        <3>1. PICK p \in todo[r] :
                  /\ Visits(r, p)
                  /\ Phased(r, IF Alerting(r, p) THEN "peek" ELSE "settle", todo[r] \ {p})
                  /\ at' = [at EXCEPT ![r] = IF Alerting(r, p) THEN p ELSE Unlimited]
                  /\ told' = told
            BY <2>8 DEF Debit
        <3>2. p \in Counter /\ Configured(p)
            BY <1>0 DEF Typed, OrderInv
        <3>3. CASE ~Alerting(r, p)
            <4>1. "settle" \in Phase \ {"peek", "fire"} /\ todo[r] \ {p} \in SUBSET todo[r]
                BY DEF Phase
            <4>2. Phased(r, "settle", todo[r] \ {p}) /\ \A k \in Request : k # r => at'[k] = at[k]
                BY <1>0, <3>1, <3>3 DEF Typed
            <4> QED BY <1>0, <3>1, <4>1, <4>2, OrderShrinks
        <3>4. CASE Alerting(r, p)
            <4>1. Monthly(p) => DailyOf(p) \notin todo[r]
                <5> SUFFICES ASSUME p[2] = "cost_monthly", <<p[1], "cost_daily">> \in todo[r]
                             PROVE  FALSE
                    OBVIOUS
                <5>1. Before(p, <<p[1], "cost_daily">>)
                    BY <3>1 DEF Visits
                <5>2. Rank[p[1]] \in 0..2
                    BY <3>2, RankAssumption DEF Counter
                <5>3. Place["cost_monthly"] = 3 /\ Place["cost_daily"] = 2
                    BY DEF Place
                <5> QED BY <5>1, <5>2, <5>3 DEF Before
            <4> QED BY <1>0, <3>1, <3>2, <3>4, <4>1 DEF Phased, OrderInv, Typed
        <3> QED BY <3>3, <3>4
    <2>9. CASE AlertPeek(r)
        <3>1. \/ pc' = [pc EXCEPT ![r] = "fire"] /\ at' = at
              \/ pc' = [pc EXCEPT ![r] = "settle"] /\ at' = [at EXCEPT ![r] = Unlimited]
            BY <2>9 DEF AlertPeek
        <3>2. UNCHANGED <<todo, told>> /\ pc[r] = "peek"
            BY <2>9 DEF AlertPeek
        <3> QED BY <1>0, <3>1, <3>2 DEF OrderInv, Typed
    <2>10. CASE AlertFire(r)
        <3> DEFINE p == at[r]
        <3>1. /\ p \in CostCounter /\ p \notin todo[r] /\ Configured(p)
              /\ Monthly(p) => DailyOf(p) \notin todo[r]
            BY <1>0, <2>10 DEF AlertFire, PlanInv, OrderInv
        <3>2. ASSUME NEW q \in todo[r], q \in CostCounter, Decided(q) PROVE q[1] # p[1]
            BY <3>1, <3>2 DEF CostCounter, CostMeter
        <3>3. \A q \in todo[r] : q \in CostCounter /\ Decided(q) => q[1] \notin told[r] \cup {p[1]}
            BY <3>2 DEF OrderInv
        <3>4. /\ told' = [told EXCEPT ![r] = told'[r]]
              /\ told'[r] \subseteq told[r] \cup {p[1]}
              /\ pc' = [pc EXCEPT ![r] = "settle"]
              /\ at' = [at EXCEPT ![r] = Unlimited]
              /\ todo' = todo
            BY <1>0, <2>10 DEF AlertFire, Typed
        <3> QED BY <1>0, <3>3, <3>4 DEF OrderInv, Typed
    <2> QED
        BY <1>3, <2>1, <2>2, <2>3, <2>4, <2>5, <2>6, <2>7, <2>8, <2>9, <2>10 DEF Step
<1> QED
    BY <1>1, <1>2, <1>3 DEF Next

\* Only the winner of a flag writes it, and it counts the firing.
LEMMA FlagNext == BaseInv /\ FlagInv /\ [Next]_vars => FlagInv'
<1> SUFFICES ASSUME BaseInv, FlagInv, [Next]_vars PROVE FlagInv'
    OBVIOUS
<1>0. Typed /\ PlanInv
    BY DEF BaseInv
<1>1. CASE UNCHANGED <<flag, fired>>
    BY <1>1 DEF FlagInv
<1>2. ASSUME NEW r \in Request, AlertFire(r) PROVE FlagInv'
    <2> DEFINE p == at[r]
               e == Epoch(p, t[r])
    <2>1. p \in CostCounter /\ p \in Counter /\ t[r] \in Time
        BY <1>0, <1>2, CostCounterIsCounter DEF AlertFire, PlanInv, Typed
    <2>2. e \in Window /\ TryFire(p, e)
        BY <1>2, <2>1, EpochType DEF AlertFire
    <2> HIDE DEF p, e
    <2>3. /\ flag'[p] = e
          /\ \A q \in CostCounter : q # p => flag'[q] = flag[q] /\ fired'[q] = fired[q]
          /\ fired'[p][e] = IF flag[p] # e THEN fired[p][e] + 1 ELSE fired[p][e]
        BY <1>0, <2>1, <2>2, FireEffect
    <2>4. fired[p][e] \in Nat
        BY <1>0, <2>1, <2>2 DEF Typed
    <2>5. flag[p] = e => fired[p][e] >= 1
        BY <2>1, <2>2, UnlimitedAssumption, MaxClockAssumption DEF FlagInv, Window
    <2>6. fired'[p][e] >= 1
        BY <2>3, <2>4, <2>5
    <2> QED BY <2>1, <2>3, <2>6 DEF FlagInv
<1>3. ASSUME NEW r \in Request, Step(r) PROVE AlertFire(r) \/ UNCHANGED <<flag, fired>>
    BY <1>3 DEF Step, Admit, Check, StartConsume, Consume, Dispatch, Abandon, Settle, Debit,
                AlertPeek, SettleDone, history
<1> QED
    BY <1>1, <1>2, <1>3 DEF Next, Tick, vars, history

\* A step of r that leaves counters, alerts and the other requests alone keeps
\* every pending decision but r's own.
LEMMA CrossQuiet ==
    ASSUME CrossInv, Typed, NEW r \in Request, pc[r] \notin {"peek", "fire"},
           \A p \in CostCounter : ctr'[p] = ctr[p], fired' = fired,
           \A k \in Request : k # r => pc'[k] = pc[k] /\ at'[k] = at[k] /\ t'[k] = t[k]
    PROVE  CrossInv'
<1> SUFFICES ASSUME NEW p \in CostCounter, Decided(p), ctr[p].c > 0, Crossed(p, ctr[p].c)
             PROVE  \/ \E k \in Request : Pending(k, p, ctr[p].e)'
                    \/ fired[p][ctr[p].e] >= 1
    BY DEF CrossInv, Decided, Configured, Cap, Crossed, Monthly, DailyOf, Permille
<1>1. CASE fired[p][ctr[p].e] >= 1
    BY <1>1
<1>2. ASSUME NEW k \in Request, Pending(k, p, ctr[p].e) PROVE Pending(k, p, ctr[p].e)'
    <2>1. k # r
        BY <1>2 DEF Pending
    <2> QED BY <1>2, <2>1 DEF Pending, Epoch
<1> QED
    BY <1>1, <1>2 DEF CrossInv

\* The alert decision of r, with the counters at rest.
LEMMA CrossDecide ==
    ASSUME CrossInv, BaseInv, FlagInv, NEW r \in Request, AlertPeek(r) \/ AlertFire(r)
    PROVE  CrossInv'
<1>0. Typed /\ PlanInv
    BY DEF BaseInv
<1>a. pc[r] \in {"peek", "fire"} /\ at[r] \in CostCounter /\ at[r] \in Counter /\ t[r] \in Time
    BY <1>0, CostCounterIsCounter DEF AlertPeek, AlertFire, PlanInv, Typed
<1>b. Epoch(at[r], t[r]) \in Window
    BY <1>a, EpochType
<1>c. /\ ctr' = ctr /\ t' = t
      /\ \A k \in Request : k # r => pc'[k] = pc[k] /\ at'[k] = at[k]
    BY <1>0 DEF AlertPeek, AlertFire, Typed
<1> SUFFICES ASSUME NEW p \in CostCounter, Decided(p), ctr[p].c > 0, Crossed(p, ctr[p].c)
             PROVE  \/ \E k \in Request : Pending(k, p, ctr[p].e)'
                    \/ fired'[p][ctr[p].e] >= 1
    BY <1>c DEF CrossInv, Decided, Configured, Cap, Crossed, Monthly, DailyOf, Permille
<1>d. p \in Counter /\ ctr[p].e \in Window
    BY <1>0, CostCounterIsCounter DEF Typed
<1>e. fired[p][ctr[p].e] \in Nat
    BY <1>0, <1>d DEF Typed
<1>1. CASE fired[p][ctr[p].e] >= 1
    <2>1. CASE AlertPeek(r)
        BY <1>1, <2>1 DEF AlertPeek, history
    <2>2. CASE AlertFire(r)
        <3>1. TryFire(at[r], Epoch(at[r], t[r]))
            BY <2>2 DEF AlertFire
        <3>2. fired'[p][ctr[p].e] >= fired[p][ctr[p].e]
            BY <1>0, <1>a, <1>b, <1>d, <1>e, <3>1, FireEffect
        <3>3. fired'[p][ctr[p].e] \in Nat
            BY <1>0, <1>a, <1>b, <1>d, <3>1, FireEffect
        <3> QED BY <1>1, <1>e, <3>2, <3>3
    <2> QED BY <2>1, <2>2
<1>2. ASSUME NEW k \in Request, k # r, Pending(k, p, ctr[p].e)
      PROVE  Pending(k, p, ctr[p].e)'
    BY <1>2, <1>c DEF Pending, Epoch
<1>3. ASSUME Pending(r, p, ctr[p].e)
      PROVE  Pending(r, p, ctr[p].e)' \/ fired'[p][ctr[p].e] >= 1
    <2>0. at[r] = p /\ Epoch(p, t[r]) = ctr[p].e
        BY <1>3 DEF Pending
    <2>1. CASE AlertPeek(r)
        <3>1. Peek(p, ctr[p].e) = ctr[p].c
            BY DEF Peek
        <3>2. pc' = [pc EXCEPT ![r] = "fire"] /\ at' = at
            BY <2>0, <2>1, <3>1 DEF AlertPeek
        <3>3. pc'[r] = "fire"
            BY <1>0, <3>2 DEF Typed
        <3> QED BY <1>c, <2>0, <3>2, <3>3 DEF Pending, Epoch
    <2>2. CASE AlertFire(r)
        <3>1. TryFire(p, ctr[p].e)
            BY <2>0, <2>2 DEF AlertFire
        <3>2. fired'[p][ctr[p].e] =
                 IF flag[p] # ctr[p].e THEN fired[p][ctr[p].e] + 1 ELSE fired[p][ctr[p].e]
            BY <1>0, <1>d, <3>1, FireEffect
        <3>3. flag[p] = ctr[p].e => fired[p][ctr[p].e] >= 1
            BY <1>d, UnlimitedAssumption, MaxClockAssumption DEF FlagInv, Window
        <3> QED BY <1>e, <3>2, <3>3
    <2> QED BY <2>1, <2>2
<1> QED
    BY <1>1, <1>2, <1>3 DEF CrossInv

\* A debit leaves its own request deciding the window it wrote.
LEMMA CrossDebit ==
    ASSUME CrossInv, BaseInv, OrderInv, NEW r \in Request, Debit(r)
    PROVE  CrossInv'
<1>0. Typed /\ PlanInv
    BY DEF BaseInv
<1>1. PICK q \in todo[r] :
          /\ Add(q, Epoch(q, t[r]), Amount(r, q))
          /\ Phased(r, IF Alerting(r, q) THEN "peek" ELSE "settle", todo[r] \ {q})
          /\ at' = [at EXCEPT ![r] = IF Alerting(r, q) THEN q ELSE Unlimited]
    BY DEF Debit
<1>2. UNCHANGED <<t, fired>> /\ pc[r] = "settle"
    BY DEF Debit
<1>3. q \in Counter /\ t[r] \in Time /\ Amount(r, q) \in Nat /\ Epoch(q, t[r]) \in Window
    BY <1>0, EpochType DEF Typed, Amount
<1>4. /\ ctr'[q].e = Epoch(q, t[r])
      /\ \A p \in Counter : p # q => ctr'[p] = ctr[p]
    <2>1. /\ ctr'[q] = [e |-> Epoch(q, t[r]), c |-> Saturate(Peek(q, Epoch(q, t[r])) + Amount(r, q))]
          /\ \A p \in Counter : p # q => ctr'[p] = ctr[p]
        BY <1>0, <1>1, <1>3, AddEffect
    <2> QED BY <2>1
<1>5. /\ pc'[r] = IF Alerting(r, q) THEN "peek" ELSE "settle"
      /\ at'[r] = IF Alerting(r, q) THEN q ELSE Unlimited
      /\ \A k \in Request : k # r => pc'[k] = pc[k] /\ at'[k] = at[k]
    BY <1>0, <1>1 DEF Phased, Typed
<1> SUFFICES ASSUME NEW p \in CostCounter, Decided(p), ctr'[p].c > 0, Crossed(p, ctr'[p].c)
             PROVE  \/ \E k \in Request : Pending(k, p, ctr[p].e)'
                    \/ fired[p][ctr'[p].e] >= 1
    BY <1>2 DEF CrossInv, Decided, Configured, Cap, Crossed, Monthly, DailyOf, Permille
<1>6. p \in Counter
    BY CostCounterIsCounter
<1>7. CASE p = q
    <2>1. Alerting(r, p)
        BY <1>7 DEF Alerting, OrderInv, Decided, CostCounter
    <2> QED BY <1>2, <1>4, <1>5, <1>7, <2>1 DEF Pending, Epoch
<1>8. CASE p # q
    <2>1. ctr'[p] = ctr[p]
        BY <1>4, <1>6, <1>8
    <2>2. CASE fired[p][ctr[p].e] >= 1
        BY <2>1, <2>2
    <2>3. ASSUME NEW k \in Request, Pending(k, p, ctr[p].e) PROVE Pending(k, p, ctr[p].e)'
        <3>1. k # r
            BY <1>2, <2>3 DEF Pending
        <3> QED BY <1>2, <1>5, <2>1, <2>3, <3>1 DEF Pending, Epoch
    <2> QED BY <2>1, <2>2, <2>3 DEF CrossInv
<1> QED
    BY <1>7, <1>8

LEMMA CrossNext ==
    BaseInv /\ FlagInv /\ OrderInv /\ CrossInv /\ [Next]_vars => CrossInv'
<1> SUFFICES ASSUME BaseInv, FlagInv, OrderInv, CrossInv, [Next]_vars PROVE CrossInv'
    OBVIOUS
<1>0. Typed /\ PlanInv
    BY DEF BaseInv
<1>1. CASE UNCHANGED <<ctr, pc, at, t, fired>>
    BY <1>1 DEF CrossInv, Pending, Epoch, Decided, Configured, Cap, Crossed, Monthly, DailyOf, Permille
<1>2. ASSUME NEW r \in Request, Step(r) PROVE CrossInv'
    <2>a. ASSUME pc[r] \notin {"peek", "fire"}, UNCHANGED <<ctr, fired>>,
                 \A k \in Request : k # r => pc'[k] = pc[k] /\ at'[k] = at[k] /\ t'[k] = t[k]
          PROVE  CrossInv'
        BY <1>0, <2>a, CrossQuiet
    <2>b. Leave(r) => \A k \in Request : k # r => pc'[k] = pc[k] /\ at'[k] = at[k] /\ t'[k] = t[k]
        BY <1>0 DEF Leave, Phased, Typed
    <2>1. CASE Admit(r) \/ StartConsume(r) \/ Dispatch(r) \/ Settle(r)
        BY <1>0, <2>a, <2>1 DEF Admit, StartConsume, Dispatch, Settle, Phased, Typed, history
    <2>2. CASE Check(r)
        <3>1. pc[r] = "check" /\ UNCHANGED <<ctr, fired>>
            BY <2>2 DEF Check, history
        <3>2. \/ Leave(r)
              \/ \E plan : Phased(r, "check", plan) /\ UNCHANGED <<t, at>>
            BY <2>2 DEF Check
        <3>3. \A k \in Request : k # r => pc'[k] = pc[k] /\ at'[k] = at[k] /\ t'[k] = t[k]
            BY <1>0, <2>b, <3>2 DEF Phased, Typed
        <3> QED BY <2>a, <3>1, <3>3
    <2>3. CASE Consume(r)
        <3>1. pc[r] = "consume" /\ fired' = fired
            BY <2>3 DEF Consume
        <3>2. PICK p \in todo[r] :
                  \/ Leave(r) /\ ctr' = ctr
                  \/ Add(p, Epoch(p, t[r]), 1) /\ Phased(r, "consume", todo[r] \ {p}) /\ UNCHANGED <<t, at>>
            BY <2>3 DEF Consume
        <3>3. \A k \in Request : k # r => pc'[k] = pc[k] /\ at'[k] = at[k] /\ t'[k] = t[k]
            BY <1>0, <2>b, <3>2 DEF Phased, Typed
        <3>4. p \in Counter /\ p[2] = "req" /\ t[r] \in Time
            BY <1>0, <3>1 DEF Typed, PlanInv
        <3>5. Epoch(p, t[r]) \in Window /\ 1 \in Nat
            BY <3>4, EpochType
        <3>6. ASSUME NEW q \in CostCounter PROVE ctr'[q] = ctr[q]
            <4>1. q \in Counter /\ q # p
                BY <3>4, CostCounterIsCounter DEF CostCounter, CostMeter
            <4> QED BY <1>0, <3>2, <3>4, <3>5, <4>1, AddEffect
        <3> QED BY <1>0, <3>1, <3>3, <3>6, CrossQuiet
    <2>4. CASE Abandon(r) \/ SettleDone(r)
        BY <2>a, <2>b, <2>4 DEF Abandon, SettleDone, history
    <2>5. CASE Debit(r)
        BY <2>5, CrossDebit
    <2>6. CASE AlertPeek(r) \/ AlertFire(r)
        BY <2>6, CrossDecide
    <2> QED BY <1>2, <2>1, <2>2, <2>3, <2>4, <2>5, <2>6 DEF Step
<1>3. CASE Tick \/ UNCHANGED vars
    <2>1. UNCHANGED <<ctr, pc, at, t, fired>>
        BY <1>3 DEF Tick, vars, local, history
    <2> QED BY <1>1, <2>1
<1> QED
    BY <1>2, <1>3 DEF Next

\* No soft-budget crossing goes unannounced, whatever the order in which late
\* settles roll the counter and the flag back and forth.
THEOREM EveryCrossingIsAnnounced == Spec => []CrossingAnnounced
<1>1. Init => BaseInv /\ FlagInv /\ OrderInv /\ CrossInv
    BY BaseInit, AlertInit
<1>2. BaseInv /\ FlagInv /\ OrderInv /\ CrossInv /\ [Next]_vars
        => BaseInv' /\ FlagInv' /\ OrderInv' /\ CrossInv'
    BY BaseNext, FlagNext, OrderNext, CrossNext
<1>3. CrossInv => CrossingAnnounced
    <2> SUFFICES ASSUME CrossInv, NEW p \in CostCounter, Decided(p), ctr[p].c > 0,
                        Crossed(p, ctr[p].c)
                 PROVE  Settling(p) # {} \/ fired[p][ctr[p].e] >= 1
        BY DEF CrossingAnnounced, CostCounter, Decided, Monthly, DailyOf
    <2>1. \/ \E r \in Request : Pending(r, p, ctr[p].e)
          \/ fired[p][ctr[p].e] >= 1
        BY DEF CrossInv
    <2> QED BY <2>1 DEF Pending, Settling
<1> QED
    BY <1>1, <1>2, <1>3, PTL DEF Spec

-----------------------------------------------------------------------------
\* One alert per window

\* While a flag is claimed in order, the windows it fired for end with the one
\* it holds, and each fired once.
FiredInv ==
    \A p \in CostCounter : p \notin fback =>
        \A e \in Window : fired[p][e] >= 1 =>
            fired[p][e] = 1 /\ flag[p] # Unlimited /\ e <= flag[p]

LEMMA FiredNext == BaseInv /\ FiredInv /\ [Next]_vars => FiredInv'
<1> SUFFICES ASSUME BaseInv, FiredInv, [Next]_vars PROVE FiredInv'
    OBVIOUS
<1>0. Typed /\ PlanInv
    BY DEF BaseInv
<1>1. CASE UNCHANGED <<flag, fired, fback>>
    BY <1>1 DEF FiredInv
<1>2. ASSUME NEW r \in Request, AlertFire(r) PROVE FiredInv'
    <2> DEFINE p == at[r]
               w == Epoch(p, t[r])
    <2>1. p \in CostCounter /\ p \in Counter /\ t[r] \in Time
        BY <1>0, <1>2, CostCounterIsCounter DEF AlertFire, PlanInv, Typed
    <2>2. w \in Window /\ TryFire(p, w)
        BY <1>2, <2>1, EpochType DEF AlertFire
    <2> HIDE DEF p, w
    <2>3. /\ flag'[p] = w
          /\ \A q \in CostCounter : q # p => flag'[q] = flag[q] /\ fired'[q] = fired[q]
          /\ \A d \in Window : fired'[p][d] =
                IF d = w /\ flag[p] # w THEN fired[p][d] + 1 ELSE fired[p][d]
        BY <1>0, <2>1, <2>2, FireEffect
    <2>4. /\ fback \subseteq fback'
          /\ flag[p] # Unlimited /\ w < flag[p] /\ flag[p] # w => p \in fback'
        BY <2>2 DEF TryFire
    <2>5. flag[p] \in Window \cup {Unlimited} /\ \A d \in Window : fired[p][d] \in Nat
        BY <1>0, <2>1 DEF Typed
    <2>6. \A d \in Window : d \in Nat
        BY MaxClockAssumption DEF Window
    <2> SUFFICES ASSUME NEW q \in CostCounter, q \notin fback', NEW e \in Window, fired'[q][e] >= 1
                 PROVE  fired'[q][e] = 1 /\ flag'[q] # Unlimited /\ e <= flag'[q]
        BY DEF FiredInv
    <2>7. CASE q # p
        BY <2>3, <2>4, <2>7 DEF FiredInv
    <2>8. CASE q = p
        <3>1. p \notin fback /\ (flag[p] # Unlimited => flag[p] <= w)
            BY <2>2, <2>4, <2>5, <2>6, <2>8
        <3>2. w # Unlimited
            BY <2>2, <2>6, UnlimitedAssumption
        <3>3. CASE e = w /\ flag[p] # w
            <4>1. ~(fired[p][e] >= 1)
                BY <2>1, <2>2, <2>5, <2>6, <3>1, <3>3 DEF FiredInv
            <4>2. fired[p][e] = 0
                BY <2>5, <4>1
            <4> QED BY <2>2, <2>3, <2>6, <2>8, <3>2, <3>3, <4>2
        <3>4. CASE ~(e = w /\ flag[p] # w)
            <4>1. fired'[p][e] = fired[p][e]
                BY <2>3, <3>4
            <4>2. fired[p][e] = 1 /\ flag[p] # Unlimited /\ e <= flag[p]
                BY <2>1, <2>8, <3>1, <4>1 DEF FiredInv
            <4>3. e <= w
                BY <2>2, <2>5, <2>6, <3>1, <4>2
            <4> QED BY <2>3, <2>8, <3>2, <4>1, <4>2, <4>3
        <3> QED BY <3>3, <3>4
    <2> QED BY <2>7, <2>8
<1>3. ASSUME NEW r \in Request, Step(r) PROVE AlertFire(r) \/ UNCHANGED <<flag, fired, fback>>
    BY <1>3 DEF Step, Admit, Check, StartConsume, Consume, Dispatch, Abandon, Settle, Debit,
                AlertPeek, SettleDone, history
<1> QED
    BY <1>1, <1>2, <1>3 DEF Next, Tick, vars, history

\* A spend alert is raised at most once per scope and window: of all the settles
\* that race for try_fire on one flag, one wins, as long as no settle of an
\* ended window sets the flag back.
THEOREM AlertsAreRaisedOnce == Spec => []AlertsOncePerWindow
<1>1. Init => BaseInv /\ FiredInv
    <2>1. Init => FiredInv
        BY DEF Init, FiredInv, CostCounter
    <2> QED BY <2>1, BaseInit
<1>2. BaseInv /\ FiredInv /\ [Next]_vars => BaseInv' /\ FiredInv'
    BY BaseNext, FiredNext
<1>3. BaseInv /\ FiredInv => AlertsOncePerWindow
    <2> SUFFICES ASSUME BaseInv, FiredInv, NEW p \in CostCounter, p \notin fback, NEW e \in Window
                 PROVE  fired[p][e] <= 1
        BY DEF AlertsOncePerWindow, CostCounter
    <2>1. fired[p][e] \in Nat
        BY DEF BaseInv, Typed
    <2> QED BY <2>1 DEF FiredInv
<1> QED
    BY <1>1, <1>2, <1>3, PTL DEF Spec

-----------------------------------------------------------------------------
\* How far a hard budget overshoots

\* A finite set of numbers has a largest member: the one with the fewest above it.
LEMMA FiniteMax ==
    ASSUME NEW A \in SUBSET Nat, A # {}, IsFiniteSet(A)
    PROVE  \E n \in A : \A k \in A : k <= n
<1> DEFINE Above(n) == {k \in A : k > n}
           T == {Above(n) : n \in A}
           R == StrictSubsetOrdering(A)
<1>1. IsWellFoundedOn(R, FiniteSubsetsOf(A))
    BY FS_StrictSubsetOrderingWellFounded
<1>2. T \subseteq FiniteSubsetsOf(A)
    <2> SUFFICES ASSUME NEW n \in A PROVE IsFiniteSet(Above(n))
        BY DEF FiniteSubsetsOf
    <2> QED BY FS_Subset
<1>3. T # {}
    OBVIOUS
<1>4. \E x \in T : \A y \in T : ~(<<y, x>> \in R)
    <2> HIDE DEF T, R
    <2> QED BY <1>1, <1>2, <1>3, WFMin, Zenon
<1>5. PICK n \in A : \A m \in A : ~(<<Above(m), Above(n)>> \in R)
    BY <1>4
<1>6. ASSUME NEW k \in A, k > n PROVE FALSE
    <2>0. \A j \in A : j \in Nat
        OBVIOUS
    <2>a. ASSUME NEW j \in A, j > k PROVE j > n
        <3>1. j \in Nat /\ k \in Nat /\ n \in Nat
            BY <2>0
        <3> QED BY <1>6, <2>a, <3>1
    <2>b. k \in Above(n) /\ k \notin Above(k)
        BY <1>6, <2>0
    <2>1. Above(k) \subseteq Above(n) /\ Above(k) # Above(n)
        BY <2>a, <2>b
    <2>2. <<Above(k), Above(n)>> \in R
        BY <2>1 DEF StrictSubsetOrdering
    <2> QED BY <1>5, <2>2
<1> QED
    BY <1>6

LEMMA LargestBounds ==
    ASSUME NEW m \in Meter
    PROVE  /\ Largest(m) \in Nat
           /\ \A u \in Usage : (IF m \in CostMeter THEN u.cost ELSE u.tokens) <= Largest(m)
<1> DEFINE of(u) == IF m \in CostMeter THEN u.cost ELSE u.tokens
           amounts == {of(u) : u \in Usage}
<1>1. amounts \in SUBSET Nat /\ amounts # {}
    BY UsageAssumption
<1>2. IsFiniteSet(amounts)
    <2>1. [u \in Usage |-> of(u)] \in Surjection(Usage, amounts)
        BY DEF Surjection
    <2> QED BY <2>1, UsageAssumption, FS_Surjection
<1>3. \E n \in amounts : \A k \in amounts : k <= n
    <2> HIDE DEF amounts
    <2> QED BY <1>1, <1>2, FiniteMax
<1>4. Largest(m) \in amounts /\ \A k \in amounts : k <= Largest(m)
    <2> DEFINE top == CHOOSE n \in amounts : \A k \in amounts : k <= n
    <2>1. top \in amounts /\ \A k \in amounts : k <= top
        <3> HIDE DEF amounts
        <3> QED BY <1>3
    <2>2. Largest(m) = top
        BY DEF Largest
    <2> QED BY <2>1, <2>2
<1> QED
    BY <1>1, <1>4

LEMMA TimesMonotone ==
    ASSUME NEW n \in Nat, NEW a \in Nat, NEW b \in Nat, a <= b
    PROVE  n * a \in Nat /\ n * b \in Nat /\ n * a <= n * b
OBVIOUS

LEMMA TimesLess ==
    ASSUME NEW n \in Nat, NEW a \in Nat, NEW b \in Nat, a < b
    PROVE  n * a \in Nat /\ n * b \in Nat /\ n * a + n <= n * b
<1>1. n * (a + 1) <= n * b
    BY TimesMonotone
<1>2. n * (a + 1) = n * a + n
    OBVIOUS
<1> QED
    BY <1>1, <1>2, TimesMonotone

BudgetCounter == Scope \X (Meter \ {"req"})

\* The budgets that deny: hard, configured and not zero.
Denying(p) == Configured(p) /\ Cap(p) > 0 /\ IsHard(p)

\* Request r may debit window e of p without checking that window again: it is
\* settling there, or it is past the check, or it was checked in an earlier one.
Due(r, p, e) ==
    \/ pc[r] \in {"settle", "peek", "fire"} /\ p \in todo[r] /\ Epoch(p, t[r]) = e
    \/ /\ pc[r] \in {"check", "consume", "call"} /\ p[1] \in scopes[r] /\ Epoch(p, clock) <= e
       /\ ~(pc[r] = "check" /\ p \in todo[r] /\ Epoch(p, t[r]) = e)

Owing(p, e) == {r \in Request : Due(r, p, e)}

\* A request's reading is of the past, no counter is ahead of the clock, and
\* what is settled is some response's usage.
ClockInv ==
    /\ \A r \in Request : t[r] <= clock
    /\ \A r \in Request : pc[r] \in {"settle", "peek", "fire"} => usage[r] \in Usage
    /\ \A p \in Counter : ctr[p].e <= Epoch(p, clock)
    /\ \A p \in Counter, e \in Window : used[p][e] > 0 => e <= Epoch(p, clock)

\* What a window was charged and what the requests still owe it, each a full
\* response, fit under the bound.
Covered(p, e) ==
    used[p][e] + Largest(p[2]) * Cardinality(Owing(p, e))
        <= Cap(p) - 1 + Largest(p[2]) * Cardinality(Request)

\* While windows are used in order the word holds what its window was charged,
\* up to saturation, and later windows were charged nothing.
Tracks(p) ==
    /\ ctr[p].c = Saturate(used[p][ctr[p].e])
    /\ \A e \in Window : e > ctr[p].e => used[p][e] = 0

OwedInv ==
    \A p \in BudgetCounter : Denying(p) /\ p \notin back =>
        Tracks(p) /\ \A e \in Window : Covered(p, e)

LEMMA EpochMonotone ==
    ASSUME NEW p \in Counter, NEW t1 \in Time, NEW t2 \in Time, t1 <= t2
    PROVE  Epoch(p, t1) <= Epoch(p, t2)
BY CalendarAssumption DEF Epoch, Counter

LEMMA BudgetCap ==
    ASSUME NEW p \in BudgetCounter
    PROVE  /\ p \in Counter /\ p[1] \in Scope /\ p[2] \in Meter /\ p[2] # "req"
           /\ Denying(p) => Cap(p) \in 1..CountMask
<1>1. p \in Counter /\ p[1] \in Scope /\ p[2] \in Meter /\ p[2] # "req"
    BY DEF BudgetCounter, Counter
<1>2. Limit[p[1]][p[2]] \in (0..CountMask) \cup {Unlimited}
    BY <1>1, LimitAssumption
<1> QED
    BY <1>1, <1>2, CountMaskAssumption DEF Denying, Configured, Cap

\* The shape of every step of r: the other requests and the clock stand still,
\* and at most one counter of r's plan is charged, in the window of r's reading.
Others(r) ==
    \A k \in Request : k # r =>
        /\ pc'[k] = pc[k] /\ t'[k] = t[k] /\ todo'[k] = todo[k]
        /\ scopes'[k] = scopes[k] /\ usage'[k] = usage[k]

LEMMA StepShape ==
    ASSUME Typed, NEW r \in Request, Step(r)
    PROVE  Others(r) /\ clock' = clock
<1>0. Leave(r) => Others(r)
    BY DEF Leave, Phased, Others, Typed
<1>1. CASE Admit(r) \/ StartConsume(r) \/ Dispatch(r) \/ Settle(r)
    BY <1>1 DEF Admit, StartConsume, Dispatch, Settle, Phased, Others, Typed
<1>2. CASE Check(r)
    <2>1. Leave(r) \/ \E plan : Phased(r, "check", plan) /\ UNCHANGED <<scopes, t, usage>>
        BY <1>2 DEF Check
    <2> QED BY <1>0, <1>2, <2>1 DEF Check, Phased, Others, Typed
<1>3. CASE Consume(r)
    <2>1. Leave(r) \/ \E plan : Phased(r, "consume", plan) /\ UNCHANGED <<scopes, t, usage>>
        BY <1>3 DEF Consume
    <2> QED BY <1>0, <1>3, <2>1 DEF Consume, Phased, Others, Typed
<1>4. CASE Abandon(r) \/ SettleDone(r)
    BY <1>0, <1>4 DEF Abandon, SettleDone
<1>5. CASE Debit(r)
    <2>1. \E phase, plan : Phased(r, phase, plan)
        BY <1>5 DEF Debit
    <2> QED BY <1>5, <2>1 DEF Debit, Phased, Others, Typed
<1>6. CASE AlertPeek(r) \/ AlertFire(r)
    BY <1>6 DEF AlertPeek, AlertFire, Others, Typed
<1> QED
    BY <1>1, <1>2, <1>3, <1>4, <1>5, <1>6 DEF Step

LEMMA ClockNext == BaseInv /\ ClockInv /\ [Next]_vars => ClockInv'
<1> SUFFICES ASSUME BaseInv, ClockInv, [Next]_vars PROVE ClockInv'
    OBVIOUS
<1>0. Typed /\ PlanInv
    BY DEF BaseInv
<1>w. \A w \in Window : w \in Nat
    BY MaxClockAssumption DEF Window
<1>1. CASE UNCHANGED vars
    BY <1>1 DEF vars, local, history, ClockInv, Epoch
<1>2. CASE Tick
    <2>1. clock \in Time /\ clock' \in Time /\ clock <= clock'
        BY <1>0, <1>2, MaxClockAssumption DEF Tick, Typed, Time
    <2>2. ASSUME NEW p \in Counter
          PROVE  Epoch(p, clock) <= Epoch(p, clock') /\ Epoch(p, clock) \in Nat /\ Epoch(p, clock') \in Nat
        BY <1>w, <2>1, EpochMonotone, EpochType
    <2>3. UNCHANGED <<ctr, pc, t, usage, used>>
        BY <1>2 DEF Tick, local, history
    <2>4. \A r \in Request : t'[r] <= clock'
        BY <1>0, <2>1, <2>3 DEF ClockInv, Typed, Time
    <2>5. \A p \in Counter : ctr'[p].e <= Epoch(p, clock')
        <3> SUFFICES ASSUME NEW p \in Counter PROVE ctr[p].e <= Epoch(p, clock')
            BY <2>3
        <3>1. ctr[p].e \in Nat /\ ctr[p].e <= Epoch(p, clock)
            BY <1>0, <1>w DEF ClockInv, Typed
        <3> QED BY <2>2, <3>1
    <2>6. \A p \in Counter, e \in Window : used'[p][e] > 0 => e <= Epoch(p, clock')
        <3> SUFFICES ASSUME NEW p \in Counter, NEW e \in Window, used[p][e] > 0 PROVE e <= Epoch(p, clock')
            BY <2>3
        <3>1. e \in Nat /\ e <= Epoch(p, clock)
            BY <1>w DEF ClockInv
        <3> QED BY <2>2, <3>1
    <2> QED BY <2>3, <2>4, <2>5, <2>6 DEF ClockInv, Epoch
<1>3. ASSUME NEW r \in Request, Step(r) PROVE ClockInv'
    <2>1. Others(r) /\ clock' = clock
        BY <1>0, <1>3, StepShape
    <2>2. /\ t'[r] \in {t[r], clock, 0}
          /\ pc'[r] \in {"settle", "peek", "fire"} =>
                \/ pc[r] \in {"settle", "peek", "fire"} /\ usage'[r] = usage[r]
                \/ usage'[r] \in Usage
        <3>0. Leave(r) => t'[r] = 0 /\ pc'[r] = "idle"
            BY <1>0 DEF Leave, Phased, Typed
        <3>1. CASE Admit(r) \/ StartConsume(r) \/ Dispatch(r) \/ Settle(r)
            BY <1>0, <3>1 DEF Admit, StartConsume, Dispatch, Settle, Phased, Typed
        <3>2. CASE Check(r)
            <4>1. Leave(r) \/ \E plan : Phased(r, "check", plan) /\ t' = t
                BY <3>2 DEF Check
            <4> QED BY <1>0, <3>0, <4>1 DEF Phased, Typed
        <3>3. CASE Consume(r)
            <4>1. Leave(r) \/ \E plan : Phased(r, "consume", plan) /\ t' = t
                BY <3>3 DEF Consume
            <4> QED BY <1>0, <3>0, <4>1 DEF Phased, Typed
        <3>4. CASE Abandon(r) \/ SettleDone(r)
            BY <3>0, <3>4 DEF Abandon, SettleDone
        <3>5. CASE Debit(r) \/ AlertPeek(r) \/ AlertFire(r)
            BY <3>5 DEF Debit, AlertPeek, AlertFire
        <3> QED BY <1>3, <3>1, <3>2, <3>3, <3>4, <3>5 DEF Step
    <2>3. \A k \in Request : t'[k] <= clock'
        <3>1. t[r] <= clock /\ clock <= clock /\ 0 <= clock
            BY <1>0, MaxClockAssumption DEF ClockInv, Typed, Time
        <3> QED BY <2>1, <2>2, <3>1 DEF ClockInv, Others
    <2>4. \A k \in Request : pc'[k] \in {"settle", "peek", "fire"} => usage'[k] \in Usage
        BY <2>1, <2>2 DEF ClockInv, Others
    <2>5. \/ UNCHANGED <<ctr, used>>
          \/ \E q \in todo[r], n \in Nat : Add(q, Epoch(q, t[r]), n)
        <3>1. CASE Debit(r)
            <4>1. \A q \in todo[r] : Amount(r, q) \in Nat
                BY <1>0 DEF Amount, Typed
            <4> QED BY <3>1, <4>1 DEF Debit
        <3>2. CASE Consume(r)
            BY <3>2 DEF Consume
        <3>3. CASE Admit(r) \/ Check(r) \/ StartConsume(r) \/ Dispatch(r) \/ Abandon(r)
            BY <3>3 DEF Admit, Check, StartConsume, Dispatch, Abandon, history
        <3>4. CASE Settle(r) \/ AlertPeek(r) \/ AlertFire(r) \/ SettleDone(r)
            BY <3>4 DEF Settle, AlertPeek, AlertFire, SettleDone, history
        <3> QED BY <1>3, <3>1, <3>2, <3>3, <3>4 DEF Step
    <2>6. /\ \A p \in Counter : ctr'[p].e <= Epoch(p, clock)
          /\ \A p \in Counter, e \in Window : used'[p][e] > 0 => e <= Epoch(p, clock)
        <3>1. CASE UNCHANGED <<ctr, used>>
            BY <3>1 DEF ClockInv
        <3>2. ASSUME NEW q \in todo[r], NEW n \in Nat, Add(q, Epoch(q, t[r]), n)
              PROVE  <2>6!1 /\ <2>6!2
            <4>1. q \in Counter /\ t[r] \in Time /\ clock \in Time /\ t[r] <= clock
                BY <1>0 DEF Typed, ClockInv
            <4> DEFINE w == Epoch(q, t[r])
            <4>2. w \in Window /\ w <= Epoch(q, clock)
                BY <4>1, EpochType, EpochMonotone
            <4>3. Add(q, w, n)
                BY <3>2
            <4> HIDE DEF w
            <4>4. /\ ctr'[q] = [e |-> w, c |-> Saturate(Peek(q, w) + n)]
                  /\ \A p \in Counter : p # q => ctr'[p] = ctr[p] /\ used'[p] = used[p]
                  /\ \A d \in Window : used'[q][d] = IF d = w THEN used[q][w] + n ELSE used[q][d]
                BY <1>0, <4>1, <4>2, <4>3, AddEffect
            <4>5. \A p \in Counter : ctr'[p].e <= Epoch(p, clock)
                BY <4>2, <4>4 DEF ClockInv
            <4>6. \A p \in Counter, e \in Window : used'[p][e] > 0 => e <= Epoch(p, clock)
                BY <4>2, <4>4 DEF ClockInv
            <4> QED BY <4>5, <4>6
        <3> QED BY <2>5, <3>1, <3>2
    <2> QED BY <2>1, <2>3, <2>4, <2>6 DEF ClockInv, Epoch
<1> QED
    BY <1>1, <1>2, <1>3 DEF Next

LEMMA OwingSize ==
    ASSUME NEW H \in SUBSET Request
    PROVE  IsFiniteSet(H) /\ Cardinality(H) \in Nat /\ Cardinality(Request) \in Nat
           /\ Cardinality(H) <= Cardinality(Request)
BY RequestAssumption, FS_Subset, FS_CardinalityType

\* The three ways a step keeps a window covered: fewer requests owe it, it was
\* charged less than the cap, or one of those that owed it has paid.
LEMMA CoveredShrinks ==
    ASSUME NEW p \in BudgetCounter, NEW e \in Window, Typed, Denying(p), Covered(p, e),
           used'[p][e] = used[p][e], \A k \in Request : Due(k, p, e)' => Due(k, p, e)
    PROVE  Covered(p, e)'
<1>1. Owing(p, e) \in SUBSET Request /\ Owing(p, e)' \in SUBSET Owing(p, e)
    BY DEF Owing
<1>2. Cardinality(Owing(p, e)') <= Cardinality(Owing(p, e))
      /\ Cardinality(Owing(p, e)') \in Nat /\ Cardinality(Owing(p, e)) \in Nat
      /\ Cardinality(Request) \in Nat
    BY <1>1, OwingSize, FS_Subset
<1>3. Largest(p[2]) \in Nat /\ Cap(p) \in Nat /\ used[p][e] \in Nat
    BY BudgetCap, LargestBounds, CountMaskAssumption DEF Typed
<1>4. Largest(p[2]) * Cardinality(Owing(p, e)') <= Largest(p[2]) * Cardinality(Owing(p, e))
      /\ Largest(p[2]) * Cardinality(Owing(p, e)') \in Nat
      /\ Largest(p[2]) * Cardinality(Owing(p, e)) \in Nat
      /\ Largest(p[2]) * Cardinality(Request) \in Nat
    BY <1>2, <1>3, TimesMonotone
<1>5. used[p][e] + Largest(p[2]) * Cardinality(Owing(p, e)')
        <= Cap(p) - 1 + Largest(p[2]) * Cardinality(Request)
    BY <1>3, <1>4 DEF Covered
<1> QED
    BY <1>5 DEF Covered, Cap, Largest

LEMMA CoveredLow ==
    ASSUME NEW p \in BudgetCounter, NEW e \in Window, Denying(p),
           used'[p][e] \in Nat, used'[p][e] <= Cap(p) - 1
    PROVE  Covered(p, e)'
<1>1. Owing(p, e)' \in SUBSET Request
    BY DEF Owing
<1>2. Cardinality(Owing(p, e)') <= Cardinality(Request)
      /\ Cardinality(Owing(p, e)') \in Nat /\ Cardinality(Request) \in Nat
    BY <1>1, OwingSize
<1>3. Largest(p[2]) \in Nat /\ Cap(p) \in Nat
    BY BudgetCap, LargestBounds, CountMaskAssumption
<1>4. Largest(p[2]) * Cardinality(Owing(p, e)') <= Largest(p[2]) * Cardinality(Request)
      /\ Largest(p[2]) * Cardinality(Owing(p, e)') \in Nat
      /\ Largest(p[2]) * Cardinality(Request) \in Nat
    BY <1>2, <1>3, TimesMonotone
<1>5. used'[p][e] + Largest(p[2]) * Cardinality(Owing(p, e)')
        <= Cap(p) - 1 + Largest(p[2]) * Cardinality(Request)
    BY <1>3, <1>4
<1> QED
    BY <1>5 DEF Covered, Cap, Largest

LEMMA CoveredPaid ==
    ASSUME NEW p \in BudgetCounter, NEW e \in Window, Typed, Denying(p), Covered(p, e),
           NEW r \in Request, Due(r, p, e), ~Due(r, p, e)',
           \A k \in Request : Due(k, p, e)' => Due(k, p, e),
           NEW n \in Nat, n <= Largest(p[2]), used'[p][e] = used[p][e] + n
    PROVE  Covered(p, e)'
<1>1. Owing(p, e) \in SUBSET Request /\ Owing(p, e)' \in SUBSET Owing(p, e) \ {r} /\ r \in Owing(p, e)
    BY DEF Owing
<1>2. IsFiniteSet(Owing(p, e)) /\ Cardinality(Owing(p, e)) \in Nat
      /\ Cardinality(Owing(p, e)') \in Nat /\ Cardinality(Request) \in Nat
    BY <1>1, OwingSize
<1>3. IsFiniteSet(Owing(p, e) \ {r})
      /\ Cardinality(Owing(p, e) \ {r}) = Cardinality(Owing(p, e)) - 1
    BY <1>1, <1>2, FS_RemoveElement
<1>4. Cardinality(Owing(p, e)') <= Cardinality(Owing(p, e) \ {r})
    BY <1>1, <1>3, FS_Subset
<1>5. Cardinality(Owing(p, e)') < Cardinality(Owing(p, e))
    BY <1>2, <1>3, <1>4
<1>6. Largest(p[2]) \in Nat /\ Cap(p) \in Nat /\ used[p][e] \in Nat
    BY BudgetCap, LargestBounds, CountMaskAssumption DEF Typed
<1>7. /\ Largest(p[2]) * Cardinality(Owing(p, e)') + Largest(p[2])
            <= Largest(p[2]) * Cardinality(Owing(p, e))
      /\ Largest(p[2]) * Cardinality(Owing(p, e)') \in Nat
      /\ Largest(p[2]) * Cardinality(Owing(p, e)) \in Nat
      /\ Largest(p[2]) * Cardinality(Request) \in Nat
    BY <1>2, <1>5, <1>6, TimesLess, TimesMonotone
<1>8. used[p][e] + n + Largest(p[2]) * Cardinality(Owing(p, e)')
        <= Cap(p) - 1 + Largest(p[2]) * Cardinality(Request)
    BY <1>6, <1>7 DEF Covered
<1> QED
    BY <1>8 DEF Covered, Cap, Largest

LEMMA DueOthers ==
    ASSUME NEW r \in Request, Others(r), clock' = clock,
           NEW k \in Request, k # r, NEW p, NEW e
    PROVE  Due(k, p, e)' <=> Due(k, p, e)
BY DEF Others, Due, Epoch

LEMMA OwedInit == Init => OwedInv /\ ClockInv
<1> SUFFICES ASSUME Init PROVE OwedInv /\ ClockInv
    OBVIOUS
<1>w. 0 \in Window /\ \A w \in Window : w \in Nat
    BY MaxClockAssumption DEF Window
<1>1. OwedInv
    <2> SUFFICES ASSUME NEW p \in BudgetCounter, Denying(p)
                 PROVE  Tracks(p) /\ \A e \in Window : Covered(p, e)
        BY DEF OwedInv
    <2>1. p \in Counter /\ Cap(p) \in Nat /\ Cap(p) > 0
        BY BudgetCap, CountMaskAssumption
    <2>2. Tracks(p)
        BY <1>w, <2>1, SaturateType, CountMaskAssumption DEF Init, Tracks
    <2>3. ASSUME NEW e \in Window PROVE Covered(p, e)
        <3>1. Owing(p, e) = {} /\ used[p][e] = 0
            BY <2>1 DEF Init, Owing, Due
        <3>2. Cardinality(Owing(p, e)) = 0 /\ Cardinality(Request) \in Nat
            BY <3>1, FS_EmptySet, RequestAssumption, FS_CardinalityType
        <3>3. Largest(p[2]) \in Nat
            BY BudgetCap, LargestBounds
        <3>4. Largest(p[2]) * 0 = 0 /\ Largest(p[2]) * Cardinality(Request) \in Nat
            BY <3>2, <3>3, TimesMonotone
        <3> QED BY <2>1, <3>1, <3>2, <3>4 DEF Covered
    <2> QED BY <2>2, <2>3
<1>2. ClockInv
    <2>1. 0 \in Time /\ \A p \in Counter : Epoch(p, 0) \in Window
        BY EpochType, MaxClockAssumption DEF Time
    <2>2. \A p \in Counter : Epoch(p, 0) >= 0
        BY <1>w, <2>1
    <2> QED BY <1>w, <2>2 DEF Init, ClockInv
<1> QED
    BY <1>1, <1>2

\* A step that charges no budget counter: whoever comes to owe a window finds it
\* below its cap.
LEMMA OwedQuiet ==
    ASSUME OwedInv, Typed, NEW r \in Request, Others(r), clock' = clock, back \subseteq back',
           \A p \in BudgetCounter : ctr'[p] = ctr[p] /\ used'[p] = used[p],
           \A p \in BudgetCounter, e \in Window : Denying(p) /\ p \notin back /\ Due(r, p, e)' =>
                Due(r, p, e) \/ used[p][e] <= Cap(p) - 1
    PROVE  OwedInv'
<1> SUFFICES ASSUME NEW p \in BudgetCounter, Denying(p), p \notin back'
             PROVE  Tracks(p)' /\ \A e \in Window : Covered(p, e)'
    BY DEF OwedInv, Denying, Configured, Cap, IsHard
<1>1. Tracks(p) /\ \A e \in Window : Covered(p, e)
    BY DEF OwedInv
<1>2. Tracks(p)'
    BY <1>1 DEF Tracks, Saturate
<1>3. ASSUME NEW e \in Window PROVE Covered(p, e)'
    <2>1. \A k \in Request : k # r => (Due(k, p, e)' <=> Due(k, p, e))
        BY DueOthers
    <2>2. used'[p][e] = used[p][e] /\ used[p][e] \in Nat
        BY BudgetCap DEF Typed
    <2>3. CASE Due(r, p, e)' /\ ~Due(r, p, e)
        <3>1. used[p][e] <= Cap(p) - 1
            BY <2>3
        <3> QED BY <2>2, <3>1, CoveredLow
    <2>4. CASE ~(Due(r, p, e)' /\ ~Due(r, p, e))
        <3>1. \A k \in Request : Due(k, p, e)' => Due(k, p, e)
            BY <2>1, <2>4
        <3> QED BY <1>1, <2>2, <3>1, CoveredShrinks
    <2> QED BY <2>3, <2>4
<1> QED
    BY <1>2, <1>3

\* A settle that pays: its own window takes at most one response and is owed one
\* less; no other window of any counter changes.
LEMMA OwedDebit ==
    ASSUME OwedInv, ClockInv, BaseInv, NEW r \in Request, Debit(r), Typed'
    PROVE  OwedInv'
<1>0. Typed /\ PlanInv
    BY DEF BaseInv
<1>w. \A w \in Window : w \in Nat
    BY MaxClockAssumption DEF Window
<1>1. PICK q \in todo[r] :
          /\ Add(q, Epoch(q, t[r]), Amount(r, q))
          /\ Phased(r, IF Alerting(r, q) THEN "peek" ELSE "settle", todo[r] \ {q})
    BY DEF Debit
<1>2. Others(r) /\ clock' = clock
    BY <1>0, StepShape DEF Step
<1>3. UNCHANGED <<t, scopes>> /\ pc[r] = "settle" /\ pc'[r] \in {"settle", "peek"}
      /\ todo'[r] = todo[r] \ {q}
    BY <1>0, <1>1 DEF Debit, Phased, Typed
<1>4. q \in Counter /\ q[2] # "req" /\ t[r] \in Time /\ usage[r] \in Usage /\ Amount(r, q) \in Nat
    BY <1>0, <1>3 DEF Typed, PlanInv, ClockInv, Amount
<1> DEFINE w == Epoch(q, t[r])
           n == Amount(r, q)
<1>5. w \in Window /\ Add(q, w, n) /\ n \in Nat
    BY <1>1, <1>4, EpochType
<1>6. n <= Largest(q[2])
    BY <1>4, LargestBounds DEF Amount, Counter
<1>7. /\ ctr'[q] = [e |-> w, c |-> Saturate(Peek(q, w) + n)]
      /\ \A p \in Counter : p # q => ctr'[p] = ctr[p] /\ used'[p] = used[p]
      /\ \A d \in Window : used'[q][d] = IF d = w THEN used[q][w] + n ELSE used[q][d]
    <2> HIDE DEF w, n
    <2> QED BY <1>0, <1>4, <1>5, AddEffect
<1>8. back' = IF w < ctr[q].e THEN back \cup {q} ELSE back
    BY <1>5 DEF Add
<1> SUFFICES ASSUME NEW p \in BudgetCounter, Denying(p), p \notin back'
             PROVE  Tracks(p)' /\ \A e \in Window : Covered(p, e)'
    BY DEF OwedInv, Denying, Configured, Cap, IsHard
<1>9. p \in Counter /\ p \notin back /\ Tracks(p) /\ \A e \in Window : Covered(p, e)
    BY <1>8, BudgetCap DEF OwedInv
<1>10. ASSUME NEW e \in Window
       PROVE  /\ \A k \in Request : Due(k, p, e)' => Due(k, p, e)
              /\ p = q => ~Due(r, p, e)' /\ (Due(r, p, e) <=> e = w)
    <2>1. \A k \in Request : k # r => (Due(k, p, e)' <=> Due(k, p, e))
        BY <1>2, DueOthers
    <2>2. Due(r, p, e)' => Due(r, p, e)
        BY <1>3 DEF Due, Epoch
    <2>3. p = q => ~Due(r, p, e)' /\ (Due(r, p, e) <=> e = w)
        BY <1>3 DEF Due, Epoch
    <2> QED BY <2>1, <2>2, <2>3
<1>11. CASE p # q
    <2>1. ctr'[p] = ctr[p] /\ used'[p] = used[p]
        BY <1>7, <1>9, <1>11
    <2>2. Tracks(p)'
        BY <1>9, <2>1 DEF Tracks, Saturate
    <2>3. \A e \in Window : Covered(p, e)'
        BY <1>0, <1>9, <1>10, <2>1, CoveredShrinks
    <2> QED BY <2>2, <2>3
<1>12. CASE p = q
    <2>1. ctr[p].e \in Nat /\ ctr[p].e <= w /\ ctr[p].e \in Window /\ w \in Nat
        <3>1. ctr[p].e \in Window
            BY <1>0, <1>9 DEF Typed
        <3>2. ~(w < ctr[p].e)
            BY <1>8, <1>12
        <3> QED BY <1>w, <1>5, <3>1, <3>2
    <2>2. \A e \in Window : used[p][e] \in Nat
        BY <1>0, <1>9 DEF Typed
    <2>3. Peek(p, w) = Saturate(used[p][w])
        <3>1. CASE ctr[p].e = w
            BY <1>9, <3>1 DEF Tracks, Peek
        <3>2. CASE ctr[p].e # w
            <4>1. used[p][w] = 0
                BY <1>5, <1>9, <2>1, <3>2 DEF Tracks
            <4> QED BY <3>2, <4>1, SaturateType, CountMaskAssumption DEF Peek
        <3> QED BY <3>1, <3>2
    <2>4. Saturate(Saturate(used[p][w]) + n) = Saturate(used[p][w] + n)
        <3> HIDE DEF n, w
        <3> QED BY <1>5, <2>2, CountMaskAssumption DEF Saturate
    <2>5. ctr'[p].e = w /\ ctr'[p].c = Saturate(used'[p][w])
        <3> HIDE DEF n, w
        <3> QED BY <1>5, <1>7, <1>12, <2>3, <2>4
    <2>6. ASSUME NEW e \in Window, e > w PROVE used'[p][e] = 0
        <3>1. e > ctr[p].e /\ e # w
            BY <1>w, <2>1, <2>6
        <3> QED BY <1>7, <1>9, <1>12, <3>1 DEF Tracks
    <2>7. Tracks(p)'
        <3> HIDE DEF n, w
        <3> QED BY <2>5, <2>6 DEF Tracks, Saturate
    <2>8. ASSUME NEW e \in Window PROVE Covered(p, e)'
        <3>1. CASE e = w
            <4>1. used'[p][e] = used[p][e] + n /\ n <= Largest(p[2]) /\ n \in Nat
                BY <1>5, <1>6, <1>7, <1>12, <3>1
            <4>2. Due(r, p, e) /\ ~Due(r, p, e)'
                BY <1>10, <1>12, <3>1
            <4> HIDE DEF n, w
            <4> QED BY <1>0, <1>9, <1>10, <4>1, <4>2, CoveredPaid
        <3>2. CASE e # w
            <4>1. used'[p][e] = used[p][e]
                BY <1>7, <1>12, <3>2
            <4> QED BY <1>0, <1>9, <1>10, <4>1, CoveredShrinks
        <3> QED BY <3>1, <3>2
    <2> QED BY <2>7, <2>8
<1> QED
    BY <1>11, <1>12

\* A counter that denies is on the plan of every admit of its scope.
LEMMA DenyingIsPlanned ==
    ASSUME NEW p \in BudgetCounter, Denying(p), NEW g \in SUBSET Scope
    PROVE  p \in CheckPlan(g) <=> p[1] \in g
BY DEF BudgetCounter, Denying, CheckPlan

\* An admit comes to owe only windows the clock has not reached, and nothing was
\* charged to those yet.
LEMMA OwedAdmit ==
    ASSUME OwedInv, ClockInv, BaseInv, NEW r \in Request, Admit(r)
    PROVE  OwedInv'
<1>0. Typed /\ PlanInv
    BY DEF BaseInv
<1>1. PICK g \in Guards : scopes' = [scopes EXCEPT ![r] = g] /\ Phased(r, "check", CheckPlan(g))
    BY DEF Admit
<1>2. Others(r) /\ clock' = clock
    BY <1>0, StepShape DEF Step
<1>3. UNCHANGED <<ctr, used, back>>
    BY DEF Admit, history
<1>4. pc'[r] = "check" /\ todo'[r] = CheckPlan(g) /\ scopes'[r] = g /\ t'[r] = clock
    BY <1>0, <1>1 DEF Admit, Phased, Typed
<1>5. ASSUME NEW p \in BudgetCounter, NEW e \in Window, Denying(p), p \notin back, Due(r, p, e)'
      PROVE  used[p][e] <= Cap(p) - 1
    <2>1. p[1] \in g /\ Epoch(p, clock) <= e /\ ~(p \in CheckPlan(g) /\ Epoch(p, clock) = e)
        BY <1>2, <1>4, <1>5 DEF Due, Epoch
    <2>2. p \in CheckPlan(g)
        BY <1>5, <2>1, GuardsAssumption, DenyingIsPlanned
    <2>3. p \in Counter /\ Epoch(p, clock) \in Nat /\ e \in Nat
        BY <1>0, BudgetCap, EpochType, MaxClockAssumption DEF Typed, Window
    <2>4. ~(e <= Epoch(p, clock))
        BY <2>1, <2>2, <2>3
    <2>5. used[p][e] = 0
        BY <1>0, <2>3, <2>4 DEF ClockInv, Typed
    <2> QED BY <1>5, <2>5, BudgetCap, CountMaskAssumption
<1> QED
    BY <1>0, <1>2, <1>3, <1>5, OwedQuiet

\* A check that passes found its window below the cap.
LEMMA OwedCheck ==
    ASSUME OwedInv, ClockInv, BaseInv, NEW r \in Request, Check(r)
    PROVE  OwedInv'
<1>0. Typed /\ PlanInv
    BY DEF BaseInv
<1>1. PICK q \in todo[r] :
          \/ Leave(r)
          \/ /\ Peek(q, Epoch(q, t[r])) < Cap(q)
             /\ Phased(r, "check", todo[r] \ {q})
             /\ UNCHANGED <<scopes, t>>
    BY DEF Check
<1>2. Others(r) /\ clock' = clock /\ UNCHANGED <<ctr, used, back>> /\ pc[r] = "check"
    BY <1>0, StepShape DEF Step, Check, history
<1>3. ASSUME NEW p \in BudgetCounter, NEW e \in Window, Denying(p), p \notin back, Due(r, p, e)'
      PROVE  Due(r, p, e) \/ used[p][e] <= Cap(p) - 1
    <2>1. CASE Leave(r)
        <3>1. pc'[r] = "idle"
            BY <1>0, <2>1 DEF Leave, Phased, Typed
        <3> QED BY <1>3, <3>1 DEF Due
    <2>2. CASE /\ Peek(q, Epoch(q, t[r])) < Cap(q)
               /\ Phased(r, "check", todo[r] \ {q})
               /\ UNCHANGED <<scopes, t>>
        <3>1. pc'[r] = "check" /\ todo'[r] = todo[r] \ {q} /\ scopes'[r] = scopes[r] /\ t'[r] = t[r]
            BY <1>0, <2>2 DEF Phased, Typed
        <3>2. p[1] \in scopes[r] /\ Epoch(p, clock) <= e
            BY <1>2, <1>3, <3>1 DEF Due, Epoch
        <3>3. CASE ~(p = q /\ Epoch(p, t[r]) = e)
            BY <1>2, <1>3, <3>1, <3>2, <3>3 DEF Due, Epoch
        <3>4. CASE p = q /\ Epoch(p, t[r]) = e
            <4>1. p \in Counter /\ Cap(p) \in 1..CountMask
                BY <1>3, BudgetCap
            <4>2. Tracks(p)
                BY <1>3 DEF OwedInv
            <4>3. t[r] \in Time /\ clock \in Time /\ t[r] <= clock
                BY <1>0 DEF Typed, ClockInv
            <4>4. /\ ctr[p].e \in Nat /\ ctr[p].e <= Epoch(p, clock)
                  /\ Epoch(p, clock) \in Nat /\ e \in Nat
                  /\ used[p][e] \in Nat
                BY <1>0, <4>1, <4>3, EpochType, MaxClockAssumption DEF Typed, ClockInv, Window
            <4>5. ctr[p].e <= e
                BY <3>2, <4>4
            <4>6. CASE ctr[p].e = e
                <5>1. Saturate(used[p][e]) < Cap(p)
                    BY <2>2, <3>4, <4>2, <4>6 DEF Peek, Tracks
                <5>2. used[p][e] < Cap(p)
                    BY <4>1, <4>4, <5>1, CountMaskAssumption DEF Saturate
                <5> QED BY <4>1, <4>4, <5>2, CountMaskAssumption
            <4>7. CASE ctr[p].e # e
                <5>1. used[p][e] = 0
                    BY <4>2, <4>4, <4>5, <4>7 DEF Tracks
                <5> QED BY <4>1, <5>1, CountMaskAssumption
            <4> QED BY <4>6, <4>7
        <3> QED BY <3>3, <3>4
    <2> QED BY <1>1, <2>1, <2>2
<1> QED
    BY <1>0, <1>2, <1>3, OwedQuiet

LEMMA OwedNext == BaseInv /\ ClockInv /\ OwedInv /\ [Next]_vars => OwedInv'
<1> SUFFICES ASSUME BaseInv, ClockInv, OwedInv, [Next]_vars PROVE OwedInv'
    OBVIOUS
<1>0. Typed /\ PlanInv /\ Typed'
    BY BaseNext DEF BaseInv
<1>1. CASE Tick \/ UNCHANGED vars
    <2>1. UNCHANGED <<ctr, used, back, pc, todo, t, scopes>>
        BY <1>1 DEF Tick, vars, local, history
    <2>2. clock \in Time /\ clock' \in Time /\ clock <= clock'
        BY <1>0, <1>1, MaxClockAssumption DEF Tick, vars, Typed, Time
    <2> SUFFICES ASSUME NEW p \in BudgetCounter, Denying(p), p \notin back
                 PROVE  Tracks(p)' /\ \A e \in Window : Covered(p, e)'
        BY <2>1 DEF OwedInv, Denying, Configured, Cap, IsHard
    <2>3. p \in Counter /\ Tracks(p) /\ \A e \in Window : Covered(p, e)
        BY BudgetCap DEF OwedInv
    <2>4. Tracks(p)'
        BY <2>1, <2>3 DEF Tracks, Saturate
    <2>5. ASSUME NEW e \in Window PROVE Covered(p, e)'
        <3>1. /\ Epoch(p, clock) <= Epoch(p, clock') /\ e \in Nat
              /\ Epoch(p, clock) \in Nat /\ Epoch(p, clock') \in Nat
            BY <2>2, <2>3, EpochMonotone, EpochType, MaxClockAssumption DEF Window
        <3>2. Epoch(p, clock') <= e => Epoch(p, clock) <= e
            BY <3>1
        <3>3. \A k \in Request : Due(k, p, e)' => Due(k, p, e)
            BY <2>1, <3>2 DEF Due, Epoch
        <3> QED BY <1>0, <2>1, <2>3, <3>3, CoveredShrinks
    <2> QED BY <2>4, <2>5
<1>2. ASSUME NEW r \in Request, Step(r) PROVE OwedInv'
    <2>0. Others(r) /\ clock' = clock
        BY <1>0, <1>2, StepShape
    <2>a. ASSUME UNCHANGED <<ctr, used, back>>,
                 \A p \in BudgetCounter, e \in Window : Denying(p) /\ Due(r, p, e)' => Due(r, p, e)
          PROVE  OwedInv'
        BY <1>0, <2>0, <2>a, OwedQuiet
    <2>b. Leave(r) => \A p, e : ~Due(r, p, e)'
        <3>1. Leave(r) => pc'[r] = "idle"
            BY <1>0 DEF Leave, Phased, Typed
        <3> QED BY <3>1 DEF Due
    <2>1. CASE Admit(r)
        BY <2>1, OwedAdmit
    <2>2. CASE Check(r)
        BY <2>2, OwedCheck
    <2>3. CASE StartConsume(r) \/ Dispatch(r)
        <3>1. /\ UNCHANGED <<ctr, used, back, t, scopes>> /\ pc[r] \in {"check", "consume"}
              /\ todo[r] = {} /\ pc'[r] \in {"consume", "call"}
            BY <1>0, <2>3 DEF StartConsume, Dispatch, Phased, Typed, history
        <3>2. \A p, e : Due(r, p, e)' => Due(r, p, e)
            BY <2>0, <3>1 DEF Due, Epoch
        <3> QED BY <2>a, <3>1, <3>2
    <2>4. CASE Consume(r)
        <3>1. PICK q \in todo[r] :
                  \/ Leave(r) /\ UNCHANGED <<ctr, used, back>>
                  \/ /\ Add(q, Epoch(q, t[r]), 1)
                     /\ Phased(r, "consume", todo[r] \ {q})
                     /\ UNCHANGED <<scopes, t>>
            BY <2>4 DEF Consume
        <3>2. CASE Leave(r) /\ UNCHANGED <<ctr, used, back>>
            BY <2>a, <2>b, <3>2
        <3>3. CASE /\ Add(q, Epoch(q, t[r]), 1)
                   /\ Phased(r, "consume", todo[r] \ {q})
                   /\ UNCHANGED <<scopes, t>>
            <4>1. q \in Counter /\ q[2] = "req" /\ t[r] \in Time /\ pc[r] = "consume"
                BY <1>0, <2>4 DEF Consume, Typed, PlanInv
            <4>2. Epoch(q, t[r]) \in Window /\ 1 \in Nat
                BY <4>1, EpochType
            <4>3. \A p \in BudgetCounter : ctr'[p] = ctr[p] /\ used'[p] = used[p]
                BY <1>0, <3>3, <4>1, <4>2, AddEffect, BudgetCap
            <4>4. back \subseteq back'
                BY <3>3 DEF Add
            <4>5. pc'[r] = "consume" /\ UNCHANGED <<scopes, t>>
                BY <1>0, <3>3 DEF Phased, Typed
            <4>6. \A p, e : Due(r, p, e)' => Due(r, p, e)
                BY <2>0, <4>1, <4>5 DEF Due, Epoch
            <4> QED BY <1>0, <2>0, <4>3, <4>4, <4>6, OwedQuiet
        <3> QED BY <3>1, <3>2, <3>3
    <2>5. CASE Abandon(r) \/ SettleDone(r)
        BY <2>a, <2>b, <2>5 DEF Abandon, SettleDone, history
    <2>6. CASE Settle(r)
        <3>1. /\ UNCHANGED <<ctr, used, back, scopes>> /\ pc[r] = "call" /\ pc'[r] = "settle"
              /\ todo'[r] = SettlePlan(scopes[r]) /\ t'[r] = clock
            BY <1>0, <2>6 DEF Settle, Phased, Typed, history
        <3>2. ASSUME NEW p \in BudgetCounter, NEW e \in Window, Due(r, p, e)' PROVE Due(r, p, e)
            <4>1. p \in SettlePlan(scopes[r]) /\ Epoch(p, clock) = e
                BY <3>1, <3>2 DEF Due, Epoch
            <4>2. p[1] \in scopes[r]
                BY <4>1 DEF SettlePlan
            <4>3. Epoch(p, clock) <= e
                BY <4>1, MaxClockAssumption DEF Window
            <4> QED BY <3>1, <4>2, <4>3 DEF Due
        <3> QED BY <2>a, <3>1, <3>2
    <2>7. CASE Debit(r)
        BY <1>0, <2>7, OwedDebit
    <2>8. CASE AlertPeek(r) \/ AlertFire(r)
        <3>1. /\ UNCHANGED <<ctr, used, back, t, todo>> /\ pc[r] \in {"peek", "fire"}
              /\ pc'[r] \in {"settle", "fire"}
            BY <1>0, <2>8 DEF AlertPeek, AlertFire, Typed, history
        <3>2. \A p, e : Due(r, p, e)' => Due(r, p, e)
            BY <3>1 DEF Due, Epoch
        <3> QED BY <2>a, <3>1, <3>2
    <2> QED
        BY <1>2, <2>1, <2>2, <2>3, <2>4, <2>5, <2>6, <2>7, <2>8 DEF Step
<1> QED
    BY <1>1, <1>2 DEF Next

\* A hard budget overshoots by at most one response per concurrent request: what
\* admit lets through below the cap, settle may debit later, in that window or
\* in one the clock reached meanwhile, and nothing else is let through.
THEOREM OvershootIsBounded == Spec => []OvershootBounded
<1>1. Init => BaseInv /\ ClockInv /\ OwedInv
    BY BaseInit, OwedInit
<1>2. BaseInv /\ ClockInv /\ OwedInv /\ [Next]_vars => BaseInv' /\ ClockInv' /\ OwedInv'
    BY BaseNext, ClockNext, OwedNext
<1>3. BaseInv /\ OwedInv => OvershootBounded
    <2> SUFFICES ASSUME BaseInv, OwedInv, NEW p \in BudgetCounter, Denying(p), p \notin back,
                        NEW e \in Window
                 PROVE  used[p][e] <= Cap(p) - 1 + Cardinality(Request) * Largest(p[2])
        BY DEF OvershootBounded, BudgetCounter, Denying
    <2>1. Covered(p, e)
        BY DEF OwedInv
    <2>2. Cardinality(Owing(p, e)) \in Nat /\ Cardinality(Request) \in Nat
        BY OwingSize DEF Owing
    <2>3. Largest(p[2]) \in Nat /\ Cap(p) \in Nat /\ used[p][e] \in Nat
        BY BudgetCap, LargestBounds, CountMaskAssumption DEF BaseInv, Typed
    <2>4. /\ Largest(p[2]) * Cardinality(Owing(p, e)) \in Nat
          /\ Largest(p[2]) * Cardinality(Request) \in Nat
          /\ Largest(p[2]) * Cardinality(Request) = Cardinality(Request) * Largest(p[2])
        BY <2>2, <2>3, TimesMonotone
    <2> QED BY <2>1, <2>3, <2>4 DEF Covered
<1> QED
    BY <1>1, <1>2, <1>3, PTL DEF Spec

=============================================================================
